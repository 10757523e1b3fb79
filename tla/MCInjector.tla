----------------------------- MODULE MCInjector -----------------------------
(* Model-checking instance of Injector: short texts over the classes of    *)
(* characters that type_char tells apart, motions of which some pass the   *)
(* largest integer, viewports of which one tells no points, and key names  *)
(* of which two stand for one key and one for none.                        *)
EXTENDS Injector

KeyNames == {"shift", "Ctrl", "A", "audio", "Return", "F13", "eacute"}

ShortTexts ==
  {<<"A">>, <<"bang", "one">>, <<"a", "a">>, <<"eacute", "u">>,
   <<"U", "newline">>, <<"tab", "backspace">>, <<"copyright">>, <<"a", "eacute", "A">>}

Phones ==
  {[w |-> 90, points_w |-> 30, scale |-> 3], [w |-> 40, points_w |-> 0, scale |-> 2]}

SomeMoves == {<<1, 0>>, <<-2, 7>>, <<0, 9>>, <<0, 1000>>}

=============================================================================
