------------------------------ MODULE Injector ------------------------------
(***************************************************************************)
(* Keys, buttons, text and motions of one session: apply_input and the     *)
(* scale of the pointer (src/src/net.rs), and the Injector                 *)
(* (src/src/input.rs) with its two uinput devices.                         *)
(*                                                                         *)
(* An input message becomes a sequence of emits, a text one such sequence  *)
(* after the other; an emit is one write of events to a device, and one    *)
(* that fails ends the message (`?`, ignored by apply_input).  The kernel  *)
(* takes the events of a write one by one: it drops a press of a key that  *)
(* is down and a release of one that is up, and the desktop sees the rest, *)
(* with the modifiers down at that moment.  The pointer's place (x, y) and *)
(* the size of the screen, which the code keeps too, are read by nothing   *)
(* and left out.                                                           *)
(*                                                                         *)
(* A character is a name, a representative of its class in the tables of   *)
(* type_char and ascii_key: small and capital letters, digits, shifted     *)
(* symbols, control characters, and characters outside ASCII.              *)
(***************************************************************************)
EXTENDS Integers, SequencesExt

CONSTANTS
  Names,        \* key names the client may send
  Texts,        \* texts the client may send, sequences of characters
  Viewports,    \* viewports of the client: w, points_w, scale
  Moves,        \* motions the client may send, of the pointer or the wheel: <<dx, dy>>
  EncWidth,     \* width of the video
  IntMax,       \* 2^31 - 1 in the code
  MaxMessages,  \* bound: messages in a behaviour
  Unknown       \* no key, no character

-----------------------------------------------------------------------------
(* The tables.                                                             *)

\* ascii_key: the key of a character, and whether it needs Shift.
AsciiKey ==
  [a |-> <<"KEY_A", FALSE>>, A |-> <<"KEY_A", TRUE>>, e |-> <<"KEY_E", FALSE>>,
   f |-> <<"KEY_F", FALSE>>, u |-> <<"KEY_U", FALSE>>, U |-> <<"KEY_U", TRUE>>,
   one |-> <<"KEY_1", FALSE>>, bang |-> <<"KEY_1", TRUE>>, nine |-> <<"KEY_9", FALSE>>]

\* The characters type_char taps before it looks at ascii_key.
ControlKey ==
  [newline |-> "KEY_ENTER", tab |-> "KEY_TAB", backspace |-> "KEY_BACKSPACE"]

\* The digits of format!("{:x}", ch as u32) of the characters outside ASCII.
Hex == [eacute |-> <<"e", "nine">>, copyright |-> <<"a", "nine">>]

\* The names that Injector::key knows whole.
SpecialKey ==
  [return |-> "KEY_ENTER", backspace |-> "KEY_BACKSPACE", tab |-> "KEY_TAB",
   ctrl |-> "KEY_LEFTCTRL", shift |-> "KEY_LEFTSHIFT"]

\* What to_ascii_lowercase makes of a name: the whole, and its first character.
\* Representatives: special names, in any case, a letter, and other words, which
\* begin with a character of ascii_key or with one outside it.
Lower ==
  [Return |-> <<"return", "r">>, Ctrl |-> <<"ctrl", "c">>, shift |-> <<"shift", "s">>,
   A |-> <<"a", "a">>, audio |-> <<"audio", "a">>, F13 |-> <<"f13", "f">>,
   eacute |-> <<"eacute", "eacute">>]

\* Mutant of KeyOf: a name found nowhere is key 0.
KeyOfAny(name) ==
  LET whole == Lower[name][1]  first == Lower[name][2] IN
  IF whole \in DOMAIN SpecialKey THEN SpecialKey[whole]
  ELSE IF first \in DOMAIN AsciiKey THEN AsciiKey[first][1]
  ELSE "KEY_RESERVED"

\* A name that is not special stands for the key of its first character, so F13
\* presses KEY_F; one that begins with no such character is ignored.
KeyOf(name) ==
  LET whole == Lower[name][1]  first == Lower[name][2] IN
  IF whole \in DOMAIN SpecialKey THEN SpecialKey[whole]
  ELSE IF first \in DOMAIN AsciiKey THEN AsciiKey[first][1]
  ELSE Unknown

\* Injector::button: what is not the right or the middle button is the left.
ButtonKey(which) ==
  CASE which = "right"  -> "BTN_RIGHT"
    [] which = "middle" -> "BTN_MIDDLE"
    [] OTHER            -> "BTN_LEFT"

Shift == "KEY_LEFTSHIFT"
Ctrl  == "KEY_LEFTCTRL"
Key == {AsciiKey[c][1] : c \in DOMAIN AsciiKey} \cup Range(ControlKey)
         \cup {Shift, Ctrl, "BTN_LEFT", "BTN_RIGHT", "BTN_MIDDLE"}
Axis == {"REL_X", "REL_Y", "REL_WHEEL_HI_RES", "REL_WHEEL",
         "REL_HWHEEL_HI_RES", "REL_HWHEEL"}
Event == (Key \X BOOLEAN) \cup (Axis \X Int)

Char == DOMAIN AsciiKey \cup DOMAIN ControlKey \cup DOMAIN Hex

ASSUME InjectorAssumption ==
  /\ Names \subseteq DOMAIN Lower
  /\ Texts \subseteq Seq(Char)
  /\ Viewports \subseteq [w : Nat, points_w : Nat, scale : Nat]
  /\ Moves \subseteq Int \X Int
  /\ EncWidth \in Nat /\ IntMax \in Nat
  /\ Unknown \notin Key \cup Char

-----------------------------------------------------------------------------
(* Emits of a character.                                                   *)

Press(k)   == <<k, TRUE>>
Release(k) == <<k, FALSE>>

\* tap: one emit, the key pressed and released, inside Shift if asked.
Tap(k, shift) ==
  IF shift THEN <<Press(Shift), Press(k), Release(k), Release(Shift)>>
  ELSE <<Press(k), Release(k)>>

\* The digits of a character, each tapped.
TapDigits(ch) == [i \in DOMAIN Hex[ch] |-> Tap(AsciiKey[Hex[ch][i]][1], FALSE)]

\* Mutant of TypeUnicode: Shift is not released.
TypeUnicodeShifted(ch) ==
  << <<Press(Ctrl), Press(Shift)>>, Tap("KEY_U", FALSE), <<Release(Ctrl)>> >>
    \o TapDigits(ch) \o << Tap("KEY_ENTER", FALSE) >>

\* Mutant of TypeUnicode: the digits inside Ctrl+Shift.
TypeUnicodeInside(ch) ==
  << <<Press(Ctrl), Press(Shift)>>, Tap("KEY_U", FALSE) >>
    \o TapDigits(ch) \o << <<Release(Ctrl), Release(Shift)>>, Tap("KEY_ENTER", FALSE) >>

\* Ctrl+Shift+U, the hexadecimal digits, Enter.
TypeUnicode(ch) ==
  << <<Press(Ctrl), Press(Shift)>>, Tap("KEY_U", FALSE), <<Release(Ctrl), Release(Shift)>> >>
    \o TapDigits(ch) \o << Tap("KEY_ENTER", FALSE) >>

\* The emits of type_char.
TypeChar(ch) ==
  IF ch \in DOMAIN ControlKey THEN << Tap(ControlKey[ch], FALSE) >>
  ELSE IF ch \in DOMAIN AsciiKey THEN << Tap(AsciiKey[ch][1], AsciiKey[ch][2]) >>
  ELSE TypeUnicode(ch)

KeysIn(emits) == UNION {{ev[1] : ev \in ToSet(e)} : e \in ToSet(emits)}

-----------------------------------------------------------------------------
(* Motions.                                                                *)

Smaller(a, b) == IF a < b THEN a ELSE b
Larger(a, b)  == IF a < b THEN b ELSE a

\* Width of a viewport in points.
Points(vp) == IF vp.points_w > 1 THEN vp.points_w ELSE vp.w \div Larger(vp.scale, 1)

\* pointer_scale_for, in tenths: pixels of the video for a point.
PointerScale(vp) ==
  IF Points(vp) > 1 THEN Smaller(Larger((10 * EncWidth) \div Points(vp), 4), 60) ELSE 15

\* A number of tenths, rounded: n.round().
Rounded(n) == IF n < 0 THEN 0 - ((5 - n) \div 10) ELSE (n + 5) \div 10

\* A conversion "as i32" saturates, a product of i32 wraps (release build).
Saturated(n) == Smaller(Larger(n, 0 - IntMax - 1), IntMax)
Wrapped(n)   == ((n + IntMax + 1) % (2 * (IntMax + 1))) - IntMax - 1

\* An axis that does not move gets no event, and without events there is no emit.
Along(axis, n)  == IF n = 0 THEN <<>> ELSE << <<axis, n>> >>
Emission(evs)   == IF evs = <<>> THEN <<>> ELSE <<evs>>

\* apply_input and move_rel.
MoveEmits(m, scale) ==
  Emission(Along("REL_X", Saturated(Rounded(m[1] * scale)))
             \o Along("REL_Y", Saturated(Rounded(m[2] * scale))))

\* Injector::wheel: a notch is 120 units; both are emitted, the second axis
\* behind the first.
Notches(hires, axis, n) ==
  IF n = 0 THEN <<>> ELSE << <<hires, Wrapped(n * 120)>>, <<axis, n>> >>
WheelEmits(m) ==
  Emission(Notches("REL_WHEEL_HI_RES", "REL_WHEEL", Saturated(m[2]))
             \o Notches("REL_HWHEEL_HI_RES", "REL_HWHEEL", Saturated(m[1])))

-----------------------------------------------------------------------------
(* What the user means by a character: keystrokes with their modifiers.    *)
(* And by a motion: so many pixels or notches along each axis.             *)

Stroke(k, shift, ctrl) == [key |-> k, shift |-> shift, ctrl |-> ctrl]
Motion(axis, n) == IF n = 0 THEN <<>> ELSE << [axis |-> axis, by |-> n] >>

MeantBy(ch) ==
  IF ch \in DOMAIN ControlKey THEN << Stroke(ControlKey[ch], FALSE, FALSE) >>
  ELSE IF ch \in DOMAIN AsciiKey THEN << Stroke(AsciiKey[ch][1], AsciiKey[ch][2], FALSE) >>
  ELSE << Stroke("KEY_U", TRUE, TRUE) >>
         \o [i \in DOMAIN Hex[ch] |-> Stroke(AsciiKey[Hex[ch][i]][1], FALSE, FALSE)]
         \o << Stroke("KEY_ENTER", FALSE, FALSE) >>

MeantMove(m, scale) ==
  Motion("REL_X", Rounded(m[1] * scale)) \o Motion("REL_Y", Rounded(m[2] * scale))
MeantWheel(m) ==
  (Motion("REL_WHEEL_HI_RES", 120 * m[2]) \o Motion("REL_WHEEL", m[2]))
    \o (Motion("REL_HWHEEL_HI_RES", 120 * m[1]) \o Motion("REL_HWHEEL", m[1]))
Fits(n) == n \in (0 - IntMax - 1)..IntMax

-----------------------------------------------------------------------------
VARIABLES
  down,     \* keys that are down on the devices
  text,     \* characters left of the current text
  typing,   \* the character type_char was called with last, Unknown outside a text
  todo,     \* emits left of the current character or message
  queue,    \* events written that the kernel has not looked at
  log,      \* what the desktop saw since the last message began
  hello,    \* viewport of ClientHello, the local vp of run_session
  pointer_scale,
  held,     \* history: keys the client pressed last and did not release
  touched,  \* history: held keys that a text pressed and released since
  meant,    \* history: what the last text, as far as typed, or motion stands for
  clean,    \* history: nothing the client did stood in the way of that
  current,  \* history: the viewport the client announced last
  behind,   \* history: the scale is not that of current
  failed,   \* history: an emit failed
  messages  \* history: messages received

scaling == <<hello, pointer_scale, current, behind>>
message == <<text, typing, todo, queue>>
vars == <<down, message, log, held, touched, meant, clean, failed, messages, scaling>>

Seen == [key : Key, shift : BOOLEAN, ctrl : BOOLEAN] \cup [axis : Axis, by : Int]

TypeOK ==
  /\ down \subseteq Key
  /\ text \in Seq(Char)
  /\ typing \in Char \cup {Unknown}
  /\ todo \in Seq(Seq(Event))
  /\ queue \in Seq(Event)
  /\ log \in Seq(Seen)
  /\ held \subseteq Key
  /\ touched \subseteq Key
  /\ meant \in Seq(Seen)
  /\ clean \in BOOLEAN
  /\ failed \in BOOLEAN
  /\ messages \in Nat
  /\ hello \in Viewports /\ current \in Viewports
  /\ pointer_scale \in 4..60
  /\ behind \in BOOLEAN

Init ==
  /\ down = {}
  /\ text = <<>>
  /\ typing = Unknown
  /\ todo = <<>>
  /\ queue = <<>>
  /\ log = <<>>
  /\ held = {}
  /\ touched = {}
  /\ meant = <<>>
  /\ clean = TRUE
  /\ failed = FALSE
  /\ messages = 0
  /\ hello \in Viewports
  /\ current = hello
  /\ pointer_scale = PointerScale(hello)
  /\ behind = FALSE

Done == todo = <<>> /\ queue = <<>>

\* The session handles one Input frame at a time.
NewMessage ==
  /\ Done /\ text = <<>>
  /\ messages < MaxMessages
  /\ messages' = messages + 1

\* One press or release that the client asks for.
PressOrRelease(k, d) ==
  /\ NewMessage
  /\ typing' = Unknown
  /\ todo' = << << <<k, d>> >> >>
  /\ held' = IF d THEN held \cup {k} ELSE held \ {k}
  /\ touched' = touched \ {k}
  /\ log' = <<>>
  /\ meant' = <<>>
  /\ clean' = FALSE
  /\ UNCHANGED <<down, text, queue, failed, scaling>>

\* InputEvent::Key
KeyMessage(name, d) == KeyOf(name) # Unknown /\ PressOrRelease(KeyOf(name), d)

\* InputEvent::Btn
Button(which, d) == PressOrRelease(ButtonKey(which), d)

\* InputEvent::Text
Text(s) ==
  /\ NewMessage
  /\ text' = s
  /\ typing' = Unknown
  /\ log' = <<>>
  /\ meant' = <<>>
  /\ clean' = TRUE
  /\ UNCHANGED <<down, todo, queue, held, touched, failed, scaling>>

\* The next turn of the loop in Injector::text, up to the emits of type_char.
NextChar ==
  /\ Done /\ text # <<>>
  /\ typing' = Head(text)
  /\ text' = Tail(text)
  /\ todo' = TypeChar(typing')
  /\ touched' = touched \cup (held \cap KeysIn(todo'))
  /\ meant' = meant \o MeantBy(typing')
  /\ clean' = (clean /\ held \cap (KeysIn(todo') \cup {Shift, Ctrl}) = {})
  /\ UNCHANGED <<down, queue, log, held, failed, messages, scaling>>

\* InputEvent::Move, in points of the client.
Move(m) ==
  /\ NewMessage
  /\ typing' = Unknown
  /\ todo' = MoveEmits(m, pointer_scale)
  /\ log' = <<>>
  /\ meant' = MeantMove(m, PointerScale(current))
  /\ clean' = (~behind /\ \A i \in 1..2 : Fits(Rounded(m[i] * pointer_scale)))
  /\ UNCHANGED <<down, text, queue, held, touched, failed, scaling>>

\* InputEvent::Wheel
Wheel(m) ==
  /\ NewMessage
  /\ typing' = Unknown
  /\ todo' = WheelEmits(m)
  /\ log' = <<>>
  /\ meant' = MeantWheel(m)
  /\ clean' = \A i \in 1..2 : Fits(120 * m[i])
  /\ UNCHANGED <<down, text, queue, held, touched, failed, scaling>>

\* Mutant of NewViewport: it is the viewport of ClientHello that counts.
NewViewportOfHello(vp) ==
  /\ NewMessage
  /\ pointer_scale' = PointerScale(hello)
  /\ current' = vp
  /\ behind' = FALSE
  /\ UNCHANGED <<down, message, log, held, touched, meant, clean, failed, hello>>

\* A Viewport frame: the scale is that of the new viewport, but the local vp of
\* the arm shadows that of ClientHello, which stays.
NewViewport(vp) ==
  /\ NewMessage
  /\ pointer_scale' = PointerScale(vp)
  /\ current' = vp
  /\ behind' = FALSE
  /\ UNCHANGED <<down, message, log, held, touched, meant, clean, failed, hello>>

\* A UiScale frame: the scale is computed anew, for the viewport of ClientHello.
\* What it does to the display is in module Host.
UiScale ==
  /\ NewMessage
  /\ pointer_scale' = PointerScale(hello)
  /\ behind' = (current # hello)
  /\ UNCHANGED <<down, message, log, held, touched, meant, clean, failed, hello, current>>

-----------------------------------------------------------------------------
(* Emits, and what the kernel and the desktop make of their events.        *)

Modifiers == {Shift, Ctrl}

Emit ==
  /\ queue = <<>> /\ todo # <<>>
  /\ queue' = Head(todo)
  /\ todo' = Tail(todo)
  /\ UNCHANGED <<down, text, typing, log, held, touched, meant, clean, failed, messages, scaling>>

\* The write fails: what was emitted stays, the rest is never sent.
EmitFails ==
  /\ queue = <<>> /\ todo # <<>>
  /\ failed' = TRUE
  /\ todo' = <<>>
  /\ text' = <<>>
  /\ UNCHANGED <<down, typing, queue, log, held, touched, meant, clean, messages, scaling>>

Taken(ev) ==
  /\ queue # <<>> /\ Head(queue) = ev
  /\ queue' = Tail(queue)
  /\ UNCHANGED <<text, typing, todo, held, touched, meant, clean, failed, messages, scaling>>

\* A modifier, or a key that is down already, is not a keystroke.
KeyGoesDown(k) ==
  /\ Taken(Press(k))
  /\ down' = down \cup {k}
  /\ log' = IF k \in down \cup Modifiers THEN log
            ELSE Append(log, Stroke(k, Shift \in down, Ctrl \in down))

KeyGoesUp(k) ==
  /\ Taken(Release(k))
  /\ down' = down \ {k}
  /\ UNCHANGED log

AxisMoves ==
  /\ queue # <<>> /\ Head(queue)[1] \in Axis
  /\ Taken(Head(queue))
  /\ log' = Append(log, [axis |-> Head(queue)[1], by |-> Head(queue)[2]])
  /\ UNCHANGED down

Next ==
  \/ \E name \in Names, d \in BOOLEAN : KeyMessage(name, d)
  \/ \E which \in {"left", "right", "side"}, d \in BOOLEAN : Button(which, d)
  \/ \E s \in Texts : Text(s)
  \/ \E m \in Moves : Move(m)
  \/ \E m \in Moves : Wheel(m)
  \/ \E vp \in Viewports : NewViewport(vp)
  \/ UiScale
  \/ NextChar
  \/ Emit
  \/ EmitFails
  \/ \E k \in Key : KeyGoesDown(k) \/ KeyGoesUp(k)
  \/ AxisMoves

Spec == Init /\ [][Next]_vars

-----------------------------------------------------------------------------
Idle == Done /\ text = <<>> /\ ~failed

\* Between messages the devices hold exactly what the client holds, except the
\* held keys a text went over: a text never leaves Shift, Ctrl or a letter
\* down, and never lifts a key it has no business with (type_char, tap).
KeysSettle == Idle => held \ touched \subseteq down /\ down \subseteq held

\* A text reaches the desktop as the keystrokes it stands for, with Shift and
\* Ctrl down exactly where they are meant, provided the client holds neither a
\* modifier nor a key of the text; a motion "in client points" is "converted to
\* screen pixels" (PROTOCOL.md:89) of the viewport the client is in, provided no
\* UiScale has put the scale back and the numbers fit (text, type_char, tap,
\* move_rel, wheel, pointer_scale_for).
AsMeant == (Idle /\ clean) => log = meant

=============================================================================
