----------------------------- MODULE MCFraming -----------------------------
(* Model-checking instances of Framing: sizes for a handful of frames.     *)
EXTENDS Framing

\* A hello, an empty payload (RequestKeyframe), a frame of the largest size.
SizesFit == <<2, 1, 3, 1>>

\* The same mix, for more frames, the last one longer than the limit: the hello
\* and those after the fifth come in pieces.
SizesMany == <<3, 1, 4, 2, 3, 4, 2, 3, 4, 5>>
HelloAndLater == {1} \cup 6..10

All == 1..Frames

=============================================================================
