---------------------------- MODULE FrameChannel ----------------------------
(***************************************************************************)
(* What the framing of PROTOCOL.md promises the session loop, and what the *)
(* code keeps of it: a first-in first-out channel of frames numbered 1, 2, *)
(* ..., each dispatched once and whole, up to the first fragile frame or   *)
(* the first that is too long, which ends the session.  From a fragile     *)
(* frame on frames may be lost, or be taken for others, but those that are *)
(* dispatched whole are still in order and never repeated.                 *)
(*                                                                         *)
(* The receiver is not always there: it writes, for as long as the other   *)
(* end makes it wait, and it may leave at any time.                        *)
(***************************************************************************)
EXTENDS Naturals, Sequences

CONSTANTS
  Frames,   \* number of frames a client sends
  Fragile,  \* frames that may arrive in pieces while their read can be dropped
  TooLong,  \* frames past the limit of a length
  Junk      \* a frame that is not one the client sent

VARIABLES
  nextFrame,  \* the next frame the client sends
  received,   \* frames dispatched
  loop        \* "reading", "writing", "left" or "refused"

vars == <<nextFrame, received, loop>>

Init ==
  /\ nextFrame = 1
  /\ received = <<>>
  /\ loop = "reading"

Send ==
  /\ nextFrame <= Frames
  /\ nextFrame' = nextFrame + 1
  /\ UNCHANGED <<received, loop>>

\* A frame that arrives whole is next.
Intact(n) == \A f \in Fragile : n < f

Dispatch(f) ==
  /\ loop = "reading"
  /\ received' = Append(received, f)
  /\ loop' \in {"reading", "writing", "left"}
  /\ UNCHANGED nextFrame

Receive ==
  LET n == Len(received) + 1 IN
  /\ n < nextFrame
  /\ Intact(n)
  /\ n \notin TooLong
  /\ Dispatch(n)

ReceiveBroken ==
  /\ ~Intact(Len(received) + 1)
  /\ \E f \in (1 .. nextFrame - 1) \cup {Junk} :
       /\ f # Junk => \A i \in DOMAIN received : received[i] = Junk \/ received[i] < f
       /\ Dispatch(f)

\* The frame that is being sent may be refused before it is complete.
Refuse ==
  LET n == Len(received) + 1 IN
  /\ loop = "reading"
  /\ (n \in TooLong /\ n <= nextFrame) \/ ~Intact(n)
  /\ loop' = "refused"
  /\ UNCHANGED <<nextFrame, received>>

Pause ==
  /\ loop = "reading" /\ received # <<>>
  /\ loop' = "writing"
  /\ UNCHANGED <<nextFrame, received>>

Resume ==
  /\ loop = "writing"
  /\ loop' = "reading"
  /\ UNCHANGED <<nextFrame, received>>

Leave ==
  /\ loop \in {"reading", "writing"}
  /\ loop' = "left"
  /\ UNCHANGED <<nextFrame, received>>

Next == Send \/ Receive \/ ReceiveBroken \/ Refuse \/ Pause \/ Resume \/ Leave

\* A receiver that reads again and again receives what was sent intact.
Spec == Init /\ [][Next]_vars /\ SF_vars(Receive)

=============================================================================
