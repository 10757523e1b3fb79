------------------------------- MODULE Framing -------------------------------
(***************************************************************************)
(* Frames from the client to the session loop: read_frame of               *)
(* src/src/proto.rs, awaited by run_session (src/src/net.rs) first on its  *)
(* own for ClientHello and then as one arm of a select!, against the video *)
(* arm.  When the video arm wins, the pending read_frame future is dropped *)
(* with whatever bytes its read_exact calls had already taken.  A handler  *)
(* that writes to the client awaits the write without a timeout, and as    *)
(* long as it does nothing is read.                                        *)
(*                                                                         *)
(* A byte is the pair of the frame it belongs to and its position: 1 to    *)
(* LenBytes are the length prefix, then come the Size[f] bytes that the    *)
(* prefix announces, the type byte first.                                  *)
(***************************************************************************)
EXTENDS Naturals, Sequences

CONSTANTS
  Frames,    \* bound: frames the client sends; frame 1 is ClientHello
  Size,      \* length of each frame, as its prefix announces it
  LenBytes,  \* width of the prefix (4 in the code)
  MaxFrame,  \* MAX_FRAME of proto.rs
  Pieces,    \* the frames that the transport may deliver in pieces
  Junk       \* a frame that is not one the client sent

ASSUME FramingAssumption ==
  /\ Frames \in Nat
  /\ Size \in [1..Frames -> Nat \ {0}]
  /\ LenBytes \in Nat \ {0}
  /\ MaxFrame \in Nat \ {0}
  /\ Pieces \subseteq 1..Frames
  /\ Junk \notin Nat

VARIABLES
  nextFrame,  \* the frame the client sends, or is in the middle of sending
  offset,     \* its bytes delivered so far
  wire,       \* bytes delivered and not yet read
  taken,      \* bytes held by the pending read_frame future
  need,       \* the length it decoded, 0 before that
  received,   \* frames dispatched
  loop        \* control point of the session

vars == <<nextFrame, offset, wire, taken, need, received, loop>>

Total(f) == LenBytes + Size[f]
Bytes(f, from, to) == [i \in 1..(to - from) |-> <<f, from + i>>]
Prefix(f) == Bytes(f, 0, LenBytes)
Body(f)   == Bytes(f, LenBytes, Total(f))

Byte == UNION {{f} \X (1..Total(f)) : f \in 1..Frames}

TypeOK ==
  /\ nextFrame \in 1..(Frames + 1)
  /\ offset \in Nat
  /\ nextFrame <= Frames => offset < Total(nextFrame)
  /\ wire \in Seq(Byte)
  /\ taken \in Seq(Byte)
  /\ need \in 0..MaxFrame
  /\ received \in Seq((1..Frames) \cup {Junk})
  /\ loop \in {"reading", "writing", "left", "refused"}

Init ==
  /\ nextFrame = 1
  /\ offset = 0
  /\ wire = <<>>
  /\ taken = <<>>
  /\ need = 0
  /\ received = <<>>
  /\ loop = "reading"

\* TLS hands over bytes record by record; a frame may span several records.
Deliver ==
  /\ nextFrame <= Frames
  /\ \E to \in (offset + 1)..Total(nextFrame) :
       /\ nextFrame \in Pieces \/ to = Total(nextFrame)
       /\ wire' = wire \o Bytes(nextFrame, offset, to)
       /\ IF to = Total(nextFrame)
          THEN nextFrame' = nextFrame + 1 /\ offset' = 0
          ELSE offset' = to /\ UNCHANGED nextFrame
  /\ UNCHANGED <<taken, need, received, loop>>

-----------------------------------------------------------------------------
(* One poll of read_frame.                                                 *)

\* Mutant of Decoded: the length without the type byte.
DecodedPayload(bytes) ==
  {Size[f] - 1 : f \in {g \in 1..Frames : bytes = Prefix(g)}} \cup
  (IF \E g \in 1..Frames : bytes = Prefix(g) THEN {} ELSE 0..(MaxFrame + 1))

\* What u32::from_be_bytes may yield: a prefix taken whole is what the client
\* wrote, anything else is arbitrary (bound: no length past MaxFrame + 1).
Decoded(bytes) ==
  {Size[f] : f \in {g \in 1..Frames : bytes = Prefix(g)}} \cup
  (IF \E g \in 1..Frames : bytes = Prefix(g) THEN {} ELSE 0..(MaxFrame + 1))

\* The frame these bytes are, or Junk.
FrameOf(bytes) ==
  IF \E f \in 1..Frames : bytes = Prefix(f) \o Body(f)
  THEN bytes[1][1]
  ELSE Junk

\* Mutant of Refused: only empty frames.
RefusedEmpty(n) == n = 0

\* if len == 0 || len > MAX_FRAME
Refused(n) == n = 0 \/ n > MaxFrame

\* The two read_exact calls of one poll: they take what has been delivered,
\* until the length, and then the body, is complete.  The handler of a frame
\* reads on, writes (ServerHello, Pong), or ends the session (Goodbye, a payload
\* it does not understand, a wrong id).
Poll ==
  /\ loop = "reading"
  /\ wire # <<>>
  /\ LET got == taken \o wire IN
     \/ /\ Len(got) < LenBytes
        /\ taken' = got
        /\ wire' = <<>>
        /\ UNCHANGED <<need, received, loop>>
     \/ /\ Len(got) >= LenBytes
        /\ \E n \in IF need = 0 THEN Decoded(SubSeq(got, 1, LenBytes)) ELSE {need} :
             \/ /\ Refused(n)
                /\ loop' = "refused"
                /\ UNCHANGED <<wire, taken, need, received>>
             \/ /\ ~Refused(n)
                /\ Len(got) < LenBytes + n
                /\ taken' = got
                /\ wire' = <<>>
                /\ need' = n
                /\ UNCHANGED <<received, loop>>
             \/ /\ ~Refused(n)
                /\ Len(got) >= LenBytes + n
                /\ received' = Append(received, FrameOf(SubSeq(got, 1, LenBytes + n)))
                /\ wire' = SubSeq(got, LenBytes + n + 1, Len(got))
                /\ taken' = <<>>
                /\ need' = 0
                /\ loop' \in {"reading", "writing", "left"}
  /\ UNCHANGED <<nextFrame, offset>>

\* Mutant of VideoWins: ClientHello is read in the select as well.
VideoWinsEarly ==
  /\ loop = "reading"
  /\ loop' = "writing"
  /\ taken' = <<>>
  /\ need' = 0
  /\ UNCHANGED <<nextFrame, offset, wire, received>>

\* vrx.recv() wins the select: the other future is dropped, and the handler
\* awaits write_frame.  ClientHello is read before the loop.
VideoWins ==
  /\ loop = "reading"
  /\ received # <<>>
  /\ loop' = "writing"
  /\ taken' = <<>>
  /\ need' = 0
  /\ UNCHANGED <<nextFrame, offset, wire, received>>

\* The client has taken what was written: the next turn of the loop starts a
\* new read_frame.
Written ==
  /\ loop = "writing"
  /\ loop' = "reading"
  /\ UNCHANGED <<nextFrame, offset, wire, taken, need, received>>

\* A read that fails or finds the end of the stream, or a write that fails.
Leave ==
  /\ loop \in {"reading", "writing"}
  /\ loop' = "left"
  /\ UNCHANGED <<nextFrame, offset, wire, taken, need, received>>

Next == Deliver \/ Poll \/ VideoWins \/ Written \/ Leave

\* tokio::select! picks its first arm at random, so a session that comes back
\* to its select again and again with bytes on the wire polls the read arm in
\* the end.  Nothing says that it comes back: a client that does not drain its
\* video keeps the task in write_frame for as long as it likes.
Spec == Init /\ [][Next]_vars /\ SF_vars(Poll)

-----------------------------------------------------------------------------
\* "Maximum payload: 8 MiB." (PROTOCOL.md:22) would put the limit at
\* Size[f] - 1: the length counts the type byte, and so does MAX_FRAME.
TooLong == {f \in 1..Frames : Size[f] > MaxFrame}

Abstract == INSTANCE FrameChannel WITH Fragile <- Pieces \ {1}

\* read_frame and the select implement FrameChannel: up to the first frame
\* after ClientHello that comes in pieces, or the first one longer than
\* MaxFrame, every frame is dispatched once, whole and in order, however often
\* the video arm wins, as long as the session comes back from its writes; from
\* a frame in pieces on no whole frame is repeated or overtaken.  ClientHello
\* may come in pieces, for nothing cancels its read.
Channel == Abstract!Spec

\* Whatever happens to the bytes, ClientHello is read whole, and the frames
\* that are dispatched whole come in the order sent, each at most once.
WholeFramesInOrder ==
  /\ received # <<>> => received[1] = 1
  /\ \A i, j \in DOMAIN received :
       i < j /\ received[i] # Junk /\ received[j] # Junk => received[i] < received[j]

\* "Every message: u32be length, u8 type, u8[] payload" (PROTOCOL.md:14-20):
\* what is dispatched is what was sent, whatever the transport's record sizes.
DispatchedAsSent == \A i \in DOMAIN received : received[i] = i

=============================================================================
