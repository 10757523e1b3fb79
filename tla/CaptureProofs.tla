---------------------------- MODULE CaptureProofs ----------------------------
(* Theorems about Capture, for every set of sessions, every capacity of the *)
(* channel and of the pipe and every number of frames.                      *)
EXTENDS Capture, TLAPS

USE CaptureAssumption

-----------------------------------------------------------------------------
(* Control: where the actors of one session are relative to each other.    *)

\* Who has a descriptor, and how far the reader, the recorder and keep_open
\* have come when the task is at a given statement.
ControlOf(s) ==
  /\ gsr[s] \in {"wait", "run"} => gfd[s] \in Inode
  /\ gsr[s] \in {"none", "open", "dead"} => gfd[s] = Nil
  /\ reader[s] \in {"wait", "header", "check", "demux", "send"} => rfd[s] \in Inode
  /\ reader[s] \in {"none", "open", "done"} => rfd[s] = Nil
  /\ task[s] \in {"idle", "mkfifo", "keeper", "thread", "spawn", "failed"} => gsr[s] = "none"
  /\ task[s] \in {"loop", "write", "stop", "kill"} => gsr[s] # "none"
  /\ task[s] \in {"drop", "join", "unlink", "done"} => gsr[s] = "dead"
  /\ task[s] \in {"idle", "mkfifo", "keeper", "thread"} => reader[s] = "none"
  /\ task[s] \in {"join", "unlink", "done"} => keeper[s] = Nil
  /\ task[s] \in {"unlink", "done"} => reader[s] = "done"

Control == \A s \in Sessions : ControlOf(s)

\* What Control is about; the part of TypeOK without sequences.
Points ==
  /\ path \in Inode \cup {Nil}
  /\ task \in [Sessions -> TaskState]
  /\ keeper \in [Sessions -> Inode \cup {Nil}]
  /\ reader \in [Sessions -> ReaderState]
  /\ rfd \in [Sessions -> Inode \cup {Nil}]
  /\ gsr \in [Sessions -> GsrState]
  /\ gfd \in [Sessions -> Inode \cup {Nil}]

ControlInv == Points /\ Control

LEMMA Inodes == \A s \in Sessions : <<"fifo", s>> \in Inode /\ <<"file", s>> \in Inode
  BY DEF Inode

LEMMA ControlInit == Init => ControlInv
  BY DEF Init, ControlInv, Points, Control, ControlOf, TaskState, ReaderState, GsrState,
         Starting, Streaming, Stopping

\* Every step of every actor keeps the actors in step with each other.
LEMMA ControlStep == ControlInv /\ [Next]_vars => ControlInv'
  <1> SUFFICES ASSUME ControlInv, [Next]_vars PROVE ControlInv'
    OBVIOUS
  <1> USE Inodes
      DEF ControlInv, Points, Control, ControlOf, TaskState, ReaderState, GsrState,
          Starting, Streaming, Stopping, Goto, kernelVars, taskVars, readerVars, gsrVars
  <1>1. ASSUME NEW s \in Sessions, RemoveOld(s) PROVE ControlInv'
    BY <1>1 DEF RemoveOld
  <1>2. ASSUME NEW s \in Sessions, NotInstalled(s) PROVE ControlInv'
    BY <1>2 DEF NotInstalled
  <1>3. ASSUME NEW s \in Sessions, MkFifo(s) PROVE ControlInv'
    BY <1>3 DEF MkFifo
  <1>4. ASSUME NEW s \in Sessions, OpenKeeper(s) PROVE ControlInv'
    BY <1>4 DEF OpenKeeper, Fresh
  <1>5. ASSUME NEW s \in Sessions, SpawnReader(s) PROVE ControlInv'
    BY <1>5 DEF SpawnReader
  <1>6. ASSUME NEW s \in Sessions, SpawnGsr(s) PROVE ControlInv'
    BY <1>6 DEF SpawnGsr
  <1>7. ASSUME NEW s \in Sessions, StartFails(s) PROVE ControlInv'
    BY <1>7 DEF StartFails
  <1>8. ASSUME NEW s \in Sessions, RecvVideo(s) PROVE ControlInv'
    BY <1>8 DEF RecvVideo
  <1>9. ASSUME NEW s \in Sessions, VideoWritten(s) PROVE ControlInv'
    BY <1>9 DEF VideoWritten
  <1>10. ASSUME NEW s \in Sessions, Leave(s) PROVE ControlInv'
    BY <1>10 DEF Leave
  <1>11. ASSUME NEW s \in Sessions, GsrOpen(s) PROVE ControlInv'
    BY <1>11 DEF GsrOpen, Fresh
  <1>12. ASSUME NEW s \in Sessions, GsrWake(s) PROVE ControlInv'
    BY <1>12 DEF GsrWake
  <1>13. ASSUME NEW s \in Sessions, GsrWrite(s) PROVE ControlInv'
    BY <1>13 DEF GsrWrite
  <1>14. ASSUME NEW s \in Sessions, GsrDies(s) PROVE ControlInv'
    BY <1>14 DEF GsrDies, Die
  <1>15. ASSUME NEW s \in Sessions, ReaderOpen(s) PROVE ControlInv'
    BY <1>15 DEF ReaderOpen, Fresh, CloseReader
  <1>16. ASSUME NEW s \in Sessions, ReaderWake(s) PROVE ControlInv'
    BY <1>16 DEF ReaderWake
  <1>17. ASSUME NEW s \in Sessions, ReaderHeader(s) PROVE ControlInv'
    BY <1>17 DEF ReaderHeader, CloseReader, Ready
  <1>18. ASSUME NEW s \in Sessions, ReaderCheck(s) PROVE ControlInv'
    BY <1>18 DEF ReaderCheck, CloseReader
  <1>19. ASSUME NEW s \in Sessions, ReaderKey(s) PROVE ControlInv'
    BY <1>19 DEF ReaderKey, Ready
  <1>20. ASSUME NEW s \in Sessions, ReaderDelta(s) PROVE ControlInv'
    BY <1>20 DEF ReaderDelta, Ready
  <1>21. ASSUME NEW s \in Sessions, ReaderGarbage(s) PROVE ControlInv'
    BY <1>21 DEF ReaderGarbage, CloseReader, Ready
  <1>22. ASSUME NEW s \in Sessions, ReaderEof(s) PROVE ControlInv'
    BY <1>22 DEF ReaderEof, CloseReader
  <1>23. ASSUME NEW s \in Sessions, ReaderSend(s) PROVE ControlInv'
    BY <1>23 DEF ReaderSend
  <1>24. ASSUME NEW s \in Sessions, SetStop(s) PROVE ControlInv'
    BY <1>24 DEF SetStop
  <1>25. ASSUME NEW s \in Sessions, KillGsr(s) PROVE ControlInv'
    BY <1>25 DEF KillGsr, Die
  <1>26. ASSUME NEW s \in Sessions, DropKeeper(s) PROVE ControlInv'
    BY <1>26 DEF DropKeeper
  <1>27. ASSUME NEW s \in Sessions, JoinReader(s) PROVE ControlInv'
    BY <1>27 DEF JoinReader
  <1>28. ASSUME NEW s \in Sessions, Unlink(s) PROVE ControlInv'
    BY <1>28 DEF Unlink
  <1>29. CASE UNCHANGED vars
    BY <1>29 DEF vars
  <1>30. QED
    BY <1>1, <1>2, <1>3, <1>4, <1>5, <1>6, <1>7, <1>8, <1>9, <1>10, <1>11,
       <1>12, <1>13, <1>14, <1>15, <1>16, <1>17, <1>18, <1>19, <1>20,
       <1>21, <1>22, <1>23, <1>24, <1>25, <1>26, <1>27, <1>28, <1>29
    DEF Next, StartStep, GsrStep, ReaderStep, StopStep

-----------------------------------------------------------------------------
(* Data: the pipe, the channel and the counters.                           *)

Data ==
  /\ pipe \in [Inode -> Seq(Tag)]
  /\ stop \in [Sessions -> BOOLEAN]
  /\ writing \in [Sessions -> Nat]
  /\ sent \in [Sessions -> SUBSET Nat]
  /\ count \in [Sessions -> Nat]
  /\ keys \in [Sessions -> SUBSET Nat]
  /\ held \in [Sessions -> Nat]
  /\ chan \in [Sessions -> Seq(Nat)]
  /\ \A s \in Sessions : Len(chan[s]) <= ChanCap
  /\ emitted \in [Sessions -> Nat]

\* What the kernel does to a pipe leaves a pipe.
LEMMA PipeUpdate ==
  ASSUME NEW p \in [Inode -> Seq(Tag)], NEW i \in Inode
  PROVE  /\ [p EXCEPT ![i] = <<>>] \in [Inode -> Seq(Tag)]
         /\ \A t \in Tag : [p EXCEPT ![i] = Append(@, t)] \in [Inode -> Seq(Tag)]
         /\ p[i] # <<>> => [p EXCEPT ![i] = Tail(@)] \in [Inode -> Seq(Tag)]
<1>1. \A t \in Tag : Append(p[i], t) \in Seq(Tag)
  OBVIOUS
<1>2. p[i] # <<>> => Tail(p[i]) \in Seq(Tag)
  OBVIOUS
<1>3. <<>> \in Seq(Tag)
  OBVIOUS
<1>4. QED
  BY <1>1, <1>2, <1>3, Zenon

LEMMA DiePipe ==
  ASSUME ControlInv, Data, NEW s \in Sessions, Die(s)
  PROVE  pipe' \in [Inode -> Seq(Tag)]
<1>1. CASE UNCHANGED pipe
  BY <1>1 DEF Data
<1>2. CASE gsr[s] = "run" /\ pipe' = [pipe EXCEPT ![gfd[s]] = Append(@, "torn")]
  <2>1. gfd[s] \in Inode /\ "torn" \in Tag
    BY <1>2 DEF ControlInv, Control, ControlOf, Tag
  <2>2. QED
    BY <1>2, <2>1, PipeUpdate DEF Data
<1>3. QED
  BY <1>1, <1>2 DEF Die

\* What the channel does to its queue leaves a queue.
LEMMA QueueUpdate ==
  ASSUME NEW q \in [Sessions -> Seq(Nat)], NEW s \in Sessions
  PROVE  /\ \A n \in Nat : [q EXCEPT ![s] = Append(@, n)] \in [Sessions -> Seq(Nat)]
         /\ \A n \in Nat : Len(Append(q[s], n)) = Len(q[s]) + 1
         /\ q[s] # <<>> => /\ [q EXCEPT ![s] = Tail(@)] \in [Sessions -> Seq(Nat)]
                          /\ Head(q[s]) \in Nat
                          /\ Len(Tail(q[s])) = Len(q[s]) - 1
<1>1. \A n \in Nat : Append(q[s], n) \in Seq(Nat) /\ Len(Append(q[s], n)) = Len(q[s]) + 1
  OBVIOUS
<1>2. q[s] # <<>> =>
        Tail(q[s]) \in Seq(Nat) /\ Head(q[s]) \in Nat /\ Len(Tail(q[s])) = Len(q[s]) - 1
  OBVIOUS
<1>3. QED
  BY <1>1, <1>2, Zenon

LEMMA DataInit == Init => Data
  BY DEF Init, Data

LEMMA DataStep == ControlInv /\ Data /\ [Next]_vars => Data'
  <1> SUFFICES ASSUME ControlInv, Data, [Next]_vars PROVE Data'
    OBVIOUS
  <1> USE DEF Data, Goto, kernelVars, taskVars, readerVars, gsrVars
  <1>1. ASSUME NEW s \in Sessions, RemoveOld(s) PROVE Data'
    BY <1>1 DEF RemoveOld
  <1>2. ASSUME NEW s \in Sessions, NotInstalled(s) PROVE Data'
    BY <1>2 DEF NotInstalled
  <1>3. ASSUME NEW s \in Sessions, MkFifo(s) PROVE Data'
    BY <1>3 DEF MkFifo
  <1>4. ASSUME NEW s \in Sessions, OpenKeeper(s) PROVE Data'
    <2>1. pipe' \in [Inode -> Seq(Tag)]
      BY <1>4, Inodes, PipeUpdate
      DEF OpenKeeper, Fresh, Ready, ControlInv, Points, Control, ControlOf, Tag
    <2>2. QED
      BY <1>4, <2>1 DEF OpenKeeper, Fresh
  <1>5. ASSUME NEW s \in Sessions, SpawnReader(s) PROVE Data'
    BY <1>5 DEF SpawnReader
  <1>6. ASSUME NEW s \in Sessions, SpawnGsr(s) PROVE Data'
    BY <1>6 DEF SpawnGsr
  <1>7. ASSUME NEW s \in Sessions, StartFails(s) PROVE Data'
    BY <1>7 DEF StartFails
  <1>8. ASSUME NEW s \in Sessions, RecvVideo(s) PROVE Data'
    <2>1. /\ chan' \in [Sessions -> Seq(Nat)] /\ Head(chan[s]) \in Nat
          /\ Len(chan'[s]) = Len(chan[s]) - 1
      BY <1>8, QueueUpdate DEF RecvVideo
    <2>2. Len(chan[s]) \in Nat
      OBVIOUS
    <2>3. \A t \in Sessions : Len(chan'[t]) <= ChanCap
      BY <1>8, <2>1, <2>2 DEF RecvVideo
    <2>4. QED
      BY <1>8, <2>1, <2>3 DEF RecvVideo
  <1>9. ASSUME NEW s \in Sessions, VideoWritten(s) PROVE Data'
    BY <1>9 DEF VideoWritten
  <1>10. ASSUME NEW s \in Sessions, Leave(s) PROVE Data'
    BY <1>10 DEF Leave
  <1>11. ASSUME NEW s \in Sessions, GsrOpen(s) PROVE Data'
    <2>1. pipe' \in [Inode -> Seq(Tag)]
      <3> DEFINE i == IF path = Nil THEN <<"file", s>> ELSE path
      <3>1. i \in Inode
        BY Inodes DEF ControlInv, Points
      <3>2. pipe' = pipe \/ pipe' = [pipe EXCEPT ![i] = <<>>]
        BY <1>11, Zenon DEF GsrOpen, Fresh
      <3> HIDE DEF i
      <3>3. CASE pipe' = [pipe EXCEPT ![i] = <<>>]
        BY <3>1, <3>3, PipeUpdate
      <3>4. QED
        BY <3>2, <3>3
    <2>2. QED
      BY <1>11, <2>1 DEF GsrOpen, Fresh
  <1>12. ASSUME NEW s \in Sessions, GsrWake(s) PROVE Data'
    BY <1>12 DEF GsrWake
  <1>13. ASSUME NEW s \in Sessions, GsrWrite(s) PROVE Data'
    <2>1. pipe' \in [Inode -> Seq(Tag)]
      BY <1>13, Inodes, PipeUpdate
      DEF GsrWrite, Ready, ControlInv, Points, Control, ControlOf, Tag
    <2>2. QED
      BY <1>13, <2>1 DEF GsrWrite
  <1>14. ASSUME NEW s \in Sessions, GsrDies(s) PROVE Data'
    <2>1. pipe' \in [Inode -> Seq(Tag)]
      BY <1>14, DiePipe DEF GsrDies
    <2>2. QED
      BY <1>14, <2>1 DEF GsrDies, Die
  <1>15. ASSUME NEW s \in Sessions, ReaderOpen(s) PROVE Data'
    <2>1. pipe' \in [Inode -> Seq(Tag)]
      <3>1. pipe' = pipe \/ (path \in Inode /\ pipe' = [pipe EXCEPT ![path] = <<>>])
        BY <1>15 DEF ReaderOpen, Fresh, CloseReader, ControlInv, Points
      <3>2. CASE path \in Inode /\ pipe' = [pipe EXCEPT ![path] = <<>>]
        BY <3>2, PipeUpdate
      <3>3. QED
        BY <3>1, <3>2
    <2>2. QED
      BY <1>15, <2>1 DEF ReaderOpen, Fresh, CloseReader
  <1>16. ASSUME NEW s \in Sessions, ReaderWake(s) PROVE Data'
    BY <1>16 DEF ReaderWake
  <1>17. ASSUME NEW s \in Sessions, ReaderHeader(s) PROVE Data'
    <2>1. pipe' \in [Inode -> Seq(Tag)]
      BY <1>17, Inodes, PipeUpdate
      DEF ReaderHeader, CloseReader, Ready, Ready, ControlInv, Points, Control, ControlOf, Tag
    <2>2. QED
      BY <1>17, <2>1 DEF ReaderHeader, CloseReader, Ready
  <1>18. ASSUME NEW s \in Sessions, ReaderCheck(s) PROVE Data'
    BY <1>18 DEF ReaderCheck, CloseReader
  <1>19. ASSUME NEW s \in Sessions, ReaderKey(s) PROVE Data'
    <2>1. pipe' \in [Inode -> Seq(Tag)]
      BY <1>19, Inodes, PipeUpdate
      DEF ReaderKey, Ready, Ready, ControlInv, Points, Control, ControlOf, Tag
    <2>2. QED
      BY <1>19, <2>1 DEF ReaderKey, Ready
  <1>20. ASSUME NEW s \in Sessions, ReaderDelta(s) PROVE Data'
    <2>1. pipe' \in [Inode -> Seq(Tag)]
      BY <1>20, PipeUpdate DEF ReaderDelta, Ready, ControlInv, Points, Control, ControlOf
    <2>2. CASE Len(chan[s]) < ChanCap /\ chan' = [chan EXCEPT ![s] = Append(@, count[s] + 1)]
      <3>1. chan' \in [Sessions -> Seq(Nat)] /\ Len(chan'[s]) = Len(chan[s]) + 1
        BY <2>2, QueueUpdate
      <3>2. \A t \in Sessions : Len(chan'[t]) <= ChanCap
        BY <2>2, <3>1
      <3>3. QED
        BY <1>20, <2>1, <3>1, <3>2, SMTT(20) DEF ReaderDelta
    <2>3. CASE UNCHANGED chan
      BY <1>20, <2>1, <2>3 DEF ReaderDelta
    <2>4. QED
      BY <1>20, <2>2, <2>3, Zenon DEF ReaderDelta
  <1>21. ASSUME NEW s \in Sessions, ReaderGarbage(s) PROVE Data'
    <2>1. pipe' \in [Inode -> Seq(Tag)]
      BY <1>21, Inodes, PipeUpdate
      DEF ReaderGarbage, CloseReader, Ready, Ready, ControlInv, Points, Control, ControlOf, Tag
    <2>2. QED
      BY <1>21, <2>1 DEF ReaderGarbage, CloseReader, Ready
  <1>22. ASSUME NEW s \in Sessions, ReaderEof(s) PROVE Data'
    BY <1>22 DEF ReaderEof, CloseReader
  <1>23. ASSUME NEW s \in Sessions, ReaderSend(s) PROVE Data'
    <2>1. CASE Len(chan[s]) < ChanCap /\ chan' = [chan EXCEPT ![s] = Append(@, held[s])]
      <3>1. chan' \in [Sessions -> Seq(Nat)] /\ Len(chan'[s]) = Len(chan[s]) + 1
        BY <2>1, QueueUpdate
      <3>2. \A t \in Sessions : Len(chan'[t]) <= ChanCap
        BY <2>1, <3>1
      <3>3. QED
        BY <1>23, <3>1, <3>2 DEF ReaderSend
    <2>2. CASE UNCHANGED chan
      BY <1>23, <2>2 DEF ReaderSend
    <2>3. QED
      BY <1>23, <2>1, <2>2, Zenon DEF ReaderSend
  <1>24. ASSUME NEW s \in Sessions, SetStop(s) PROVE Data'
    BY <1>24 DEF SetStop
  <1>25. ASSUME NEW s \in Sessions, KillGsr(s) PROVE Data'
    <2>1. pipe' \in [Inode -> Seq(Tag)]
      BY <1>25, DiePipe DEF KillGsr
    <2>2. QED
      BY <1>25, <2>1 DEF KillGsr, Die
  <1>26. ASSUME NEW s \in Sessions, DropKeeper(s) PROVE Data'
    BY <1>26 DEF DropKeeper
  <1>27. ASSUME NEW s \in Sessions, JoinReader(s) PROVE Data'
    BY <1>27 DEF JoinReader
  <1>28. ASSUME NEW s \in Sessions, Unlink(s) PROVE Data'
    BY <1>28 DEF Unlink
  <1>29. CASE UNCHANGED vars
    BY <1>29 DEF vars
  <1>30. QED
    BY <1>1, <1>2, <1>3, <1>4, <1>5, <1>6, <1>7, <1>8, <1>9, <1>10, <1>11,
       <1>12, <1>13, <1>14, <1>15, <1>16, <1>17, <1>18, <1>19, <1>20,
       <1>21, <1>22, <1>23, <1>24, <1>25, <1>26, <1>27, <1>28, <1>29
    DEF Next, StartStep, GsrStep, ReaderStep, StopStep

\* Type correctness of the pipeline, over every step of the four actors.
THEOREM TypeCorrect == Spec => []TypeOK
<1>1. ControlInv /\ Data => TypeOK
  BY DEF ControlInv, Points, Data, TypeOK
<1>2. QED
  BY <1>1, ControlInit, ControlStep, DataInit, DataStep, PTL DEF Spec

\* No exit of run_session leaves a recorder process behind.
THEOREM RecordersOwned == Spec => []RecorderOwned
<1>1. ControlInv => RecorderOwned
  BY DEF ControlInv, Points, Control, ControlOf, RecorderOwned, TaskState, GsrState,
         Starting, Streaming, Stopping
<1>2. QED
  BY <1>1, ControlInit, ControlStep, PTL DEF Spec

\* Capture::stop returns only when thread, process and descriptors are gone.
THEOREM StopComplete == Spec => []StopReleasesAll
<1>1. ControlInv => StopReleasesAll
  BY DEF ControlInv, Control, ControlOf, StopReleasesAll
<1>2. QED
  BY <1>1, ControlInit, ControlStep, PTL DEF Spec

\* A name in the directory has a session that has begun and has not yet removed
\* it: only a recorder whose session still streams, or still has to kill it, can
\* make the file again after RemoveOld, and Unlink is the last step of stop.
LEMMA CleanStep == ControlInv /\ CleanDirectory /\ [Next]_vars => CleanDirectory'
  <1> SUFFICES ASSUME ControlInv, CleanDirectory, [Next]_vars PROVE CleanDirectory'
    OBVIOUS
  <1> USE DEF CleanDirectory, ControlInv, Points, Goto, kernelVars, taskVars
  <1>1. ASSUME NEW s \in Sessions, RemoveOld(s) PROVE CleanDirectory'
    BY <1>1 DEF RemoveOld
  <1>2. ASSUME NEW s \in Sessions, NotInstalled(s) PROVE CleanDirectory'
    BY <1>2 DEF NotInstalled
  <1>3. ASSUME NEW s \in Sessions, MkFifo(s) PROVE CleanDirectory'
    BY <1>3 DEF MkFifo
  <1>4. ASSUME NEW s \in Sessions, OpenKeeper(s) PROVE CleanDirectory'
    BY <1>4 DEF OpenKeeper
  <1>5. ASSUME NEW s \in Sessions, SpawnReader(s) PROVE CleanDirectory'
    BY <1>5 DEF SpawnReader
  <1>6. ASSUME NEW s \in Sessions, SpawnGsr(s) PROVE CleanDirectory'
    BY <1>6 DEF SpawnGsr
  <1>7. ASSUME NEW s \in Sessions, StartFails(s) PROVE CleanDirectory'
    BY <1>7 DEF StartFails, Starting
  <1>8. ASSUME NEW s \in Sessions, RecvVideo(s) PROVE CleanDirectory'
    BY <1>8 DEF RecvVideo
  <1>9. ASSUME NEW s \in Sessions, VideoWritten(s) PROVE CleanDirectory'
    BY <1>9 DEF VideoWritten
  <1>10. ASSUME NEW s \in Sessions, Leave(s) PROVE CleanDirectory'
    BY <1>10 DEF Leave, Streaming
  <1>11. ASSUME NEW s \in Sessions, GsrOpen(s) PROVE CleanDirectory'
    BY <1>11 DEF GsrOpen, Control, ControlOf, TaskState, Starting, Streaming, Stopping
  <1>12. ASSUME NEW s \in Sessions, GsrWake(s) PROVE CleanDirectory'
    BY <1>12 DEF GsrWake
  <1>13. ASSUME NEW s \in Sessions, GsrWrite(s) PROVE CleanDirectory'
    BY <1>13 DEF GsrWrite
  <1>14. ASSUME NEW s \in Sessions, GsrDies(s) PROVE CleanDirectory'
    BY <1>14 DEF GsrDies
  <1>15. ASSUME NEW s \in Sessions, ReaderOpen(s) PROVE CleanDirectory'
    BY <1>15 DEF ReaderOpen
  <1>16. ASSUME NEW s \in Sessions, ReaderWake(s) PROVE CleanDirectory'
    BY <1>16 DEF ReaderWake
  <1>17. ASSUME NEW s \in Sessions, ReaderHeader(s) PROVE CleanDirectory'
    BY <1>17 DEF ReaderHeader
  <1>18. ASSUME NEW s \in Sessions, ReaderCheck(s) PROVE CleanDirectory'
    BY <1>18 DEF ReaderCheck
  <1>19. ASSUME NEW s \in Sessions, ReaderKey(s) PROVE CleanDirectory'
    BY <1>19 DEF ReaderKey
  <1>20. ASSUME NEW s \in Sessions, ReaderDelta(s) PROVE CleanDirectory'
    BY <1>20 DEF ReaderDelta
  <1>21. ASSUME NEW s \in Sessions, ReaderGarbage(s) PROVE CleanDirectory'
    BY <1>21 DEF ReaderGarbage
  <1>22. ASSUME NEW s \in Sessions, ReaderEof(s) PROVE CleanDirectory'
    BY <1>22 DEF ReaderEof
  <1>23. ASSUME NEW s \in Sessions, ReaderSend(s) PROVE CleanDirectory'
    BY <1>23 DEF ReaderSend
  <1>24. ASSUME NEW s \in Sessions, SetStop(s) PROVE CleanDirectory'
    BY <1>24 DEF SetStop
  <1>25. ASSUME NEW s \in Sessions, KillGsr(s) PROVE CleanDirectory'
    BY <1>25 DEF KillGsr
  <1>26. ASSUME NEW s \in Sessions, DropKeeper(s) PROVE CleanDirectory'
    BY <1>26 DEF DropKeeper
  <1>27. ASSUME NEW s \in Sessions, JoinReader(s) PROVE CleanDirectory'
    BY <1>27 DEF JoinReader
  <1>28. ASSUME NEW s \in Sessions, Unlink(s) PROVE CleanDirectory'
    BY <1>28 DEF Unlink
  <1>29. CASE UNCHANGED vars
    BY <1>29 DEF vars
  <1>30. QED
    BY <1>1, <1>2, <1>3, <1>4, <1>5, <1>6, <1>7, <1>8, <1>9, <1>10, <1>11,
       <1>12, <1>13, <1>14, <1>15, <1>16, <1>17, <1>18, <1>19, <1>20,
       <1>21, <1>22, <1>23, <1>24, <1>25, <1>26, <1>27, <1>28, <1>29
    DEF Next, StartStep, GsrStep, ReaderStep, StopStep

\* When every session is over, or never began, capture.flv is gone, whichever
\* recorder made it last and in whatever order the sessions stopped.
THEOREM DirectoryClean == Spec => []CleanDirectory
<1>1. Init => CleanDirectory
  BY DEF Init, CleanDirectory
<1>2. QED
  BY <1>1, ControlInit, ControlStep, CleanStep, PTL DEF Spec

-----------------------------------------------------------------------------
(* The flow of frames through the channel.                                 *)

Sorted(q) == \A j, k \in DOMAIN q : j < k => q[j] < q[k]

LEMMA AppendSorted ==
  ASSUME NEW q \in Seq(Nat), NEW e \in Nat, Sorted(q), \A m \in ToSet(q) : m < e
  PROVE  /\ Sorted(Append(q, e))
         /\ ToSet(Append(q, e)) = ToSet(q) \cup {e}
<1>1. /\ Len(Append(q, e)) = Len(q) + 1
      /\ DOMAIN q = 1..Len(q)
      /\ DOMAIN Append(q, e) = 1..(Len(q) + 1)
      /\ \A i \in 1..Len(q) : Append(q, e)[i] = q[i]
      /\ Append(q, e)[Len(q) + 1] = e
  OBVIOUS
<1>2. \A i \in 1..Len(q) : q[i] \in ToSet(q)
  BY <1>1 DEF ToSet
<1>3. Sorted(Append(q, e))
  BY <1>1, <1>2 DEF Sorted
<1>4. ToSet(Append(q, e)) = ToSet(q) \cup {e}
  BY <1>1 DEF ToSet
<1>5. QED
  BY <1>3, <1>4

LEMMA TailSorted ==
  ASSUME NEW q \in Seq(Nat), q # <<>>, Sorted(q)
  PROVE  /\ Sorted(Tail(q))
         /\ ToSet(q) = ToSet(Tail(q)) \cup {Head(q)}
         /\ \A m \in ToSet(Tail(q)) : Head(q) < m
<1>1. /\ Len(q) \in Nat \ {0}
      /\ Head(q) = q[1]
      /\ DOMAIN q = 1..Len(q)
      /\ DOMAIN Tail(q) = 1..(Len(q) - 1)
      /\ \A i \in 1..(Len(q) - 1) : Tail(q)[i] = q[i + 1]
  OBVIOUS
<1>2. Sorted(Tail(q))
  BY <1>1 DEF Sorted
<1>3. ToSet(q) = ToSet(Tail(q)) \cup {Head(q)}
  <2>1. \A i \in 1..Len(q) : i = 1 \/ i - 1 \in 1..(Len(q) - 1)
    BY <1>1
  <2>2. \A i \in 1..(Len(q) - 1) : i + 1 \in 1..Len(q)
    BY <1>1
  <2>3. ASSUME NEW m \in ToSet(q) PROVE m \in ToSet(Tail(q)) \cup {Head(q)}
    <3>1. PICK i \in 1..Len(q) : q[i] = m
      BY <1>1 DEF ToSet
    <3>2. CASE i = 1
      BY <1>1, <3>1, <3>2
    <3>3. CASE i - 1 \in 1..(Len(q) - 1)
      <4>1. Tail(q)[i - 1] = m
        BY <1>1, <3>1, <3>3
      <4>2. QED
        BY <1>1, <3>3, <4>1 DEF ToSet
    <3>4. QED
      BY <2>1, <3>2, <3>3
  <2>4. ASSUME NEW m \in ToSet(Tail(q)) PROVE m \in ToSet(q)
    BY <1>1, <2>2 DEF ToSet
  <2>5. Head(q) \in ToSet(q)
    BY <1>1 DEF ToSet
  <2>6. QED
    BY <2>3, <2>4, <2>5
<1>4. \A m \in ToSet(Tail(q)) : Head(q) < m
  BY <1>1 DEF ToSet, Sorted
<1>5. QED
  BY <1>2, <1>3, <1>4

\* Frames carry consecutive numbers from 1; whatever is on its way is older
\* than the counter, only the reader's and the task's own statement have a
\* frame in hand, and no keyframe is anywhere else.
FlowOf(s) ==
  /\ \A m \in ToSet(chan[s]) : 0 < m /\ m <= count[s]
  /\ \A m \in sent[s] \cup {writing[s], held[s]} : m <= count[s]
  /\ \A m \in keys[s] : 0 < m /\ m <= count[s]
  /\ reader[s] # "send" => held[s] = 0
  /\ task[s] # "write" => writing[s] = 0
  /\ reader[s] = "send" =>
       /\ \A n \in sent[s] \cup {writing[s]} : n < held[s]
       /\ \A m \in ToSet(chan[s]) : m < held[s]
  /\ \A n \in sent[s] \cup {writing[s]}, m \in ToSet(chan[s]) : n < m
  /\ task[s] = "write" => \A n \in sent[s] : n < writing[s]
  /\ Sorted(chan[s])
  /\ task[s] \in {"idle"} \cup Starting \cup Streaming =>
       keys[s] \subseteq sent[s] \cup ToSet(chan[s]) \cup {writing[s], held[s]}

Flow == \A s \in Sessions : FlowOf(s)

LEMMA FlowInit == Init => Flow
<1>1. ToSet(<<>>) = {} /\ Sorted(<<>>)
  BY DEF ToSet, Sorted
<1>2. QED
  BY <1>1 DEF Init, Flow, FlowOf

LEMMA FlowStep == ControlInv /\ Data /\ Flow /\ [Next]_vars => Flow'
  <1> SUFFICES ASSUME ControlInv, Data, Flow, [Next]_vars PROVE Flow'
    OBVIOUS
  <1> USE DEF ControlInv, Points, Flow, FlowOf, TaskState, ReaderState, Starting,
              Streaming, Stopping, Goto, kernelVars, taskVars, readerVars, gsrVars
  <1>0. /\ writing \in [Sessions -> Nat]
      /\ sent \in [Sessions -> SUBSET Nat]
      /\ count \in [Sessions -> Nat]
      /\ keys \in [Sessions -> SUBSET Nat]
      /\ held \in [Sessions -> Nat]
      /\ chan \in [Sessions -> Seq(Nat)]
      /\ \A t \in Sessions : ToSet(chan[t]) \subseteq Nat
    BY DEF Data, ToSet
  <1> USE <1>0
  <1>1. ASSUME NEW s \in Sessions, RemoveOld(s) PROVE Flow'
    BY <1>1 DEF RemoveOld
  <1>2. ASSUME NEW s \in Sessions, NotInstalled(s) PROVE Flow'
    BY <1>2 DEF NotInstalled
  <1>3. ASSUME NEW s \in Sessions, MkFifo(s) PROVE Flow'
    BY <1>3 DEF MkFifo
  <1>4. ASSUME NEW s \in Sessions, OpenKeeper(s) PROVE Flow'
    BY <1>4 DEF OpenKeeper, Fresh
  <1>5. ASSUME NEW s \in Sessions, SpawnReader(s) PROVE Flow'
    BY <1>5 DEF SpawnReader, Control, ControlOf
  <1>6. ASSUME NEW s \in Sessions, SpawnGsr(s) PROVE Flow'
    BY <1>6 DEF SpawnGsr
  <1>7. ASSUME NEW s \in Sessions, StartFails(s) PROVE Flow'
    BY <1>7 DEF StartFails
  <1>8. ASSUME NEW s \in Sessions, RecvVideo(s) PROVE Flow'
    <2>1. /\ chan[s] \in Seq(Nat) /\ chan[s] # <<>> /\ Sorted(chan[s])
          /\ chan' = [chan EXCEPT ![s] = Tail(@)]
          /\ writing' = [writing EXCEPT ![s] = Head(chan[s])]
      BY <1>8 DEF RecvVideo
    <2>2. /\ chan'[s] = Tail(chan[s]) /\ writing'[s] = Head(chan[s])
          /\ Sorted(chan'[s])
          /\ ToSet(chan[s]) = ToSet(chan'[s]) \cup {writing'[s]}
          /\ \A m \in ToSet(chan'[s]) : writing'[s] < m
      BY <2>1, TailSorted
    <2>3. \A t \in Sessions \ {s} : chan'[t] = chan[t] /\ writing'[t] = writing[t]
      BY <2>1
    <2>4. /\ sent'[s] = sent[s] /\ held'[s] = held[s] /\ count'[s] = count[s]
          /\ keys'[s] = keys[s] /\ reader'[s] = reader[s] /\ task'[s] = "write"
          /\ task[s] = "loop"
      BY <1>8 DEF RecvVideo
    <2>5. FlowOf(s)'
      BY <2>2, <2>4
    <2>6. ASSUME NEW t \in Sessions \ {s} PROVE FlowOf(t)'
      BY <1>8, <2>3 DEF RecvVideo
    <2>7. QED
      BY <2>5, <2>6
  <1>9. ASSUME NEW s \in Sessions, VideoWritten(s) PROVE Flow'
    <2>1. /\ sent'[s] = sent[s] \cup {writing[s]} /\ writing'[s] = 0
          /\ chan'[s] = chan[s] /\ held'[s] = held[s] /\ count'[s] = count[s]
          /\ keys'[s] = keys[s] /\ reader'[s] = reader[s]
          /\ task[s] = "write" /\ task'[s] = "loop"
      BY <1>9 DEF VideoWritten
    <2>2. FlowOf(s)'
      BY <2>1
    <2>3. ASSUME NEW t \in Sessions \ {s} PROVE FlowOf(t)'
      BY <1>9 DEF VideoWritten
    <2>4. QED
      BY <2>2, <2>3
  <1>10. ASSUME NEW s \in Sessions, Leave(s) PROVE Flow'
    BY <1>10 DEF Leave
  <1>11. ASSUME NEW s \in Sessions, GsrOpen(s) PROVE Flow'
    BY <1>11 DEF GsrOpen, Fresh
  <1>12. ASSUME NEW s \in Sessions, GsrWake(s) PROVE Flow'
    BY <1>12 DEF GsrWake
  <1>13. ASSUME NEW s \in Sessions, GsrWrite(s) PROVE Flow'
    BY <1>13 DEF GsrWrite
  <1>14. ASSUME NEW s \in Sessions, GsrDies(s) PROVE Flow'
    BY <1>14 DEF GsrDies, Die
  <1>15. ASSUME NEW s \in Sessions, ReaderOpen(s) PROVE Flow'
    BY <1>15 DEF ReaderOpen, Fresh, CloseReader
  <1>16. ASSUME NEW s \in Sessions, ReaderWake(s) PROVE Flow'
    BY <1>16 DEF ReaderWake
  <1>17. ASSUME NEW s \in Sessions, ReaderHeader(s) PROVE Flow'
    BY <1>17 DEF ReaderHeader, CloseReader, Ready
  <1>18. ASSUME NEW s \in Sessions, ReaderCheck(s) PROVE Flow'
    BY <1>18 DEF ReaderCheck, CloseReader
  <1>19. ASSUME NEW s \in Sessions, ReaderKey(s) PROVE Flow'
    BY <1>19 DEF ReaderKey, Ready
  <1>20. ASSUME NEW s \in Sessions, ReaderDelta(s) PROVE Flow'
    <2>1. CASE chan' = [chan EXCEPT ![s] = Append(@, count[s] + 1)]
      <3>1. /\ chan[s] \in Seq(Nat) /\ count[s] + 1 \in Nat /\ Sorted(chan[s])
            /\ \A m \in ToSet(chan[s]) : m < count[s] + 1
        OBVIOUS
      <3>2. /\ Sorted(chan'[s])
            /\ ToSet(chan'[s]) = ToSet(chan[s]) \cup {count[s] + 1}
        BY <2>1, <3>1, AppendSorted
      <3>3. \A t \in Sessions \ {s} : chan'[t] = chan[t]
        BY <2>1
      <3>4. /\ sent'[s] = sent[s] /\ writing'[s] = writing[s] /\ held'[s] = held[s]
            /\ count'[s] = count[s] + 1 /\ keys'[s] = keys[s] /\ task'[s] = task[s]
            /\ reader[s] = "demux" /\ reader'[s] = "check"
        BY <1>20 DEF ReaderDelta
      <3>5. FlowOf(s)'
        BY <3>2, <3>4
      <3>6. ASSUME NEW t \in Sessions \ {s} PROVE FlowOf(t)'
        BY <1>20, <3>3 DEF ReaderDelta
      <3>7. QED
        BY <3>5, <3>6
    <2>2. CASE UNCHANGED chan
      BY <1>20, <2>2 DEF ReaderDelta
    <2>3. QED
      BY <1>20, <2>1, <2>2 DEF ReaderDelta
  <1>21. ASSUME NEW s \in Sessions, ReaderGarbage(s) PROVE Flow'
    BY <1>21 DEF ReaderGarbage, CloseReader, Ready
  <1>22. ASSUME NEW s \in Sessions, ReaderEof(s) PROVE Flow'
    BY <1>22 DEF ReaderEof, CloseReader
  <1>23. ASSUME NEW s \in Sessions, ReaderSend(s) PROVE Flow'
    <2>1. CASE /\ Len(chan[s]) < ChanCap
               /\ chan' = [chan EXCEPT ![s] = Append(@, held[s])]
      <3>1. /\ chan[s] \in Seq(Nat) /\ held[s] \in Nat /\ Sorted(chan[s])
            /\ \A m \in ToSet(chan[s]) : m < held[s]
        BY <1>23 DEF ReaderSend
      <3>2. /\ Sorted(chan'[s])
            /\ ToSet(chan'[s]) = ToSet(chan[s]) \cup {held[s]}
        BY <2>1, <3>1, AppendSorted
      <3>3. \A t \in Sessions \ {s} : chan'[t] = chan[t]
        BY <2>1
      <3>4. /\ sent'[s] = sent[s] /\ writing'[s] = writing[s] /\ held'[s] = 0
            /\ count'[s] = count[s] /\ keys'[s] = keys[s] /\ task'[s] = task[s]
            /\ reader[s] = "send" /\ reader'[s] = "check"
        BY <1>23 DEF ReaderSend
      <3>5. FlowOf(s)'
        BY <3>1, <3>2, <3>4
      <3>6. ASSUME NEW t \in Sessions \ {s} PROVE FlowOf(t)'
        BY <1>23, <3>3 DEF ReaderSend
      <3>7. QED
        BY <3>5, <3>6
    <2>2. CASE task[s] \in {"done", "failed"} /\ UNCHANGED chan
      BY <1>23, <2>2 DEF ReaderSend
    <2>3. QED
      BY <1>23, <2>1, <2>2 DEF ReaderSend, RxOpen
  <1>24. ASSUME NEW s \in Sessions, SetStop(s) PROVE Flow'
    BY <1>24 DEF SetStop
  <1>25. ASSUME NEW s \in Sessions, KillGsr(s) PROVE Flow'
    BY <1>25 DEF KillGsr, Die
  <1>26. ASSUME NEW s \in Sessions, DropKeeper(s) PROVE Flow'
    BY <1>26 DEF DropKeeper
  <1>27. ASSUME NEW s \in Sessions, JoinReader(s) PROVE Flow'
    BY <1>27 DEF JoinReader
  <1>28. ASSUME NEW s \in Sessions, Unlink(s) PROVE Flow'
    BY <1>28 DEF Unlink
  <1>29. CASE UNCHANGED vars
    BY <1>29 DEF vars
  <1>30. QED
    BY <1>1, <1>2, <1>3, <1>4, <1>5, <1>6, <1>7, <1>8, <1>9, <1>10, <1>11,
       <1>12, <1>13, <1>14, <1>15, <1>16, <1>17, <1>18, <1>19, <1>20,
       <1>21, <1>22, <1>23, <1>24, <1>25, <1>26, <1>27, <1>28, <1>29
    DEF Next, StartStep, GsrStep, ReaderStep, StopStep

\* Frames reach the client in the order in which they were demuxed.
THEOREM FramesInOrder == Spec => []InOrder
<1>1. Flow => InOrder
  BY DEF Flow, FlowOf, InOrder, Ordered, Sorted
<1>2. QED
  BY <1>1, ControlInit, ControlStep, DataInit, DataStep, FlowInit, FlowStep, PTL DEF Spec

\* No keyframe is lost between the demuxer and the socket of a live session.
THEOREM NoKeyframeLost == Spec => []KeyframesKept
<1>1. Flow => KeyframesKept
  BY DEF Flow, FlowOf, KeyframesKept, Streaming
<1>2. QED
  BY <1>1, ControlInit, ControlStep, DataInit, DataStep, FlowInit, FlowStep, PTL DEF Spec

=============================================================================
