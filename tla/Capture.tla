------------------------------ MODULE Capture ------------------------------
(***************************************************************************)
(* The capture pipeline of ddrdeskd (src/src/capture.rs) as driven by the  *)
(* session task (the select loop of run_session in src/src/net.rs).        *)
(*                                                                         *)
(* Each session s owns four actors that run in parallel:                   *)
(*   task[s]    the tokio task: Capture::start, the video arm of the       *)
(*              loop, Capture::stop (explicit or through Drop);            *)
(*   reader[s]  the "ddrdesk-flv" thread, read_loop;                       *)
(*   gsr[s]     the gpu-screen-recorder child, an external program;        *)
(*   the kernel: the file named capture.flv and the pipe behind it.        *)
(*                                                                         *)
(* All sessions use the SAME path data_dir()/capture.flv, so the path is   *)
(* modelled as a name that can be rebound: an inode is a pair of its kind  *)
(* and the session that created it, and path is the inode the name denotes.*)
(*                                                                         *)
(* Video data is abstracted to FLV tags: the file header, a keyframe, a    *)
(* delta frame, or a torn tag cut short by the death of the recorder.  A   *)
(* frame that left the demuxer is its number in read_loop's counter n.     *)
(***************************************************************************)
EXTENDS Naturals, SequencesExt

CONSTANTS
  Sessions,   \* connections that authenticated and start a capture
  ChanCap,    \* capacity of the mpsc channel of access units
  PipeCap,    \* bound: tags that fit the pipe and the reader's BufReader
  MaxTags,    \* bound: frames one recorder emits
  Nil         \* no inode

Inode == {"fifo", "file"} \X Sessions

ASSUME CaptureAssumption ==
  /\ ChanCap \in Nat \ {0}
  /\ PipeCap \in Nat \ {0}
  /\ MaxTags \in Nat
  /\ Nil \notin Inode

VARIABLES
  path,      \* inode named capture.flv, or Nil
  pipe,      \* tags written to an inode and not yet read
  task,      \* control point of the session task
  keeper,    \* inode keep_open holds open for reading and writing
  stop,      \* the shared AtomicBool
  writing,   \* frame being written to the client, 0 when none
  sent,      \* frames written to the client
  reader,    \* control point of the reader thread
  rfd,       \* inode the reader resolved or opened
  count,     \* n of read_loop: access units demuxed
  keys,      \* the demuxed access units that are keyframes
  held,      \* keyframe inside blocking_send, 0 when none
  chan,      \* the mpsc channel
  gsr,       \* control point of the recorder
  gfd,       \* inode the recorder opened
  emitted    \* tags the recorder wrote

kernelVars == <<path, pipe>>
taskVars   == <<task, keeper, stop, writing, sent>>
readerVars == <<reader, rfd, count, keys, held>>
gsrVars    == <<gsr, gfd, emitted>>
vars == <<kernelVars, taskVars, readerVars, gsrVars, chan>>

Starting  == {"mkfifo", "keeper", "thread", "spawn"}
Streaming == {"loop", "write"}
Stopping  == {"stop", "kill", "drop", "join", "unlink"}
TaskState   == {"idle", "done", "failed"} \cup Starting \cup Streaming \cup Stopping
ReaderState == {"none", "open", "wait", "header", "check", "demux", "send", "done"}
GsrState    == {"none", "open", "wait", "run", "dead"}
Tag         == {"hdr", "key", "delta", "torn"}

TypeOK ==
  /\ path \in Inode \cup {Nil}
  /\ pipe \in [Inode -> Seq(Tag)]
  /\ task \in [Sessions -> TaskState]
  /\ keeper \in [Sessions -> Inode \cup {Nil}]
  /\ stop \in [Sessions -> BOOLEAN]
  /\ writing \in [Sessions -> Nat]
  /\ sent \in [Sessions -> SUBSET Nat]
  /\ reader \in [Sessions -> ReaderState]
  /\ rfd \in [Sessions -> Inode \cup {Nil}]
  /\ count \in [Sessions -> Nat]
  /\ keys \in [Sessions -> SUBSET Nat]
  /\ held \in [Sessions -> Nat]
  /\ chan \in [Sessions -> Seq(Nat)]
  /\ \A s \in Sessions : Len(chan[s]) <= ChanCap
  /\ gsr \in [Sessions -> GsrState]
  /\ gfd \in [Sessions -> Inode \cup {Nil}]
  /\ emitted \in [Sessions -> Nat]

Init ==
  /\ path = Nil
  /\ pipe = [i \in Inode |-> <<>>]
  /\ task = [s \in Sessions |-> "idle"]
  /\ keeper = [s \in Sessions |-> Nil]
  /\ stop = [s \in Sessions |-> FALSE]
  /\ writing = [s \in Sessions |-> 0]
  /\ sent = [s \in Sessions |-> {}]
  /\ reader = [s \in Sessions |-> "none"]
  /\ rfd = [s \in Sessions |-> Nil]
  /\ count = [s \in Sessions |-> 0]
  /\ keys = [s \in Sessions |-> {}]
  /\ held = [s \in Sessions |-> 0]
  /\ chan = [s \in Sessions |-> <<>>]
  /\ gsr = [s \in Sessions |-> "none"]
  /\ gfd = [s \in Sessions |-> Nil]
  /\ emitted = [s \in Sessions |-> 0]

-----------------------------------------------------------------------------
(* Pipe semantics of the kernel (fifo(7)).                                 *)

\* keep_open is opened read+write, so it counts on both sides.
HasWriter(i) == \E t \in Sessions : keeper[t] = i \/ gfd[t] = i
HasReader(i) == \E t \in Sessions : keeper[t] = i \/ rfd[t] = i

IsFile(i) == i[1] = "file"

\* What an open finds: a FIFO that no process has open holds no data.
Fresh(i) ==
  pipe' = IF IsFile(i) \/ HasWriter(i) \/ HasReader(i) THEN pipe
          ELSE [pipe EXCEPT ![i] = <<>>]

\* A read that can complete: a torn tag blocks until more bytes follow it.
Ready(i) ==
  /\ pipe[i] # <<>>
  /\ Head(pipe[i]) = "torn" => Len(pipe[i]) > 1

\* A read that ends the stream: nothing whole is left and nobody can add to it.
AtEof(i) == ~Ready(i) /\ (IsFile(i) \/ ~HasWriter(i))

\* The receiver vrx is a local of run_session, declared before the capture:
\* it lives until run_session has returned.
RxOpen(s) == task[s] \notin {"done", "failed"}

Goto(s, pc) == task' = [task EXCEPT ![s] = pc]

-----------------------------------------------------------------------------
(* Capture::start.                                                         *)

\* which_gsr, ensure_dir, then the unconditional remove_file of the path.
RemoveOld(s) ==
  /\ task[s] = "idle"
  /\ path' = Nil
  /\ Goto(s, "mkfifo")
  /\ UNCHANGED <<pipe, keeper, stop, writing, sent, readerVars, gsrVars, chan>>

\* gpu-screen-recorder is not installed, or the data directory is unusable.
NotInstalled(s) ==
  /\ task[s] = "idle"
  /\ Goto(s, "failed")
  /\ UNCHANGED <<kernelVars, keeper, stop, writing, sent, readerVars, gsrVars, chan>>

\* nix_mkfifo: mkfifo(2) refuses a path that exists again by now.
MkFifo(s) ==
  /\ task[s] = "mkfifo"
  /\ path = Nil
  /\ path' = <<"fifo", s>>
  /\ Goto(s, "keeper")
  /\ UNCHANGED <<pipe, keeper, stop, writing, sent, readerVars, gsrVars, chan>>

\* OpenOptions::read(true).write(true).open(&fifo): never blocks on a FIFO.
OpenKeeper(s) ==
  /\ task[s] = "keeper"
  /\ path # Nil
  /\ keeper' = [keeper EXCEPT ![s] = path]
  /\ Fresh(path)
  /\ Goto(s, "thread")
  /\ UNCHANGED <<path, stop, writing, sent, readerVars, gsrVars, chan>>

SpawnReader(s) ==
  /\ task[s] = "thread"
  /\ reader' = [reader EXCEPT ![s] = "open"]
  /\ Goto(s, "spawn")
  /\ UNCHANGED <<kernelVars, keeper, stop, writing, sent,
                 rfd, count, keys, held, gsrVars, chan>>

SpawnGsr(s) ==
  /\ task[s] = "spawn"
  /\ gsr' = [gsr EXCEPT ![s] = "open"]
  /\ Goto(s, "loop")
  /\ UNCHANGED <<kernelVars, keeper, stop, writing, sent, readerVars,
                 gfd, emitted, chan>>

\* Mutant of StartFails: the keeper is not closed.
StartFailsOpen(s) ==
  /\ task[s] \in Starting
  /\ Goto(s, "failed")
  /\ UNCHANGED <<kernelVars, keeper, stop, writing, sent, readerVars, gsrVars, chan>>

\* Any step of start returns Err by `?`: the locals are dropped, so the keeper
\* is closed and the JoinHandle is detached; nothing stops the reader thread
\* and nothing removes the FIFO.  mkfifo fails for sure when the path exists,
\* open for sure when it does not.
StartFails(s) ==
  /\ task[s] \in Starting
  /\ keeper' = [keeper EXCEPT ![s] = Nil]
  /\ Goto(s, "failed")
  /\ UNCHANGED <<kernelVars, stop, writing, sent, readerVars, gsrVars, chan>>

StartStep(s) ==
  \/ RemoveOld(s)
  \/ NotInstalled(s)
  \/ MkFifo(s)
  \/ OpenKeeper(s)
  \/ SpawnReader(s)
  \/ SpawnGsr(s)
  \/ StartFails(s)

-----------------------------------------------------------------------------
(* The session loop, video arm.                                            *)

\* Mutant of RecvVideo: the newest frame first.
RecvNewest(s) ==
  /\ task[s] = "loop"
  /\ chan[s] # <<>>
  /\ writing' = [writing EXCEPT ![s] = Last(chan[s])]
  /\ chan' = [chan EXCEPT ![s] = Front(@)]
  /\ Goto(s, "write")
  /\ UNCHANGED <<kernelVars, keeper, stop, sent, readerVars, gsrVars>>

\* vrx.recv() wins the select; the handler awaits write_frame.
RecvVideo(s) ==
  /\ task[s] = "loop"
  /\ chan[s] # <<>>
  /\ writing' = [writing EXCEPT ![s] = Head(chan[s])]
  /\ chan' = [chan EXCEPT ![s] = Tail(@)]
  /\ Goto(s, "write")
  /\ UNCHANGED <<kernelVars, keeper, stop, sent, readerVars, gsrVars>>

VideoWritten(s) ==
  /\ task[s] = "write"
  /\ sent' = [sent EXCEPT ![s] = @ \cup {writing[s]}]
  /\ writing' = [writing EXCEPT ![s] = 0]
  /\ Goto(s, "loop")
  /\ UNCHANGED <<kernelVars, keeper, stop, readerVars, gsrVars, chan>>

\* Goodbye, a read error, a failed video write, an error return of the loop or
\* the end of the runtime, which drops the task: each ends in Capture::stop.
Leave(s) ==
  /\ task[s] \in Streaming
  /\ writing' = [writing EXCEPT ![s] = 0]
  /\ Goto(s, "stop")
  /\ UNCHANGED <<kernelVars, keeper, stop, sent, readerVars, gsrVars, chan>>

-----------------------------------------------------------------------------
(* The recorder, an external process: "gpu-screen-recorder -o <path>".     *)

\* It opens the path it was given for writing: a missing file is created, an
\* existing file truncated, and a FIFO blocks the open until it has a reader.
GsrOpen(s) ==
  /\ gsr[s] = "open"
  /\ LET i == IF path = Nil THEN <<"file", s>> ELSE path IN
       /\ path' = i
       /\ gfd' = [gfd EXCEPT ![s] = i]
       /\ gsr' = [gsr EXCEPT ![s] = IF IsFile(i) \/ HasReader(i) THEN "run" ELSE "wait"]
       /\ IF IsFile(i) THEN pipe' = [pipe EXCEPT ![i] = <<>>] ELSE Fresh(i)
  /\ UNCHANGED <<taskVars, readerVars, emitted, chan>>

GsrWake(s) ==
  /\ gsr[s] = "wait"
  /\ HasReader(gfd[s])
  /\ gsr' = [gsr EXCEPT ![s] = "run"]
  /\ UNCHANGED <<kernelVars, taskVars, readerVars, gfd, emitted, chan>>

\* The FLV header first, then frames; a full pipe blocks the write.
GsrWrite(s) ==
  /\ gsr[s] = "run"
  /\ emitted[s] <= MaxTags
  /\ IsFile(gfd[s]) \/ HasReader(gfd[s])
  /\ Len(pipe[gfd[s]]) < PipeCap
  /\ \E t \in IF emitted[s] = 0 THEN {"hdr"} ELSE {"key", "delta"} :
       pipe' = [pipe EXCEPT ![gfd[s]] = Append(@, t)]
  /\ emitted' = [emitted EXCEPT ![s] = @ + 1]
  /\ UNCHANGED <<path, taskVars, readerVars, gsr, gfd, chan>>

\* Death closes its write end; a tag being written may stay torn in the pipe.
Die(s) ==
  /\ gsr' = [gsr EXCEPT ![s] = "dead"]
  /\ gfd' = [gfd EXCEPT ![s] = Nil]
  /\ \/ UNCHANGED pipe
     \/ /\ gsr[s] = "run"
        /\ pipe' = [pipe EXCEPT ![gfd[s]] = Append(@, "torn")]

\* A crash of the recorder, or SIGPIPE when the FIFO lost its last reader.
GsrDies(s) ==
  /\ gsr[s] \in {"open", "wait", "run"}
  /\ Die(s)
  /\ UNCHANGED <<path, taskVars, readerVars, emitted, chan>>

GsrStep(s) == GsrOpen(s) \/ GsrWake(s) \/ GsrWrite(s) \/ GsrDies(s)

-----------------------------------------------------------------------------
(* read_loop.                                                              *)

CloseReader(s) ==
  /\ reader' = [reader EXCEPT ![s] = "done"]
  /\ rfd' = [rfd EXCEPT ![s] = Nil]

\* open(O_RDONLY): the path is resolved once; the open of a FIFO that nobody
\* holds open for writing blocks.
ReaderOpen(s) ==
  /\ reader[s] = "open"
  /\ IF path = Nil
     THEN CloseReader(s) /\ UNCHANGED pipe
     ELSE /\ Fresh(path)
          /\ rfd' = [rfd EXCEPT ![s] = path]
          /\ reader' = [reader EXCEPT ![s] =
                          IF IsFile(path) \/ HasWriter(path) THEN "header" ELSE "wait"]
  /\ UNCHANGED <<path, taskVars, count, keys, held, gsrVars, chan>>

ReaderWake(s) ==
  /\ reader[s] = "wait"
  /\ HasWriter(rfd[s])
  /\ reader' = [reader EXCEPT ![s] = "header"]
  /\ UNCHANGED <<kernelVars, taskVars, rfd, count, keys, held, gsrVars, chan>>

\* skip_flv_header: anything but an FLV header ends the thread.
ReaderHeader(s) ==
  /\ reader[s] = "header"
  /\ Ready(rfd[s])
  /\ pipe' = [pipe EXCEPT ![rfd[s]] = Tail(@)]
  /\ IF Head(pipe[rfd[s]]) = "hdr"
     THEN reader' = [reader EXCEPT ![s] = "check"] /\ UNCHANGED rfd
     ELSE CloseReader(s)
  /\ UNCHANGED <<path, taskVars, count, keys, held, gsrVars, chan>>

\* while !stop.load(SeqCst)
ReaderCheck(s) ==
  /\ reader[s] = "check"
  /\ IF stop[s] THEN CloseReader(s)
     ELSE reader' = [reader EXCEPT ![s] = "demux"] /\ UNCHANGED rfd
  /\ UNCHANGED <<kernelVars, taskVars, count, keys, held, gsrVars, chan>>

\* next_au returned a keyframe: blocking_send.
ReaderKey(s) ==
  /\ reader[s] = "demux"
  /\ Ready(rfd[s])
  /\ Head(pipe[rfd[s]]) = "key"
  /\ pipe' = [pipe EXCEPT ![rfd[s]] = Tail(@)]
  /\ count' = [count EXCEPT ![s] = @ + 1]
  /\ keys' = [keys EXCEPT ![s] = @ \cup {count[s] + 1}]
  /\ held' = [held EXCEPT ![s] = count[s] + 1]
  /\ reader' = [reader EXCEPT ![s] = "send"]
  /\ UNCHANGED <<path, taskVars, rfd, gsrVars, chan>>

\* Mutant of ReaderDelta: an unbounded channel.
ReaderDeltaUnbounded(s) ==
  /\ reader[s] = "demux"
  /\ Ready(rfd[s])
  /\ Head(pipe[rfd[s]]) = "delta"
  /\ pipe' = [pipe EXCEPT ![rfd[s]] = Tail(@)]
  /\ count' = [count EXCEPT ![s] = @ + 1]
  /\ chan' = IF RxOpen(s) THEN [chan EXCEPT ![s] = Append(@, count[s] + 1)] ELSE chan
  /\ reader' = [reader EXCEPT ![s] = "check"]
  /\ UNCHANGED <<path, taskVars, rfd, keys, held, gsrVars>>

\* next_au returned a delta frame: try_send drops it when the channel is full
\* or closed.
ReaderDelta(s) ==
  /\ reader[s] = "demux"
  /\ Ready(rfd[s])
  /\ Head(pipe[rfd[s]]) = "delta"
  /\ pipe' = [pipe EXCEPT ![rfd[s]] = Tail(@)]
  /\ count' = [count EXCEPT ![s] = @ + 1]
  /\ chan' = IF RxOpen(s) /\ Len(chan[s]) < ChanCap
             THEN [chan EXCEPT ![s] = Append(@, count[s] + 1)]
             ELSE chan
  /\ reader' = [reader EXCEPT ![s] = "check"]
  /\ UNCHANGED <<path, taskVars, rfd, keys, held, gsrVars>>

\* A torn tag, or the header of a second recorder in the middle of the stream:
\* next_au fails and the thread ends, or a bogus tag length swallows the bytes.
ReaderGarbage(s) ==
  /\ reader[s] = "demux"
  /\ Ready(rfd[s])
  /\ Head(pipe[rfd[s]]) \in {"torn", "hdr"}
  /\ pipe' = [pipe EXCEPT ![rfd[s]] = Tail(@)]
  /\ CloseReader(s) \/ UNCHANGED <<reader, rfd>>
  /\ UNCHANGED <<path, taskVars, count, keys, held, gsrVars, chan>>

\* End of file: Ok(None), or Err in the middle of a tag or of the header.
ReaderEof(s) ==
  /\ reader[s] \in {"header", "demux"}
  /\ AtEof(rfd[s])
  /\ CloseReader(s)
  /\ UNCHANGED <<kernelVars, taskVars, count, keys, held, gsrVars, chan>>

\* Mutant of ReaderSend: try_send for keyframes too.
ReaderTrySend(s) ==
  /\ reader[s] = "send"
  /\ chan' = IF RxOpen(s) /\ Len(chan[s]) < ChanCap
             THEN [chan EXCEPT ![s] = Append(@, held[s])]
             ELSE chan
  /\ held' = [held EXCEPT ![s] = 0]
  /\ reader' = [reader EXCEPT ![s] = "check"]
  /\ UNCHANGED <<kernelVars, taskVars, rfd, count, keys, gsrVars>>

\* blocking_send completes when the channel has room, or fails when it closed.
ReaderSend(s) ==
  /\ reader[s] = "send"
  /\ \/ /\ RxOpen(s)
        /\ Len(chan[s]) < ChanCap
        /\ chan' = [chan EXCEPT ![s] = Append(@, held[s])]
     \/ ~RxOpen(s) /\ UNCHANGED chan
  /\ held' = [held EXCEPT ![s] = 0]
  /\ reader' = [reader EXCEPT ![s] = "check"]
  /\ UNCHANGED <<kernelVars, taskVars, rfd, count, keys, gsrVars>>

ReaderStep(s) ==
  \/ ReaderOpen(s)
  \/ ReaderWake(s)
  \/ ReaderHeader(s)
  \/ ReaderCheck(s)
  \/ ReaderKey(s)
  \/ ReaderDelta(s)
  \/ ReaderGarbage(s)
  \/ ReaderEof(s)
  \/ ReaderSend(s)

-----------------------------------------------------------------------------
(* Capture::stop, in the order of its statements.                          *)

SetStop(s) ==
  /\ task[s] = "stop"
  /\ stop' = [stop EXCEPT ![s] = TRUE]
  /\ Goto(s, "kill")
  /\ UNCHANGED <<kernelVars, keeper, writing, sent, readerVars, gsrVars, chan>>

\* Mutant of KillGsr: the child is left alone.
LeaveGsr(s) ==
  /\ task[s] = "kill"
  /\ Goto(s, "drop")
  /\ UNCHANGED <<kernelVars, keeper, stop, writing, sent, readerVars, gsrVars, chan>>

\* child.kill() and child.wait()
KillGsr(s) ==
  /\ task[s] = "kill"
  /\ IF gsr[s] = "dead" THEN UNCHANGED <<gsr, gfd, pipe>> ELSE Die(s)
  /\ Goto(s, "drop")
  /\ UNCHANGED <<path, keeper, stop, writing, sent, readerVars, emitted, chan>>

\* Mutant of DropKeeper: keep_open outlives the join.
KeepKeeper(s) ==
  /\ task[s] = "drop"
  /\ Goto(s, "join")
  /\ UNCHANGED <<kernelVars, keeper, stop, writing, sent, readerVars, gsrVars, chan>>

\* drop(self.keep_open.take())
DropKeeper(s) ==
  /\ task[s] = "drop"
  /\ keeper' = [keeper EXCEPT ![s] = Nil]
  /\ Goto(s, "join")
  /\ UNCHANGED <<kernelVars, stop, writing, sent, readerVars, gsrVars, chan>>

\* Mutant of JoinReader: the handle is dropped instead of joined.
DetachReader(s) ==
  /\ task[s] = "join"
  /\ Goto(s, "unlink")
  /\ UNCHANGED <<kernelVars, keeper, stop, writing, sent, readerVars, gsrVars, chan>>

\* h.join(): blocks the tokio worker until the reader thread has ended.
JoinReader(s) ==
  /\ task[s] = "join"
  /\ reader[s] = "done"
  /\ Goto(s, "unlink")
  /\ UNCHANGED <<kernelVars, keeper, stop, writing, sent, readerVars, gsrVars, chan>>

\* Mutant of Unlink: the file stays behind.
KeepFile(s) ==
  /\ task[s] = "unlink"
  /\ Goto(s, "done")
  /\ UNCHANGED <<kernelVars, keeper, stop, writing, sent, readerVars, gsrVars, chan>>

\* remove_file(&self.fifo), whatever the path names by now.
Unlink(s) ==
  /\ task[s] = "unlink"
  /\ path' = Nil
  /\ Goto(s, "done")
  /\ UNCHANGED <<pipe, keeper, stop, writing, sent, readerVars, gsrVars, chan>>

StopStep(s) ==
  SetStop(s) \/ KillGsr(s) \/ DropKeeper(s) \/ JoinReader(s) \/ Unlink(s)

-----------------------------------------------------------------------------
Next ==
  \E s \in Sessions :
    \/ StartStep(s)
    \/ RecvVideo(s)
    \/ VideoWritten(s)
    \/ Leave(s)
    \/ GsrStep(s)
    \/ ReaderStep(s)
    \/ StopStep(s)

\* Threads are scheduled: the reader thread and a task inside Capture::stop
\* make progress whenever they can.  Nothing is assumed of the recorder, of
\* the client (a write may stay pending) or of the moment a session ends.
Fairness == \A s \in Sessions : WF_vars(ReaderStep(s)) /\ WF_vars(StopStep(s))

Spec == Init /\ [][Next]_vars
FairSpec == Spec /\ Fairness

-----------------------------------------------------------------------------
(* Safety.                                                                 *)

\* A recorder process runs only while its session can still reach child.kill():
\* no exit of run_session, through Capture::stop or through an error of
\* Capture::start, leaves gpu-screen-recorder behind (capture.rs stop, Drop).
RecorderOwned ==
  \A s \in Sessions :
    gsr[s] \in {"open", "wait", "run"} => task[s] \in Streaming \cup {"stop", "kill"}

\* When Capture::stop has returned, the reader thread has ended and neither it
\* nor keep_open holds a FIFO: a later session cannot be fed by an old one.
StopReleasesAll ==
  \A s \in Sessions :
    task[s] \in {"unlink", "done"} =>
      /\ reader[s] = "done"
      /\ rfd[s] = Nil
      /\ keeper[s] = Nil
      /\ gfd[s] = Nil

\* While a session streams, every keyframe read_loop demuxed has been written,
\* is being written, is queued, or waits in blocking_send: a full channel never
\* drops the frame that the client needs to resynchronise (read_loop, is_key).
KeyframesKept ==
  \A s \in Sessions :
    task[s] \in Streaming =>
      keys[s] \subseteq sent[s] \cup ToSet(chan[s]) \cup {writing[s], held[s]}

\* Frames reach the client in the order they were demuxed, whatever was dropped
\* in between: everything sent is older than the frame being written, which is
\* older than the queue, which is sorted and older than the held keyframe.
Ordered(s) ==
  /\ \A n \in sent[s] \cup {writing[s]}, m \in ToSet(chan[s]) : n < m
  /\ \A n \in sent[s] : task[s] = "write" => n < writing[s]
  /\ \A j, k \in DOMAIN chan[s] : j < k => chan[s][j] < chan[s][k]
  /\ reader[s] = "send" => \A m \in ToSet(chan[s]) : m < held[s]

InOrder == \A s \in Sessions : Ordered(s)

\* When no capture is starting, running or stopping and no start failed, the
\* data directory holds no capture.flv, neither a FIFO nor a file a recorder
\* created after another session had removed the FIFO (remove_file in stop).
CleanDirectory ==
  (\A s \in Sessions : task[s] \in {"idle", "done"}) => path = Nil

-----------------------------------------------------------------------------
(* Liveness.                                                               *)

\* The reader sits in blocking_send and the only receiver is the task that
\* joins it.
SendStuck(s) ==
  task[s] = "join" /\ reader[s] = "send" /\ Len(chan[s]) = ChanCap

\* The reader resolved the FIFO after the last writer had gone.
OpenStuck(s) ==
  reader[s] = "wait" /\ ~HasWriter(rfd[s])

\* The reader is past its open and has not ended.
Reading(s) == reader[s] \in {"header", "check", "demux", "send"}

\* Another session keeps the inode this reader reads from open for writing.
ForeignWriter(s) ==
  /\ task[s] \in {"join", "failed"}
  /\ Reading(s)
  /\ \E t \in Sessions \ {s} : rfd[s] \in {keeper[t], gfd[t]}

Stuck(s) == SendStuck(s) \/ OpenStuck(s) \/ ForeignWriter(s)

Settled(s) == task[s] \in {"done", "failed"} /\ reader[s] \in {"none", "done"}

\* A capture that is being stopped, or whose start failed, settles: the stop
\* returns and the reader thread ends.  It stays unsettled only as long as one
\* of the three named states lasts: a reader that a foreign writer held, or
\* that waited in its open, must settle when that writer goes or comes.
SettlesUnlessStuck ==
  \A s \in Sessions : task[s] \in {"stop", "failed"} ~> [](Settled(s) \/ Stuck(s))

\* "Unblock the reader: drop our FIFO write end so read() sees EOF"
\* (capture.rs:109): with one session, a stop that joins a reader past its open
\* returns.  It does not when the reader is in blocking_send, or gets there with
\* what is left in the pipe, and the channel is full (capture.rs:242).
DropUnblocksReader ==
  \A s \in Sessions : (task[s] = "join" /\ Reading(s)) ~> task[s] = "done"

=============================================================================
