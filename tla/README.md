# Verification of the DDRDesk host

TLA+ models, model-checking runs and machine-checked proofs for `ddrdeskd`, the
Linux host of DDRDesk: a Rust daemon (tokio, multi-threaded runtime) that lets a
phone or tablet see and control a KDE Plasma laptop. Paths below are relative to
the root of the repository; a definition's exact lines are in `PROJECT.json`
(`map`).

## 1. The system

| Component | Source | State | Operations | Module |
|---|---|---|---|---|
| Capture pipeline | `src/capture.rs` | FIFO `capture.flv`, `keep_open`, `stop` flag, reader thread, recorder child, mpsc channel of 4 | `Capture::start`, `stop`, `Drop`, `read_loop` | `Capture` |
| Session | `src/net.rs` (`run_session`) | control point, `vrx`, injector, scale | handshake, select loop, cleanup, every `?` | `Host`, video arm in `Capture`, read arm in `Framing` |
| Display adapter | `src/display.rs` | static `SAVED`, `saved-output.json`, the outputs of Plasma | `save_current`, `restore`, `apply_viewport`, `apply_ui_scale` | `Host` |
| Client counter, status | `src/status.rs` | static `CLIENTS`, `status.json` | `client_connected`, `client_disconnected`, `write` | `Host` |
| Start and shutdown | `src/main.rs`, `systemd/ddrdesk.service` | the main task | start, select over serve and signals, restore, exit, restart | `Boot` up to the listener, `Host` from there |
| Identity | `src/id.rs` | `connection-id`, `CONNECTION-ID.txt` | `load_or_create_id`, `regen_id` | `Boot` |
| TLS files | `src/tls.rs` | `cert.pem`, `key.pem` | `load_or_create` | `Boot` |
| Wire framing | `src/proto.rs`, `src/net.rs` | bytes inside the pending `read_frame` future | `read_frame`, cancelled by `select!` | `Framing`, abstract `FrameChannel` |
| Input injection | `src/input.rs`, `src/net.rs` (`apply_input`, `pointer_scale_for`) | keys down on two uinput devices, scale of the pointer | `key`, `button`, `text`, `type_char`, `tap`, `move_rel`, `wheel` | `Injector` |
| Rate limit | `src/net.rs` (`RateLimit`) | map from address to count and start | `allow` | `RateLimit` |
| FLV demuxer | `src/flv.rs` | SPS/PPS, size of NAL lengths | `next_au`, `read_tag`, `parse_avcc`, `avcc_to_annexb` | `Demux`; effect on the thread in `Capture` |
| Discovery, STUN | `src/discover.rs`, `src/stun.rs` | none | mDNS registration, UPnP, one STUN request | `Boot`: that the start waits for them |
| Panel, `ddrdesk-ctl` | `gui/`, `scripts/ddrdesk-ctl` | none of the daemon's | `--regen-id`, start, stop, restart; reads `status.json` | `Boot` |
| Wire messages | `src/proto.rs` | none | serde types | not modelled |
| Installation, packaging | `scripts/install.sh`, `scripts/uninstall.sh`, `packaging/`, `udev/` | none | | not modelled |

How they interact. `serve` spawns one task per connection; nothing limits or
orders them (`active` is created and passed on, never locked). A task changes the
display before it greets the client, counts itself, starts its own `Capture` and
then waits in a `select!` for an access unit from its reader thread or a frame
from its client. On the way out it stops the capture, which blocks the worker
thread in a `join`, restores the display, uncounts itself and rewrites
`status.json`. All sessions share the FIFO path, `SAVED`, `saved-output.json`,
`CLIENTS` and `status.json`. `main` restores once more after a signal, while
session tasks may still run. Before the listener exists the daemon shares the id
files with other runs of the same binary, `ddrdeskd --print-id` and `--regen-id`,
which the panel and the user start whenever they like.

What is hard here: blocking joins and opens between two threads, a child process
and the kernel's pipe rules; check-then-act on shared statics from parallel
tasks; a cancelled future that held bytes; error returns that skip the cleanup;
files written in place and a process that can die at any point. The list, line by
line, is `hazards` in `PROJECT.json`, each with the properties that cover it or
the reason why none does.

What makes each component correct:

- capture: a stopped session leaves no recorder, thread, descriptor or file;
  keyframes are never dropped, frames never reordered; `stop` returns;
- display: nothing is changed before it is recorded, the record is the user's,
  it survives a crash, and it is back when the client is gone;
- counter and status: the number is that of the sessions, the file agrees;
- framing: each frame is dispatched once, whole, in order;
- demuxer: an access unit is units of its picture, in order and whole, with the
  current parameter sets exactly when it is a keyframe, and only a tag that lacks
  bytes ends the stream;
- input: no key stays down that the client does not hold, a text or a motion
  arrives as meant;
- start: the id and the certificate that clients have stored stay good, the files
  agree, and a service that is wanted comes to listen;
- rate limit: no try is refused without cause, a bounded number is allowed.

## 2. Modules and their correspondence to the code

### Capture

One action per statement of `Capture::start` and `Capture::stop` that touches
something shared, one per step of `read_loop`, and the actors outside `src/`: the
recorder and the kernel's FIFO. Variables are grouped by owner (`kernelVars`,
`taskVars`, `readerVars`, `gsrVars`).

- The path is a name that can be rebound: `path` is an inode, a pair of a kind
  and of the session that made it. `remove_file` unbinds the name, descriptors
  keep the inode. A recorder that opens a path that is gone creates a file.
- `HasWriter`, `HasReader`, `Ready` and `AtEof` are the rules of fifo(7): an open
  for reading blocks without a writer, one for writing without a reader,
  `keep_open` (read and write) never blocks and counts on both sides, a read ends
  when the last writer has gone, and a FIFO nobody has open is empty (`Fresh`).
- Video is abstracted to FLV tags: header, keyframe, delta frame, torn tag. The
  number of an access unit is the counter `n` of `read_loop`.
- The `?` of `start` are one action, `StartFails`: the keeper is closed with the
  locals, the thread is detached, nothing is stopped or removed.
- `Leave` stands for all ways out of the loop, the drop of the task at the end of
  the runtime included: each ends in `stop`, directly or through `Drop`. The receiver of the channel
  is a local of `run_session`, so it outlives `stop` (`RxOpen`).
- Abstractions: a regular file is a pipe whose reader sees the end at once; a
  torn tag is read only when more bytes follow; `ReaderGarbage` lets a bad tag
  either end the thread or swallow bytes, as its length happens to say.

### Host

One connection is a control point `pc[c]`; the main task is one more actor. An
action is one access to shared state: the load of `SAVED`, the read of the
display, the truncation and the write of `saved-output.json`, the store to
`SAVED`, each `kscreen-doctor` call, each update or load of `CLIENTS`, each write
of `status.json`. `call` says which routine a shared helper (`save_current`,
`status::write`) returns to.

- A configuration is a value: one of `UserModes`, or `Remote`, anything the
  daemon sets. Which mode and scale it picks is not modelled.
- Every call of `kscreen-doctor` may fail. `save_current` may fail, and its
  result is ignored, as in the code. A write of `saved-output.json` or of
  `status.json` may fail at its open, which leaves the old file, or later, which
  leaves a cut one; both are the fault `disk`. The first `status.json` of a
  behaviour has been written; that of a restart may fail (`Boot`).
- Errors after the display was changed (`GreetFails`, `CaptureFails`, `Abandon`)
  end the session without cleanup, as `?` does: the fault `exit`. The same `?` on
  the result of `serve` ends the daemon without a restore: the fault `serve`.
- `Exit` waits until every task is at an await: the runtime drops tasks there
  and not inside blocking code. `Crash` is possible at every point, `Boot` is
  the restart by systemd.
- `UserChange` happens between sessions only: what a restore should bring back
  is otherwise undefined. `Login` happens at any point.
- `Loan` is what all this is for: the display is lent and given back. Its `owed` is
  what a restore would bring back (`RestoreTarget`), its `serving` that a session is
  past the handshake or main restores. A step of `Host` is a move of the loan:
  `SaveTruncate` forgets an older record, `SaveWrite` remembers, `Apply` lends,
  `RestoreApply` gives back; a crash ends the serving and must not lose what is
  owed. After an error exit of a session or of `serve`, a crash or a failed restore
  the display may stay lent (`Excused`); after a failed save or write, an overlap, a restart on a lent
  display or a session that saves or changes the display once main has left its
  select (`late`), nothing is promised (`Spoiled`).
- `faults`, `chosen`, `leaked`, `sessions` and `boots` are history variables;
  `faults` names what went wrong so that a property can say what it tolerates.
  `leaked` counts sessions that ended by an error after they were counted.
- Abstractions: the write of `status.json` is one step; a reader of the file in
  the middle of a write is not modelled. The locals of a task are cleared when
  they are dead. `Capture::stop` returns here; when it does not is the subject
  of `Capture`.

### Boot

Two processes, the daemon and the tool, each at a control point; the contents of
the five files; systemd and the user as the environment.

- `fs::write` is two steps, `Open` (which truncates) and `Write`; a process may
  die, fail or be read by the other one in between. A content is `Nil` (no file),
  `Torn` (cut) or the number of an id or of a pair. An id is never drawn twice.
- `ReadId` and `GenerateId` are `load_or_create_id` and `regen_id`: one test of
  the file, then the writes of both files. A valid `connection-id` ends it at
  once, so that `CONNECTION-ID.txt` is not made again.
- `MakePair`, `LoadPair` and `LoadFails` are `tls::load_or_create`: a pair is made
  when one of the files is missing, and a pair that does not parse or does not
  belong together ends the process, by `?` or by the index into an empty list.
- `Upnp` and `Stun` return whatever they return; `Bind` is where clients get in.
- `Kill`, `Stop`, `WriteFails` and `BindFails` share the bound `MaxTroubles`.
  `stale`, `renewed`, `faults`, `accepted`, `pins` and `printed` are history.
- Abstraction: the life of a listening daemon is one point here, and the subject
  of `Host`.

### Framing and FrameChannel

`FrameChannel` is the promise: up to the first fragile frame, frames 1, 2, ... are
received once, in order, and eventually, to a receiver that comes back to receive;
the first frame that is too long ends the session; from a fragile frame on frames
may be lost or mistaken, and those that come whole are still in order. `Framing` is
`read_frame` over a byte stream. A byte is a pair of the frame it belongs to and its
position, so a wrongly cut frame is recognised (`Junk`). `loop` says where the
session is: in its `select!` (`reading`), in a handler that awaits `write_frame`
(`writing`, from `VideoWins` or from a handler of a frame, until `Written`), at its
end (`left`, by a read that fails or finds the end of the stream, a write that fails,
or a handler), or refused by `read_frame` for the length. `Poll` is one poll of the
future, `VideoWins` the drop of the future by `select!`; `ClientHello` is read before
the loop and cannot be cancelled. `Pieces` are the frames that may be delivered in
several parts. The length decoded from bytes that are not a prefix is any number
up to one past the maximum. `Abstract == INSTANCE FrameChannel WITH Fragile <-
Pieces \ {1}` is the refinement mapping: what is fragile is every frame in pieces
but `ClientHello`, and what is too long is a frame longer than `MaxFrame` (`TooLong`).

### Demux

What the recorder means (`config`, the content of a picture) next to the bytes it
writes for it (`Record`, `Prefixed`). A tag may lack any number of bytes at its end
(`Cuts`): `Body`, what the demuxer gets, ends inside a unit, inside a length, between
two units or after the SPS of a record, and `config` is the record as it arrived
(`Arrived`); `ParseAvcc` and `AnnexB` are its two parsers. A parser's
state is whether it goes on, the index of the code and what it has put out; a turn
of a loop maps one to the next (`SetTurn` in `parse_avcc`, `AnnexBTurn` in
`avcc_to_annexb`), `Unit` is what both do with a length and the unit behind it, and
the loop is a recursive function over the number of turns: as many as the record
counts, or up to the first state in which `Over` holds. `Configure`, `Picture` and
`Skip` are the arms of `read_tag`, `Return` and `EndOfStream` those of its callers.
`MeantSets` and `Meanings` are the reference: what the parameter sets and the units of
a picture should become, `Brings` how many of its units a tag holds. The code accepts
a record that ends with its SPS, without its PPS (flv.rs:121), and a picture of which
less than a length is left, without the units that are missing (flv.rs:149);
`SetsCurrent` and `UnitExact` say so. A keyframe before any record is handed on
without parameter sets. A length is written as its digits (`Put`, by `Shifted`) and read back by `Number`; the
muxer writes only lengths that fit (`Fits`). A start code is one marker; that a NAL
unit cannot contain one is the encoder's part. The first four bytes of a tag's body
after its type are skipped by the code and not modelled, nor is the timestamp.

### Injector

The tables (`ascii_key`, the names of `key`, the control characters) by one or
two representatives per class; a name that `key` does not know whole stands for the
key of its first character (`KeyOf`), so `F13` presses F and `audio` presses A; the emits of a character as sequences of presses
and releases. One turn of the loop of `text` is one step (`NextChar`), and so is
each call of `emit` (`Emit`, or `EmitFails`, whose error ends the message and the
text). The kernel takes the events of a write one by one (`KeyGoesDown`,
`KeyGoesUp`, `AxisMoves`): it drops a press of a key that is down and a release of
one that is up, and the desktop sees the rest with the modifiers that are down at
that moment. `MeantBy`, `MeantMove` and `MeantWheel` are the reference: the
keystrokes a character, the motions a move or a wheel stands for; `meant` is what
the messages so far, a text as far as it is typed, stand for. `PointerScale`,
`Rounded`, `Saturated` and `Wrapped` are the arithmetic between the two, in tenths
instead of floats.

- `NewViewport` and `UiScale` change the scale in the middle of a session. The
  `vp` of the Viewport arm shadows that of `ClientHello`, so `UiScale` computes
  the scale for the viewport the session began with: `hello` stays, and the
  history variable `behind` says that the scale is not that of the current one.
- The pointer's place and the size of the screen are kept by the code and read by
  nothing, and left out. `x + dx` of a motion that saturates could leave `i32`: a
  release build wraps, and nothing sees it.
- Each session has devices of its own, which the kernel releases when the session
  ends; how the desktop merges the modifiers of several keyboards is outside the
  repository. A session without an injector drops input and is not modelled.

### RateLimit

`allow` as one action (it runs under a mutex), with `retain` first and the new
window after it, on a clock of ticks. `tries` is the history the properties are
about. It is called for wrong ids only.

### Mutants

An operator introduced by "Mutant of D" is a variant of the definition D that
follows it, with a bug one could make in that code. It is used nowhere in the
specification; `PROJECT.json` (`mutants`) pairs each with the property that
detects it.

## 3. Runs

Passing runs:

| Run | Bounds | Shows |
|---|---|---|
| `capture` | channel of 2, 2 tags in the pipe; 1 session that emits 4 tags, or 2 sessions whose recorders emit the header only (`HeadersWhenTwo`) | `TypeOK`, `KeyframesKept`, `InOrder`; `RecorderOwned`, `StopReleasesAll`, `CleanDirectory` while two sessions rebind the same path; `SettlesUnlessStuck`: a stop returns and its thread ends, except as long as one of three named states lasts |
| `host` | 2 connections, 2 sessions, overlapping or not, 1 restart, up to 3 of the 9 kinds of fault (`FewFaults`) | `ClientsExact`, `SavedBeforeApply` under concurrency; the user's configuration: `SavedIsUsers`, `FileOutlivesCrash`, `RestoredOnLeave`, `RestoredWhenQuiet`, `RestoredOnExit`; `StatusFresh`; `Lent`: implements `Loan` |
| `framing` | 10 frames of 5 sizes, the last longer than the limit; the hello and the last 5 in any pieces | `Channel`: implements `FrameChannel`, liveness included; `WholeFramesInOrder` |
| `demux` | base 32; units of 0, 1 and 33 bytes; lengths of 1, 2 and 4 bytes; up to 2 SPS, 1 PPS, 2 units in a picture; any order, any tag whole or short of 1 to 5 or 35 to 37 bytes | `SetsCurrent`, `UnitExact`, `WholeTagsServed` |
| `injector_keys` | 4 messages, 7 names of keys, 8 texts over all classes, 4 motions, 2 viewports | `KeysSettle`, `AsMeant` |
| `rate_windows` | 2 addresses, limit 2, window 2, 6 ticks | `NoFalseRefusal`, `BoundedRate` |
| `boot` | 2 runs of the tool, 2 stops, kills or failures | `PinKept`, `IdKept`, `IdAgrees`, `ListensUnlessHeld` |

Runs with an expected violation, where the code and a line of the repository
disagree (the lines and their quotes are in `findings`):

| Run | Property | What happens |
|---|---|---|
| `capture_join_hangs` | `DropUnblocksReader` | `stop` joins a thread, past its open, that comes to wait for room in a channel only the joiner drains |
| `host_stale_record` | `RestoresPrevious` | the record of the first session is used for all |
| `host_error_exit` | `RestoredAfterErrors` | `?` skips the restore |
| `framing_cancelled` | `DispatchedAsSent` | half a frame is lost when the video arm wins |
| `rate_burst` | `LimitPerWindow` | tries at the end of one window and at the start of the next exceed the limit: up to 15 in 30 seconds, where README.md:95 says 8 |

The other places where something can go wrong are named inside the properties
that hold, as what they exclude or allow for, so that each states how far the
code does what it should:

- `SettlesUnlessStuck` names `OpenStuck` (the reader thread opens the FIFO after
  stop has dropped the last writer) and `ForeignWriter` (another session, which
  uses the same path, holds the FIFO open) next to `SendStuck`. A capture must
  settle unless it stays in one of them for good: when the foreign writer goes
  and the reader is not stuck otherwise, the stop has to return;
- `ClientsExact` adds `leaked`: a session that returns by `?` after it was counted
  stays in `status.json`;
- the fault `overlap`: a session began while another one was under way. Two tasks
  may load the counter in one order and write the file in the other
  (`StatusFresh`); two that both find `SAVED` empty can record `Remote`
  (`CheckSaved` and `SaveRead` of two tasks interleave), so `SavedIsUsers`,
  `FileOutlivesCrash`, `RestoredOnLeave` and the properties about a quiet or
  stopped daemon hold for sessions one after the other. `ClientsExact` and
  `SavedBeforeApply` hold for overlapping ones too;
- the fault `reboot`: the first session after a crash records the configuration
  the daemon had set, over the user's record;
- the fault `save`: a save that fails is ignored and the display is changed without
  a record; every property about the record excludes it;
- the fault `late` in `RestoredOnExit`: a session that handles `ClientHello` or
  `UiScale` while `main` shuts down sets the display after it was restored; and
  `serve`: an error of `accept` ends the daemon without a restore. Error exits of
  sessions and failed writes are allowed for: `main` restores after them;
- whose configuration the display should have when one session ends while another
  streams, no property says, for the repository does not;
- `IdKept` and `IdAgrees` except a race of the two processes over `connection-id`,
  and `IdAgrees` a write that was cut: a `CONNECTION-ID.txt` that was lost is not
  made again;
- `LockedOut` in `ListensUnlessHeld`: a certificate without its key, or an empty
  one, stops every later start, and a start may wait for the gateway for ever;
- `WholeTagsServed` speaks of whole tags: one cut tag may end the video of a session,
  and one that is cut where the code does not notice is served as it is
  (`SetsCurrent`, `UnitExact`); a keyframe before any record comes without sets,
  though PROTOCOL.md:41 says "keyframe (includes SPS/PPS when set)";
- `AsMeant` excludes motions after a `UiScale` for another viewport than the first
  (`behind`), held keys that a text uses, and products beyond 32 bits;
- `Channel` refuses a frame whose length is more than `MaxFrame`, type byte included,
  as the code does: a payload of exactly 8 MiB is one byte too long, though
  PROTOCOL.md:22 says "Maximum payload: 8 MiB."

Why the bounds are enough. The channel, the pipe and the tags of `capture` let
the channel fill with a keyframe held, the pipe block the recorder and the
reader be anywhere when the session leaves; a capacity of 4, as in the code,
adds no new case, and the proofs cover every capacity. Two sessions rebind the
path in every order, and no definition distinguishes a third; a header is what a
reader of the wrong FIFO trips over, and `HeadersWhenTwo` restricts the
recorders and the moment of a connection only, of which the fairness assumes
nothing. In `Host` two sessions are what it takes for a first record and a later
use of it, one restart for a crash between two sessions; two connections are
what it takes for each race. Three kinds of fault in a behaviour are every way
in which two of them could join to spoil what one alone does not, and a third on
top; the proofs have no such bound. One user mode tells the user's configuration
from the daemon's; that `Loan` keeps apart what several modes make different is
proved (`DisplayLent`), for any set of modes. The prefix of two bytes has a
first and a last byte, like the one of four. In `demux` a length needs two
digits, so the order of the bytes and the size of the length matter, and two
records, one of them cut, may follow each other with any sizes. The cuts end a
tag in each of the places there are, whichever of the three units is last:
within it, within its length, before it, after the SPS. In `framing` the last
frame is refused only after a fragile one; that a frame too long is refused
before any fragile one, and the frames ahead of it are not, is proved
(`ChannelSafe`). In `boot` two troubles are a cut write and the stop that
follows it; two runs of the tool are one that races the first start and one that
renews the id later. Four messages reach hold, text, release and text, or a
viewport, a UI scale and a motion. Six ticks hold two full windows and the age
at which an entry is forgotten.

`CHECK_DEADLOCK FALSE` everywhere: sessions, texts, frames, tries and runs are bounded
or a stream ends,
so every system stops when its bound is used up, and a session that hangs is the
subject of the liveness properties.

Symmetry over connections is used in `host`, whose properties are invariants and
a safety refinement, and whose definitions pick no connection.

Fairness. `Capture!FairSpec` assumes that the reader thread and a task inside
`Capture::stop` make progress whenever they can: they are operating system
threads. Nothing is assumed about the recorder, the client or the moment a
session ends. `Framing!Spec` assumes that `Poll` is taken if it is possible
again and again (`SF(Poll)`): `select!` picks its first arm at random, so the
video arm cannot starve the read arm of a session that comes back to the
`select!` for ever. It does not assume that the session comes back:
`write_frame` has no timeout (net.rs:200), so a client that does not drain its
video keeps the session in `writing`, and `Written` has no fairness.
`Boot!FairSpec` assumes that systemd starts a wanted service that is down
(`Restart=always`) and that the daemon's own steps run; nothing is assumed of
the gateway, so `Upnp` may never return, nor of the tool or the user. The other
specifications have no liveness.

## 4. Proofs

`CaptureProofs`, `HostProofs`, `BootProofs`, `FramingProofs`, `InjectorProofs`,
`DemuxProofs` and `RateLimitProofs` hold the theorems, for every value of the
constants that satisfies the assumptions of the module they are about.
`TypeCorrect` (`Types` for the injector, `DemuxTypes` for the demuxer) is the type
invariant of the module. Every invariant and every action property that a passing
run checks is a theorem here.

Capture, any number of sessions, any capacities, any number of frames:

- `ControlInv` says where task, reader, recorder and descriptors are relative to
  each other. It is inductive on its own (`ControlInit`, `ControlStep`);
  `RecordersOwned` and `StopComplete` follow. `RecorderOwned` is not inductive: it
  says nothing about the steps before the recorder exists.
- `CleanStep`: with `ControlInv`, `CleanDirectory` is inductive, since only a
  recorder whose session has not yet unlinked can make the file again. This is
  `DirectoryClean`.
- `Data` types the sequences. With `ControlInv` it gives `TypeCorrect`.
- `Flow` orders everything that left the demuxer: sent before written before
  queued before held, all at most the counter, and every keyframe is somewhere on
  that way while the session streams. `FramesInOrder` and `NoKeyframeLost` are
  parts of it. Order of the queue alone is not inductive; an append keeps it only
  because the counter bounds the queue. `AppendSorted` and `TailSorted` are the
  lemmas about sequences.

Host, any number of connections, sessions and restarts:

- `TypeInv` is `TypeOK` and that a local about to be used is not `Nil`.
- `RecordInv` says that a display the daemon set, or a task past its save,
  implies a record, for overlapping sessions too, unless a save failed or the daemon
  started on its own configuration; gives `SavedFirst`.
- `CountInv` relates the routine a helper returns to with the control point, and
  `CLIENTS` with the cardinality of the counted sessions; gives `ClientsCorrect`
  for any interleaving (with the library's facts about finite sets).
- `RestoreInv` speaks of behaviours in which no session has begun beside another
  (`Alone`), which makes at most one task at a time use `SAVED` (`AloneInv`): the
  record is the user's, the file agrees with it whenever it is needed, the local
  of a restore is the user's. It gives `RecordIsUsers`, `CrashKeepsRecord`,
  `LeaveRestores`, `RestRestores` and `ExitRestores`. The condition is needed: with
  an overlap the race on `SAVED` is a counterexample. What else each theorem excludes
  is in its statement: a failed save and a start on the daemon's own configuration
  for all five; a failed write for `CrashKeepsRecord` and `RestRestores`; a failed
  restore for the last three; error exits for `RestRestores`; a session that goes on
  while main shuts down (`late`), an error of `serve` and a crash for `RestRestores`
  and `ExitRestores`.
- `LoanInv`: nobody moves the display between the truncation of the file and the
  store to `SAVED`, `SAVED` and the file never disagree, and a restore in progress
  holds what a restore would read now. With `RestoreInv` every step is a move of
  `Loan` (`LoanMoves`), unless a fault has spoiled the record (`FaultsStay`: it
  stays spoiled); this is `DisplayLent`, the whole of `Lent`, which has no liveness.
- `StatusAgrees` adds what a task between the load of the counter and the write
  of the file holds.

Boot, any number of runs, kills and failures:

- `PinInv`: once a daemon has listened, both files hold its pair for good, for
  nobody opens them again. Gives `PinIsKept`.
- `IdInv`: without a race and without `--regen-id` one process at a time is
  between its test and its last write, and one that is past `connection-id` agrees
  with it. Gives `IdIsKept`.
- `AgreeInv`: without faults and while no id was generated after a start, one
  process at a time is between its test and its last write, and both files,
  `status.json` and the id the tool prints agree as far as the steps past the id
  go (`PastId`). Gives `IdsAgree`. `IdAgrees` alone is not inductive: it speaks of a
  daemon that listens and says nothing of the files before.

Injector, any texts, motions, viewports and number of messages:

- `KeysInv`: a press that waits in a queue is of a held key, or its release comes
  later, in the queue or in what is left to type (`PressesReleased`); a key that is
  down is held or its release waits (`KeysAccounted`); a held key that no text has
  touched is down, or its press waits and no release of it does. Gives
  `KeysSettled`. `KeysSettle` speaks of idle states only, and a step in the middle
  of a text knows nothing from it.
- `TextInv`: what is left of a character is an end of its emits (`EndOf`), and for
  each number of emits and events left it says where Shift and Ctrl are and how
  many keystrokes have still to arrive (`SinglePlace` for a key of the table,
  `UnicodePlace` for Ctrl+Shift+U). `MotionInv` does the same for the two axes and
  `ScaleInv` ties the scale to the viewport. Together they give `SeenAsMeant`.
  `SingleEmit`, `UnicodeEmits`, `MoveAsMeant` and `WheelAsMeant` say what the tables
  and the arithmetic come to.

Framing, any frames, sizes and cuts:

- `StreamInv`: the bytes taken and the bytes on the wire, together, are sorted and
  were sent, and no frame already dispatched is among them. This survives every
  dropped read, and with `ReceivedInv` gives `WholeInOrder`.
- `LosslessInv`: until the first fragile frame the stream is, byte for byte, the
  frames that have not been dispatched (`Layout` says where each begins). It makes
  what `Poll` cuts off exactly one frame.
- `ChannelSafe`: `Init` and every step of `Framing` are the initial state and a
  step or a stutter of `FrameChannel`, the safety half of the property `Channel`.

Demux, any base that is a multiple of 32, any units, widths and numbers of sets,
assumed: a unit is shorter than two bytes can say (a set is written with such a
length), a record counts at most 31 SPS, a start code is not a byte and `None` is
not a record:

- The provers have no induction over data, and the library's induction theorems take
  an operator. `SetInduction` and `BoundedInduction` do it with sets: by
  `LeastNumber` (`WFMin` of the library, for `<` on the numbers) the numbers outside
  a set that holds 0 and is closed under the successor have no least element.
  `Iteration` is the same for definitions: a recursive function over 0, ..., n
  exists and is what its steps say, which the loops of the parsers, `First`,
  `Shifted` and `Number` all need.
- `NumberOfPut`: the number read from the bytes that were written for n is n, for
  one to four bytes that hold it. `FirstInside` and `PartHeld`: where a unit lies in
  what the muxer wrote.
- `AnnexBWhole`: of the whole body of a picture `avcc_to_annexb` puts out what it
  means; by `AnnexBReads` the parser is, after each turn, at the end of the units it
  has put out. For a body that ends anywhere, `CutAt` finds the unit it ends in or
  before, `UnitCut` says that a unit with bytes missing is an error, and `AnnexBCut`
  that the parser puts out exactly the units that arrived, or fails. `ParseWhole`,
  `ParameterSetsCut` and `ParseCut` say so of `parse_avcc`: a record that lacks bytes
  fails unless it ends with its SPS (`WithoutPps`). `RecordReads` and `PictureReads`
  put this in terms of `Arrived` and `Brings`.
- `DemuxInv` is `TypeOK`, `SetsCurrent`, `UnitExact` and `TagWaits`: a tag that waits
  was written with the length size of the record in force. `UnitExact` is not
  inductive without `SetsCurrent` and `TagWaits`. Gives `SetsAreCurrent` and `UnitsAreExact`, and
  with the lemmas about whole tags the action property `WholeTagsAreServed`.

Rate limit, any limit, window and addresses:

- `EntryInv`: an entry counts the tries of its window, and the window before left
  room for one; `QuietInv`: so it is for an address without an entry. Both are
  what `RefusedForCause` and `RateIsBounded` need of the tries that `retain` forgot.

Only model-checked: `SettlesUnlessStuck`, `ListensUnlessHeld` and the fairness half
of `Channel`, since liveness under fairness is out of this prover's reach; and the
five violations, which are counterexamples of one instance. No module declares a
RECURSIVE operator.

## 5. Not modelled

- The choice of mode and scale in `apply_viewport` and `apply_ui_scale`
  (`fit_even`, `snap_scale`) and the parsing of `kscreen-doctor` output: pure
  functions of text and numbers whose result nothing else in the daemon reads but
  the client; what the daemon sets is the one value `Remote` in `Host`. (`encode_size`
  fits the desktop into 1280×800, display.rs:231, where README.md:87 says
  1600×1000.)
- The answer of STUN, the interfaces and the mDNS record: address hints that are
  published and not read again.
- Parsing of messages, wording and layout of `status.json`, the widgets of the
  panel, installation and packaging.
- TLS, the runtime, serde and the recorder are libraries and programs outside the
  repository: where a model needs them they are actions marked external in the
  map.

## 6. Plan

Done: `Capture`, `Host` over `Loan`, `Boot`, `Framing` over `FrameChannel`, `Demux`,
`Injector`, `RateLimit`, and the proofs about all seven.

What could follow:

1. `DisplayFit`: `fit_even`, `snap_scale`, the choice of a mode, against
   definitions of the nearest scale and of the largest even size that fits.
2. A composition of `Host` and `Capture`, so that a stop that hangs blocks the
   restore and the shutdown.
