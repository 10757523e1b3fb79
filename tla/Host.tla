-------------------------------- MODULE Host --------------------------------
(***************************************************************************)
(* The daemon around its sessions: run_session (src/src/net.rs), the       *)
(* display adapter (src/src/display.rs), the client counter and            *)
(* status.json (src/src/status.rs), start and shutdown (src/src/main.rs).  *)
(*                                                                         *)
(* Every connection is a tokio task of a multi-threaded runtime.  Between  *)
(* two awaits it runs blocking code that other tasks and the main task     *)
(* overtake at every access to what they share: the output configuration   *)
(* of the laptop, the static SAVED, saved-output.json, CLIENTS and         *)
(* status.json.  An action is one such access.  Nothing serialises the     *)
(* sessions: the mutex `active` is created and passed on, never locked.    *)
(*                                                                         *)
(* An output configuration is a value: one the user chose, or Remote, any  *)
(* configuration the daemon set for a client.  The capture is module       *)
(* Capture; here it starts or fails to, and Capture::stop returns.         *)
(***************************************************************************)
EXTENDS Naturals, FiniteSets

CONSTANTS
  Conns,        \* slots for client connections
  Daemon,       \* the main task
  UserModes,    \* output configurations the user may choose
  Remote,       \* a configuration the daemon set
  Nil,          \* no configuration: None, or no file
  Torn,         \* an empty or cut file
  MaxSessions,  \* bound: sessions authenticated in a behaviour
  MaxBoots      \* bound: restarts of the daemon

ASSUME HostAssumption ==
  /\ IsFiniteSet(Conns)
  /\ Daemon \notin Conns
  /\ Remote \notin UserModes
  /\ Nil \notin UserModes \cup {Remote}
  /\ Torn \notin UserModes \cup {Remote, Nil} \cup Nat
  /\ MaxSessions \in Nat
  /\ MaxBoots \in Nat

VARIABLES
  pc,        \* control point of each connection and of the main task
  call,      \* the routine whose shared helper a connection is inside, "apply_viewport"
             \* elsewhere
  local,     \* configuration in a local variable of each actor, or Nil
  seen,      \* CLIENTS as loaded by status::write, 0 outside
  display,   \* configuration of the primary output
  plasma,    \* session_live(): a Plasma session is up
  saved,     \* static SAVED
  file,      \* saved-output.json
  clients,   \* static CLIENTS
  status,    \* the clients field of status.json
  leaked,    \* history: sessions that were counted and never uncounted
  faults,    \* history: what disturbs a session, see Fault
  chosen,    \* history: the configuration the user chose last
  sessions,  \* history: sessions authenticated
  boots      \* history: restarts

displayVars == <<display, saved, file, local>>
statusVars  == <<clients, status, seen, leaked>>
historyVars == <<faults, chosen, sessions, boots>>
vars == <<pc, call, displayVars, plasma, statusVars, historyVars>>

Config == UserModes \cup {Remote}
Actors == Conns \cup {Daemon}

\* Points where a task awaits; everywhere else it runs blocking code.
Awaits == {"idle", "auth", "greet", "stream"}
Saving == {"read", "truncate", "write", "memo"}
ConnState == Awaits \cup Saving \cup
  {"viewport", "apply", "count", "load", "publish", "capture", "scale",
   "restore", "reset", "uncount"}
MainState == {"serve", "restore", "reset", "drain", "down"}
Caller == {"apply_viewport", "apply_ui_scale", "connected", "disconnected"}

Fault == {"save",     \* save_current failed, and its result was ignored
          "disk",     \* a file could not be written
          "restore",  \* restore had a target and could not apply it
          "exit",     \* a session returned by `?`
          "serve",    \* serve returned by `?`
          "late",     \* a session changed the display, or its record on disk,
                      \* after the main task left its select
          "overlap",  \* a session began before another one had ended
          "crash",    \* the process was killed
          "reboot"}   \* the daemon started on a Remote display or record

TypeOK ==
  /\ pc \in [Actors -> ConnState \cup MainState]
  /\ \A c \in Conns : pc[c] \in ConnState
  /\ pc[Daemon] \in MainState
  /\ call \in [Conns -> Caller]
  /\ local \in [Actors -> Config \cup {Nil}]
  /\ seen \in [Conns -> Nat]
  /\ display \in Config
  /\ plasma \in BOOLEAN
  /\ saved \in Config \cup {Nil}
  /\ file \in Config \cup {Nil, Torn}
  /\ clients \in Nat
  /\ status \in Nat \cup {Torn}
  /\ leaked \in Nat
  /\ faults \in SUBSET Fault
  /\ chosen \in UserModes
  /\ sessions \in Nat
  /\ boots \in Nat

\* The daemon listens, and its first status.json was written.  A start at which
\* that write failed is one of Boot.
Init ==
  /\ pc = [a \in Actors |-> IF a = Daemon THEN "serve" ELSE "idle"]
  /\ call = [c \in Conns |-> "apply_viewport"]
  /\ local = [a \in Actors |-> Nil]
  /\ seen = [c \in Conns |-> 0]
  /\ display \in UserModes
  /\ plasma \in BOOLEAN
  /\ saved = Nil
  /\ file \in UserModes \cup {Nil}
  /\ clients = 0
  /\ status = 0
  /\ leaked = 0
  /\ faults = {}
  /\ chosen = display
  /\ sessions = 0
  /\ boots = 0

Goto(a, p) == pc' = [pc EXCEPT ![a] = p]
Record(f)  == faults' = faults \cup f
Return(c)  == call' = [call EXCEPT ![c] = "apply_viewport"]
Up         == pc[Daemon] # "down"

-----------------------------------------------------------------------------
(* The handshake.                                                          *)

\* TLS accept, then the await of ClientHello.  The listener is a local of the
\* serve future: it is gone once the main task has left its select.
Connect(c) ==
  /\ pc[c] = "idle"
  /\ pc[Daemon] = "serve"
  /\ Goto(c, "auth")
  /\ UNCHANGED <<call, displayVars, plasma, statusVars, historyVars>>

\* A bad first frame, a wrong id or a rate limit: nothing shared was touched.
Reject(c) ==
  /\ pc[c] = "auth"
  /\ Goto(c, "idle")
  /\ UNCHANGED <<call, displayVars, plasma, statusVars, historyVars>>

\* The id matches; apply_viewport follows without an await.  No test keeps a
\* second session out.
Authenticate(c) ==
  /\ pc[c] = "auth"
  /\ Up
  /\ sessions < MaxSessions
  /\ sessions' = sessions + 1
  /\ Return(c)
  /\ Goto(c, "viewport")
  /\ Record({f \in {"overlap"} : \E d \in Conns \ {c} : pc[d] \notin {"idle", "auth"}})
  /\ UNCHANGED <<displayVars, plasma, statusVars, chosen, boots>>

\* Mutant of CheckSaved: save again before every change.
CheckNothing(c) ==
  /\ \/ pc[c] = "viewport" /\ call[c] = "apply_viewport"
     \/ pc[c] = "scale" /\ call[c] = "apply_ui_scale"
  /\ \/ plasma /\ Goto(c, "read")
     \/ pc[c] = "viewport" /\ Goto(c, "greet")
     \/ pc[c] = "scale" /\ ~plasma /\ Goto(c, "stream")
  /\ IF pc'[c] = "stream" THEN Return(c) ELSE UNCHANGED call
  /\ UNCHANGED <<displayVars, plasma, statusVars, historyVars>>

\* Mutant of CheckSaved: only apply_viewport saves.
CheckViewportOnly(c) ==
  /\ \/ pc[c] = "viewport" /\ call[c] = "apply_viewport"
     \/ pc[c] = "scale" /\ call[c] = "apply_ui_scale"
  /\ \/ /\ plasma
        /\ Goto(c, IF saved = Nil /\ pc[c] = "viewport" THEN "read" ELSE "apply")
     \/ pc[c] = "viewport" /\ Goto(c, "greet")
     \/ pc[c] = "scale" /\ ~plasma /\ Goto(c, "stream")
  /\ IF pc'[c] = "stream" THEN Return(c) ELSE UNCHANGED call
  /\ UNCHANGED <<displayVars, plasma, statusVars, historyVars>>

\* apply_viewport and apply_ui_scale up to the test of SAVED.  Both return
\* early without a Plasma session, the first also when kscreen-doctor -o fails.
CheckSaved(c) ==
  /\ \/ pc[c] = "viewport" /\ call[c] = "apply_viewport"
     \/ pc[c] = "scale" /\ call[c] = "apply_ui_scale"
  /\ \/ plasma /\ Goto(c, IF saved = Nil THEN "read" ELSE "apply")
     \/ pc[c] = "viewport" /\ Goto(c, "greet")
     \/ pc[c] = "scale" /\ ~plasma /\ Goto(c, "stream")
  /\ IF pc'[c] = "stream" THEN Return(c) ELSE UNCHANGED call
  /\ UNCHANGED <<displayVars, plasma, statusVars, historyVars>>

-----------------------------------------------------------------------------
(* save_current.  Its callers ignore what it returns.                      *)

\* Mutant of SaveRead: nothing is written to saved-output.json.
SaveReadInMemory(c) ==
  /\ pc[c] = "read"
  /\ plasma
  /\ local' = [local EXCEPT ![c] = display]
  /\ Goto(c, "memo")
  /\ UNCHANGED <<call, display, saved, file, plasma, statusVars, historyVars>>

SaveRead(c) ==
  /\ pc[c] = "read"
  /\ plasma
  /\ local' = [local EXCEPT ![c] = display]
  /\ Goto(c, "truncate")
  /\ UNCHANGED <<call, display, saved, file, plasma, statusVars, historyVars>>

\* The session is not live any more, kscreen-doctor fails or prints no output.
SaveFails(c) ==
  /\ pc[c] = "read"
  /\ Goto(c, "apply")
  /\ Record({"save"})
  /\ UNCHANGED <<call, displayVars, plasma, statusVars, chosen, sessions, boots>>

\* fs::write opens with O_TRUNC, then writes; its result is ignored.  An open
\* that fails leaves the old file.
SaveTruncate(c) ==
  /\ pc[c] = "truncate"
  /\ \/ /\ file' = Torn
        /\ Goto(c, "write")
        /\ Record(IF pc[Daemon] = "serve" THEN {} ELSE {"late"})
     \/ /\ UNCHANGED file
        /\ Goto(c, "memo")
        /\ Record({"disk"})
  /\ UNCHANGED <<call, display, saved, local, plasma, statusVars,
                 chosen, sessions, boots>>

SaveWrite(c) ==
  /\ pc[c] = "write"
  /\ \/ file' = local[c] /\ UNCHANGED faults
     \/ file' = Torn /\ Record({"disk"})
  /\ Goto(c, "memo")
  /\ UNCHANGED <<call, display, saved, local, plasma, statusVars,
                 chosen, sessions, boots>>

SaveMemo(c) ==
  /\ pc[c] = "memo"
  /\ saved' = local[c]
  /\ local' = [local EXCEPT ![c] = Nil]
  /\ Goto(c, "apply")
  /\ UNCHANGED <<call, display, file, plasma, statusVars, historyVars>>

\* kscreen-doctor output.<name>.mode... .scale..., which may fail.
Apply(c) ==
  /\ pc[c] = "apply"
  /\ \/ plasma /\ display' = Remote
        /\ Record(IF pc[Daemon] = "serve" THEN {} ELSE {"late"})
     \/ UNCHANGED <<display, faults>>
  /\ Goto(c, IF call[c] = "apply_viewport" THEN "greet" ELSE "stream")
  /\ Return(c)
  /\ UNCHANGED <<saved, file, local, plasma, statusVars,
                 chosen, sessions, boots>>

SaveStep(c) ==
  SaveRead(c) \/ SaveFails(c) \/ SaveTruncate(c) \/ SaveWrite(c) \/ SaveMemo(c)

-----------------------------------------------------------------------------
(* From ServerHello to the session loop.                                   *)

Greet(c) ==
  /\ pc[c] = "greet"
  /\ Goto(c, "count")
  /\ UNCHANGED <<call, displayVars, plasma, statusVars, historyVars>>

\* write_frame(..).await? : the client has gone.
GreetFails(c) ==
  /\ pc[c] = "greet"
  /\ Goto(c, "idle")
  /\ Record({"exit"})
  /\ UNCHANGED <<call, displayVars, plasma, statusVars, chosen, sessions, boots>>

\* status::client_connected
Count(c) ==
  /\ pc[c] = "count"
  /\ clients' = clients + 1
  /\ call' = [call EXCEPT ![c] = "connected"]
  /\ Goto(c, "load")
  /\ UNCHANGED <<displayVars, plasma, status, seen, leaked, historyVars>>

\* Capture::start(..)? : the session ends by an error return.
CaptureFails(c) ==
  /\ pc[c] = "capture"
  /\ Goto(c, "idle")
  /\ leaked' = leaked + 1
  /\ Record({"exit"})
  /\ UNCHANGED <<call, displayVars, plasma, clients, status, seen,
                 chosen, sessions, boots>>

CaptureStarts(c) ==
  /\ pc[c] = "capture"
  /\ Goto(c, "stream")
  /\ UNCHANGED <<call, displayVars, plasma, statusVars, historyVars>>

-----------------------------------------------------------------------------
(* status::write: load CLIENTS into a snapshot, then write the file, whose *)
(* open or write may fail.                                                 *)

WriteStatus(n) == status' \in {n, status, Torn}
Failed(n) == {f \in {"disk"} : status' # n}

Load(c) ==
  /\ pc[c] = "load"
  /\ seen' = [seen EXCEPT ![c] = clients]
  /\ Goto(c, "publish")
  /\ UNCHANGED <<call, displayVars, plasma, clients, status, leaked, historyVars>>

Publish(c) ==
  /\ pc[c] = "publish"
  /\ WriteStatus(seen[c])
  /\ Record(Failed(seen[c]))
  /\ seen' = [seen EXCEPT ![c] = 0]
  /\ Goto(c, IF call[c] = "connected" THEN "capture" ELSE "idle")
  /\ Return(c)
  /\ UNCHANGED <<displayVars, plasma, clients, leaked,
                 chosen, sessions, boots>>

-----------------------------------------------------------------------------
(* The session loop, as far as it touches shared state.                    *)

UiScale(c) ==
  /\ pc[c] = "stream"
  /\ call' = [call EXCEPT ![c] = "apply_ui_scale"]
  /\ Goto(c, "scale")
  /\ UNCHANGED <<displayVars, plasma, statusVars, historyVars>>

\* Mutant of Leave: the display is not restored.
LeaveAsIs(c) ==
  /\ pc[c] = "stream"
  /\ Goto(c, "uncount")
  /\ UNCHANGED <<call, displayVars, plasma, statusVars, historyVars>>

\* Goodbye, a read error or a failed video write: break, then Capture::stop.
Leave(c) ==
  /\ pc[c] = "stream"
  /\ Goto(c, "restore")
  /\ UNCHANGED <<call, displayVars, plasma, statusVars, historyVars>>

\* A Viewport frame that does not parse, or a Pong that cannot be written:
\* `?` leaves run_session and skips everything below the loop.
Abandon(c) ==
  /\ pc[c] = "stream"
  /\ Goto(c, "idle")
  /\ leaked' = leaked + 1
  /\ Record({"exit"})
  /\ UNCHANGED <<call, displayVars, plasma, clients, status, seen,
                 chosen, sessions, boots>>

\* Mutant of Uncount: saturates at one.
UncountToOne(c) ==
  /\ pc[c] = "uncount"
  /\ clients' = IF clients <= 1 THEN clients ELSE clients - 1
  /\ call' = [call EXCEPT ![c] = "disconnected"]
  /\ Goto(c, "load")
  /\ UNCHANGED <<displayVars, plasma, status, seen, leaked, historyVars>>

\* Mutant of Uncount: status.json is not written again.
UncountSilently(c) ==
  /\ pc[c] = "uncount"
  /\ clients' = IF clients = 0 THEN 0 ELSE clients - 1
  /\ Goto(c, "idle")
  /\ UNCHANGED <<call, displayVars, plasma, status, seen, leaked, historyVars>>

\* status::client_disconnected: saturating.
Uncount(c) ==
  /\ pc[c] = "uncount"
  /\ clients' = IF clients = 0 THEN 0 ELSE clients - 1
  /\ call' = [call EXCEPT ![c] = "disconnected"]
  /\ Goto(c, "load")
  /\ UNCHANGED <<displayVars, plasma, status, seen, leaked, historyVars>>

-----------------------------------------------------------------------------
(* display::restore, called by a session that left its loop and by main.   *)

AfterRestore(a) == IF a = Daemon THEN "drain" ELSE "uncount"

\* SAVED, or else what saved-output.json parses to.
RestoreTarget ==
  IF saved # Nil THEN saved ELSE IF file = Torn THEN Nil ELSE file

\* Mutant of RestoreRead: no test that there is something to restore.
RestoreReadAlways(a) ==
  /\ pc[a] = "restore"
  /\ local' = [local EXCEPT ![a] = RestoreTarget]
  /\ Goto(a, "reset")
  /\ UNCHANGED <<call, display, saved, file, plasma, statusVars, historyVars>>

\* Mutant of RestoreRead: SAVED is taken out, whatever comes of the restore.
RestoreReadTakes(a) ==
  /\ pc[a] = "restore"
  /\ local' = [local EXCEPT ![a] = RestoreTarget]
  /\ saved' = Nil
  /\ Goto(a, IF RestoreTarget = Nil THEN AfterRestore(a) ELSE "reset")
  /\ UNCHANGED <<call, display, file, plasma, statusVars, historyVars>>

RestoreRead(a) ==
  /\ pc[a] = "restore"
  /\ local' = [local EXCEPT ![a] = RestoreTarget]
  /\ Goto(a, IF RestoreTarget = Nil THEN AfterRestore(a) ELSE "reset")
  /\ UNCHANGED <<call, display, saved, file, plasma, statusVars, historyVars>>

RestoreApply(a) ==
  /\ pc[a] = "reset"
  /\ \/ plasma /\ display' = local[a] /\ UNCHANGED faults
     \/ UNCHANGED display /\ Record({"restore"})
  /\ local' = [local EXCEPT ![a] = Nil]
  /\ Goto(a, AfterRestore(a))
  /\ UNCHANGED <<call, saved, file, plasma, statusVars,
                 chosen, sessions, boots>>

-----------------------------------------------------------------------------
(* The main task and the process.                                          *)

\* Mutant of Signal: main returns at once.
SignalExits ==
  /\ pc[Daemon] = "serve"
  /\ Goto(Daemon, "drain")
  /\ UNCHANGED <<call, displayVars, plasma, statusVars, historyVars>>

\* SIGTERM or SIGINT wins the select of main; the sessions keep running.
Signal ==
  /\ pc[Daemon] = "serve"
  /\ Goto(Daemon, "restore")
  /\ UNCHANGED <<call, displayVars, plasma, statusVars, historyVars>>

\* listener.accept().await? failed: `r = serve(state) => r?` leaves main
\* without display::restore.
ServeFails ==
  /\ pc[Daemon] = "serve"
  /\ Goto(Daemon, "drain")
  /\ Record({"serve"})
  /\ UNCHANGED <<call, displayVars, plasma, statusVars, chosen, sessions, boots>>

\* What a process that ends takes with it.
Forget ==
  /\ pc' = [a \in Actors |-> IF a = Daemon THEN "down" ELSE "idle"]
  /\ saved' = Nil
  /\ clients' = 0
  /\ leaked' = 0
  /\ local' = [a \in Actors |-> Nil]
  /\ seen' = [c \in Conns |-> 0]
  /\ call' = [c \in Conns |-> "apply_viewport"]

\* main returned: the runtime drops every task at its next await.
Exit ==
  /\ pc[Daemon] = "drain"
  /\ \A c \in Conns : pc[c] \in Awaits
  /\ Forget
  /\ UNCHANGED <<display, file, plasma, status, historyVars>>

\* SIGKILL, a panic of main or a power cut, at any point.
Crash ==
  /\ Up
  /\ Forget
  /\ Record({"crash"})
  /\ UNCHANGED <<display, file, plasma, status, chosen, sessions, boots>>

\* systemd restarts the service; main writes status.json.
Boot ==
  /\ pc[Daemon] = "down"
  /\ boots < MaxBoots
  /\ boots' = boots + 1
  /\ WriteStatus(clients)
  /\ Record(Failed(clients) \cup {f \in {"reboot"} : Remote \in {display, file}})
  /\ Goto(Daemon, "serve")
  /\ UNCHANGED <<call, displayVars, plasma, clients, seen, leaked, chosen, sessions>>

\* The user logs in or out.
Login ==
  /\ plasma' = ~plasma
  /\ UNCHANGED <<pc, call, displayVars, statusVars, historyVars>>

\* The user picks another configuration while no client is connected.
UserChange ==
  /\ plasma
  /\ \A c \in Conns : pc[c] = "idle"
  /\ pc[Daemon] \in {"serve", "down"}
  /\ chosen' \in UserModes
  /\ display' = chosen'
  /\ UNCHANGED <<pc, call, saved, file, local, plasma, statusVars,
                 faults, sessions, boots>>

-----------------------------------------------------------------------------
SessionStep(c) ==
  \/ Connect(c) \/ Reject(c) \/ Authenticate(c) \/ CheckSaved(c)
  \/ SaveStep(c) \/ Apply(c)
  \/ Greet(c) \/ GreetFails(c) \/ Count(c)
  \/ CaptureStarts(c) \/ CaptureFails(c)
  \/ Load(c) \/ Publish(c)
  \/ UiScale(c) \/ Leave(c) \/ Abandon(c) \/ Uncount(c)

MainStep == Signal \/ ServeFails \/ Exit \/ Crash \/ Boot

Next ==
  \/ \E c \in Conns : SessionStep(c)
  \/ \E a \in Actors : RestoreRead(a) \/ RestoreApply(a)
  \/ MainStep
  \/ Login
  \/ UserChange

Spec == Init /\ [][Next]_vars

-----------------------------------------------------------------------------
(* The client counter.                                                     *)

\* Sessions between client_connected and client_disconnected.
Counted ==
  {c \in Conns :
     \/ pc[c] \in {"capture", "stream", "scale", "restore", "reset", "uncount"}
     \/ pc[c] \in {"load", "publish"} /\ call[c] = "connected"
     \/ pc[c] \in Saving \cup {"apply"} /\ call[c] = "apply_ui_scale"}

\* CLIENTS is exactly the sessions between the two calls plus one for every
\* session that ended by an error after client_connected: the saturating
\* decrement never bites, whatever the interleaving (status.rs).
ClientsExact == clients = Cardinality(Counted) + leaked

\* "The panel shows ... connected clients" (README.md:64): when no session is
\* between changing CLIENTS and having written status.json, the file agrees
\* with CLIENTS, unless a write failed.  Two sessions at once may publish in
\* the order opposite to that in which they loaded CLIENTS.
StatusFresh ==
  /\ faults \cap {"disk", "overlap"} = {}
  /\ Up
  /\ \A c \in Conns : pc[c] \notin {"load", "publish"}
  => status = clients

-----------------------------------------------------------------------------
(* The record of the user's configuration.                                 *)

\* A display that carries a Remote configuration can be restored: it was put
\* into SAVED first, except by a failed save (whose result both callers
\* ignore) or when the daemon started on a Remote display or with a Remote
\* record in saved-output.json (display.rs).
SavedBeforeApply ==
  (Up /\ display = Remote /\ faults \cap {"save", "reboot"} = {}) => saved # Nil

\* SAVED, which is never cleared, holds a configuration of the user, not one
\* the daemon set itself: the save precedes every change of the display.  Of
\* two sessions at once one may save what the other has set.
SavedIsUsers ==
  faults \cap {"save", "overlap", "reboot"} = {} => saved # Remote

\* If the process died now, saved-output.json would bring the user's
\* configuration back: the file is whole whenever the display is Remote.
FileOutlivesCrash ==
  (display = Remote /\ faults \cap {"save", "disk", "overlap", "reboot"} = {}) =>
    file \in UserModes

-----------------------------------------------------------------------------
(* Restoring.                                                              *)

Quiet == pc[Daemon] = "serve" /\ \A c \in Conns : pc[c] = "idle"

\* The clean end of a session gives the laptop back a configuration of the
\* user, also when earlier sessions were abandoned, when the daemon is shutting
\* down, when a file could not be written or after a crash that left the
\* display alone (run_session after the loop, restore).
RestoredOnLeave ==
  \A c \in Conns :
    (pc[c] = "uncount" /\ faults \subseteq {"exit", "serve", "late", "disk", "crash"}) =>
      display # Remote

\* "Restores the previous laptop mode when the client disconnects"
\* (README.md:88): with no client left and nothing gone wrong, the display is
\* not in a Remote configuration.
RestoredWhenQuiet == (Quiet /\ faults = {}) => display # Remote

\* The same line, for the configuration the user chose last.
RestoresPrevious ==
  \A c \in Conns : (pc[c] = "uncount" /\ faults = {}) => display = chosen

\* The same line, for sessions that end with an error.
RestoredAfterErrors == (Quiet /\ faults \subseteq {"exit"}) => display # Remote

\* A daemon stopped by a signal leaves the laptop in a configuration of the
\* user (main restores after its select), also after sessions that ended by an
\* error and left the display Remote, and after files that could not be
\* written.  Not when a session, which goes on while main restores, changes
\* the display afterwards ("late"), nor when sessions overlap, a save or the
\* restore fails or serve returns an error.
RestoredOnExit ==
  (pc[Daemon] = "down" /\ faults \subseteq {"exit", "disk"}) => display # Remote

-----------------------------------------------------------------------------
(* The display as a loan.                                                  *)

\* A session is past its handshake, or main restores the display.
Serving ==
  \/ \E c \in Conns : pc[c] \notin {"idle", "auth"}
  \/ pc[Daemon] \in {"restore", "reset", "drain"}

\* After these the display may stay Remote; after those the record may be wrong.
Excused == faults \cap {"exit", "serve", "crash", "restore"} # {}
Spoiled == faults \cap {"save", "disk", "overlap", "late", "reboot"} # {}

Promise == INSTANCE Loan
  WITH owed <- RestoreTarget, serving <- Serving, excused <- Excused, spoiled <- Spoiled

\* "Restores the previous laptop mode when the client disconnects"
\* (README.md:88), step by step: what a restore would bring back, from SAVED
\* or from saved-output.json, is the configuration the daemon found when it
\* first saved; it is never lost while the display is not the user's, not by
\* a crash either; and the daemon sets the display to nothing but that
\* configuration and its own.
Lent == Promise!Spec

=============================================================================
