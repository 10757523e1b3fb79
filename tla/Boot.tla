-------------------------------- MODULE Boot --------------------------------
(***************************************************************************)
(* What outlives a run of the daemon, and how a run begins: the files of   *)
(* src/src/id.rs and src/src/tls.rs, the start of main (src/src/main.rs),  *)
(* the second process that works on the same files (ddrdeskd --print-id    *)
(* and --regen-id, from a shell or from "New ID" of gui/ddrdesk-gui) and   *)
(* the service unit that starts the daemon again.                          *)
(*                                                                         *)
(* fs::write opens a file with O_TRUNC and then writes it: two steps, and  *)
(* a process may die, or the other one read, in between.  An id and a      *)
(* certificate with its key are numbers, a new one never drawn before.     *)
(***************************************************************************)
EXTENDS Naturals, FiniteSets

CONSTANTS
  Nil,         \* no file, or no value
  Torn,        \* an empty file
  MaxRuns,     \* bound: runs of the tool
  MaxTroubles  \* bound: stops, kills, writes and binds that fail

ASSUME BootAssumption ==
  /\ Nil \notin Nat /\ Torn \notin Nat \cup {Nil}
  /\ MaxRuns \in Nat /\ MaxTroubles \in Nat

VARIABLES
  pc,        \* the point each process has reached; at a file: writing it
  opened,    \* the file at pc is open and truncated
  id,        \* the id each process holds
  pair,      \* the certificate and key the daemon holds
  files,     \* the contents of the five files
  wanted,    \* systemd is to keep the service running
  generated, \* history: how many ids and how many pairs were generated
  accepted,  \* history: ids the daemon has listened with
  pins,      \* history: certificates the daemon has listened with
  printed,   \* history: the id the tool printed last, if it made no other since
  stale,     \* history: an id was generated since the daemon read its own
  renewed,   \* history: --regen-id was used
  runs,      \* history: runs of the tool
  faults,    \* history: "killed" in a write, "disk", "race"
  troubles   \* history: stops, kills, writes and binds that failed

toolVars == <<printed, renewed, runs>>
servedVars == <<accepted, pins>>
noteVars == <<stale, faults, troubles, toolVars, servedVars>>
vars == <<pc, opened, id, pair, files, wanted, generated, noteVars>>

Procs   == {"daemon", "tool"}
IdFiles == {"connection-id", "CONNECTION-ID.txt"}
Files   == IdFiles \cup {"cert.pem", "key.pem", "status.json"}
Points  == Files \cup {"down", "ask", "tls", "load", "upnp", "stun", "bind",
                       "listen", "print", "regen"}

TypeOK ==
  /\ pc \in [Procs -> Points]
  /\ opened \in [Procs -> BOOLEAN]
  /\ id \in [Procs -> Nat \cup {Nil}]
  /\ pair \in Nat \cup {Nil}
  /\ files \in [Files -> Nat \cup {Nil, Torn}]
  /\ wanted \in BOOLEAN
  /\ generated \in [ids: Nat, pairs: Nat]
  /\ accepted \subseteq Nat
  /\ pins \subseteq Nat
  /\ printed \in Nat \cup {Nil}
  /\ stale \in BOOLEAN
  /\ renewed \in BOOLEAN
  /\ runs \in Nat
  /\ faults \subseteq {"killed", "disk", "race"}
  /\ troubles \in Nat

Init ==
  /\ pc = [p \in Procs |-> "down"]
  /\ opened = [p \in Procs |-> FALSE]
  /\ id = [p \in Procs |-> Nil]
  /\ pair = Nil
  /\ files = [f \in Files |-> Nil]
  /\ wanted = TRUE
  /\ generated = [ids |-> 0, pairs |-> 0]
  /\ accepted = {}
  /\ pins = {}
  /\ printed = Nil
  /\ stale = FALSE
  /\ renewed = FALSE
  /\ runs = 0
  /\ faults = {}
  /\ troubles = 0

Goto(p, point) == pc' = [pc EXCEPT ![p] = point]
Trouble == troubles < MaxTroubles /\ troubles' = troubles + 1

\* The process ends; of a file it was writing the content is lost.
End(p) ==
  /\ Goto(p, "down")
  /\ opened' = [opened EXCEPT ![p] = FALSE]
  /\ id' = [id EXCEPT ![p] = Nil]
  /\ pair' = IF p = "daemon" THEN Nil ELSE pair

-----------------------------------------------------------------------------
(* The connection id.                                                      *)

\* Mutant of Valid: any file that exists will do.
ValidIfPresent(content) == content # Nil

\* Mutant of Valid: without trim the newline makes it ten characters.
ValidNever(content) == FALSE

\* Nine digits after trim.
Valid(content) == content \in Nat

\* An access while the other process is between its test and its last write.
Racing(p) == \E q \in Procs \ {p} : pc[q] \in IdFiles

\* load_or_create_id with a valid file: nothing is written, not even
\* CONNECTION-ID.txt.
ReadId(p) ==
  /\ pc[p] = "ask"
  /\ Valid(files["connection-id"])
  /\ id' = [id EXCEPT ![p] = files["connection-id"]]
  /\ Goto(p, IF p = "daemon" THEN "tls" ELSE "print")
  /\ stale' = IF p = "daemon" THEN FALSE ELSE stale
  /\ faults' = IF Racing(p) THEN faults \cup {"race"} ELSE faults
  /\ UNCHANGED <<opened, pair, files, wanted, generated, troubles, toolVars, servedVars>>

\* load_or_create_id otherwise, and regen_id always: generate_id.
GenerateId(p) ==
  /\ pc[p] = "regen" \/ (pc[p] = "ask" /\ ~Valid(files["connection-id"]))
  /\ generated' = [generated EXCEPT !.ids = @ + 1]
  /\ id' = [id EXCEPT ![p] = generated.ids + 1]
  /\ Goto(p, "connection-id")
  /\ stale' = (p = "tool")
  /\ printed' = IF p = "tool" THEN Nil ELSE printed
  /\ faults' = IF Racing(p) THEN faults \cup {"race"} ELSE faults
  /\ UNCHANGED <<opened, pair, files, wanted, troubles, renewed, runs, servedVars>>

-----------------------------------------------------------------------------
(* fs::write.                                                              *)

Open(p) ==
  /\ pc[p] \in Files
  /\ ~opened[p]
  /\ files' = [files EXCEPT ![pc[p]] = Torn]
  /\ opened' = [opened EXCEPT ![p] = TRUE]
  /\ UNCHANGED <<pc, id, pair, wanted, generated, noteVars>>

\* Mutant of AfterFile: CONNECTION-ID.txt is forgotten.
AfterFileBrief(p, f) ==
  CASE f \in IdFiles       -> IF p = "daemon" THEN "tls" ELSE "print"
    [] f = "cert.pem"      -> "key.pem"
    [] f = "key.pem"       -> "load"
    [] f = "status.json"   -> "bind"

\* What a process turns to when a file is written.
AfterFile(p, f) ==
  CASE f = "connection-id"     -> "CONNECTION-ID.txt"
    [] f = "CONNECTION-ID.txt" -> IF p = "daemon" THEN "tls" ELSE "print"
    [] f = "cert.pem"          -> "key.pem"
    [] f = "key.pem"           -> "load"
    [] f = "status.json"       -> "bind"

Write(p) ==
  /\ pc[p] \in Files
  /\ opened[p]
  /\ files' = [files EXCEPT ![pc[p]] =
                 IF pc[p] \in {"cert.pem", "key.pem"} THEN pair ELSE id[p]]
  /\ opened' = [opened EXCEPT ![p] = FALSE]
  /\ Goto(p, AfterFile(p, pc[p]))
  /\ UNCHANGED <<id, pair, wanted, generated, noteVars>>

\* open or write fails: `?` ends the process; status::write carries on.
WriteFails(p) ==
  /\ pc[p] \in Files
  /\ Trouble
  /\ faults' = faults \cup {"disk"}
  /\ IF pc[p] = "status.json"
       THEN Goto(p, "bind") /\ opened' = [opened EXCEPT ![p] = FALSE] /\ UNCHANGED <<id, pair>>
       ELSE End(p)
  /\ UNCHANGED <<files, wanted, generated, stale, toolVars, servedVars>>

-----------------------------------------------------------------------------
(* The daemon from exec to the listener.                                   *)

\* systemd: Restart=always, or systemctl start.
Start ==
  /\ wanted
  /\ pc["daemon"] = "down"
  /\ Goto("daemon", "ask")
  /\ UNCHANGED <<opened, id, pair, files, wanted, generated, noteVars>>

\* Mutant of Missing: a new pair at every start.
MissingAlways == TRUE

\* Mutant of Missing: only when both files are absent.
MissingBoth == files["cert.pem"] = Nil /\ files["key.pem"] = Nil

\* !cert_path.exists() || !key_path.exists()
Missing == files["cert.pem"] = Nil \/ files["key.pem"] = Nil

\* tls::load_or_create up to the generated pair.
MakePair ==
  /\ pc["daemon"] = "tls"
  /\ IF Missing
       THEN /\ generated' = [generated EXCEPT !.pairs = @ + 1]
            /\ pair' = generated.pairs + 1
            /\ Goto("daemon", "cert.pem")
       ELSE Goto("daemon", "load") /\ UNCHANGED <<generated, pair>>
  /\ UNCHANGED <<opened, id, files, wanted, noteVars>>

\* A certificate and the key that belongs to it.
Usable == files["cert.pem"] \in Nat /\ files["key.pem"] = files["cert.pem"]

LoadPair ==
  /\ pc["daemon"] = "load"
  /\ Usable
  /\ pair' = files["cert.pem"]
  /\ Goto("daemon", "upnp")
  /\ UNCHANGED <<opened, id, files, wanted, generated, noteVars>>

\* No certificate (certs[0] panics), no key, or a key of another certificate.
LoadFails ==
  /\ pc["daemon"] = "load"
  /\ ~Usable
  /\ End("daemon")
  /\ UNCHANGED <<files, wanted, generated, noteVars>>

\* try_upnp is awaited without a timeout; whatever it returns is taken.
Upnp ==
  /\ pc["daemon"] = "upnp"
  /\ Goto("daemon", "stun")
  /\ UNCHANGED <<opened, id, pair, files, wanted, generated, noteVars>>

\* stun::public_addr answers, fails or times out; so may mDNS fail.
Stun ==
  /\ pc["daemon"] = "stun"
  /\ Goto("daemon", "status.json")
  /\ UNCHANGED <<opened, id, pair, files, wanted, generated, noteVars>>

\* net::serve binds: from here on clients get in.
Bind ==
  /\ pc["daemon"] = "bind"
  /\ Goto("daemon", "listen")
  /\ accepted' = accepted \cup {id["daemon"]}
  /\ pins' = pins \cup {pair}
  /\ UNCHANGED <<opened, id, pair, files, wanted, generated, stale, faults,
                 troubles, toolVars>>

BindFails ==
  /\ pc["daemon"] = "bind"
  /\ Trouble
  /\ End("daemon")
  /\ UNCHANGED <<files, wanted, generated, stale, faults, toolVars, servedVars>>

-----------------------------------------------------------------------------
(* The tool, the panel and the service manager.                            *)

\* ddrdeskd --print-id, or --regen-id (from a shell or "New ID" of the panel).
RunTool ==
  /\ pc["tool"] = "down"
  /\ runs < MaxRuns
  /\ runs' = runs + 1
  /\ \/ Goto("tool", "ask") /\ UNCHANGED renewed
     \/ Goto("tool", "regen") /\ renewed' = TRUE
  /\ UNCHANGED <<opened, id, pair, files, wanted, generated, printed, stale,
                 faults, troubles, servedVars>>

\* The id goes to stdout and the process exits.
PrintId ==
  /\ pc["tool"] = "print"
  /\ printed' = id["tool"]
  /\ End("tool")
  /\ UNCHANGED <<files, wanted, generated, stale, renewed, runs, faults, troubles, servedVars>>

\* A process dies, in the middle of a write or not: SIGTERM before main has
\* installed its handler, the stop of a listening daemon, SIGKILL.
Dies(p) ==
  /\ End(p)
  /\ faults' = IF opened[p] \/ pc[p] \in {"CONNECTION-ID.txt", "key.pem"}
                 THEN faults \cup {"killed"} ELSE faults

Kill(p) ==
  /\ pc[p] # "down"
  /\ Trouble
  /\ Dies(p)
  /\ UNCHANGED <<files, wanted, generated, stale, toolVars, servedVars>>

\* ddrdesk-ctl: stop, restart and start.
Stop ==
  /\ Trouble
  /\ wanted' \in BOOLEAN
  /\ Dies("daemon")
  /\ UNCHANGED <<files, generated, stale, toolVars, servedVars>>

Want ==
  /\ ~wanted
  /\ wanted' = TRUE
  /\ UNCHANGED <<pc, opened, id, pair, files, generated, noteVars>>

-----------------------------------------------------------------------------
IdStep(p)   == ReadId(p) \/ GenerateId(p) \/ Open(p) \/ Write(p)
DaemonStep  == IdStep("daemon") \/ MakePair \/ LoadPair \/ LoadFails \/ Stun \/ Bind

Next ==
  \/ \E p \in Procs : IdStep(p) \/ WriteFails(p) \/ Kill(p)
  \/ Start \/ MakePair \/ LoadPair \/ LoadFails \/ Upnp \/ Stun \/ Bind \/ BindFails
  \/ RunTool \/ PrintId \/ Stop \/ Want

Spec == Init /\ [][Next]_vars

\* A process runs, and systemd starts the service again.  Nothing is assumed
\* of the gateway that Upnp waits for, of the tool or of the user.
FairSpec == Spec /\ WF_vars(Start) /\ WF_vars(DaemonStep)

-----------------------------------------------------------------------------
\* "The client pins the certificate fingerprint after the first successful
\* authentication (TOFU)" (PROTOCOL.md:9): the daemon never listens with a
\* second certificate, whatever was killed or could not be written before.
PinKept == Cardinality(pins) <= 1

\* Phones keep the id they were given: unless somebody asks for a new one, or
\* the tool looks in while the daemon makes the first id, every start listens
\* with the same id, also after kills and failed writes (load_or_create_id).
IdKept == (~renewed /\ "race" \notin faults) => Cardinality(accepted) <= 1

\* Once the daemon listens, the id it accepts is the one in both files, in
\* status.json and the one printed last ("New ID: ddrdeskd --regen-id then
\* sudo systemctl restart ddrdesk", README.md:72), unless an id was generated
\* after it started or something went wrong on the way.
IdAgrees ==
  (pc["daemon"] = "listen" /\ ~stale /\ faults = {}) =>
    /\ \A f \in IdFiles \cup {"status.json"} : files[f] = id["daemon"]
    /\ pc["tool"] # "print" => printed \in {Nil, id["daemon"]}

\* A cut pair of files that no later start replaces.
LockedOut ==
  /\ files["cert.pem"] # Nil /\ files["key.pem"] # Nil
  /\ ~Usable
  /\ pc["daemon"] \notin {"cert.pem", "key.pem"}

\* A service that is wanted comes to listen again and again, whatever its files
\* look like, except that it waits for the gateway or was locked out by a
\* write of the key or the certificate that was cut (main, Restart=always).
ListensUnlessHeld ==
  []<>(pc["daemon"] \in {"listen", "upnp"} \/ ~wanted \/ LockedOut)

=============================================================================
