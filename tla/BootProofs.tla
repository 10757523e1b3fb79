----------------------------- MODULE BootProofs -----------------------------
(* Theorems about Boot: what the files of the daemon keep through kills,   *)
(* failed writes and a second process, for every number of them.           *)
EXTENDS Boot, FiniteSetTheorems, TLAPS

USE BootAssumption

-----------------------------------------------------------------------------
(* Types.                                                                  *)

DaemonPoints == Points \ {"print", "regen"}
ToolPoints   == IdFiles \cup {"down", "ask", "print", "regen"}
NoId         == {"down", "ask", "regen"}
WithPair     == {"cert.pem", "key.pem", "upnp", "stun", "status.json", "bind", "listen"}

\* A process past its first step holds an id, the daemon past the TLS files a
\* certificate: what Bind records was never empty.
Holds ==
  /\ pc["daemon"] \in DaemonPoints
  /\ pc["tool"] \in ToolPoints
  /\ \A p \in Procs : pc[p] \notin NoId => id[p] \in Nat
  /\ pc["daemon"] \in WithPair => pair \in Nat

TypeInv == TypeOK /\ Holds

LEMMA TypeInit == Init => TypeInv
  <1> SUFFICES ASSUME Init PROVE TypeInv
    OBVIOUS
  <1>1. pc \in [Procs -> Points] /\ opened \in [Procs -> BOOLEAN]
    BY DEF Init, Points
  <1>2. id \in [Procs -> Nat \cup {Nil}] /\ pair \in Nat \cup {Nil}
    BY DEF Init
  <1>3. files \in [Files -> Nat \cup {Nil, Torn}]
    BY DEF Init
  <1>4. /\ wanted \in BOOLEAN /\ generated \in [ids: Nat, pairs: Nat]
        /\ accepted \subseteq Nat /\ pins \subseteq Nat /\ printed \in Nat \cup {Nil}
    BY DEF Init
  <1>5. /\ stale \in BOOLEAN /\ renewed \in BOOLEAN /\ runs \in Nat
        /\ faults \subseteq {"killed", "disk", "race"} /\ troubles \in Nat
    BY DEF Init
  <1>6. Holds
    BY DEF Init, Holds, Procs, Points, DaemonPoints, ToolPoints, NoId, WithPair
  <1> QED
    BY <1>1, <1>2, <1>3, <1>4, <1>5, <1>6 DEF TypeInv, TypeOK

\* Every step keeps the types.
LEMMA TypeStep == TypeInv /\ [Next]_vars => TypeInv'
  <1> SUFFICES ASSUME TypeInv, [Next]_vars PROVE TypeInv'
    OBVIOUS
  <1> USE DEF TypeInv, TypeOK, Holds, Procs, Files, IdFiles, Points, DaemonPoints, ToolPoints,
              NoId, WithPair, Goto, noteVars, toolVars, servedVars
  <1>1. ASSUME NEW p \in Procs, ReadId(p) PROVE TypeInv'
    BY <1>1 DEF ReadId, Valid, Racing
  <1>2. ASSUME NEW p \in Procs, GenerateId(p) PROVE TypeInv'
    BY <1>2 DEF GenerateId, Valid, Racing
  <1>3. ASSUME NEW p \in Procs, Open(p) PROVE TypeInv'
    BY <1>3 DEF Open
  <1>4. ASSUME NEW p \in Procs, Write(p) PROVE TypeInv'
    BY <1>4 DEF Write, AfterFile
  <1>5. ASSUME NEW p \in Procs, WriteFails(p) PROVE TypeInv'
    <2>1. faults' \subseteq {"killed", "disk", "race"} /\ troubles' \in Nat
      BY <1>5 DEF WriteFails, Trouble
    <2>2. /\ files' = files /\ wanted' = wanted /\ generated' = generated /\ stale' = stale
          /\ printed' = printed /\ renewed' = renewed /\ runs' = runs
          /\ accepted' = accepted /\ pins' = pins
      BY <1>5 DEF WriteFails
    <2>3. opened' = [opened EXCEPT ![p] = FALSE]
      BY <1>5 DEF WriteFails, End
    <2>4. CASE pc[p] = "status.json"
      <3>1. pc' = [pc EXCEPT ![p] = "bind"] /\ id' = id /\ pair' = pair
        BY <1>5, <2>4 DEF WriteFails
      <3> QED
        BY <2>1, <2>2, <2>3, <2>4, <3>1
    <2>5. CASE pc[p] # "status.json"
      <3>1. /\ pc' = [pc EXCEPT ![p] = "down"] /\ id' = [id EXCEPT ![p] = Nil]
            /\ pair' = IF p = "daemon" THEN Nil ELSE pair
        BY <1>5, <2>5 DEF WriteFails, End
      <3> QED
        BY <2>1, <2>2, <2>3, <3>1
    <2> QED
      BY <2>4, <2>5
  <1>6. ASSUME NEW p \in Procs, Kill(p) PROVE TypeInv'
    BY <1>6 DEF Kill, Dies, End, Trouble
  <1>7. CASE Start
    BY <1>7 DEF Start
  <1>8. CASE MakePair
    BY <1>8 DEF MakePair, Missing
  <1>9. CASE LoadPair
    BY <1>9 DEF LoadPair, Usable
  <1>10. CASE LoadFails
    BY <1>10 DEF LoadFails, End
  <1>11. CASE Upnp
    BY <1>11 DEF Upnp
  <1>12. CASE Stun
    BY <1>12 DEF Stun
  <1>13. CASE Bind
    BY <1>13 DEF Bind
  <1>14. CASE BindFails
    BY <1>14 DEF BindFails, End, Trouble
  <1>15. CASE RunTool
    <2>1. CASE Goto("tool", "ask") /\ UNCHANGED renewed
      BY <1>15, <2>1 DEF RunTool
    <2>2. CASE Goto("tool", "regen") /\ renewed' = TRUE
      BY <1>15, <2>2 DEF RunTool
    <2> QED
      BY <1>15, <2>1, <2>2 DEF RunTool
  <1>16. CASE PrintId
    BY <1>16 DEF PrintId, End
  <1>17. CASE Stop
    BY <1>17 DEF Stop, Dies, End, Trouble
  <1>18. CASE Want
    BY <1>18 DEF Want
  <1>19. CASE UNCHANGED vars
    BY <1>19 DEF vars
  <1> QED
    BY <1>1, <1>2, <1>3, <1>4, <1>5, <1>6, <1>7, <1>8, <1>9, <1>10, <1>11, <1>12, <1>13, <1>14, <1>15, <1>16, <1>17, <1>18, <1>19 DEF Next, IdStep

\* The variables keep their types, with however many runs and failures.
THEOREM TypeCorrect == Spec => []TypeOK
  <1>1. TypeInv => TypeOK
    BY DEF TypeInv
  <1> QED
    BY <1>1, TypeInit, TypeStep, PTL DEF Spec

-----------------------------------------------------------------------------
(* The certificate.                                                        *)

\* While the daemon is past its TLS files they hold the pair it uses; once it
\* has listened they hold that pair for good: nobody opens them again.
PinInv ==
  /\ pc["daemon"] \in WithPair \ {"cert.pem", "key.pem"} =>
       files["cert.pem"] = pair /\ files["key.pem"] = pair
  /\ \A c \in pins : /\ files["cert.pem"] = c /\ files["key.pem"] = c
                     /\ pc["daemon"] \notin {"cert.pem", "key.pem"}

LEMMA PinInit == Init => PinInv
  BY DEF Init, PinInv, WithPair, Procs

\* Every step keeps PinInv: a pair is generated only when a file is missing.
LEMMA PinStep == TypeInv /\ PinInv /\ [Next]_vars => PinInv'
  <1> SUFFICES ASSUME TypeInv, PinInv, [Next]_vars PROVE PinInv'
    OBVIOUS
  <1> USE DEF TypeInv, TypeOK, Holds, PinInv, Procs, Files, IdFiles, Points, DaemonPoints,
              ToolPoints, NoId, WithPair, Goto, noteVars, toolVars, servedVars
  <1>1. ASSUME NEW p \in Procs, ReadId(p) PROVE PinInv'
    BY <1>1 DEF ReadId, Valid, Racing
  <1>2. ASSUME NEW p \in Procs, GenerateId(p) PROVE PinInv'
    BY <1>2 DEF GenerateId, Valid, Racing
  <1>3. ASSUME NEW p \in Procs, Open(p) PROVE PinInv'
    BY <1>3 DEF Open
  <1>4. ASSUME NEW p \in Procs, Write(p) PROVE PinInv'
    BY <1>4 DEF Write, AfterFile
  <1>5. ASSUME NEW p \in Procs, WriteFails(p) PROVE PinInv'
    BY <1>5 DEF WriteFails, End, Trouble
  <1>6. ASSUME NEW p \in Procs, Kill(p) PROVE PinInv'
    BY <1>6 DEF Kill, Dies, End, Trouble
  <1>7. CASE Start
    BY <1>7 DEF Start
  <1>8. CASE MakePair
    BY <1>8 DEF MakePair, Missing
  <1>9. CASE LoadPair
    BY <1>9 DEF LoadPair, Usable
  <1>10. CASE LoadFails
    BY <1>10 DEF LoadFails, End
  <1>11. CASE Upnp
    BY <1>11 DEF Upnp
  <1>12. CASE Stun
    BY <1>12 DEF Stun
  <1>13. CASE Bind
    BY <1>13 DEF Bind
  <1>14. CASE BindFails
    BY <1>14 DEF BindFails, End, Trouble
  <1>15. CASE RunTool
    BY <1>15 DEF RunTool
  <1>16. CASE PrintId
    BY <1>16 DEF PrintId, End
  <1>17. CASE Stop
    BY <1>17 DEF Stop, Dies, End, Trouble
  <1>18. CASE Want
    BY <1>18 DEF Want
  <1>19. CASE UNCHANGED vars
    BY <1>19 DEF vars
  <1> QED
    BY <1>1, <1>2, <1>3, <1>4, <1>5, <1>6, <1>7, <1>8, <1>9, <1>10, <1>11, <1>12, <1>13, <1>14, <1>15, <1>16, <1>17, <1>18, <1>19 DEF Next, IdStep

\* All members of pins are the content of one file.
LEMMA PinImplied == PinInv => PinKept
  <1> SUFFICES ASSUME PinInv, NEW c \in pins PROVE PinKept
    BY FS_EmptySet DEF PinKept
  <1>1. pins = {c}
    BY DEF PinInv
  <1> QED
    BY <1>1, FS_Singleton DEF PinKept

\* The daemon never listens with a second certificate, whatever was killed or
\* failed before: the pin a client has stored stays good.
THEOREM PinIsKept == Spec => []PinKept
  <1> QED
    BY TypeInit, TypeStep, PinInit, PinStep, PinImplied, PTL DEF Spec

-----------------------------------------------------------------------------
(* The connection id.                                                      *)

Calm == ~renewed /\ "race" \notin faults

\* One process at a time is between its test and its last write; one that is
\* past connection-id agrees with it; once the daemon has listened the file
\* holds that id and nobody is about to write it.
IdInv ==
  /\ pc["tool"] = "regen" => renewed
  /\ Calm =>
       /\ \A p, q \in Procs :
            p # q /\ pc[p] = "connection-id" => pc[q] \in NoId
       /\ \A p \in Procs :
            pc[p] \notin NoId \cup {"connection-id"} => files["connection-id"] = id[p]
       /\ \A i \in accepted :
            files["connection-id"] = i /\ \A p \in Procs : pc[p] # "connection-id"

LEMMA IdInit == Init => IdInv
  BY DEF Init, IdInv, Procs, NoId

\* Every step keeps IdInv: a valid file is only replaced by --regen-id.
LEMMA IdStepKeeps == TypeInv /\ IdInv /\ [Next]_vars => IdInv'
  <1> SUFFICES ASSUME TypeInv, IdInv, [Next]_vars PROVE IdInv'
    OBVIOUS
  <1> USE DEF TypeInv, TypeOK, Holds, IdInv, Calm, Procs, Files, IdFiles, Points, DaemonPoints,
              ToolPoints, NoId, WithPair, Goto, noteVars, toolVars, servedVars
  <1>1. ASSUME NEW p \in Procs, ReadId(p) PROVE IdInv'
    BY <1>1 DEF ReadId, Valid, Racing
  <1>2. ASSUME NEW p \in Procs, GenerateId(p) PROVE IdInv'
    BY <1>2 DEF GenerateId, Valid, Racing
  <1>3. ASSUME NEW p \in Procs, Open(p) PROVE IdInv'
    BY <1>3 DEF Open
  <1>4. ASSUME NEW p \in Procs, Write(p) PROVE IdInv'
    BY <1>4 DEF Write, AfterFile
  <1>5. ASSUME NEW p \in Procs, WriteFails(p) PROVE IdInv'
    BY <1>5 DEF WriteFails, End, Trouble
  <1>6. ASSUME NEW p \in Procs, Kill(p) PROVE IdInv'
    BY <1>6 DEF Kill, Dies, End, Trouble
  <1>7. CASE Start
    BY <1>7 DEF Start
  <1>8. CASE MakePair
    BY <1>8 DEF MakePair, Missing
  <1>9. CASE LoadPair
    BY <1>9 DEF LoadPair, Usable
  <1>10. CASE LoadFails
    BY <1>10 DEF LoadFails, End
  <1>11. CASE Upnp
    BY <1>11 DEF Upnp
  <1>12. CASE Stun
    BY <1>12 DEF Stun
  <1>13. CASE Bind
    BY <1>13 DEF Bind
  <1>14. CASE BindFails
    BY <1>14 DEF BindFails, End, Trouble
  <1>15. CASE RunTool
    BY <1>15 DEF RunTool
  <1>16. CASE PrintId
    BY <1>16 DEF PrintId, End
  <1>17. CASE Stop
    BY <1>17 DEF Stop, Dies, End, Trouble
  <1>18. CASE Want
    BY <1>18 DEF Want
  <1>19. CASE UNCHANGED vars
    BY <1>19 DEF vars
  <1> QED
    BY <1>1, <1>2, <1>3, <1>4, <1>5, <1>6, <1>7, <1>8, <1>9, <1>10, <1>11, <1>12, <1>13, <1>14, <1>15, <1>16, <1>17, <1>18, <1>19 DEF Next, IdStep

\* All ids accepted are the content of connection-id.
LEMMA IdImplied == IdInv => IdKept
  <1> SUFFICES ASSUME IdInv, Calm, NEW i \in accepted PROVE Cardinality(accepted) <= 1
    BY FS_EmptySet DEF IdKept, Calm
  <1>1. accepted = {i}
    BY DEF IdInv
  <1>2. Cardinality({i}) = 1
    BY FS_Singleton
  <1> QED
    BY <1>1, <1>2

\* Without --regen-id and without a second process at the first start, the
\* daemon listens with one id for ever, through kills and failed writes.
THEOREM IdIsKept == Spec => []IdKept
  <1> QED
    BY TypeInit, TypeStep, IdInit, IdStepKeeps, IdImplied, PTL DEF Spec

-----------------------------------------------------------------------------
(* Which id the daemon, the files and the tool hold.                       *)

Calmly == faults = {}
Rewriting(p) == pc[p] \in IdFiles
PastId == {"tls", "cert.pem", "key.pem", "load", "upnp", "stun", "status.json",
           "bind", "listen"}

\* As long as nothing went wrong: one process at a time is between its test and
\* its last write, and outside that time the two files agree; the daemon makes an
\* id only while nobody holds one; the tool makes one only behind its back
\* (stale); whoever has read an id, or has printed it, agrees with the file.
AgreeInv ==
  /\ \A p \in Procs : opened[p] => pc[p] \in Files
  /\ Calmly =>
       /\ ~(Rewriting("daemon") /\ Rewriting("tool"))
       /\ (\A p \in Procs : Rewriting(p) => pc[p] = "connection-id" /\ ~opened[p]) =>
            files["connection-id"] = files["CONNECTION-ID.txt"]
       /\ \A p \in Procs : pc[p] = "CONNECTION-ID.txt" => files["connection-id"] = id[p]
       /\ Rewriting("tool") => stale
       /\ Rewriting("daemon") => pc["tool"] # "print" /\ printed = Nil
       /\ pc["tool"] = "print" => files["connection-id"] = id["tool"]
       /\ printed # Nil => files["connection-id"] = printed /\ ~Rewriting("tool")
       /\ pc["daemon"] \in PastId /\ ~stale => files["connection-id"] = id["daemon"]
       /\ pc["daemon"] \in {"bind", "listen"} => files["status.json"] = id["daemon"]

LEMMA AgreeInit == Init => AgreeInv
  BY DEF Init, AgreeInv, Procs, Rewriting, IdFiles, PastId, Files

\* Every step keeps AgreeInv or leaves a fault behind.
LEMMA AgreeStep == TypeInv /\ AgreeInv /\ [Next]_vars => AgreeInv'
  <1> SUFFICES ASSUME TypeInv, AgreeInv, [Next]_vars PROVE AgreeInv'
    OBVIOUS
  <1> USE DEF TypeInv, TypeOK, Holds, AgreeInv, Calmly, Rewriting, PastId, Procs, Files, IdFiles,
              Points, DaemonPoints, ToolPoints, NoId, WithPair, Goto, noteVars, toolVars, servedVars
  <1>1. ASSUME NEW p \in Procs, ReadId(p) PROVE AgreeInv'
    BY <1>1 DEF ReadId, Valid, Racing
  <1>2. ASSUME NEW p \in Procs, GenerateId(p) PROVE AgreeInv'
    BY <1>2 DEF GenerateId, Valid, Racing
  <1>3. ASSUME NEW p \in Procs, Open(p) PROVE AgreeInv'
    BY <1>3 DEF Open
  <1>4. ASSUME NEW p \in Procs, Write(p) PROVE AgreeInv'
    BY <1>4 DEF Write, AfterFile
  <1>5. ASSUME NEW p \in Procs, WriteFails(p) PROVE AgreeInv'
    BY <1>5 DEF WriteFails, End, Trouble
  <1>6. ASSUME NEW p \in Procs, Kill(p) PROVE AgreeInv'
    BY <1>6 DEF Kill, Dies, End, Trouble
  <1>7. CASE Start
    BY <1>7 DEF Start
  <1>8. CASE MakePair
    BY <1>8 DEF MakePair, Missing
  <1>9. CASE LoadPair
    BY <1>9 DEF LoadPair, Usable
  <1>10. CASE LoadFails
    BY <1>10 DEF LoadFails, End
  <1>11. CASE Upnp
    BY <1>11 DEF Upnp
  <1>12. CASE Stun
    BY <1>12 DEF Stun
  <1>13. CASE Bind
    BY <1>13 DEF Bind
  <1>14. CASE BindFails
    BY <1>14 DEF BindFails, End, Trouble
  <1>15. CASE RunTool
    BY <1>15 DEF RunTool
  <1>16. CASE PrintId
    BY <1>16 DEF PrintId, End
  <1>17. CASE Stop
    BY <1>17 DEF Stop, Dies, End, Trouble
  <1>18. CASE Want
    BY <1>18 DEF Want
  <1>19. CASE UNCHANGED vars
    BY <1>19 DEF vars
  <1> QED
    BY <1>1, <1>2, <1>3, <1>4, <1>5, <1>6, <1>7, <1>8, <1>9, <1>10, <1>11, <1>12, <1>13, <1>14, <1>15, <1>16, <1>17, <1>18, <1>19 DEF Next, IdStep

\* Nothing went wrong and nobody asked for a new id: the daemon accepts the id
\* that both files, status.json and the tool show.
THEOREM IdsAgree == Spec => []IdAgrees
  <1>1. TypeInv /\ AgreeInv => IdAgrees
    BY DEF TypeInv, Holds, AgreeInv, IdAgrees, Calmly, Rewriting, PastId, Procs, IdFiles, Files
  <1> QED
    BY <1>1, TypeInit, TypeStep, AgreeInit, AgreeStep, PTL DEF Spec

=============================================================================
