----------------------------- MODULE HostProofs -----------------------------
(* Theorems about Host, for every number of connections.                   *)
EXTENDS Host, FiniteSetTheorems, TLAPS

USE HostAssumption

-----------------------------------------------------------------------------
(* Types.                                                                  *)

\* A local that is about to be used holds a configuration, never Nil: without
\* it restore could set the display to nothing.
HoldsConfig ==
  \A a \in Actors : pc[a] \in {"truncate", "write", "memo", "reset"} => local[a] \in Config

TypeInv == TypeOK /\ HoldsConfig

LEMMA TypeInit == Init => TypeInv
  BY DEF Init, TypeInv, HoldsConfig, TypeOK, Actors, Config, ConnState, MainState, Awaits,
         Caller, Fault

\* Every action of the sessions, of main and of the user preserves the types.
LEMMA TypeStep == TypeInv /\ [Next]_vars => TypeInv'
  <1> SUFFICES ASSUME TypeInv, [Next]_vars PROVE TypeInv'
    OBVIOUS
  <1> USE DEF TypeInv, HoldsConfig, TypeOK, Actors, Config, ConnState, MainState, Awaits,
              Saving, Caller, Fault, Goto, Return, Record, displayVars, statusVars, historyVars
  <1>1. ASSUME NEW c \in Conns, Connect(c) PROVE TypeInv'
    BY <1>1 DEF Connect
  <1>2. ASSUME NEW c \in Conns, Reject(c) PROVE TypeInv'
    BY <1>2 DEF Reject
  <1>3. ASSUME NEW c \in Conns, Authenticate(c) PROVE TypeInv'
    <2>1. faults' \in SUBSET Fault
      BY <1>3 DEF Authenticate
    <2>2. /\ pc' = [pc EXCEPT ![c] = "viewport"]
          /\ call' = [call EXCEPT ![c] = "apply_viewport"]
          /\ sessions' = sessions + 1
          /\ UNCHANGED <<displayVars, plasma, statusVars, chosen, boots>>
      BY <1>3 DEF Authenticate
    <2>3. QED
      BY <2>1, <2>2
  <1>4. ASSUME NEW c \in Conns, CheckSaved(c) PROVE TypeInv'
    BY <1>4 DEF CheckSaved
  <1>5. ASSUME NEW c \in Conns, SaveRead(c) PROVE TypeInv'
    BY <1>5 DEF SaveRead
  <1>6. ASSUME NEW c \in Conns, SaveFails(c) PROVE TypeInv'
    BY <1>6 DEF SaveFails
  <1>7. ASSUME NEW c \in Conns, SaveTruncate(c) PROVE TypeInv'
    <2>1. faults' \in SUBSET Fault
      BY <1>7 DEF SaveTruncate
    <2>2. file' \in Config \cup {Nil, Torn}
      BY <1>7 DEF SaveTruncate
    <2>3. pc' = [pc EXCEPT ![c] = "write"] \/ pc' = [pc EXCEPT ![c] = "memo"]
      BY <1>7 DEF SaveTruncate
    <2>4. QED
      BY <1>7, <2>1, <2>2, <2>3 DEF SaveTruncate
  <1>8. ASSUME NEW c \in Conns, SaveWrite(c) PROVE TypeInv'
    BY <1>8 DEF SaveWrite
  <1>9. ASSUME NEW c \in Conns, SaveMemo(c) PROVE TypeInv'
    BY <1>9 DEF SaveMemo
  <1>10. ASSUME NEW c \in Conns, Apply(c) PROVE TypeInv'
    BY <1>10 DEF Apply
  <1>11. ASSUME NEW c \in Conns, Greet(c) PROVE TypeInv'
    BY <1>11 DEF Greet
  <1>12. ASSUME NEW c \in Conns, GreetFails(c) PROVE TypeInv'
    BY <1>12 DEF GreetFails
  <1>13. ASSUME NEW c \in Conns, Count(c) PROVE TypeInv'
    BY <1>13 DEF Count
  <1>14. ASSUME NEW c \in Conns, CaptureStarts(c) PROVE TypeInv'
    BY <1>14 DEF CaptureStarts
  <1>15. ASSUME NEW c \in Conns, CaptureFails(c) PROVE TypeInv'
    BY <1>15 DEF CaptureFails
  <1>16. ASSUME NEW c \in Conns, Load(c) PROVE TypeInv'
    BY <1>16 DEF Load
  <1>17. ASSUME NEW c \in Conns, Publish(c) PROVE TypeInv'
    <2>1. seen[c] \in Nat
      OBVIOUS
    <2>2. status' \in Nat \cup {Torn}
      BY <1>17, <2>1, Zenon DEF Publish, WriteStatus
    <2>3. faults' \in SUBSET Fault
      <3>1. faults' = faults \cup Failed(seen[c])
        BY <1>17 DEF Publish
      <3>2. Failed(seen[c]) \subseteq {"disk"}
        BY DEF Failed
      <3>3. QED
        BY <3>1, <3>2
    <2>4. QED
      BY <1>17, <2>2, <2>3 DEF Publish
  <1>18. ASSUME NEW c \in Conns, UiScale(c) PROVE TypeInv'
    BY <1>18 DEF UiScale
  <1>19. ASSUME NEW c \in Conns, Leave(c) PROVE TypeInv'
    BY <1>19 DEF Leave
  <1>20. ASSUME NEW c \in Conns, Abandon(c) PROVE TypeInv'
    BY <1>20 DEF Abandon
  <1>21. ASSUME NEW c \in Conns, Uncount(c) PROVE TypeInv'
    BY <1>21 DEF Uncount
  <1>22. ASSUME NEW a \in Actors, RestoreRead(a) PROVE TypeInv'
    BY <1>22 DEF RestoreRead, RestoreTarget, AfterRestore
  <1>23. ASSUME NEW a \in Actors, RestoreApply(a) PROVE TypeInv'
    <2>1. display' \in Config
      BY <1>23 DEF RestoreApply
    <2>2. faults' \in SUBSET Fault
      BY <1>23 DEF RestoreApply
    <2>3. pc' = [pc EXCEPT ![a] = AfterRestore(a)]
      BY <1>23 DEF RestoreApply
    <2>4. QED
      BY <1>23, <2>1, <2>2, <2>3 DEF RestoreApply, AfterRestore
  <1>24. CASE Signal
    BY <1>24 DEF Signal
  <1>25. CASE ServeFails
    BY <1>25 DEF ServeFails
  <1>26. CASE Exit
    BY <1>26 DEF Exit, Forget
  <1>27. CASE Crash
    BY <1>27 DEF Crash, Forget
  <1>28. CASE Boot
    <2>1. status' \in Nat \cup {Torn}
      BY <1>28, Zenon DEF Boot, WriteStatus
    <2>2. faults' \in SUBSET Fault
      <3>1. Failed(clients) \subseteq {"disk"}
        BY DEF Failed
      <3>2. QED
        BY <1>28, <3>1 DEF Boot
    <2>3. QED
      BY <1>28, <2>1, <2>2 DEF Boot
  <1>29. CASE Login
    BY <1>29 DEF Login
  <1>30. CASE UserChange
    BY <1>30 DEF UserChange
  <1>31. CASE UNCHANGED vars
    BY <1>31 DEF vars
  <1>32. QED
    BY <1>1, <1>2, <1>3, <1>4, <1>5, <1>6, <1>7, <1>8, <1>9, <1>10, <1>11,
       <1>12, <1>13, <1>14, <1>15, <1>16, <1>17, <1>18, <1>19, <1>20,
       <1>21, <1>22, <1>23, <1>24, <1>25, <1>26, <1>27, <1>28, <1>29,
       <1>30, <1>31
    DEF Next, SessionStep, SaveStep, MainStep

\* Type correctness of the state the sessions and the main task share and of
\* what each holds in locals, over every action of the daemon.
THEOREM TypeCorrect == Spec => []TypeOK
<1>1. TypeInv => TypeOK
  BY DEF TypeInv
<1>2. QED
  BY <1>1, TypeInit, TypeStep, PTL DEF Spec

-----------------------------------------------------------------------------
(* The record of the user's configuration.                                 *)

Clean == Up /\ faults \cap {"save", "reboot"} = {}

\* What SavedBeforeApply rests on.  SAVED never goes back to None while the
\* process lives, so whatever can put a Remote configuration on the display,
\* in a local or in the file, comes after SAVED was set.
RecordInv ==
  /\ ~Up => \A a \in Actors : local[a] = Nil
  /\ ~Up => \A c \in Conns : pc[c] = "idle"
  /\ Clean =>
       /\ display = Remote => saved # Nil
       /\ file = Remote => saved # Nil
       /\ \A a \in Actors : local[a] = Remote => saved # Nil
       /\ \A c \in Conns : pc[c] = "apply" => saved # Nil

LEMMA RecordInit == Init => RecordInv
  BY DEF Init, RecordInv, Clean, Up, Actors

\* Every action keeps the record ahead of the display.
LEMMA RecordStep == TypeInv /\ RecordInv /\ [Next]_vars => RecordInv'
  <1> SUFFICES ASSUME TypeInv, RecordInv, [Next]_vars PROVE RecordInv'
    OBVIOUS
  <1> USE DEF TypeInv, HoldsConfig, TypeOK, RecordInv, Clean, Up, Actors, Config, Saving,
              Goto, Return, Record, displayVars, statusVars, historyVars
  <1>1. ASSUME NEW c \in Conns, Connect(c) PROVE RecordInv'
    BY <1>1 DEF Connect
  <1>2. ASSUME NEW c \in Conns, Reject(c) PROVE RecordInv'
    BY <1>2 DEF Reject
  <1>3. ASSUME NEW c \in Conns, Authenticate(c) PROVE RecordInv'
    BY <1>3 DEF Authenticate
  <1>4. ASSUME NEW c \in Conns, CheckSaved(c) PROVE RecordInv'
    BY <1>4 DEF CheckSaved
  <1>5. ASSUME NEW c \in Conns, SaveRead(c) PROVE RecordInv'
    BY <1>5 DEF SaveRead
  <1>6. ASSUME NEW c \in Conns, SaveFails(c) PROVE RecordInv'
    BY <1>6 DEF SaveFails
  <1>7. ASSUME NEW c \in Conns, SaveTruncate(c) PROVE RecordInv'
    BY <1>7 DEF SaveTruncate
  <1>8. ASSUME NEW c \in Conns, SaveWrite(c) PROVE RecordInv'
    BY <1>8 DEF SaveWrite
  <1>9. ASSUME NEW c \in Conns, SaveMemo(c) PROVE RecordInv'
    BY <1>9 DEF SaveMemo
  <1>10. ASSUME NEW c \in Conns, Apply(c) PROVE RecordInv'
    BY <1>10 DEF Apply
  <1>11. ASSUME NEW c \in Conns, Greet(c) PROVE RecordInv'
    BY <1>11 DEF Greet
  <1>12. ASSUME NEW c \in Conns, GreetFails(c) PROVE RecordInv'
    BY <1>12 DEF GreetFails
  <1>13. ASSUME NEW c \in Conns, Count(c) PROVE RecordInv'
    BY <1>13 DEF Count
  <1>14. ASSUME NEW c \in Conns, CaptureStarts(c) PROVE RecordInv'
    BY <1>14 DEF CaptureStarts
  <1>15. ASSUME NEW c \in Conns, CaptureFails(c) PROVE RecordInv'
    BY <1>15 DEF CaptureFails
  <1>16. ASSUME NEW c \in Conns, Load(c) PROVE RecordInv'
    BY <1>16 DEF Load
  <1>17. ASSUME NEW c \in Conns, Publish(c) PROVE RecordInv'
    BY <1>17 DEF Publish
  <1>18. ASSUME NEW c \in Conns, UiScale(c) PROVE RecordInv'
    BY <1>18 DEF UiScale
  <1>19. ASSUME NEW c \in Conns, Leave(c) PROVE RecordInv'
    BY <1>19 DEF Leave
  <1>20. ASSUME NEW c \in Conns, Abandon(c) PROVE RecordInv'
    BY <1>20 DEF Abandon
  <1>21. ASSUME NEW c \in Conns, Uncount(c) PROVE RecordInv'
    BY <1>21 DEF Uncount
  <1>22. ASSUME NEW a \in Actors, RestoreRead(a) PROVE RecordInv'
    BY <1>22 DEF RestoreRead, RestoreTarget, AfterRestore
  <1>23. ASSUME NEW a \in Actors, RestoreApply(a) PROVE RecordInv'
    BY <1>23 DEF RestoreApply, AfterRestore
  <1>24. CASE Signal
    BY <1>24 DEF Signal
  <1>25. CASE ServeFails
    BY <1>25 DEF ServeFails
  <1>26. CASE Exit
    BY <1>26 DEF Exit, Forget
  <1>27. CASE Crash
    BY <1>27 DEF Crash, Forget
  <1>28. CASE Boot
    BY <1>28 DEF Boot
  <1>29. CASE Login
    BY <1>29 DEF Login
  <1>30. CASE UserChange
    BY <1>30 DEF UserChange
  <1>31. CASE UNCHANGED vars
    BY <1>31 DEF vars
  <1>32. QED
    BY <1>1, <1>2, <1>3, <1>4, <1>5, <1>6, <1>7, <1>8, <1>9, <1>10, <1>11,
       <1>12, <1>13, <1>14, <1>15, <1>16, <1>17, <1>18, <1>19, <1>20,
       <1>21, <1>22, <1>23, <1>24, <1>25, <1>26, <1>27, <1>28, <1>29,
       <1>30, <1>31
    DEF Next, SessionStep, SaveStep, MainStep

\* The display carries a configuration of the daemon only after SAVED was set,
\* whatever the number of sessions and the order of their steps, unless a save
\* failed or the daemon started on a Remote display or record.
THEOREM SavedFirst == Spec => []SavedBeforeApply
<1>1. RecordInv => SavedBeforeApply
  BY DEF RecordInv, Clean, SavedBeforeApply
<1>2. QED
  BY <1>1, TypeInit, TypeStep, RecordInit, RecordStep, PTL DEF Spec

-----------------------------------------------------------------------------
(* The client counter.                                                     *)

\* A session inside save_current or status::write was sent there by one of two
\* callers, so `call` tells whether it is counted.
CallInv ==
  /\ \A c \in Conns : pc[c] \in Saving \cup {"apply"} =>
       call[c] \in {"apply_viewport", "apply_ui_scale"}
  /\ \A c \in Conns : pc[c] \in {"load", "publish"} =>
       call[c] \in {"connected", "disconnected"}
  /\ ~Up => \A c \in Conns : pc[c] = "idle"

CountInv == CallInv /\ ClientsExact

LEMMA CountedFinite == IsFiniteSet(Counted) /\ Cardinality(Counted) \in Nat
  BY FS_Subset, FS_CardinalityType DEF Counted

LEMMA CountInit == Init => CountInv
<1> SUFFICES ASSUME Init PROVE CountInv
  OBVIOUS
<1>1. CallInv
  BY DEF Init, CallInv, Up, Actors, Saving
<1>2. Counted = {}
  BY DEF Init, Counted, Actors, Saving
<1>3. QED
  BY <1>1, <1>2, FS_EmptySet DEF CountInv, ClientsExact, Init

LEMMA CallStep == TypeInv /\ CallInv /\ [Next]_vars => CallInv'
  <1> SUFFICES ASSUME TypeInv, CallInv, [Next]_vars PROVE CallInv'
    OBVIOUS
  <1> USE DEF TypeInv, TypeOK, CallInv, Up, Actors, Saving, Goto, Return, statusVars
  <1>1. ASSUME NEW c \in Conns, Connect(c) PROVE CallInv'
    BY <1>1 DEF Connect
  <1>2. ASSUME NEW c \in Conns, Reject(c) PROVE CallInv'
    BY <1>2 DEF Reject
  <1>3. ASSUME NEW c \in Conns, Authenticate(c) PROVE CallInv'
    BY <1>3 DEF Authenticate
  <1>4. ASSUME NEW c \in Conns, CheckSaved(c) PROVE CallInv'
    BY <1>4 DEF CheckSaved
  <1>5. ASSUME NEW c \in Conns, SaveRead(c) PROVE CallInv'
    BY <1>5 DEF SaveRead
  <1>6. ASSUME NEW c \in Conns, SaveFails(c) PROVE CallInv'
    BY <1>6 DEF SaveFails
  <1>7. ASSUME NEW c \in Conns, SaveTruncate(c) PROVE CallInv'
    BY <1>7 DEF SaveTruncate
  <1>8. ASSUME NEW c \in Conns, SaveWrite(c) PROVE CallInv'
    BY <1>8 DEF SaveWrite
  <1>9. ASSUME NEW c \in Conns, SaveMemo(c) PROVE CallInv'
    BY <1>9 DEF SaveMemo
  <1>10. ASSUME NEW c \in Conns, Apply(c) PROVE CallInv'
    BY <1>10 DEF Apply
  <1>11. ASSUME NEW c \in Conns, Greet(c) PROVE CallInv'
    BY <1>11 DEF Greet
  <1>12. ASSUME NEW c \in Conns, GreetFails(c) PROVE CallInv'
    BY <1>12 DEF GreetFails
  <1>13. ASSUME NEW c \in Conns, Count(c) PROVE CallInv'
    BY <1>13 DEF Count
  <1>14. ASSUME NEW c \in Conns, CaptureStarts(c) PROVE CallInv'
    BY <1>14 DEF CaptureStarts
  <1>15. ASSUME NEW c \in Conns, CaptureFails(c) PROVE CallInv'
    BY <1>15 DEF CaptureFails
  <1>16. ASSUME NEW c \in Conns, Load(c) PROVE CallInv'
    BY <1>16 DEF Load
  <1>17. ASSUME NEW c \in Conns, Publish(c) PROVE CallInv'
    BY <1>17 DEF Publish
  <1>18. ASSUME NEW c \in Conns, UiScale(c) PROVE CallInv'
    BY <1>18 DEF UiScale
  <1>19. ASSUME NEW c \in Conns, Leave(c) PROVE CallInv'
    BY <1>19 DEF Leave
  <1>20. ASSUME NEW c \in Conns, Abandon(c) PROVE CallInv'
    BY <1>20 DEF Abandon
  <1>21. ASSUME NEW c \in Conns, Uncount(c) PROVE CallInv'
    BY <1>21 DEF Uncount
  <1>22. ASSUME NEW a \in Actors, RestoreRead(a) PROVE CallInv'
    BY <1>22 DEF RestoreRead, RestoreTarget, AfterRestore
  <1>23. ASSUME NEW a \in Actors, RestoreApply(a) PROVE CallInv'
    BY <1>23 DEF RestoreApply, AfterRestore
  <1>24. CASE Signal
    BY <1>24 DEF Signal
  <1>25. CASE ServeFails
    BY <1>25 DEF ServeFails
  <1>26. CASE Exit
    BY <1>26 DEF Exit, Forget
  <1>27. CASE Crash
    BY <1>27 DEF Crash, Forget
  <1>28. CASE Boot
    BY <1>28 DEF Boot
  <1>29. CASE Login
    BY <1>29 DEF Login
  <1>30. CASE UserChange
    BY <1>30 DEF UserChange
  <1>31. CASE UNCHANGED vars
    BY <1>31 DEF vars
  <1>32. QED
    BY <1>1, <1>2, <1>3, <1>4, <1>5, <1>6, <1>7, <1>8, <1>9, <1>10, <1>11,
       <1>12, <1>13, <1>14, <1>15, <1>16, <1>17, <1>18, <1>19, <1>20,
       <1>21, <1>22, <1>23, <1>24, <1>25, <1>26, <1>27, <1>28, <1>29,
       <1>30, <1>31
    DEF Next, SessionStep, SaveStep, MainStep

\* Only client_connected and client_disconnected move CLIENTS, and the second
\* never meets zero.
LEMMA ClientsStep == TypeInv /\ CountInv /\ [Next]_vars => ClientsExact'
  <1> SUFFICES ASSUME TypeInv, CountInv, [Next]_vars PROVE ClientsExact'
    OBVIOUS
  <1> USE DEF TypeInv, TypeOK, CountInv, CallInv, ClientsExact, Up, Actors, Saving,
              Awaits, Goto, Return, statusVars
  <1>1. ASSUME NEW c \in Conns, Connect(c) PROVE ClientsExact'
    <2>1. Counted' = Counted
      BY <1>1 DEF Connect, Counted
    <2>2. QED
      BY <1>1, <2>1 DEF Connect
  <1>2. ASSUME NEW c \in Conns, Reject(c) PROVE ClientsExact'
    <2>1. Counted' = Counted
      BY <1>2 DEF Reject, Counted
    <2>2. QED
      BY <1>2, <2>1 DEF Reject
  <1>3. ASSUME NEW c \in Conns, Authenticate(c) PROVE ClientsExact'
    <2>1. Counted' = Counted
      BY <1>3 DEF Authenticate, Counted
    <2>2. QED
      BY <1>3, <2>1 DEF Authenticate
  <1>4. ASSUME NEW c \in Conns, CheckSaved(c) PROVE ClientsExact'
    <2>1. Counted' = Counted
      BY <1>4 DEF CheckSaved, Counted
    <2>2. QED
      BY <1>4, <2>1 DEF CheckSaved
  <1>5. ASSUME NEW c \in Conns, SaveRead(c) PROVE ClientsExact'
    <2>1. Counted' = Counted
      BY <1>5 DEF SaveRead, Counted
    <2>2. QED
      BY <1>5, <2>1 DEF SaveRead
  <1>6. ASSUME NEW c \in Conns, SaveFails(c) PROVE ClientsExact'
    <2>1. Counted' = Counted
      BY <1>6 DEF SaveFails, Counted
    <2>2. QED
      BY <1>6, <2>1 DEF SaveFails
  <1>7. ASSUME NEW c \in Conns, SaveTruncate(c) PROVE ClientsExact'
    <2>1. Counted' = Counted
      BY <1>7 DEF SaveTruncate, Counted
    <2>2. QED
      BY <1>7, <2>1 DEF SaveTruncate
  <1>8. ASSUME NEW c \in Conns, SaveWrite(c) PROVE ClientsExact'
    <2>1. Counted' = Counted
      BY <1>8 DEF SaveWrite, Counted
    <2>2. QED
      BY <1>8, <2>1 DEF SaveWrite
  <1>9. ASSUME NEW c \in Conns, SaveMemo(c) PROVE ClientsExact'
    <2>1. Counted' = Counted
      BY <1>9 DEF SaveMemo, Counted
    <2>2. QED
      BY <1>9, <2>1 DEF SaveMemo
  <1>10. ASSUME NEW c \in Conns, Apply(c) PROVE ClientsExact'
    <2>1. Counted' = Counted
      BY <1>10 DEF Apply, Counted
    <2>2. QED
      BY <1>10, <2>1 DEF Apply
  <1>11. ASSUME NEW c \in Conns, Greet(c) PROVE ClientsExact'
    <2>1. Counted' = Counted
      BY <1>11 DEF Greet, Counted
    <2>2. QED
      BY <1>11, <2>1 DEF Greet
  <1>12. ASSUME NEW c \in Conns, GreetFails(c) PROVE ClientsExact'
    <2>1. Counted' = Counted
      BY <1>12 DEF GreetFails, Counted
    <2>2. QED
      BY <1>12, <2>1 DEF GreetFails
  <1>13. ASSUME NEW c \in Conns, Count(c) PROVE ClientsExact'
    <2>1. c \notin Counted /\ Counted' = Counted \cup {c}
      BY <1>13 DEF Count, Counted
    <2>2. Cardinality(Counted') = Cardinality(Counted) + 1
      BY <2>1, CountedFinite, FS_AddElement
    <2>3. QED
      BY <1>13, <2>2, CountedFinite DEF Count
  <1>14. ASSUME NEW c \in Conns, CaptureStarts(c) PROVE ClientsExact'
    <2>1. Counted' = Counted
      BY <1>14 DEF CaptureStarts, Counted
    <2>2. QED
      BY <1>14, <2>1 DEF CaptureStarts
  <1>15. ASSUME NEW c \in Conns, CaptureFails(c) PROVE ClientsExact'
    <2>1. c \in Counted /\ Counted' = Counted \ {c}
      BY <1>15 DEF CaptureFails, Counted
    <2>2. Cardinality(Counted') = Cardinality(Counted) - 1
      BY <2>1, CountedFinite, FS_RemoveElement
    <2>3. QED
      BY <1>15, <2>2, CountedFinite DEF CaptureFails
  <1>16. ASSUME NEW c \in Conns, Load(c) PROVE ClientsExact'
    <2>1. Counted' = Counted
      BY <1>16 DEF Load, Counted
    <2>2. QED
      BY <1>16, <2>1 DEF Load
  <1>17. ASSUME NEW c \in Conns, Publish(c) PROVE ClientsExact'
    <2>1. Counted' = Counted
      BY <1>17 DEF Publish, Counted
    <2>2. QED
      BY <1>17, <2>1 DEF Publish
  <1>18. ASSUME NEW c \in Conns, UiScale(c) PROVE ClientsExact'
    <2>1. Counted' = Counted
      BY <1>18 DEF UiScale, Counted
    <2>2. QED
      BY <1>18, <2>1 DEF UiScale
  <1>19. ASSUME NEW c \in Conns, Leave(c) PROVE ClientsExact'
    <2>1. Counted' = Counted
      BY <1>19 DEF Leave, Counted
    <2>2. QED
      BY <1>19, <2>1 DEF Leave
  <1>20. ASSUME NEW c \in Conns, Abandon(c) PROVE ClientsExact'
    <2>1. c \in Counted /\ Counted' = Counted \ {c}
      BY <1>20 DEF Abandon, Counted
    <2>2. Cardinality(Counted') = Cardinality(Counted) - 1
      BY <2>1, CountedFinite, FS_RemoveElement
    <2>3. QED
      BY <1>20, <2>2, CountedFinite DEF Abandon
  <1>21. ASSUME NEW c \in Conns, Uncount(c) PROVE ClientsExact'
    <2>1. c \in Counted /\ Counted' = Counted \ {c}
      BY <1>21 DEF Uncount, Counted
    <2>2. Cardinality(Counted') = Cardinality(Counted) - 1
      BY <2>1, CountedFinite, FS_RemoveElement
    <2>3. Cardinality(Counted) > 0
      BY <2>1, CountedFinite, FS_EmptySet
    <2>4. QED
      BY <1>21, <2>2, <2>3, CountedFinite DEF Uncount
  <1>22. ASSUME NEW a \in Actors, RestoreRead(a) PROVE ClientsExact'
    <2>1. Counted' = Counted
      BY <1>22 DEF RestoreRead, RestoreTarget, AfterRestore, Counted
    <2>2. QED
      BY <1>22, <2>1 DEF RestoreRead, RestoreTarget, AfterRestore
  <1>23. ASSUME NEW a \in Actors, RestoreApply(a) PROVE ClientsExact'
    <2>1. Counted' = Counted
      BY <1>23 DEF RestoreApply, AfterRestore, Counted
    <2>2. QED
      BY <1>23, <2>1 DEF RestoreApply, AfterRestore
  <1>24. CASE Signal
    <2>1. Counted' = Counted
      BY <1>24 DEF Signal, Counted
    <2>2. QED
      BY <1>24, <2>1 DEF Signal
  <1>25. CASE ServeFails
    <2>1. Counted' = Counted
      BY <1>25 DEF ServeFails, Counted
    <2>2. QED
      BY <1>25, <2>1 DEF ServeFails
  <1>26. CASE Exit
    <2>1. Counted' = {}
      BY <1>26 DEF Exit, Forget, Counted
    <2>2. QED
      BY <1>26, <2>1, FS_EmptySet DEF Exit, Forget
  <1>27. CASE Crash
    <2>1. Counted' = {}
      BY <1>27 DEF Crash, Forget, Counted
    <2>2. QED
      BY <1>27, <2>1, FS_EmptySet DEF Crash, Forget
  <1>28. CASE Boot
    <2>1. Counted' = Counted
      BY <1>28 DEF Boot, Counted
    <2>2. QED
      BY <1>28, <2>1 DEF Boot
  <1>29. CASE Login
    <2>1. Counted' = Counted
      BY <1>29 DEF Login, Counted
    <2>2. QED
      BY <1>29, <2>1 DEF Login
  <1>30. CASE UserChange
    <2>1. Counted' = Counted
      BY <1>30 DEF UserChange, Counted
    <2>2. QED
      BY <1>30, <2>1 DEF UserChange
  <1>31. CASE UNCHANGED vars
    <2>1. Counted' = Counted
      BY <1>31 DEF vars, Counted
    <2>2. QED
      BY <1>31, <2>1 DEF vars
  <1>32. QED
    BY <1>1, <1>2, <1>3, <1>4, <1>5, <1>6, <1>7, <1>8, <1>9, <1>10, <1>11,
       <1>12, <1>13, <1>14, <1>15, <1>16, <1>17, <1>18, <1>19, <1>20,
       <1>21, <1>22, <1>23, <1>24, <1>25, <1>26, <1>27, <1>28, <1>29,
       <1>30, <1>31
    DEF Next, SessionStep, SaveStep, MainStep

\* CLIENTS is the sessions between client_connected and client_disconnected
\* plus those that ended by an error in between, for any number of sessions.
THEOREM ClientsCorrect == Spec => []ClientsExact
<1>1. TypeInv /\ CountInv /\ [Next]_vars => CountInv'
  BY CallStep, ClientsStep DEF CountInv
<1>2. CountInv => ClientsExact
  BY DEF CountInv
<1>3. QED
  BY <1>1, <1>2, TypeInit, TypeStep, CountInit, PTL DEF Spec

-----------------------------------------------------------------------------
(* One client at a time.                                                   *)

\* As long as no session has begun beside another, at most one is under way:
\* what the test-then-save of SAVED relies on and nothing in run_session enforces.
Alone == "overlap" \notin faults

AloneInv ==
  Alone => \A c, d \in Conns :
    c # d /\ pc[c] \notin {"idle", "auth"} => pc[d] \in {"idle", "auth"}

\* Before it is saved and after it is restored, the configuration is the user's.
Untouched(c) ==
  \/ pc[c] \in {"idle", "auth", "viewport", "uncount"}
  \/ pc[c] \in {"load", "publish"} /\ call[c] = "disconnected"

RestoreInv ==
  /\ AloneInv
  /\ Alone => \A c \in Conns : pc[c] \in Saving => saved = Nil
  /\ faults \cap {"save", "overlap", "reboot"} = {} =>
       /\ saved # Remote
       /\ file # Remote
       /\ \A a \in Actors : local[a] # Remote
  /\ faults \cap {"save", "disk", "overlap", "reboot"} = {} =>
       /\ saved # Nil => file \in UserModes
       /\ display = Remote => file \in UserModes
       /\ \A c \in Conns : pc[c] = "memo" => file \in UserModes
  /\ RestoredOnLeave
  /\ faults = {} =>
       /\ \A c \in Conns : pc[c] \in {"load", "publish"} /\ call[c] = "disconnected" =>
            display # Remote
       /\ (\A c \in Conns : Untouched(c)) => display # Remote
  /\ faults \subseteq {"exit", "disk"} =>
       (pc[Daemon] \in {"drain", "down"} => display # Remote)

LEMMA RestoreInit == Init => RestoreInv
  BY DEF Init, RestoreInv, RestoredOnLeave, Untouched, Actors, Saving, AloneInv, Alone

\* Without a second session every step keeps Remote out of the record and puts
\* the user's configuration back.
LEMMA RestoreStep ==
  TypeInv /\ RecordInv /\ CallInv /\ RestoreInv /\ [Next]_vars => RestoreInv'
  <1> SUFFICES ASSUME TypeInv, RecordInv, CallInv, RestoreInv, [Next]_vars
               PROVE RestoreInv'
    OBVIOUS
  <1> USE DEF TypeInv, HoldsConfig, TypeOK, RecordInv, Clean, CallInv, RestoreInv, AloneInv, Alone,
          RestoredOnLeave, Untouched, Up, Actors, Config, Saving, Goto, Return,
          Record, displayVars, statusVars, historyVars
  <1>1. ASSUME NEW c \in Conns, Connect(c) PROVE RestoreInv'
    BY <1>1 DEF Connect
  <1>2. ASSUME NEW c \in Conns, Reject(c) PROVE RestoreInv'
    BY <1>2 DEF Reject
  <1>3. ASSUME NEW c \in Conns, Authenticate(c) PROVE RestoreInv'
    BY <1>3 DEF Authenticate
  <1>4. ASSUME NEW c \in Conns, CheckSaved(c) PROVE RestoreInv'
    BY <1>4 DEF CheckSaved
  <1>5. ASSUME NEW c \in Conns, SaveRead(c) PROVE RestoreInv'
    BY <1>5 DEF SaveRead
  <1>6. ASSUME NEW c \in Conns, SaveFails(c) PROVE RestoreInv'
    BY <1>6 DEF SaveFails
  <1>7. ASSUME NEW c \in Conns, SaveTruncate(c) PROVE RestoreInv'
    BY <1>7 DEF SaveTruncate
  <1>8. ASSUME NEW c \in Conns, SaveWrite(c) PROVE RestoreInv'
    BY <1>8 DEF SaveWrite
  <1>9. ASSUME NEW c \in Conns, SaveMemo(c) PROVE RestoreInv'
    BY <1>9 DEF SaveMemo
  <1>10. ASSUME NEW c \in Conns, Apply(c) PROVE RestoreInv'
    BY <1>10 DEF Apply
  <1>11. ASSUME NEW c \in Conns, Greet(c) PROVE RestoreInv'
    BY <1>11 DEF Greet
  <1>12. ASSUME NEW c \in Conns, GreetFails(c) PROVE RestoreInv'
    BY <1>12 DEF GreetFails
  <1>13. ASSUME NEW c \in Conns, Count(c) PROVE RestoreInv'
    BY <1>13 DEF Count
  <1>14. ASSUME NEW c \in Conns, CaptureStarts(c) PROVE RestoreInv'
    BY <1>14 DEF CaptureStarts
  <1>15. ASSUME NEW c \in Conns, CaptureFails(c) PROVE RestoreInv'
    BY <1>15 DEF CaptureFails
  <1>16. ASSUME NEW c \in Conns, Load(c) PROVE RestoreInv'
    BY <1>16 DEF Load
  <1>17. ASSUME NEW c \in Conns, Publish(c) PROVE RestoreInv'
    <2>1. /\ UNCHANGED <<display, saved, file, local>>
          /\ pc[c] = "publish"
          /\ call' = [call EXCEPT ![c] = "apply_viewport"]
          /\ pc' = [pc EXCEPT ![c] = IF call[c] = "connected" THEN "capture" ELSE "idle"]
      BY <1>17 DEF Publish
    <2>2. faults' = faults \/ faults' = faults \cup {"disk"}
      <3>1. Failed(seen[c]) = {} \/ Failed(seen[c]) = {"disk"}
        BY Zenon DEF Failed
      <3>2. faults' = faults \cup Failed(seen[c])
        BY <1>17 DEF Publish
      <3>3. QED
        BY <3>1, <3>2
    <2>3. QED
      BY <2>1, <2>2
  <1>18. ASSUME NEW c \in Conns, UiScale(c) PROVE RestoreInv'
    BY <1>18 DEF UiScale
  <1>19. ASSUME NEW c \in Conns, Leave(c) PROVE RestoreInv'
    BY <1>19 DEF Leave
  <1>20. ASSUME NEW c \in Conns, Abandon(c) PROVE RestoreInv'
    BY <1>20 DEF Abandon
  <1>21. ASSUME NEW c \in Conns, Uncount(c) PROVE RestoreInv'
    BY <1>21 DEF Uncount
  <1>22. ASSUME NEW a \in Actors, RestoreRead(a) PROVE RestoreInv'
    BY <1>22 DEF RestoreRead, RestoreTarget, AfterRestore
  <1>23. ASSUME NEW a \in Actors, RestoreApply(a) PROVE RestoreInv'
    BY <1>23 DEF RestoreApply, AfterRestore
  <1>24. CASE Signal
    BY <1>24 DEF Signal
  <1>25. CASE ServeFails
    BY <1>25 DEF ServeFails
  <1>26. CASE Exit
    BY <1>26 DEF Exit, Forget
  <1>27. CASE Crash
    BY <1>27 DEF Crash, Forget
  <1>28. CASE Boot
    BY <1>28 DEF Boot
  <1>29. CASE Login
    BY <1>29 DEF Login
  <1>30. CASE UserChange
    BY <1>30 DEF UserChange
  <1>31. CASE UNCHANGED vars
    BY <1>31 DEF vars
  <1>32. QED
    BY <1>1, <1>2, <1>3, <1>4, <1>5, <1>6, <1>7, <1>8, <1>9, <1>10, <1>11,
       <1>12, <1>13, <1>14, <1>15, <1>16, <1>17, <1>18, <1>19, <1>20,
       <1>21, <1>22, <1>23, <1>24, <1>25, <1>26, <1>27, <1>28, <1>29,
       <1>30, <1>31
    DEF Next, SessionStep, SaveStep, MainStep


LEMMA RestoreAlways ==
  Spec => [](TypeInv /\ RecordInv /\ CallInv /\ RestoreInv)
<1>1. Init => CallInv
  BY CountInit DEF CountInv
<1>2. QED
  BY <1>1, TypeInit, TypeStep, RecordInit, RecordStep, CallStep, RestoreInit, RestoreStep, PTL DEF Spec

\* For any number of sessions: SAVED holds a configuration of the user, unless
\* a save failed, sessions overlapped, or the daemon started on a
\* configuration or a record of its own.
THEOREM RecordIsUsers ==
  Spec => []SavedIsUsers
<1>1. RestoreInv => SavedIsUsers
  BY DEF RestoreInv, SavedIsUsers
<1>2. QED
  BY <1>1, RestoreAlways, PTL

\* For any number of sessions: saved-output.json is whole, and the user's, at
\* every instant at which the display is not the user's, unless a save or a
\* write of a file failed, sessions overlapped, or the daemon started on a
\* configuration or a record of its own.
THEOREM CrashKeepsRecord ==
  Spec => []FileOutlivesCrash
<1>1. RestoreInv => FileOutlivesCrash
  BY DEF RestoreInv, FileOutlivesCrash
<1>2. QED
  BY <1>1, RestoreAlways, PTL

\* For any number of sessions: one that ends by leaving its loop gives the
\* laptop back a configuration of the user, after abandoned sessions, crashes,
\* failed writes and while the daemon shuts down; not after a failed save or
\* restore, overlapping sessions, or a start on a configuration of its own.
THEOREM LeaveRestores ==
  Spec => []RestoredOnLeave
<1>1. RestoreInv => RestoredOnLeave
  BY DEF RestoreInv
<1>2. QED
  BY <1>1, RestoreAlways, PTL

\* Without overlapping sessions, for any number of them, a daemon at rest leaves
\* the display in a configuration of the user, when nothing went wrong.
THEOREM RestRestores ==
  Spec => []RestoredWhenQuiet
<1>1. RestoreInv => RestoredWhenQuiet
  <2> SUFFICES ASSUME RestoreInv, Quiet, faults = {} PROVE display # Remote
    BY DEF RestoredWhenQuiet
  <2> QED
    BY DEF RestoreInv, Quiet, Untouched
<1>2. QED
  BY <1>1, RestoreAlways, PTL

\* The same for a daemon that a signal has stopped, also after sessions that
\* ended by an error or files that could not be written.  A session that
\* changes the display after main has restored it is excluded, and so are
\* overlaps, failed saves and restores, an error of serve and a crash.
THEOREM ExitRestores ==
  Spec => []RestoredOnExit
<1>1. RestoreInv => RestoredOnExit
  BY DEF RestoreInv, RestoredOnExit
<1>2. QED
  BY <1>1, RestoreAlways, PTL

-----------------------------------------------------------------------------
(* The display as a loan.                                                  *)

\* What keeps the record true: between the truncation of saved-output.json and
\* SAVED nobody moves the display, and SAVED and the file never disagree.
LoanInv ==
  ~Spoiled =>
    /\ \A c \in Conns : pc[c] = "truncate" /\ pc[Daemon] = "serve" => local[c] = display
    /\ \A c \in Conns : pc[c] = "write" => local[c] = display /\ file = Torn
    /\ \A c \in Conns : pc[c] = "memo" => file = local[c]
    /\ saved # Nil => file = saved
    /\ \A a \in Actors : pc[a] = "reset" => local[a] = RestoreTarget

LEMMA LoanInit == Init => LoanInv
  BY DEF Init, LoanInv, Actors

\* Every step of the only session, and of main beside it, keeps the record true.
LEMMA LoanStep ==
  TypeInv /\ RecordInv /\ RestoreInv /\ LoanInv /\ [Next]_vars => LoanInv'
  <1> SUFFICES ASSUME TypeInv, RecordInv, RestoreInv, LoanInv, [Next]_vars
               PROVE LoanInv'
    OBVIOUS
  <1> USE DEF TypeInv, HoldsConfig, TypeOK, RecordInv, RestoreInv, AloneInv, Alone,
          LoanInv, Spoiled, RestoreTarget, Up, Actors, Config, Saving, Goto, Return,
          Record, displayVars, statusVars, historyVars
  <1>1. ASSUME NEW c \in Conns, Connect(c) PROVE LoanInv'
    BY <1>1 DEF Connect
  <1>2. ASSUME NEW c \in Conns, Reject(c) PROVE LoanInv'
    BY <1>2 DEF Reject
  <1>3. ASSUME NEW c \in Conns, Authenticate(c) PROVE LoanInv'
    BY <1>3 DEF Authenticate
  <1>4. ASSUME NEW c \in Conns, CheckSaved(c) PROVE LoanInv'
    BY <1>4 DEF CheckSaved
  <1>5. ASSUME NEW c \in Conns, SaveRead(c) PROVE LoanInv'
    BY <1>5 DEF SaveRead
  <1>6. ASSUME NEW c \in Conns, SaveFails(c) PROVE LoanInv'
    BY <1>6 DEF SaveFails
  <1>7. ASSUME NEW c \in Conns, SaveTruncate(c) PROVE LoanInv'
    BY <1>7 DEF SaveTruncate
  <1>8. ASSUME NEW c \in Conns, SaveWrite(c) PROVE LoanInv'
    BY <1>8 DEF SaveWrite
  <1>9. ASSUME NEW c \in Conns, SaveMemo(c) PROVE LoanInv'
    BY <1>9 DEF SaveMemo
  <1>10. ASSUME NEW c \in Conns, Apply(c) PROVE LoanInv'
    BY <1>10 DEF Apply
  <1>11. ASSUME NEW c \in Conns, Greet(c) PROVE LoanInv'
    BY <1>11 DEF Greet
  <1>12. ASSUME NEW c \in Conns, GreetFails(c) PROVE LoanInv'
    BY <1>12 DEF GreetFails
  <1>13. ASSUME NEW c \in Conns, Count(c) PROVE LoanInv'
    BY <1>13 DEF Count
  <1>14. ASSUME NEW c \in Conns, CaptureStarts(c) PROVE LoanInv'
    BY <1>14 DEF CaptureStarts
  <1>15. ASSUME NEW c \in Conns, CaptureFails(c) PROVE LoanInv'
    BY <1>15 DEF CaptureFails
  <1>16. ASSUME NEW c \in Conns, Load(c) PROVE LoanInv'
    BY <1>16 DEF Load
  <1>17. ASSUME NEW c \in Conns, Publish(c) PROVE LoanInv'
    <2>1. /\ UNCHANGED <<display, saved, file, local>>
          /\ pc[c] = "publish"
          /\ pc' = [pc EXCEPT ![c] = IF call[c] = "connected" THEN "capture" ELSE "idle"]
      BY <1>17 DEF Publish
    <2>2. faults' = faults \/ faults' = faults \cup {"disk"}
      <3>1. Failed(seen[c]) = {} \/ Failed(seen[c]) = {"disk"}
        BY Zenon DEF Failed
      <3>2. faults' = faults \cup Failed(seen[c])
        BY <1>17 DEF Publish
      <3>3. QED
        BY <3>1, <3>2
    <2>3. QED
      BY <2>1, <2>2
  <1>18. ASSUME NEW c \in Conns, UiScale(c) PROVE LoanInv'
    BY <1>18 DEF UiScale
  <1>19. ASSUME NEW c \in Conns, Leave(c) PROVE LoanInv'
    BY <1>19 DEF Leave
  <1>20. ASSUME NEW c \in Conns, Abandon(c) PROVE LoanInv'
    BY <1>20 DEF Abandon
  <1>21. ASSUME NEW c \in Conns, Uncount(c) PROVE LoanInv'
    BY <1>21 DEF Uncount
  <1>22. ASSUME NEW a \in Actors, RestoreRead(a) PROVE LoanInv'
    BY <1>22 DEF RestoreRead, RestoreTarget, AfterRestore
  <1>23. ASSUME NEW a \in Actors, RestoreApply(a) PROVE LoanInv'
    BY <1>23 DEF RestoreApply, AfterRestore
  <1>24. CASE Signal
    BY <1>24 DEF Signal
  <1>25. CASE ServeFails
    BY <1>25 DEF ServeFails
  <1>26. CASE Exit
    BY <1>26 DEF Exit, Forget
  <1>27. CASE Crash
    BY <1>27 DEF Crash, Forget
  <1>28. CASE Boot
    BY <1>28 DEF Boot
  <1>29. CASE Login
    BY <1>29 DEF Login
  <1>30. CASE UserChange
    BY <1>30 DEF UserChange
  <1>31. CASE UNCHANGED vars
    BY <1>31 DEF vars
  <1>32. QED
    BY <1>1, <1>2, <1>3, <1>4, <1>5, <1>6, <1>7, <1>8, <1>9, <1>10, <1>11,
       <1>12, <1>13, <1>14, <1>15, <1>16, <1>17, <1>18, <1>19, <1>20,
       <1>21, <1>22, <1>23, <1>24, <1>25, <1>26, <1>27, <1>28, <1>29,
       <1>30, <1>31
    DEF Next, SessionStep, SaveStep, MainStep

\* A move of the loan.
Moves ==
  \/ UNCHANGED <<display, RestoreTarget, Serving>>
  \/ Promise!Choose \/ Promise!Begin \/ Promise!Forget \/ Promise!Remember
  \/ Promise!Lend \/ Promise!GiveBack \/ Promise!End

LEMMA FaultsStay == [Next]_vars => faults \subseteq faults'
  <1> SUFFICES ASSUME [Next]_vars PROVE faults \subseteq faults'
    OBVIOUS
  <1> USE DEF Record, displayVars, statusVars, historyVars
  <1>1. ASSUME NEW c \in Conns, Connect(c) PROVE faults \subseteq faults'
    BY <1>1 DEF Connect
  <1>2. ASSUME NEW c \in Conns, Reject(c) PROVE faults \subseteq faults'
    BY <1>2 DEF Reject
  <1>3. ASSUME NEW c \in Conns, Authenticate(c) PROVE faults \subseteq faults'
    BY <1>3 DEF Authenticate
  <1>4. ASSUME NEW c \in Conns, CheckSaved(c) PROVE faults \subseteq faults'
    BY <1>4 DEF CheckSaved
  <1>5. ASSUME NEW c \in Conns, SaveRead(c) PROVE faults \subseteq faults'
    BY <1>5 DEF SaveRead
  <1>6. ASSUME NEW c \in Conns, SaveFails(c) PROVE faults \subseteq faults'
    BY <1>6 DEF SaveFails
  <1>7. ASSUME NEW c \in Conns, SaveTruncate(c) PROVE faults \subseteq faults'
    BY <1>7 DEF SaveTruncate
  <1>8. ASSUME NEW c \in Conns, SaveWrite(c) PROVE faults \subseteq faults'
    BY <1>8 DEF SaveWrite
  <1>9. ASSUME NEW c \in Conns, SaveMemo(c) PROVE faults \subseteq faults'
    BY <1>9 DEF SaveMemo
  <1>10. ASSUME NEW c \in Conns, Apply(c) PROVE faults \subseteq faults'
    BY <1>10 DEF Apply
  <1>11. ASSUME NEW c \in Conns, Greet(c) PROVE faults \subseteq faults'
    BY <1>11 DEF Greet
  <1>12. ASSUME NEW c \in Conns, GreetFails(c) PROVE faults \subseteq faults'
    BY <1>12 DEF GreetFails
  <1>13. ASSUME NEW c \in Conns, Count(c) PROVE faults \subseteq faults'
    BY <1>13 DEF Count
  <1>14. ASSUME NEW c \in Conns, CaptureStarts(c) PROVE faults \subseteq faults'
    BY <1>14 DEF CaptureStarts
  <1>15. ASSUME NEW c \in Conns, CaptureFails(c) PROVE faults \subseteq faults'
    BY <1>15 DEF CaptureFails
  <1>16. ASSUME NEW c \in Conns, Load(c) PROVE faults \subseteq faults'
    BY <1>16 DEF Load
  <1>17. ASSUME NEW c \in Conns, Publish(c) PROVE faults \subseteq faults'
    BY <1>17 DEF Publish
  <1>18. ASSUME NEW c \in Conns, UiScale(c) PROVE faults \subseteq faults'
    BY <1>18 DEF UiScale
  <1>19. ASSUME NEW c \in Conns, Leave(c) PROVE faults \subseteq faults'
    BY <1>19 DEF Leave
  <1>20. ASSUME NEW c \in Conns, Abandon(c) PROVE faults \subseteq faults'
    BY <1>20 DEF Abandon
  <1>21. ASSUME NEW c \in Conns, Uncount(c) PROVE faults \subseteq faults'
    BY <1>21 DEF Uncount
  <1>22. ASSUME NEW a \in Actors, RestoreRead(a) PROVE faults \subseteq faults'
    BY <1>22 DEF RestoreRead, AfterRestore
  <1>23. ASSUME NEW a \in Actors, RestoreApply(a) PROVE faults \subseteq faults'
    BY <1>23 DEF RestoreApply, AfterRestore
  <1>24. CASE Signal
    BY <1>24 DEF Signal
  <1>25. CASE ServeFails
    BY <1>25 DEF ServeFails
  <1>26. CASE Exit
    BY <1>26 DEF Exit, Forget
  <1>27. CASE Crash
    BY <1>27 DEF Crash, Forget
  <1>28. CASE Boot
    BY <1>28 DEF Boot
  <1>29. CASE Login
    BY <1>29 DEF Login
  <1>30. CASE UserChange
    BY <1>30 DEF UserChange
  <1>31. CASE UNCHANGED vars
    BY <1>31, SMTT(30) DEF vars
  <1>32. QED
    BY <1>1, <1>2, <1>3, <1>4, <1>5, <1>6, <1>7, <1>8, <1>9, <1>10, <1>11,
       <1>12, <1>13, <1>14, <1>15, <1>16, <1>17, <1>18, <1>19, <1>20,
       <1>21, <1>22, <1>23, <1>24, <1>25, <1>26, <1>27, <1>28, <1>29,
       <1>30, <1>31
    DEF Next, SessionStep, SaveStep, MainStep

\* Every step of the daemon and of the user is a move of the loan, or follows a
\* fault after which nothing is promised.
LEMMA LoanMoves ==
  TypeInv /\ RecordInv /\ CallInv /\ RestoreInv /\ LoanInv /\ [Next]_vars /\ ~Spoiled' => Moves
  <1> SUFFICES ASSUME TypeInv, RecordInv, CallInv, RestoreInv, LoanInv, [Next]_vars, ~Spoiled'
               PROVE Moves
    OBVIOUS
  <1>0. ~Spoiled
    BY FaultsStay DEF Spoiled
  <1> USE <1>0 DEF TypeInv, HoldsConfig, TypeOK, RecordInv, Clean, RestoreInv, AloneInv, Alone,
          LoanInv, Spoiled, Excused, Serving, Moves, RestoreTarget, Up, Actors, Config,
          Saving, Goto, Return, Record, displayVars, statusVars, historyVars,
          Promise!Choose, Promise!Begin, Promise!Forget, Promise!Remember,
          Promise!Lend, Promise!GiveBack, Promise!End
  <1>1. ASSUME NEW c \in Conns, Connect(c) PROVE Moves
    BY <1>1 DEF Connect
  <1>2. ASSUME NEW c \in Conns, Reject(c) PROVE Moves
    BY <1>2 DEF Reject
  <1>3. ASSUME NEW c \in Conns, Authenticate(c) PROVE Moves
    BY <1>3 DEF Authenticate
  <1>4. ASSUME NEW c \in Conns, CheckSaved(c) PROVE Moves
    BY <1>4 DEF CheckSaved
  <1>5. ASSUME NEW c \in Conns, SaveRead(c) PROVE Moves
    BY <1>5 DEF SaveRead
  <1>6. ASSUME NEW c \in Conns, SaveFails(c) PROVE Moves
    BY <1>6 DEF SaveFails
  <1>7. ASSUME NEW c \in Conns, SaveTruncate(c) PROVE Moves
    BY <1>7 DEF SaveTruncate
  <1>8. ASSUME NEW c \in Conns, SaveWrite(c) PROVE Moves
    BY <1>8 DEF SaveWrite
  <1>9. ASSUME NEW c \in Conns, SaveMemo(c) PROVE Moves
    BY <1>9 DEF SaveMemo
  <1>10. ASSUME NEW c \in Conns, Apply(c) PROVE Moves
    BY <1>10 DEF Apply
  <1>11. ASSUME NEW c \in Conns, Greet(c) PROVE Moves
    BY <1>11 DEF Greet
  <1>12. ASSUME NEW c \in Conns, GreetFails(c) PROVE Moves
    BY <1>12 DEF GreetFails
  <1>13. ASSUME NEW c \in Conns, Count(c) PROVE Moves
    BY <1>13 DEF Count
  <1>14. ASSUME NEW c \in Conns, CaptureStarts(c) PROVE Moves
    BY <1>14 DEF CaptureStarts
  <1>15. ASSUME NEW c \in Conns, CaptureFails(c) PROVE Moves
    BY <1>15 DEF CaptureFails
  <1>16. ASSUME NEW c \in Conns, Load(c) PROVE Moves
    BY <1>16 DEF Load
  <1>17. ASSUME NEW c \in Conns, Publish(c) PROVE Moves
    <2>1. /\ UNCHANGED <<display, saved, file>>
          /\ pc[c] = "publish"
          /\ pc' = [pc EXCEPT ![c] = IF call[c] = "connected" THEN "capture" ELSE "idle"]
      BY <1>17 DEF Publish
    <2>2. UNCHANGED RestoreTarget /\ Serving
      BY <2>1
    <2>3. CASE Serving'
      BY <2>1, <2>2, <2>3
    <2>4. CASE ~Serving' /\ ~Excused'
      <3>1. faults = {}
        BY <2>4, FaultsStay DEF Fault
      <3>2. pc'[c] \in {"idle", "auth"}
        BY <2>4
      <3>3. call[c] = "disconnected"
        BY <2>1, <3>2 DEF CallInv
      <3>4. display # Remote
        BY <2>1, <3>1, <3>3
      <3>5. QED
        BY <2>1, <2>2, <2>4, <3>4
    <2>5. QED
      BY <2>1, <2>2, <2>3, <2>4
  <1>18. ASSUME NEW c \in Conns, UiScale(c) PROVE Moves
    BY <1>18 DEF UiScale
  <1>19. ASSUME NEW c \in Conns, Leave(c) PROVE Moves
    BY <1>19 DEF Leave
  <1>20. ASSUME NEW c \in Conns, Abandon(c) PROVE Moves
    BY <1>20 DEF Abandon
  <1>21. ASSUME NEW c \in Conns, Uncount(c) PROVE Moves
    BY <1>21 DEF Uncount
  <1>22. ASSUME NEW a \in Actors, RestoreRead(a) PROVE Moves
    BY <1>22 DEF RestoreRead, AfterRestore
  <1>23. ASSUME NEW a \in Actors, RestoreApply(a) PROVE Moves
    BY <1>23 DEF RestoreApply, AfterRestore
  <1>24. CASE Signal
    BY <1>24 DEF Signal
  <1>25. CASE ServeFails
    BY <1>25 DEF ServeFails
  <1>26. CASE Exit
    <2>1. /\ pc[Daemon] = "drain"
          /\ pc' = [a \in Actors |-> IF a = Daemon THEN "down" ELSE "idle"]
          /\ saved' = Nil
          /\ UNCHANGED <<display, file, faults>>
      BY <1>26 DEF Exit, Forget
    <2>2. UNCHANGED RestoreTarget
      BY <2>1
    <2>3. Serving /\ ~Serving'
      BY <2>1
    <2>4. ~Excused => faults = {}
      BY DEF Fault
    <2>5. display \in UserModes \/ Excused'
      BY <2>1, <2>4
    <2>6. QED
      BY <2>1, <2>2, <2>3, <2>5
  <1>27. CASE Crash
    BY <1>27 DEF Crash, Forget
  <1>28. CASE Boot
    BY <1>28 DEF Boot
  <1>29. CASE Login
    BY <1>29 DEF Login
  <1>30. CASE UserChange
    BY <1>30 DEF UserChange
  <1>31. CASE UNCHANGED vars
    BY <1>31 DEF vars
  <1>32. QED
    BY <1>1, <1>2, <1>3, <1>4, <1>5, <1>6, <1>7, <1>8, <1>9, <1>10, <1>11,
       <1>12, <1>13, <1>14, <1>15, <1>16, <1>17, <1>18, <1>19, <1>20,
       <1>21, <1>22, <1>23, <1>24, <1>25, <1>26, <1>27, <1>28, <1>29,
       <1>30, <1>31
    DEF Next, SessionStep, SaveStep, MainStep

\* For any number of sessions and modes: what a restore would bring back is the
\* configuration the daemon found, kept as long as the display is lent, and the
\* daemon sets the display to nothing but that configuration and its own; until
\* a save or a write fails, sessions overlap or go on past main's select, or the
\* daemon starts on a configuration of its own, when Loan is spoiled.
THEOREM DisplayLent == Spec => Lent
<1>1. Init => Promise!Init
  BY DEF Init, Promise!Init, RestoreTarget, Serving, Excused, Spoiled, Actors
<1>2. /\ TypeInv /\ RecordInv /\ CallInv /\ RestoreInv /\ LoanInv
      /\ [Next]_vars
      => [Promise!Next]_(Promise!vars)
  <2> SUFFICES ASSUME TypeInv, RecordInv, CallInv, RestoreInv, LoanInv, [Next]_vars, ~Spoiled'
               PROVE Promise!Next
    BY DEF Promise!Next
  <2>1. Moves
    BY LoanMoves
  <2>2. Excused => Excused'
    BY FaultsStay DEF Excused
  <2>3. QED
    BY <2>1, <2>2 DEF Promise!Next, Promise!Step, Moves
<1>3. QED
  BY <1>1, <1>2, RestoreAlways, LoanInit, LoanStep, PTL DEF Spec, Lent, Promise!Spec

-----------------------------------------------------------------------------
(* status.json.                                                            *)

\* The one session under way publishes the count it has loaded.
StatusInv ==
  faults \cap {"disk", "overlap"} = {} /\ Up =>
    /\ \A c \in Conns : pc[c] = "publish" => seen[c] = clients
    /\ (\A c \in Conns : pc[c] \notin {"load", "publish"}) => status = clients

LEMMA StatusInit == Init => StatusInv
  BY DEF Init, StatusInv, Actors

\* Nobody moves CLIENTS between the load and the write of the only session.
LEMMA StatusStep ==
  TypeInv /\ RecordInv /\ AloneInv /\ StatusInv /\ [Next]_vars => StatusInv'
  <1> SUFFICES ASSUME TypeInv, RecordInv, AloneInv, StatusInv, [Next]_vars PROVE StatusInv'
    OBVIOUS
  <1> USE DEF TypeInv, TypeOK, AloneInv, Alone, StatusInv, Up, Actors, Saving, Goto, Return,
              Record, displayVars, statusVars, historyVars
  <1>1. ASSUME NEW c \in Conns, Connect(c) PROVE StatusInv'
    BY <1>1 DEF Connect
  <1>2. ASSUME NEW c \in Conns, Reject(c) PROVE StatusInv'
    BY <1>2 DEF Reject
  <1>3. ASSUME NEW c \in Conns, Authenticate(c) PROVE StatusInv'
    BY <1>3 DEF Authenticate
  <1>4. ASSUME NEW c \in Conns, CheckSaved(c) PROVE StatusInv'
    BY <1>4 DEF CheckSaved
  <1>5. ASSUME NEW c \in Conns, SaveRead(c) PROVE StatusInv'
    BY <1>5 DEF SaveRead
  <1>6. ASSUME NEW c \in Conns, SaveFails(c) PROVE StatusInv'
    BY <1>6 DEF SaveFails
  <1>7. ASSUME NEW c \in Conns, SaveTruncate(c) PROVE StatusInv'
    BY <1>7 DEF SaveTruncate
  <1>8. ASSUME NEW c \in Conns, SaveWrite(c) PROVE StatusInv'
    BY <1>8 DEF SaveWrite
  <1>9. ASSUME NEW c \in Conns, SaveMemo(c) PROVE StatusInv'
    BY <1>9 DEF SaveMemo
  <1>10. ASSUME NEW c \in Conns, Apply(c) PROVE StatusInv'
    BY <1>10 DEF Apply
  <1>11. ASSUME NEW c \in Conns, Greet(c) PROVE StatusInv'
    BY <1>11 DEF Greet
  <1>12. ASSUME NEW c \in Conns, GreetFails(c) PROVE StatusInv'
    BY <1>12 DEF GreetFails
  <1>13. ASSUME NEW c \in Conns, Count(c) PROVE StatusInv'
    BY <1>13 DEF Count
  <1>14. ASSUME NEW c \in Conns, CaptureStarts(c) PROVE StatusInv'
    BY <1>14 DEF CaptureStarts
  <1>15. ASSUME NEW c \in Conns, CaptureFails(c) PROVE StatusInv'
    BY <1>15 DEF CaptureFails
  <1>16. ASSUME NEW c \in Conns, Load(c) PROVE StatusInv'
    BY <1>16 DEF Load
  <1>17. ASSUME NEW c \in Conns, Publish(c) PROVE StatusInv'
    <2>1. SUFFICES ASSUME faults' \cap {"disk", "overlap"} = {}, Up' PROVE
            /\ \A d \in Conns : pc'[d] = "publish" => seen'[d] = clients'
            /\ (\A d \in Conns : pc'[d] \notin {"load", "publish"}) => status' = clients'
      OBVIOUS
    <2>2. faults' = faults \cup Failed(seen[c])
      BY <1>17 DEF Publish
    <2>3. Failed(seen[c]) = {} /\ faults' = faults
      <3>1. Failed(seen[c]) = {} \/ Failed(seen[c]) = {"disk"}
        BY Zenon DEF Failed
      <3>2. QED
        BY <2>1, <2>2, <3>1
    <2>4. status' = seen[c]
      BY <2>3 DEF Failed
    <2>5. QED
      BY <1>17, <2>1, <2>3, <2>4 DEF Publish
  <1>18. ASSUME NEW c \in Conns, UiScale(c) PROVE StatusInv'
    BY <1>18 DEF UiScale
  <1>19. ASSUME NEW c \in Conns, Leave(c) PROVE StatusInv'
    BY <1>19 DEF Leave
  <1>20. ASSUME NEW c \in Conns, Abandon(c) PROVE StatusInv'
    BY <1>20 DEF Abandon
  <1>21. ASSUME NEW c \in Conns, Uncount(c) PROVE StatusInv'
    BY <1>21 DEF Uncount
  <1>22. ASSUME NEW a \in Actors, RestoreRead(a) PROVE StatusInv'
    BY <1>22 DEF RestoreRead, AfterRestore
  <1>23. ASSUME NEW a \in Actors, RestoreApply(a) PROVE StatusInv'
    BY <1>23 DEF RestoreApply, AfterRestore
  <1>24. CASE Signal
    BY <1>24 DEF Signal
  <1>25. CASE ServeFails
    BY <1>25 DEF ServeFails
  <1>26. CASE Exit
    BY <1>26 DEF Exit, Forget
  <1>27. CASE Crash
    BY <1>27 DEF Crash, Forget
  <1>28. CASE Boot
    <2>1. SUFFICES ASSUME faults' \cap {"disk", "overlap"} = {} PROVE
            /\ \A d \in Conns : pc'[d] = "publish" => seen'[d] = clients'
            /\ status' = clients'
      OBVIOUS
    <2>2. "disk" \notin Failed(clients)
      BY <1>28, <2>1 DEF Boot
    <2>3. status' = clients
      BY <2>2 DEF Failed
    <2>4. QED
      BY <1>28, <2>1, <2>3 DEF Boot, RecordInv
  <1>29. CASE Login
    BY <1>29 DEF Login
  <1>30. CASE UserChange
    BY <1>30 DEF UserChange
  <1>31. CASE UNCHANGED vars
    BY <1>31 DEF vars
  <1>32. QED
    BY <1>1, <1>2, <1>3, <1>4, <1>5, <1>6, <1>7, <1>8, <1>9, <1>10, <1>11,
       <1>12, <1>13, <1>14, <1>15, <1>16, <1>17, <1>18, <1>19, <1>20, <1>21, <1>22,
       <1>23, <1>24, <1>25, <1>26, <1>27, <1>28, <1>29, <1>30, <1>31
    DEF Next, SessionStep, SaveStep, MainStep

\* Without overlapping sessions, for any number of them, status.json agrees with
\* CLIENTS whenever no session is between the two, unless a write failed.
THEOREM StatusAgrees == Spec => []StatusFresh
<1>1. RestoreInv => AloneInv
  BY DEF RestoreInv
<1>2. StatusInv => StatusFresh
  BY DEF StatusInv, StatusFresh
<1>3. QED
  BY <1>1, <1>2, TypeInit, TypeStep, StatusInit, StatusStep, RestoreAlways, PTL DEF Spec

=============================================================================
