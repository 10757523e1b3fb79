-------------------------------- MODULE Loan --------------------------------
(***************************************************************************)
(* What the daemon promises the user of the laptop about the display: it   *)
(* is lent to clients and given back.  The daemon changes it only while it *)
(* serves somebody, to nothing but a configuration of its own while it     *)
(* owes the user one, or to the one it owes; what it owes is what it found *)
(* before it first changed anything, and it never forgets it while the     *)
(* display is lent, not even when it is killed.                            *)
(***************************************************************************)
CONSTANTS
  UserModes,  \* configurations the user may choose
  Remote,     \* a configuration of the daemon
  Nil

VARIABLES
  display,  \* the configuration
  owed,     \* the one the daemon owes the user, or Nil
  serving,  \* a client, or the shutdown, has the display at its disposal
  excused,  \* something happened after which the display may stay lent
  spoiled   \* something happened after which nothing is promised

vars == <<display, owed, serving, excused, spoiled>>

Init ==
  /\ display \in UserModes
  /\ owed \in UserModes \cup {Nil}
  /\ serving = FALSE
  /\ excused = FALSE
  /\ spoiled = FALSE

\* The user picks a configuration.
Choose ==
  /\ ~serving
  /\ display' \in UserModes
  /\ UNCHANGED <<owed, serving>>

Begin ==
  /\ serving' = TRUE
  /\ UNCHANGED <<display, owed>>

\* Forgets the configuration of an earlier loan, to remember the current one.
Forget ==
  /\ serving
  /\ display \in UserModes
  /\ owed' = Nil
  /\ UNCHANGED <<display, serving>>

Remember ==
  /\ serving
  /\ display \in UserModes
  /\ owed' = display
  /\ UNCHANGED <<display, serving>>

Lend ==
  /\ serving
  /\ owed # Nil
  /\ display' = Remote
  /\ UNCHANGED <<owed, serving>>

GiveBack ==
  /\ serving
  /\ owed # Nil
  /\ display' = owed
  /\ UNCHANGED <<owed, serving>>

End ==
  /\ serving' = FALSE
  /\ display \in UserModes \/ excused'
  /\ UNCHANGED <<display, owed>>

\* A step of a daemon that keeps its promise, and one of a daemon excused.
Step ==
  /\ \/ UNCHANGED <<display, owed, serving>>
     \/ Choose \/ Begin \/ Forget \/ Remember \/ Lend \/ GiveBack \/ End
  /\ excused => excused'
  /\ spoiled' = FALSE

Next == spoiled' \/ Step

Spec == Init /\ [][Next]_vars

=============================================================================
