----------------------------- MODULE MCCapture -----------------------------
(* Model-checking instances of Capture: one session that streams, and two  *)
(* that meet on the path of the FIFO.                                      *)
EXTENDS Capture

One == {"s1"}
Two == {"s1", "s2"}

\* Bound: a session streams frames only while the other has not started; when
\* two have started, their recorders write no more than the FLV header.
HeadersWhenTwo ==
  (\E s, t \in Sessions : s # t /\ task[s] # "idle" /\ task[t] # "idle")
    => \A s \in Sessions : emitted[s] <= 1

\* The bound constrains the recorders and the moment of a connection, of which
\* Fairness assumes nothing.
MCSpec == Init /\ [][Next /\ HeadersWhenTwo']_vars /\ Fairness

=============================================================================
