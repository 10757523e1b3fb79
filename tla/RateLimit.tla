------------------------------ MODULE RateLimit ------------------------------
(***************************************************************************)
(* The counter of wrong ids per address: RateLimit of src/src/net.rs,      *)
(* called by run_session, under a mutex, for a ClientHello with a wrong id *)
(* only.  Time is a monotonic clock in ticks.                              *)
(***************************************************************************)
EXTENDS Integers, FiniteSets

CONSTANTS
  Addrs,    \* client addresses
  Limit,    \* tries per window (8 in the code)
  Window,   \* length of a window (30 s)
  Retain,   \* age at which an entry is dropped (60 s)
  MaxTime,  \* bound: ticks of the clock
  MaxTries  \* bound: tries of one address at one tick

ASSUME RateAssumption ==
  /\ Limit \in Nat \ {0}
  /\ Window \in Nat
  /\ Retain \in Nat /\ Retain > Window
  /\ MaxTime \in Nat
  /\ MaxTries \in Nat

VARIABLES
  now,   \* Instant::now()
  hits,  \* the map: address to <<count, start>>, for the addresses it holds
  tries  \* history: every call, <<address, time, ordinal at that time, allowed>>

vars == <<now, hits, tries>>

TypeOK ==
  /\ now \in 0..MaxTime
  /\ DOMAIN hits \subseteq Addrs
  /\ \A a \in DOMAIN hits : hits[a] \in (Nat \ {0}) \X (0..now)
  /\ tries \subseteq Addrs \X (0..now) \X (1..MaxTries) \X BOOLEAN

Init ==
  /\ now = 0
  /\ hits = [a \in {} |-> <<0, 0>>]
  /\ tries = {}

\* Mutant of Retained: entries are forgotten before their window has passed.
RetainedShortly == {a \in DOMAIN hits : now - hits[a][2] < Window}

\* hits.retain: entries of any address that grew older are forgotten.
Retained == {a \in DOMAIN hits : now - hits[a][2] < Retain}

\* Mutant of Entry: the end of the window instead of its start.
EntryDeadline(a) ==
  IF a \in Retained /\ now - hits[a][2] <= Window THEN hits[a] ELSE <<0, now + Window>>

\* Mutant of Entry: a window ends only when the entry is forgotten.
EntryForever(a) == IF a \in Retained THEN hits[a] ELSE <<0, now>>

\* entry().or_insert, and a new window when the old one has passed.
Entry(a) ==
  IF a \in Retained /\ now - hits[a][2] <= Window THEN hits[a] ELSE <<0, now>>

AtNow(a) == {t \in tries : t[1] = a /\ t[2] = now}

Allow(a) ==
  /\ Cardinality(AtNow(a)) < MaxTries
  /\ LET count == Entry(a)[1] + 1 IN
       /\ hits' = [b \in Retained \cup {a} |->
                     IF b = a THEN <<count, Entry(a)[2]>> ELSE hits[b]]
       /\ tries' = tries \cup {<<a, now, Cardinality(AtNow(a)) + 1, count <= Limit>>}
  /\ UNCHANGED now

Tick ==
  /\ now < MaxTime
  /\ now' = now + 1
  /\ UNCHANGED <<hits, tries>>

Next == Tick \/ \E a \in Addrs : Allow(a)

Spec == Init /\ [][Next]_vars

-----------------------------------------------------------------------------
\* Tries of an address in the span of Window ticks that ends at time t.
During(a, t) == {x \in tries : x[1] = a /\ t - Window <= x[2] /\ x[2] <= t}

\* A try is refused only to an address that had Limit tries allowed within the
\* Window before it: no other address, no older try and no forgotten entry
\* counts against it (allow).
NoFalseRefusal ==
  \A x \in tries : ~x[4] =>
    Cardinality({y \in During(x[1], x[2]) : y[4]}) >= Limit

\* What the fixed windows leave of LimitPerWindow: a span of Window ticks may
\* straddle two of them, and still holds fewer than twice the Limit of allowed
\* tries (allow).
BoundedRate ==
  \A a \in Addrs, t \in 0..now :
    Cardinality({y \in During(a, t) : y[4]}) < 2 * Limit

\* "8 tries / 30 s / IP" (README.md:95): no span of Window ticks holds more than
\* Limit allowed tries of an address (allow).
LimitPerWindow ==
  \A a \in Addrs, t \in 0..now :
    Cardinality({y \in During(a, t) : y[4]}) <= Limit

=============================================================================
