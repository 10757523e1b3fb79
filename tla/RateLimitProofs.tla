--------------------------- MODULE RateLimitProofs ---------------------------
(* Theorems about RateLimit: for any addresses, limit, window and clock,   *)
(* the limit refuses nobody else's tries and lets through fewer than twice *)
(* its number in the length of a window.                                   *)
EXTENDS RateLimit, FiniteSetTheorems, TLAPS

\* The tries among ts that were allowed to address a from time lo to time hi.
Allowed(ts, a, lo, hi) == {y \in ts : y[1] = a /\ y[4] /\ lo <= y[2] /\ y[2] <= hi}

-----------------------------------------------------------------------------
(* The invariant.                                                          *)

\* Ordinals distinguish the tries of one tick.
OrdinalInv == \A y \in tries : y[2] = now => y[3] <= Cardinality(AtNow(y[1]))

\* An entry counts the tries of its window, the first of which was allowed;
\* just before the window there is room for one more.
Counts(a, count, start) ==
  /\ Cardinality(Allowed(tries, a, start, now)) = IF count <= Limit THEN count ELSE Limit
  /\ Cardinality(Allowed(tries, a, start - Window, start - 1)) < Limit
  /\ Allowed(tries, a, start, start) # {}
  /\ \A y \in tries : y[1] = a => y[2] <= start + Window

EntryInv == \A a \in DOMAIN hits : Counts(a, hits[a][1], hits[a][2])

\* So there is for an address that has no entry, or no longer one.
Quiet(a) ==
  /\ Cardinality(Allowed(tries, a, now - Window, now)) < Limit
  /\ \A y \in tries : y[1] = a => y[2] < now

QuietInv == \A a \in Addrs \ DOMAIN hits : Quiet(a)

Inv ==
  /\ TypeOK
  /\ IsFiniteSet(tries)
  /\ OrdinalInv
  /\ EntryInv
  /\ QuietInv
  /\ NoFalseRefusal
  /\ BoundedRate

-----------------------------------------------------------------------------
(* Facts.                                                                  *)

LEMMA ConstantsAre ==
  /\ Limit \in Nat /\ Limit >= 1 /\ Window \in Nat /\ Retain \in Nat /\ Retain > Window
  /\ MaxTime \in Nat /\ MaxTries \in Nat
  BY RateAssumption DEF RateAssumption

LEMMA TryIs ==
  ASSUME TypeOK, NEW y \in tries
  PROVE  /\ y[1] \in Addrs /\ y[2] \in 0..now /\ y[2] \in Int
         /\ y[3] \in 1..MaxTries /\ y[4] \in BOOLEAN
         /\ y = <<y[1], y[2], y[3], y[4]>>
  BY DEF TypeOK

LEMMA NowIs == TypeOK => now \in Nat
  BY ConstantsAre DEF TypeOK

LEMMA EntryIs ==
  ASSUME TypeOK, NEW a \in DOMAIN hits
  PROVE  /\ a \in Addrs /\ hits[a][1] \in Nat /\ hits[a][1] >= 1
         /\ hits[a][2] \in Nat /\ hits[a][2] <= now
         /\ hits[a] = <<hits[a][1], hits[a][2]>>
<1>1. hits[a] \in (Nat \ {0}) \X (0..now) /\ a \in Addrs
  BY DEF TypeOK
<1>2. QED
  BY <1>1, NowIs

LEMMA AllowedIs ==
  ASSUME IsFiniteSet(tries), NEW a, NEW lo, NEW hi
  PROVE  /\ IsFiniteSet(Allowed(tries, a, lo, hi))
         /\ Cardinality(Allowed(tries, a, lo, hi)) \in Nat
<1>1. Allowed(tries, a, lo, hi) \in SUBSET tries
  BY DEF Allowed
<1>2. QED
  BY <1>1, FS_Subset, FS_CardinalityType

LEMMA Fewer ==
  ASSUME NEW S, NEW T, IsFiniteSet(T), S \subseteq T
  PROVE  /\ IsFiniteSet(S) /\ Cardinality(S) \in Nat /\ Cardinality(T) \in Nat
         /\ Cardinality(S) <= Cardinality(T)
  BY FS_Subset, FS_CardinalityType

\* The properties count allowed tries.
LEMMA DuringIs ==
  \A a, t : {y \in During(a, t) : y[4]} = Allowed(tries, a, t - Window, t)
  BY DEF During, Allowed

LEMMA InvInit == Init => Inv
<1> SUFFICES ASSUME Init PROVE Inv
  OBVIOUS
<1>1. tries = {} /\ now = 0 /\ DOMAIN hits = {}
  BY DEF Init
<1>2. \A a, lo, hi : Allowed(tries, a, lo, hi) = {}
  BY <1>1 DEF Allowed
<1>3. IsFiniteSet(tries) /\ Cardinality({}) = 0
  BY <1>1, FS_EmptySet
<1>4. TypeOK
  BY <1>1, ConstantsAre DEF TypeOK
<1>5. QuietInv
  <2> SUFFICES ASSUME NEW a \in Addrs PROVE Quiet(a)
    BY DEF QuietInv
  <2>1. Allowed(tries, a, now - Window, now) = {}
    BY <1>2
  <2>2. Cardinality(Allowed(tries, a, now - Window, now)) = 0
    BY <2>1, <1>3
  <2>3. QED
    BY <2>2, <1>1, ConstantsAre DEF Quiet
<1>6. NoFalseRefusal
  BY <1>1 DEF NoFalseRefusal
<1>7. BoundedRate
  <2> SUFFICES ASSUME NEW a \in Addrs, NEW t \in 0..now
               PROVE  Cardinality({y \in During(a, t) : y[4]}) < 2 * Limit
    BY DEF BoundedRate
  <2> DEFINE S == {y \in During(a, t) : y[4]}
  <2>1. S = {}
    BY <1>2, DuringIs
  <2> HIDE DEF S
  <2>2. Cardinality(S) = 0
    BY <2>1, <1>3
  <2>3. Cardinality(S) < 2 * Limit
    BY <2>2, ConstantsAre
  <2>4. QED
    BY <2>3 DEF S
<1>8. QED
  BY <1>1, <1>3, <1>4, <1>5, <1>6, <1>7 DEF Inv, OrdinalInv, EntryInv

\* An entry whose window has passed leaves its address quiet.
LEMMA PastIsQuiet ==
  ASSUME Inv, NEW a \in DOMAIN hits, now - hits[a][2] > Window
  PROVE  Quiet(a)
<1> DEFINE start == hits[a][2]
           S == Allowed(tries, a, now - Window, now)
           T == Allowed(tries, a, start, now)
<1>1. /\ start \in Nat /\ now \in Nat /\ Window \in Nat /\ Limit \in Nat
      /\ hits[a][1] \in Nat
  BY EntryIs, NowIs, ConstantsAre DEF Inv
<1>2. Counts(a, hits[a][1], start)
  BY DEF Inv, EntryInv
<1>3. PICK x \in tries : x[1] = a /\ x[4] /\ start <= x[2] /\ x[2] <= start
  BY <1>2 DEF Counts, Allowed
<1>4. x[2] = start /\ x \in T /\ x \notin S
  BY <1>1, <1>3, TryIs DEF Inv, Allowed
<1>5. S \subseteq T \ {x}
  BY <1>1, <1>4, TryIs DEF Inv, Allowed
<1>6. IsFiniteSet(T) /\ Cardinality(T) \in Nat /\ Cardinality(T) <= Limit
  BY <1>1, <1>2, AllowedIs DEF Inv, Counts
<1>7. IsFiniteSet(T \ {x}) /\ Cardinality(T \ {x}) = Cardinality(T) - 1
  BY <1>4, <1>6, FS_RemoveElement
<1>8. Cardinality(S) \in Nat /\ Cardinality(S) <= Cardinality(T \ {x})
  BY <1>5, <1>7, Fewer
<1>9. Cardinality(S) < Limit
  BY <1>1, <1>6, <1>7, <1>8
<1>10. \A y \in tries : y[1] = a => y[2] < now
  BY <1>1, <1>2, TryIs DEF Inv, Counts
<1>11. QED
  BY <1>9, <1>10 DEF Quiet

-----------------------------------------------------------------------------
(* Time passes.                                                            *)

LEMMA TickKeeps == Inv /\ Tick => Inv'
<1> SUFFICES ASSUME Inv, Tick PROVE Inv'
  OBVIOUS
<1>1. /\ now' = now + 1 /\ now < MaxTime /\ hits' = hits /\ tries' = tries
      /\ now \in Nat /\ Window \in Nat /\ Limit \in Nat /\ MaxTime \in Nat
  BY NowIs, ConstantsAre DEF Tick, Inv
<1>2. \A y \in tries : y[2] \in Nat /\ y[2] <= now
  BY <1>1, TryIs DEF Inv
<1>3. TypeOK'
  <2>1. now' \in 0..MaxTime
    BY <1>1
  <2>2. \A a \in DOMAIN hits' : hits'[a] \in (Nat \ {0}) \X (0..now')
    <3> SUFFICES ASSUME NEW a \in DOMAIN hits PROVE hits[a] \in (Nat \ {0}) \X (0..now')
      BY <1>1
    <3>1. hits[a] \in (Nat \ {0}) \X (0..now)
      BY DEF Inv, TypeOK
    <3>2. QED
      BY <3>1, <1>1
  <2>3. tries' \subseteq Addrs \X (0..now') \X (1..MaxTries) \X BOOLEAN
    <3> SUFFICES ASSUME NEW y \in tries
                 PROVE  y \in Addrs \X (0..now') \X (1..MaxTries) \X BOOLEAN
      BY <1>1
    <3>1. /\ y[1] \in Addrs /\ y[2] \in 0..now' /\ y[3] \in 1..MaxTries /\ y[4] \in BOOLEAN
          /\ y = <<y[1], y[2], y[3], y[4]>>
      BY <1>1, TryIs DEF Inv
    <3>2. QED
      BY <3>1
  <2>4. QED
    BY <2>1, <2>2, <2>3, <1>1 DEF TypeOK, Inv
<1>4. OrdinalInv'
  BY <1>1, <1>2 DEF OrdinalInv
<1>5. EntryInv'
  <2> SUFFICES ASSUME NEW a \in DOMAIN hits PROVE Counts(a, hits[a][1], hits[a][2])'
    BY <1>1 DEF EntryInv
  <2>1. Counts(a, hits[a][1], hits[a][2]) /\ hits[a][2] \in Nat
    BY EntryIs DEF Inv, EntryInv
  <2>2. Allowed(tries, a, hits[a][2], now + 1) = Allowed(tries, a, hits[a][2], now)
    BY <1>1, <1>2, <2>1 DEF Allowed
  <2>3. QED
    BY <2>1, <2>2, <1>1 DEF Counts
<1>6. QuietInv'
  <2> SUFFICES ASSUME NEW a \in Addrs \ DOMAIN hits PROVE Quiet(a)'
    BY <1>1 DEF QuietInv
  <2>1. Quiet(a)
    BY DEF Inv, QuietInv
  <2>2. Allowed(tries, a, (now + 1) - Window, now + 1) \subseteq Allowed(tries, a, now - Window, now)
    BY <1>1, <1>2 DEF Allowed
  <2>3. /\ IsFiniteSet(Allowed(tries, a, now - Window, now))
        /\ Cardinality(Allowed(tries, a, now - Window, now)) \in Nat
    BY AllowedIs DEF Inv
  <2>4. /\ Cardinality(Allowed(tries, a, (now + 1) - Window, now + 1)) \in Nat
        /\ Cardinality(Allowed(tries, a, (now + 1) - Window, now + 1))
             <= Cardinality(Allowed(tries, a, now - Window, now))
    BY <2>2, <2>3, Fewer
  <2>5. Cardinality(Allowed(tries, a, (now + 1) - Window, now + 1)) < Limit
    BY <2>1, <2>3, <2>4, <1>1 DEF Quiet
  <2>6. \A y \in tries : y[2] < now + 1
    BY <1>1, <1>2
  <2>7. QED
    BY <2>5, <2>6, <1>1 DEF Quiet
<1>7. NoFalseRefusal'
  BY <1>1 DEF Inv, NoFalseRefusal, During
<1>8. BoundedRate'
  <2> SUFFICES ASSUME NEW a \in Addrs, NEW t \in 0..(now + 1)
               PROVE  Cardinality({y \in During(a, t) : y[4]}) < 2 * Limit
    BY <1>1 DEF BoundedRate, During
  <2>1. CASE t \in 0..now
    BY <2>1 DEF Inv, BoundedRate
  <2>2. CASE t = now + 1
    <3>1. Cardinality({y \in During(a, now) : y[4]}) < 2 * Limit
      BY <1>1 DEF Inv, BoundedRate
    <3>2. Cardinality(Allowed(tries, a, now - Window, now)) < 2 * Limit
      BY <3>1, DuringIs
    <3>3. Allowed(tries, a, t - Window, t) \subseteq Allowed(tries, a, now - Window, now)
      BY <1>1, <1>2, <2>2 DEF Allowed
    <3>4. IsFiniteSet(Allowed(tries, a, now - Window, now))
      BY AllowedIs DEF Inv
    <3>5. /\ Cardinality(Allowed(tries, a, t - Window, t)) \in Nat
          /\ Cardinality(Allowed(tries, a, now - Window, now)) \in Nat
          /\ Cardinality(Allowed(tries, a, t - Window, t))
               <= Cardinality(Allowed(tries, a, now - Window, now))
      BY <3>3, <3>4, Fewer
    <3>6. Cardinality(Allowed(tries, a, t - Window, t)) < 2 * Limit
      BY <3>2, <3>5, <1>1
    <3>7. QED
      BY <3>6, DuringIs
  <2>3. QED
    BY <2>1, <2>2, <1>1
<1>9. QED
  BY <1>1, <1>3, <1>4, <1>5, <1>6, <1>7, <1>8 DEF Inv

-----------------------------------------------------------------------------
(* A try.                                                                  *)

\* The entry of a, old or new: how many tries of the window were allowed, and
\* how many just before it.
LEMMA EntryCounts ==
  ASSUME Inv, NEW a \in Addrs
  PROVE  /\ Entry(a)[1] \in Nat /\ Entry(a)[2] \in Nat
         /\ Entry(a)[2] <= now /\ now <= Entry(a)[2] + Window
         /\ Cardinality(Allowed(tries, a, Entry(a)[2], now))
              = IF Entry(a)[1] <= Limit THEN Entry(a)[1] ELSE Limit
         /\ Cardinality(Allowed(tries, a, Entry(a)[2] - Window, Entry(a)[2] - 1)) < Limit
         /\ Entry(a)[1] > 0 => Allowed(tries, a, Entry(a)[2], Entry(a)[2]) # {}
         /\ Entry(a)[1] = 0 => Entry(a)[2] = now
<1>1. now \in Nat /\ Window \in Nat /\ Limit \in Nat /\ Limit >= 1 /\ Retain \in Nat /\ Retain > Window
  BY NowIs, ConstantsAre DEF Inv
<1>2. CASE a \in Retained /\ now - hits[a][2] <= Window
  <2>1. Entry(a) = hits[a] /\ a \in DOMAIN hits
    BY <1>2 DEF Entry, Retained
  <2>2. Counts(a, hits[a][1], hits[a][2])
    BY <2>1 DEF Inv, EntryInv
  <2>3. /\ hits[a][1] \in Nat /\ hits[a][1] >= 1 /\ hits[a][2] \in Nat /\ hits[a][2] <= now
    BY <2>1, EntryIs DEF Inv
  <2>4. now <= hits[a][2] + Window
    BY <2>3, <1>1, <1>2
  <2>5. QED
    BY <2>1, <2>2, <2>3, <2>4 DEF Counts
<1>3. CASE ~(a \in Retained /\ now - hits[a][2] <= Window)
  <2>1. Entry(a) = <<0, now>>
    BY <1>3 DEF Entry
  <2>2. Quiet(a)
    <3>1. CASE a \notin DOMAIN hits
      BY <3>1 DEF Inv, QuietInv
    <3>2. CASE a \in DOMAIN hits
      <4>1. hits[a][2] \in Nat
        BY <3>2, EntryIs DEF Inv
      <4>2. now - hits[a][2] > Window
        BY <3>2, <4>1, <1>1, <1>3 DEF Retained
      <4>3. QED
        BY <3>2, <4>2, PastIsQuiet
    <3>3. QED
      BY <3>1, <3>2
  <2>3. Allowed(tries, a, now, now) = {}
    BY <2>2, <1>1, TryIs DEF Quiet, Allowed, Inv
  <2>4. Cardinality(Allowed(tries, a, now, now)) = 0
    BY <2>3, FS_EmptySet
  <2>5. Cardinality(Allowed(tries, a, now - Window, now - 1)) < Limit
    <3>1. Allowed(tries, a, now - Window, now - 1) \subseteq Allowed(tries, a, now - Window, now)
      BY <1>1, TryIs DEF Allowed, Inv
    <3>2. IsFiniteSet(Allowed(tries, a, now - Window, now))
      BY AllowedIs DEF Inv
    <3>3. /\ Cardinality(Allowed(tries, a, now - Window, now - 1)) \in Nat
          /\ Cardinality(Allowed(tries, a, now - Window, now)) \in Nat
          /\ Cardinality(Allowed(tries, a, now - Window, now - 1))
               <= Cardinality(Allowed(tries, a, now - Window, now))
      BY <3>1, <3>2, Fewer
    <3>4. QED
      BY <3>3, <2>2, <1>1 DEF Quiet
  <2>6. Entry(a)[1] = 0 /\ Entry(a)[2] = now
    BY <2>1
  <2>7. QED
    BY <2>4, <2>5, <2>6, <1>1
<1>4. QED
  BY <1>2, <1>3

\* The try of address a that is number k of its tick, and what the code makes
\* of the entry.
Try(a, k, count, start, ok) ==
  /\ k = Cardinality(AtNow(a)) + 1 /\ k <= MaxTries
  /\ count = Entry(a)[1] + 1 /\ start = Entry(a)[2]
  /\ ok \in BOOLEAN /\ (ok <=> count <= Limit)
  /\ hits' = [b \in Retained \cup {a} |-> IF b = a THEN <<count, start>> ELSE hits[b]]
  /\ tries' = tries \cup {<<a, now, k, ok>>}
  /\ now' = now

LEMMA AllowIsTry ==
  ASSUME Inv, NEW a \in Addrs, Allow(a)
  PROVE  \E k, count, start, ok : Try(a, k, count, start, ok)
<1>1. IsFiniteSet(AtNow(a)) /\ Cardinality(AtNow(a)) \in Nat
  <2>1. AtNow(a) \in SUBSET tries
    BY DEF AtNow
  <2>2. QED
    BY <2>1, FS_Subset, FS_CardinalityType DEF Inv
<1>2. Cardinality(AtNow(a)) + 1 <= MaxTries
  BY <1>1, ConstantsAre DEF Allow
<1> DEFINE k == Cardinality(AtNow(a)) + 1  count == Entry(a)[1] + 1  start == Entry(a)[2]
           T(ok) == tries \cup {<<a, now, k, ok>>}
<1>3. /\ hits' = [b \in Retained \cup {a} |-> IF b = a THEN <<count, start>> ELSE hits[b]]
      /\ tries' = T(count <= Limit)
      /\ now' = now
  BY DEF Allow
<1>4. k <= MaxTries
  BY <1>2
<1> HIDE DEF k, count, start
<1>5. CASE count <= Limit
  <2>1. (count <= Limit) = TRUE
    BY <1>5
  <2>2. tries' = T(TRUE)
    BY <1>3, <2>1
  <2>3. Try(a, k, count, start, TRUE)
    BY <1>3, <1>4, <1>5, <2>2 DEF Try, k, count, start
  <2>4. QED
    BY <2>3
<1>6. CASE ~(count <= Limit)
  <2>1. (count <= Limit) = FALSE
    BY <1>6
  <2>2. tries' = T(FALSE)
    BY <1>3, <2>1
  <2>3. Try(a, k, count, start, FALSE)
    BY <1>3, <1>4, <1>6, <2>2 DEF Try, k, count, start
  <2>4. QED
    BY <2>3
<1>7. QED
  BY <1>5, <1>6

LEMMA AllowKeeps ==
  ASSUME Inv, NEW a \in Addrs, Allow(a)
  PROVE  Inv'
<1>1. PICK k, count, start, ok : Try(a, k, count, start, ok)
  BY AllowIsTry
<1>2. ok \in BOOLEAN /\ (ok <=> count <= Limit)
  BY <1>1 DEF Try
<1>3. /\ now \in Nat /\ Window \in Nat /\ Limit \in Nat /\ Limit >= 1
      /\ Retain \in Nat /\ Retain > Window /\ MaxTries \in Nat
  BY NowIs, ConstantsAre DEF Inv
<1>4. /\ count \in Nat /\ count >= 1 /\ start \in Nat /\ start <= now /\ now <= start + Window
      /\ Cardinality(Allowed(tries, a, start, now)) = IF count - 1 <= Limit THEN count - 1 ELSE Limit
      /\ Cardinality(Allowed(tries, a, start - Window, start - 1)) < Limit
      /\ count > 1 => Allowed(tries, a, start, start) # {}
      /\ count = 1 => start = now
  <2>1. count = Entry(a)[1] + 1 /\ start = Entry(a)[2]
    BY <1>1 DEF Try
  <2>2. Entry(a)[1] \in Nat /\ Entry(a)[1] = count - 1
    BY <2>1, EntryCounts
  <2>3. QED
    BY <2>1, <2>2, EntryCounts
<1>5. IsFiniteSet(AtNow(a)) /\ Cardinality(AtNow(a)) \in Nat
  <2>1. AtNow(a) \in SUBSET tries
    BY DEF AtNow
  <2>2. QED
    BY <2>1, FS_Subset, FS_CardinalityType DEF Inv
<1> DEFINE x == <<a, now, k, ok>>
<1>6. x[1] = a /\ x[2] = now /\ x[3] = k /\ x[4] = ok
  OBVIOUS
<1>7. k = Cardinality(AtNow(a)) + 1 /\ k \in 1..MaxTries
  BY <1>1, <1>3, <1>5 DEF Try
<1>8. x \notin tries
  <2> SUFFICES ASSUME x \in tries PROVE FALSE
    OBVIOUS
  <2>1. x[3] <= Cardinality(AtNow(x[1]))
    BY <1>6 DEF Inv, OrdinalInv
  <2>2. QED
    BY <2>1, <1>5, <1>6, <1>7
<1>9. /\ tries' = tries \cup {x} /\ now' = now
      /\ hits' = [b \in Retained \cup {a} |-> IF b = a THEN <<count, start>> ELSE hits[b]]
  BY <1>1 DEF Try
<1> HIDE DEF x
<1>10. IsFiniteSet(tries')
  BY <1>9, FS_AddElement DEF Inv
<1>11. /\ DOMAIN hits' = Retained \cup {a} /\ hits'[a] = <<count, start>>
       /\ \A b \in Retained : b # a => hits'[b] = hits[b]
       /\ Retained \subseteq DOMAIN hits
  BY <1>9 DEF Retained
\* Of another address, and of earlier times, the same tries are allowed.
<1>12. ASSUME NEW b, NEW lo \in Int, NEW hi \in Int, b # a \/ hi < now \/ ~ok
       PROVE  Allowed(tries', b, lo, hi) = Allowed(tries, b, lo, hi)
  <2>1. ~(x[1] = b /\ x[4] /\ lo <= x[2] /\ x[2] <= hi)
    BY <1>3, <1>6, <1>12
  <2>2. QED
    BY <2>1, <1>9 DEF Allowed
\* Of this one and this time, one more if it is allowed.
<1>13. ASSUME NEW lo \in Int, NEW hi \in Int, ok, lo <= now, now <= hi
       PROVE  /\ x \in Allowed(tries', a, lo, hi)
              /\ Cardinality(Allowed(tries', a, lo, hi)) = Cardinality(Allowed(tries, a, lo, hi)) + 1
  <2> DEFINE S == Allowed(tries, a, lo, hi)
  <2>1. Allowed(tries', a, lo, hi) = S \cup {x}
    BY <1>6, <1>9, <1>13 DEF Allowed
  <2>2. x \notin S
    BY <1>8 DEF Allowed
  <2>3. IsFiniteSet(S)
    BY AllowedIs DEF Inv
  <2> HIDE DEF S
  <2>4. Cardinality(S \cup {x}) = Cardinality(S) + 1
    BY <2>2, <2>3, FS_AddElement
  <2>5. QED
    BY <2>1, <2>4 DEF S
<1>14. TypeOK'
  <2>1. \A b \in DOMAIN hits' : hits'[b] \in (Nat \ {0}) \X (0..now')
    <3> SUFFICES ASSUME NEW b \in DOMAIN hits' PROVE hits'[b] \in (Nat \ {0}) \X (0..now)
      BY <1>9
    <3>1. CASE b = a
      BY <3>1, <1>3, <1>4, <1>11
    <3>2. CASE b # a
      BY <3>2, <1>11 DEF Inv, TypeOK
    <3>3. QED
      BY <3>1, <3>2
  <2>2. tries' \subseteq Addrs \X (0..now') \X (1..MaxTries) \X BOOLEAN
    <3>1. now \in 0..now /\ k \in 1..MaxTries /\ ok \in BOOLEAN
      BY <1>2, <1>3, <1>7
    <3>2. x \in Addrs \X (0..now) \X (1..MaxTries) \X BOOLEAN
      BY <3>1 DEF x
    <3>3. QED
      BY <3>2, <1>9 DEF Inv, TypeOK
  <2>3. DOMAIN hits' \subseteq Addrs
    BY <1>11 DEF Inv, TypeOK
  <2>4. now' \in 0..MaxTime
    BY <1>9 DEF Inv, TypeOK
  <2>5. QED
    BY <2>1, <2>2, <2>3, <2>4 DEF TypeOK
<1>15. OrdinalInv'
  <2> SUFFICES ASSUME NEW y \in tries', y[2] = now PROVE y[3] <= Cardinality(AtNow(y[1])')
    BY <1>9 DEF OrdinalInv
  <2>1. AtNow(a)' = AtNow(a) \cup {x} /\ x \notin AtNow(a)
    BY <1>6, <1>8, <1>9 DEF AtNow
  <2>2. Cardinality(AtNow(a)') = Cardinality(AtNow(a)) + 1
    BY <2>1, <1>5, FS_AddElement
  <2>3. CASE y = x
    BY <2>2, <2>3, <1>5, <1>6, <1>7
  <2>4. CASE y # x /\ y[1] = a
    <3>1. y \in tries
      BY <2>4, <1>9
    <3>2. y[3] \in Nat
      BY <3>1, <1>3, TryIs DEF Inv
    <3>3. y[3] <= Cardinality(AtNow(a))
      BY <3>1, <2>4 DEF Inv, OrdinalInv
    <3>4. y[3] <= Cardinality(AtNow(a)')
      BY <3>2, <3>3, <2>2, <1>5
    <3>5. QED
      BY <3>4, <2>4
  <2>5. CASE y # x /\ y[1] # a
    <3>1. y \in tries
      BY <2>5, <1>9
    <3>2. AtNow(y[1])' = AtNow(y[1])
      BY <2>5, <1>6, <1>9 DEF AtNow
    <3>3. y[3] <= Cardinality(AtNow(y[1]))
      BY <3>1 DEF Inv, OrdinalInv
    <3>4. QED
      BY <3>2, <3>3
  <2>6. QED
    BY <2>3, <2>4, <2>5
<1>16. Cardinality(Allowed(tries', a, start, now)) = IF count <= Limit THEN count ELSE Limit
  <2> DEFINE n == Cardinality(Allowed(tries, a, start, now))
  <2>0. n = IF count - 1 <= Limit THEN count - 1 ELSE Limit
    BY <1>4
  <2>1. CASE ok
    <3>1. Cardinality(Allowed(tries', a, start, now)) = n + 1
      BY <2>1, <1>3, <1>4, <1>13
    <3> HIDE DEF n
    <3>2. QED
      BY <3>1, <2>0, <2>1, <1>2, <1>3, <1>4
  <2>2. CASE ~ok
    <3>1. Allowed(tries', a, start, now) = Allowed(tries, a, start, now)
      BY <2>2, <1>3, <1>4, <1>12
    <3>2. Cardinality(Allowed(tries', a, start, now)) = n
      BY <3>1
    <3> HIDE DEF n
    <3>3. QED
      BY <3>2, <2>0, <2>2, <1>2, <1>3, <1>4
  <2>3. QED
    BY <2>1, <2>2
<1>17. Cardinality(Allowed(tries', a, start - Window, start - 1)) < Limit
  BY <1>3, <1>4, <1>12
<1>18. Allowed(tries', a, start, start) # {}
  <2>1. CASE count > 1
    BY <2>1, <1>4, <1>9 DEF Allowed
  <2>2. CASE count = 1
    <3>1. ok /\ start = now /\ start \in Int
      BY <2>2, <1>2, <1>3, <1>4
    <3>2. x \in Allowed(tries', a, start, start)
      BY <3>1, <1>3, <1>13
    <3>3. QED
      BY <3>2
  <2>3. QED
    BY <2>1, <2>2, <1>4
<1>19. \A y \in tries' : y[1] = a => y[2] <= start + Window
  <2> SUFFICES ASSUME NEW y \in tries' PROVE y[2] <= start + Window
    OBVIOUS
  <2>1. y[2] \in Nat /\ y[2] <= now
    BY <1>3, <1>9, <1>14, TryIs DEF TypeOK
  <2>2. QED
    BY <2>1, <1>3, <1>4
<1>20. EntryInv'
  <2> SUFFICES ASSUME NEW b \in DOMAIN hits' PROVE Counts(b, hits[b][1], hits[b][2])'
    BY DEF EntryInv
  <2>1. CASE b = a
    <3>1. hits'[b][1] = count /\ hits'[b][2] = start
      BY <2>1, <1>11
    <3>2. QED
      BY <3>1, <2>1, <1>9, <1>16, <1>17, <1>18, <1>19 DEF Counts
  <2>2. CASE b # a
    <3>1. b \in DOMAIN hits /\ hits'[b] = hits[b]
      BY <2>2, <1>11
    <3>2. Counts(b, hits[b][1], hits[b][2]) /\ hits[b][2] \in Nat
      BY <3>1, EntryIs DEF Inv, EntryInv
    <3> DEFINE s == hits[b][2]
    <3>3. /\ Allowed(tries', b, s, now) = Allowed(tries, b, s, now)
          /\ Allowed(tries', b, s - Window, s - 1) = Allowed(tries, b, s - Window, s - 1)
          /\ Allowed(tries', b, s, s) = Allowed(tries, b, s, s)
      BY <2>2, <3>2, <1>3, <1>12
    <3>4. \A y \in tries' : y[1] = b => y[2] <= s + Window
      BY <2>2, <3>2, <1>6, <1>9 DEF Counts
    <3>5. QED
      BY <3>1, <3>2, <3>3, <3>4, <1>9 DEF Counts
  <2>3. QED
    BY <2>1, <2>2
<1>21. QuietInv'
  <2> SUFFICES ASSUME NEW b \in Addrs \ DOMAIN hits' PROVE Quiet(b)'
    BY DEF QuietInv
  <2>1. b # a /\ b \notin Retained
    BY <1>11
  <2>2. Quiet(b)
    <3>1. CASE b \notin DOMAIN hits
      BY <3>1 DEF Inv, QuietInv
    <3>2. CASE b \in DOMAIN hits
      <4>1. hits[b][2] \in Nat
        BY <3>2, EntryIs DEF Inv
      <4>2. now - hits[b][2] > Window
        BY <2>1, <3>2, <4>1, <1>3 DEF Retained
      <4>3. QED
        BY <3>2, <4>2, PastIsQuiet
    <3>3. QED
      BY <3>1, <3>2
  <2>3. Allowed(tries', b, now - Window, now) = Allowed(tries, b, now - Window, now)
    BY <2>1, <1>3, <1>12
  <2>4. \A y \in tries' : y[1] = b => y[2] < now
    BY <2>1, <2>2, <1>6, <1>9 DEF Quiet
  <2>5. QED
    BY <2>2, <2>3, <2>4, <1>9 DEF Quiet
<1>22. NoFalseRefusal'
  <2> SUFFICES ASSUME NEW y \in tries', ~y[4]
               PROVE  Cardinality({z \in During(y[1], y[2])' : z[4]}) >= Limit
    BY DEF NoFalseRefusal
  <2> DEFINE S == Allowed(tries, y[1], y[2] - Window, y[2])
             T == Allowed(tries', y[1], y[2] - Window, y[2])
  <2>1. {z \in During(y[1], y[2])' : z[4]} = T
    BY DEF During, Allowed
  <2>2. IsFiniteSet(T) /\ Cardinality(T) \in Nat
    <3>1. T \in SUBSET tries'
      BY DEF Allowed
    <3>2. QED
      BY <3>1, <1>10, FS_Subset, FS_CardinalityType
  <2>3. CASE y # x
    <3>1. y \in tries
      BY <2>3, <1>9
    <3>2. Cardinality({z \in During(y[1], y[2]) : z[4]}) >= Limit
      BY <3>1 DEF Inv, NoFalseRefusal
    <3>3. Cardinality(S) >= Limit
      BY <3>2, DuringIs
    <3>4. S \subseteq T
      BY <1>9 DEF Allowed
    <3> HIDE DEF S, T
    <3>5. Cardinality(S) \in Nat /\ Cardinality(S) <= Cardinality(T)
      BY <3>4, <2>2, Fewer
    <3>6. Cardinality(T) >= Limit
      BY <3>3, <3>5, <2>2, <1>3
    <3>7. QED
      BY <3>6, <2>1
  <2>4. CASE y = x
    <3> DEFINE R == Allowed(tries', a, start, now)
    <3>1. y[1] = a /\ y[2] = now /\ ~ok
      BY <2>4, <1>6
    <3>2. Cardinality(R) = Limit
      BY <3>1, <1>2, <1>16
    <3>3. R \subseteq T
      BY <3>1, <1>3, <1>4, <1>9, <1>14, TryIs DEF Allowed, TypeOK
    <3> HIDE DEF R, T
    <3>4. Cardinality(T) >= Limit
      BY <3>2, <3>3, <2>2, <1>3, Fewer
    <3>5. QED
      BY <3>4, <2>1
  <2>5. QED
    BY <2>3, <2>4
<1>23. BoundedRate'
  <2> SUFFICES ASSUME NEW b \in Addrs, NEW t \in 0..now
               PROVE  Cardinality({y \in During(b, t)' : y[4]}) < 2 * Limit
    BY <1>9 DEF BoundedRate
  <2>4. {y \in During(b, t)' : y[4]} = Allowed(tries', b, t - Window, t)
    BY DEF During, Allowed
  <2> SUFFICES Cardinality(Allowed(tries', b, t - Window, t)) < 2 * Limit
    BY <2>4
  <2>1. CASE b # a \/ t < now
    <3>1. Allowed(tries', b, t - Window, t) = Allowed(tries, b, t - Window, t)
      BY <2>1, <1>3, <1>12
    <3>2. Cardinality({y \in During(b, t) : y[4]}) < 2 * Limit
      BY DEF Inv, BoundedRate
    <3>3. QED
      BY <3>1, <3>2, DuringIs
  <2>2. CASE b = a /\ t = now
    <3> DEFINE P == Allowed(tries', a, start - Window, start - 1)
               Q == Allowed(tries', a, start, now)
               T == Allowed(tries', a, now - Window, now)
    <3>1. T \subseteq P \cup Q
      <4> SUFFICES ASSUME NEW y \in T PROVE y \in P \cup Q
        OBVIOUS
      <4>1. y \in tries' /\ y[1] = a /\ y[4] /\ now - Window <= y[2] /\ y[2] <= now
        BY DEF Allowed
      <4>2. y[2] \in Nat
        BY <4>1, <1>3, <1>9, <1>14, TryIs DEF TypeOK
      <4>3. (start - Window <= y[2] /\ y[2] <= start - 1) \/ start <= y[2]
        BY <4>1, <4>2, <1>3, <1>4
      <4>4. QED
        BY <4>1, <4>3 DEF Allowed
    <3>2. P \in SUBSET tries' /\ Q \in SUBSET tries'
      BY DEF Allowed
    <3>3. Cardinality(P) < Limit /\ Cardinality(Q) <= Limit
      BY <1>3, <1>4, <1>16, <1>17
    <3> HIDE DEF P, Q, T
    <3>4. /\ IsFiniteSet(P) /\ IsFiniteSet(Q) /\ Cardinality(P) \in Nat /\ Cardinality(Q) \in Nat
      BY <3>2, <1>10, FS_Subset, FS_CardinalityType
    <3>5. IsFiniteSet(P \cap Q) /\ Cardinality(P \cap Q) \in Nat
      BY <3>4, FS_Intersection, FS_CardinalityType
    <3>6. /\ IsFiniteSet(P \cup Q)
          /\ Cardinality(P \cup Q) = Cardinality(P) + Cardinality(Q) - Cardinality(P \cap Q)
      BY <3>4, FS_Union
    <3>7. /\ Cardinality(T) \in Nat /\ Cardinality(P \cup Q) \in Nat
          /\ Cardinality(T) <= Cardinality(P \cup Q)
      BY <3>1, <3>6, Fewer
    <3>8. Cardinality(T) < 2 * Limit
      BY <3>3, <3>4, <3>5, <3>6, <3>7, <1>3
    <3>9. QED
      BY <3>8, <2>2 DEF T
  <2>3. QED
    BY <2>1, <2>2, <1>3
<1>24. QED
  BY <1>10, <1>14, <1>15, <1>20, <1>21, <1>22, <1>23 DEF Inv

-----------------------------------------------------------------------------
(* The theorems.                                                           *)

LEMMA InvStep == Inv /\ [Next]_vars => Inv'
<1> SUFFICES ASSUME Inv, [Next]_vars PROVE Inv'
  OBVIOUS
<1>1. CASE Tick
  BY <1>1, TickKeeps
<1>2. ASSUME NEW a \in Addrs, Allow(a) PROVE Inv'
  BY <1>2, AllowKeeps
<1>3. CASE UNCHANGED vars
  BY <1>3 DEF vars, Inv, TypeOK, OrdinalInv, AtNow, EntryInv, Counts, QuietInv, Quiet,
              NoFalseRefusal, BoundedRate, During
<1>4. QED
  BY <1>1, <1>2, <1>3 DEF Next

\* The map holds counts and start times of known addresses only, whatever the
\* limit, the window and the clock (RateLimit).
THEOREM TypeCorrect == Spec => []TypeOK
<1>1. Inv => TypeOK
  BY DEF Inv
<1>2. QED
  BY <1>1, InvInit, InvStep, PTL DEF Spec

\* For every limit and window, a try is refused only to an address that used
\* up the limit within the window before it (allow).
THEOREM RefusedForCause == Spec => []NoFalseRefusal
<1>1. Inv => NoFalseRefusal
  BY DEF Inv
<1>2. QED
  BY <1>1, InvInit, InvStep, PTL DEF Spec

\* For every limit and window, fewer than twice the limit of tries are allowed
\* to an address in any span as long as a window (allow).
THEOREM RateIsBounded == Spec => []BoundedRate
<1>1. Inv => BoundedRate
  BY DEF Inv
<1>2. QED
  BY <1>1, InvInit, InvStep, PTL DEF Spec

=============================================================================
