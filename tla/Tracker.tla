------------------------------- MODULE Tracker -------------------------------
(***************************************************************************)
(* The failure tracker (minsec-core/src/tracker.rs): per (filter, network) *)
(* key a fixed ring of hit times, in a table of bounded size.  The engine  *)
(* calls hit for every matching line, forget when a network is unbanned    *)
(* and sweep from its periodic tick; everything runs on one thread, so     *)
(* each call is one step.                                                  *)
(***************************************************************************)
EXTENDS Integers, FiniteSets, Sequences, Tables

CONSTANTS
  Keys,          \* TrackKey: (filter, network)
  MaxRetry,      \* [Keys -> 1..RingSize]: policy.maxretry of the key's filter
  FindTime,      \* [Keys -> Nat]: policy.findtime of the key's filter, in seconds
  Idle,          \* the idle time the engine sweeps with, the longest findtime
  RingSize,      \* MAX_RETRY_CAP: the slots of every ring
  MaxEntries,    \* the table's bound (the code takes at least 16)
  EvictDivisor,  \* EVICT_DIVISOR
  Epoch,         \* the clock's reading at the start: unix time, far above Idle
  MaxTime        \* bound of the model: the clock stops here

ASSUME TrackerAssumption ==
  /\ RingSize \in Nat \ {0}
  /\ MaxRetry \in [Keys -> 1..RingSize]
  /\ FindTime \in [Keys -> Nat]
  /\ Idle \in Nat
  /\ \A k \in Keys : FindTime[k] <= Idle
  /\ MaxEntries \in Nat \ {0}
  /\ EvictDivisor \in Nat \ {0}
  /\ Epoch \in Nat
  /\ Idle < Epoch
  /\ MaxTime \in Nat

VARIABLES
  map,      \* the table: a function from the tracked keys to their rings
  now,      \* the wall clock, in seconds
  verdict,  \* what this step's hit returned, NoVerdict if it was none
  hits      \* auxiliary, read by no action: every hit since the key's entry was created

vars == <<map, now, verdict, hits>>

SW == INSTANCE SlidingWindow

\* A ring: ts[head] is the oldest of len times, the others follow it modulo
\* the key's maxretry; the slots past them were never written and hold 0.
Ring == [ts : [0..RingSize-1 -> Nat], head : 0..RingSize-1, len : 0..RingSize]

-----------------------------------------------------------------------------
(* Window: the ring's operations. *)

EmptyRing == [ts |-> [i \in 0..RingSize-1 |-> 0], head |-> 0, len |-> 0]

\* The slot of the i-th oldest time, in a ring with this head used modulo cap.
Slot(head, i, cap) == (head + i) % cap

\* Mutant: a full ring grows once more.
PushOneMore(w, t, cap) ==
  IF w.len <= cap
  THEN [ts |-> [w.ts EXCEPT ![Slot(w.head, w.len, cap)] = t], head |-> w.head, len |-> w.len + 1]
  ELSE [ts |-> [w.ts EXCEPT ![w.head] = t], head |-> Slot(w.head, 1, cap), len |-> w.len]

\* Mutant: a full ring overwrites its oldest slot but does not move the head on.
PushKeepsHead(w, t, cap) ==
  IF w.len < cap
  THEN [ts |-> [w.ts EXCEPT ![Slot(w.head, w.len, cap)] = t], head |-> w.head, len |-> w.len + 1]
  ELSE [ts |-> [w.ts EXCEPT ![w.head] = t], head |-> w.head, len |-> w.len]

Push(w, t, cap) ==
  IF w.len < cap
  THEN [ts |-> [w.ts EXCEPT ![Slot(w.head, w.len, cap)] = t], head |-> w.head, len |-> w.len + 1]
  ELSE [ts |-> [w.ts EXCEPT ![w.head] = t], head |-> Slot(w.head, 1, cap), len |-> w.len]

\* Mutant: a hit exactly findtime old no longer counts.
CountAfter(w, since, cap) ==
  Cardinality({i \in 0..w.len-1 : w.ts[Slot(w.head, i, cap)] > since})

CountSince(w, since, cap) ==
  Cardinality({i \in 0..w.len-1 : w.ts[Slot(w.head, i, cap)] >= since})

Last(w, cap) == IF w.len = 0 THEN 0 ELSE w.ts[Slot(w.head, w.len - 1, cap)]

-----------------------------------------------------------------------------
(* Tracker: the table. *)

\* The rings are written modulo maxretry but sweep and evict_batch read the
\* newest time modulo the ring's full size.
SweepLast(k) == Last(map[k], RingSize)

BatchSize ==
  LET n == Cardinality(DOMAIN map) \div EvictDivisor IN IF n = 0 THEN 1 ELSE n

\* The sets evict_batch may choose: the oldest entries, ties in any order.
OldestBatches ==
  {E \in SUBSET DOMAIN map :
     /\ Cardinality(E) = BatchSize
     /\ \A e \in E : \A k \in DOMAIN map \ E : SweepLast(e) <= SweepLast(k)}

\* Mutant: the table is not trimmed when it is full.
EvictsNothing(k) == {{}}

\* What making room for key k removes.
Evictions(k) ==
  IF k \notin DOMAIN map /\ Cardinality(DOMAIN map) >= MaxEntries
  THEN OldestBatches
  ELSE {{}}

\* Key k's ring after its hit.
Pushed(k) ==
  Push(IF k \in DOMAIN map THEN map[k] ELSE EmptyRing, now, MaxRetry[k])

HitCount(k) ==
  CountSince(Pushed(k), SW!Monus(now, FindTime[k]), MaxRetry[k])

Clear(S) == hits' = [k \in Keys |-> IF k \in S THEN <<>> ELSE hits[k]]

\* The hit leaves the key below its threshold.
HitBelow(k, evicted) ==
  /\ HitCount(k) < MaxRetry[k]
  /\ map' = Put(Without(map, evicted), k, Pushed(k))
  /\ verdict' = [ban |-> FALSE, hits |-> HitCount(k)]
  /\ hits' = [x \in Keys |-> IF x = k THEN Append(hits[k], now)
                             ELSE IF x \in evicted THEN <<>> ELSE hits[x]]
  /\ UNCHANGED now

\* The hit reaches the threshold: the window is reset and the ban asked for.
HitBan(k, evicted) ==
  /\ HitCount(k) >= MaxRetry[k]
  /\ map' = Without(map, evicted \cup {k})
  /\ verdict' = [ban |-> TRUE, hits |-> HitCount(k)]
  /\ Clear(evicted \cup {k})
  /\ UNCHANGED now

Forget(k) ==
  /\ map' = Without(map, {k})
  /\ verdict' = SW!NoVerdict
  /\ Clear({k})
  /\ UNCHANGED now

\* Mutant: an entry exactly at the idle time goes too.
SweptAtCutoff == {k \in DOMAIN map : SweepLast(k) <= SW!Monus(now, Idle)}

\* The entries a sweep takes for idle.
Swept == {k \in DOMAIN map : SweepLast(k) < SW!Monus(now, Idle)}

Sweep ==
  /\ map' = Without(map, Swept)
  /\ verdict' = SW!NoVerdict
  /\ Clear(Swept)
  /\ UNCHANGED now

Clock ==
  /\ now < MaxTime
  /\ now' = now + 1
  /\ verdict' = SW!NoVerdict
  /\ UNCHANGED <<map, hits>>

Init ==
  /\ map = EmptyTable
  /\ now = Epoch
  /\ verdict = SW!NoVerdict
  /\ hits = [k \in Keys |-> <<>>]

Next ==
  \/ \E k \in Keys : \E evicted \in Evictions(k) : HitBelow(k, evicted)
  \/ \E k \in Keys : \E evicted \in Evictions(k) : HitBan(k, evicted)
  \/ \E k \in Keys : Forget(k)
  \/ Sweep
  \/ Clock

Spec == Init /\ [][Next]_vars

-----------------------------------------------------------------------------
(* Properties. *)

\* Types; a ring in use is never empty and stays inside its first maxretry slots.
TypeOK ==
  /\ map = [k \in DOMAIN map |-> map[k]]
  /\ DOMAIN map \subseteq Keys
  /\ \A k \in DOMAIN map : /\ map[k] \in Ring
                           /\ map[k].len \in 1..MaxRetry[k]
                           /\ map[k].head \in 0..MaxRetry[k]-1
  /\ now \in Nat
  /\ verdict \in [ban : BOOLEAN, hits : Nat]
  /\ hits \in [Keys -> Seq(Nat)]

\* The table never outgrows its bound, however many different addresses hit it
\* ("memory is bounded by configuration, not by traffic volume").
MemoryBounded ==
  /\ IsFiniteSet(DOMAIN map)
  /\ Cardinality(DOMAIN map) <= MaxEntries

\* A key is in the table exactly while it has hits on record, whose times never
\* decrease, and its ring holds the newest of them in the order they came: all of
\* them until maxretry have come in.
RingHoldsNewest ==
  /\ DOMAIN map = SW!Tracked
  /\ \A k \in Keys : \A i, j \in 1..Len(hits[k]) : i <= j => hits[k][i] <= hits[k][j]
  /\ \A k \in Keys : \A i \in 1..Len(hits[k]) : hits[k][i] <= now
  /\ \A k \in DOMAIN map :
       LET w == map[k]
           n == Len(hits[k])
       IN  /\ w.len = IF n < MaxRetry[k] THEN n ELSE MaxRetry[k]
           /\ \A i \in 0..w.len-1 :
                w.ts[Slot(w.head, i, MaxRetry[k])] = hits[k][n - w.len + 1 + i]

\* The rings answer every hit as if every hit since the key's fresh start were
\* kept: a ban exactly when maxretry of them are inside findtime.
ImplementsSlidingWindow == SW!Spec

\* Only a sweep takes keys away without looking at the table's size: an entry
\* whose newest hit is inside the idle time survives it unless its ring has wrapped
\* round (head # 0), which only a key slower than its threshold reaches.
SweepSparesUnwrapped ==
  [][Sweep => \A k \in DOMAIN map :
       SW!Newest(k) >= SW!Monus(now, Idle) /\ map[k].head = 0 => k \in DOMAIN map']_vars
=============================================================================
