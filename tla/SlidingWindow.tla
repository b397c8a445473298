---------------------------- MODULE SlidingWindow ----------------------------
(***************************************************************************)
(* What the failure tracker promises the ban engine, free of its rings and *)
(* its table: for every key, the time of each hit since the key last       *)
(* started afresh.  A hit answers how many of them fall inside the last    *)
(* findtime, counting no further than maxretry, and asks for a ban when it *)
(* gets there; a ban starts the key afresh.  A key may otherwise only be   *)
(* forgotten on request, to make room for a new key when the table is      *)
(* full, or by the periodic sweep, which spares no key whose newest hit is *)
(* older than the idle time.                                               *)
(*                                                                         *)
(* Tracker implements this specification; Engine is built on it.           *)
(***************************************************************************)
EXTENDS Integers, FiniteSets, Sequences

CONSTANTS
  Keys,        \* the (filter, network) pairs that can be tracked
  MaxRetry,    \* [Keys -> Nat]: hits that make a ban (policy of the key's filter)
  FindTime,    \* [Keys -> Nat]: the window, in seconds
  Idle,        \* the sweep's idle time: the longest findtime of any filter
  MaxEntries   \* at most this many keys are tracked

VARIABLES
  hits,        \* [Keys -> Seq(Nat)]: times of the hits since the key's fresh start
  now,         \* the wall clock, in seconds
  verdict      \* the answer of the step if it was a hit, else NoVerdict

windowVars == <<hits, now, verdict>>

\* u32::saturating_sub
Monus(a, b) == IF a >= b THEN a - b ELSE 0

NoVerdict == [ban |-> FALSE, hits |-> 0]

\* The keys with at least one hit on record.
Tracked == {k \in Keys : hits[k] # <<>>}

Newest(k) == hits[k][Len(hits[k])]

InWindow(log, since) == Cardinality({i \in 1..Len(log) : log[i] >= since})

\* The tracked keys no hit of which can matter to any filter's window any more.
IdleKeys == {k \in Tracked : Newest(k) < Monus(now, Idle)}

\* What making room for k may cost: nothing while k is known or there is room.
Evictable(k) ==
  IF k \notin Tracked /\ Cardinality(Tracked) >= MaxEntries THEN SUBSET Tracked ELSE {{}}

-----------------------------------------------------------------------------

Init ==
  /\ hits = [k \in Keys |-> <<>>]
  /\ now \in Nat
  /\ verdict = NoVerdict

\* A hit of key k, which the step answers; the keys in lost are dropped.
Hit(k, lost) ==
  LET log == Append(hits[k], now)
      n   == InWindow(log, Monus(now, FindTime[k]))
  IN  /\ verdict' = IF n >= MaxRetry[k] THEN [ban |-> TRUE, hits |-> MaxRetry[k]]
                     ELSE [ban |-> FALSE, hits |-> n]
      /\ hits' = [x \in Keys |-> IF x = k THEN IF n >= MaxRetry[k] THEN <<>> ELSE log
                                 ELSE IF x \in lost THEN <<>> ELSE hits[x]]
      /\ UNCHANGED now

Drop(lost) ==
  /\ hits' = [k \in Keys |-> IF k \in lost THEN <<>> ELSE hits[k]]
  /\ verdict' = NoVerdict
  /\ UNCHANGED now

Forget(k) == Drop({k})

Sweep(lost) ==
  /\ IdleKeys \subseteq lost
  /\ Drop(lost)

\* The clock does not go back.
Clock ==
  /\ now' \in Nat
  /\ now' >= now
  /\ verdict' = NoVerdict
  /\ UNCHANGED hits

Next ==
  \/ \E k \in Keys : \E lost \in Evictable(k) : Hit(k, lost)
  \/ \E k \in Keys : Forget(k)
  \/ \E lost \in SUBSET Tracked : Sweep(lost)
  \/ Clock

Spec == Init /\ [][Next]_windowVars

=============================================================================
