---------------------------- MODULE TrackerProofs ----------------------------
(***************************************************************************)
(* Proofs about Tracker, for any keys, policies, ring and table sizes.     *)
(*                                                                         *)
(* The ring is indexed modulo the key's maxretry, and the arithmetic is    *)
(* all in the lemmas about Push and CountSince; the inductive invariant    *)
(* IInv says that a key's ring is the tail of the log of its hits.  From   *)
(* it follow the bound on the table and that every hit is answered as      *)
(* SlidingWindow, which keeps the whole log, answers it.                   *)
(***************************************************************************)
EXTENDS Tracker, TLAPS, FiniteSetTheorems, FunctionTheorems

-----------------------------------------------------------------------------
(* Rings, by their parts: times ts, head h and length l, used modulo cap. *)

Times == [0..RingSize-1 -> Nat]

\* The ring holds the newest entries of log, oldest first.
Holds(ts, h, l, log, cap) ==
  /\ l = IF Len(log) < cap THEN Len(log) ELSE cap
  /\ \A i \in 0..l-1 : ts[Slot(h, i, cap)] = log[Len(log) - l + 1 + i]

LEMMA SlotWraps ==
  ASSUME NEW cap \in Nat \ {0}, NEW h \in 0..cap-1, NEW i \in 0..cap
  PROVE  /\ Slot(h, i, cap) = IF h + i < cap THEN h + i ELSE h + i - cap
         /\ Slot(h, i, cap) \in 0..cap-1
BY DEF Slot

LEMMA SlotsDiffer ==
  ASSUME NEW cap \in Nat \ {0}, NEW h \in 0..cap-1, NEW i \in 0..cap-1, NEW j \in 0..cap-1,
         Slot(h, i, cap) = Slot(h, j, cap)
  PROVE  i = j
BY DEF Slot

\* Moving the head on by one renumbers the slots; the old head becomes the last.
LEMMA HeadMoves ==
  ASSUME NEW cap \in Nat \ {0}, NEW h \in 0..cap-1, NEW i \in 0..cap-1
  PROVE  /\ Slot(h, 1, cap) \in 0..cap-1
         /\ Slot(Slot(h, 1, cap), i, cap) \in 0..cap-1
         /\ i = cap - 1 => Slot(Slot(h, 1, cap), i, cap) = h
         /\ i # cap - 1 => /\ Slot(Slot(h, 1, cap), i, cap) = Slot(h, i + 1, cap)
                           /\ Slot(Slot(h, 1, cap), i, cap) # h
<1>1. Slot(h, 1, cap) = (IF h + 1 < cap THEN h + 1 ELSE 0) /\ Slot(h, 1, cap) \in 0..cap-1
  BY DEF Slot
<1>2. Slot(h, i + 1, cap) = IF h + i + 1 < cap THEN h + i + 1 ELSE h + i + 1 - cap
  BY DEF Slot
<1>3. ASSUME NEW g \in 0..cap-1
      PROVE  /\ Slot(g, i, cap) = IF g + i < cap THEN g + i ELSE g + i - cap
             /\ Slot(g, i, cap) \in 0..cap-1
  BY DEF Slot
<1>4. QED
  BY <1>1, <1>2, <1>3

LEMMA AppendParts ==
  ASSUME NEW log \in Seq(Nat), NEW t \in Nat
  PROVE  /\ Append(log, t) \in Seq(Nat)
         /\ Len(log) \in Nat
         /\ Len(Append(log, t)) = Len(log) + 1
         /\ Append(log, t)[Len(log) + 1] = t
         /\ \A j \in 1..Len(log) : Append(log, t)[j] = log[j]
OBVIOUS

\* Writing the time into the free slot after the last one appends it to the log.
LEMMA WriteFree ==
  ASSUME NEW cap \in Nat \ {0}, NEW D, 0..cap-1 \subseteq D, NEW ts \in [D -> Nat],
         NEW h \in 0..cap-1, NEW l \in 0..cap-1, NEW t \in Nat,
         NEW log \in Seq(Nat), Holds(ts, h, l, log, cap)
  PROVE  Holds([ts EXCEPT ![Slot(h, l, cap)] = t], h, l + 1, Append(log, t), cap)
<1> DEFINE new == Append(log, t)
           s == Slot(h, l, cap)
           u == [ts EXCEPT ![s] = t]
<1>1. /\ Len(log) \in Nat /\ Len(new) = Len(log) + 1 /\ new[Len(log) + 1] = t
      /\ \A j \in 1..Len(log) : new[j] = log[j]
  BY AppendParts
<1>2. l = Len(log)
  BY <1>1 DEF Holds
<1>3. ASSUME NEW i \in 0..l-1
      PROVE  ts[Slot(h, i, cap)] = log[i + 1]
  <2>1. ts[Slot(h, i, cap)] = log[Len(log) - l + 1 + i]
    BY DEF Holds
  <2>2. Len(log) - l + 1 + i = i + 1
    BY <1>2
  <2>3. QED
    BY <2>1, <2>2
<1>4. ASSUME NEW i \in 0..l-1
      PROVE  Slot(h, i, cap) \in 0..cap-1 /\ Slot(h, i, cap) # s
  <2>1. i \in 0..cap-1 /\ i \in 0..cap /\ i # l
    OBVIOUS
  <2>2. Slot(h, i, cap) \in 0..cap-1
    BY <2>1, SlotWraps
  <2>3. Slot(h, i, cap) # Slot(h, l, cap)
    BY <2>1, SlotsDiffer
  <2>4. QED
    BY <2>2, <2>3
<1>5. s \in 0..cap-1
  BY SlotWraps
<1>6. u[s] = t /\ \A j \in 0..cap-1 : j # s => u[j] = ts[j]
  BY <1>5
<1> HIDE DEF new, u, s
<1>7. ASSUME NEW i \in 0..l
      PROVE  u[Slot(h, i, cap)] = new[i + 1]
  <2>1. CASE i = l
    BY <1>1, <1>2, <1>6, <2>1 DEF s
  <2>2. CASE i # l
    <3>1. i \in 0..l-1 /\ i + 1 \in 1..Len(log)
      BY <1>2, <2>2
    <3>2. QED
      BY <1>1, <1>3, <1>4, <1>6, <3>1
  <2>3. QED
    BY <2>1, <2>2
<1>8. ASSUME NEW i \in 0..(l + 1)-1
      PROVE  u[Slot(h, i, cap)] = new[Len(new) - (l + 1) + 1 + i]
  <2>1. i \in 0..l /\ Len(new) - (l + 1) + 1 + i = i + 1
    BY <1>1, <1>2
  <2>2. QED
    BY <1>7, <2>1
<1>9. l + 1 = IF Len(new) < cap THEN Len(new) ELSE cap
  BY <1>1, <1>2
<1>10. QED
  BY <1>8, <1>9 DEF Holds, new, u, s

\* So does writing it over the oldest one and moving the head on.
LEMMA WriteFull ==
  ASSUME NEW cap \in Nat \ {0}, NEW D, 0..cap-1 \subseteq D, NEW ts \in [D -> Nat],
         NEW h \in 0..cap-1, NEW t \in Nat,
         NEW log \in Seq(Nat), Holds(ts, h, cap, log, cap)
  PROVE  Holds([ts EXCEPT ![h] = t], Slot(h, 1, cap), cap, Append(log, t), cap)
<1> DEFINE new == Append(log, t)
           g == Slot(h, 1, cap)
           u == [ts EXCEPT ![h] = t]
           n == Len(log)
<1>1. /\ n \in Nat /\ Len(new) = n + 1 /\ new[n + 1] = t
      /\ \A j \in 1..n : new[j] = log[j]
  BY AppendParts
<1>2. cap <= n
  BY <1>1 DEF Holds
<1>3. \A i \in 0..cap-1 : ts[Slot(h, i, cap)] = log[n - cap + 1 + i]
  BY DEF Holds
<1>4. u[h] = t /\ \A j \in 0..cap-1 : j # h => u[j] = ts[j]
  OBVIOUS
<1> HIDE DEF new, u, n, g
<1>5. ASSUME NEW i \in 0..cap-1
      PROVE  u[Slot(g, i, cap)] = new[(n + 1) - cap + 1 + i]
  <2>1. CASE i = cap - 1
    <3>1. Slot(g, i, cap) = h
      BY <2>1, HeadMoves DEF g
    <3>2. (n + 1) - cap + 1 + i = n + 1
      BY <1>1, <2>1
    <3>3. QED
      BY <1>1, <1>4, <3>1, <3>2
  <2>2. CASE i # cap - 1
    <3>1. /\ Slot(g, i, cap) = Slot(h, i + 1, cap)
          /\ Slot(g, i, cap) \in 0..cap-1
          /\ Slot(g, i, cap) # h
      BY <2>2, HeadMoves DEF g
    <3>2. i + 1 \in 0..cap-1
      BY <2>2
    <3>3. u[Slot(g, i, cap)] = log[n - cap + 1 + (i + 1)]
      BY <1>3, <1>4, <3>1, <3>2
    <3>4. n - cap + 1 + (i + 1) \in 1..n /\ n - cap + 1 + (i + 1) = (n + 1) - cap + 1 + i
      BY <1>1, <1>2, <3>2
    <3>5. QED
      BY <1>1, <3>3, <3>4
  <2>3. QED
    BY <2>1, <2>2
<1>6. Len(new) = n + 1 /\ ~(Len(new) < cap)
  BY <1>1, <1>2
<1>7. QED
  BY <1>5, <1>6 DEF Holds, new, u, n, g

-----------------------------------------------------------------------------
(* Rings as records. *)

\* A ring used modulo cap whose head and length fit.
InUse(w, cap) ==
  /\ w \in Ring
  /\ w.len \in 0..cap
  /\ w.head \in 0..cap-1

LEMMA EmptyRingHolds ==
  ASSUME TrackerAssumption, NEW cap \in 1..RingSize
  PROVE  InUse(EmptyRing, cap) /\ Holds(EmptyRing.ts, EmptyRing.head, EmptyRing.len, <<>>, cap)
BY DEF TrackerAssumption, InUse, Holds, EmptyRing, Ring

LEMMA InUseParts ==
  ASSUME NEW w, NEW cap, InUse(w, cap)
  PROVE  /\ w.ts \in Times /\ w.head \in 0..cap-1 /\ w.len \in 0..cap
         /\ w = [ts |-> w.ts, head |-> w.head, len |-> w.len]
BY DEF InUse, Ring, Times

LEMMA PartsInUse ==
  ASSUME TrackerAssumption, NEW cap \in 1..RingSize,
         NEW ts \in Times, NEW h \in 0..cap-1, NEW l \in 0..cap
  PROVE  InUse([ts |-> ts, head |-> h, len |-> l], cap)
BY DEF TrackerAssumption, InUse, Ring, Times

\* A push keeps the ring in use, never leaves it empty, and appends to its log.
LEMMA PushKeeps ==
  ASSUME TrackerAssumption, NEW cap \in 1..RingSize, NEW t \in Nat,
         NEW w, InUse(w, cap),
         NEW log \in Seq(Nat), Holds(w.ts, w.head, w.len, log, cap)
  PROVE  LET p == Push(w, t, cap)
         IN  /\ InUse(p, cap)
             /\ p.len \in 1..cap
             /\ Holds(p.ts, p.head, p.len, Append(log, t), cap)
<1>1. /\ cap \in Nat \ {0} /\ 0..cap-1 \subseteq 0..RingSize-1
  BY DEF TrackerAssumption
<1>2. PICK ts \in Times, h \in 0..cap-1, l \in 0..cap :
        w = [ts |-> ts, head |-> h, len |-> l]
  BY InUseParts
<1>3. Holds(ts, h, l, log, cap)
  BY <1>2
<1>4. CASE l < cap
  <2>1. l \in 0..cap-1 /\ l + 1 \in 1..cap
    BY <1>4
  <2>2. Slot(h, l, cap) \in 0..cap-1
    BY <1>1, SlotWraps
  <2> DEFINE u == [ts EXCEPT ![Slot(h, l, cap)] = t]
  <2>3. u \in Times
    BY DEF Times
  <2>4. Holds(u, h, l + 1, Append(log, t), cap)
    BY <1>1, <1>3, <2>1, WriteFree DEF Times
  <2>5. Push(w, t, cap) = [ts |-> u, head |-> h, len |-> l + 1]
    BY <1>2, <1>4 DEF Push
  <2> HIDE DEF u
  <2>6. InUse([ts |-> u, head |-> h, len |-> l + 1], cap)
    BY <2>1, <2>3, PartsInUse
  <2>7. QED
    BY <2>1, <2>4, <2>5, <2>6
<1>5. CASE ~(l < cap)
  <2>1. l = cap /\ cap \in 1..cap
    BY <1>5
  <2>2. Slot(h, 1, cap) \in 0..cap-1
    BY <1>1, SlotWraps
  <2> DEFINE u == [ts EXCEPT ![h] = t]
  <2>3. u \in Times
    BY DEF Times
  <2>4. Holds(u, Slot(h, 1, cap), cap, Append(log, t), cap)
    BY <1>1, <1>3, <2>1, WriteFull DEF Times
  <2>5. Push(w, t, cap) = [ts |-> u, head |-> Slot(h, 1, cap), len |-> cap]
    BY <1>2, <1>5, <2>1 DEF Push
  <2> HIDE DEF u
  <2>6. InUse([ts |-> u, head |-> Slot(h, 1, cap), len |-> cap], cap)
    BY <2>1, <2>2, <2>3, PartsInUse
  <2>7. QED
    BY <2>1, <2>4, <2>5, <2>6
<1>6. QED
  BY <1>4, <1>5

\* Nothing in the ring is later than the time just pushed, written or not.
LEMMA PushBounds ==
  ASSUME TrackerAssumption, NEW cap \in 1..RingSize, NEW t \in Nat,
         NEW w, InUse(w, cap), \A j \in 0..RingSize-1 : w.ts[j] <= t
  PROVE  \A j \in 0..RingSize-1 : Push(w, t, cap).ts[j] <= t
<1>1. PICK ts \in Times, h \in 0..cap-1, l \in 0..cap :
        w = [ts |-> ts, head |-> h, len |-> l]
  BY InUseParts
<1>2. \A j \in 0..RingSize-1 : ts[j] <= t
  BY <1>1
<1>3. \A s : \A j \in 0..RingSize-1 : [ts EXCEPT ![s] = t][j] <= t
  BY <1>2 DEF Times
<1>4. \E s : Push(w, t, cap).ts = [ts EXCEPT ![s] = t]
  BY <1>1 DEF Push
<1>5. QED
  BY <1>3, <1>4

-----------------------------------------------------------------------------
(* Counting: the ring sees as many times inside a window as the whole log   *)
(* has, up to the ring's length.                                            *)

Ordered(log) == \A i, j \in 1..Len(log) : i <= j => log[i] <= log[j]

LEMMA IntervalCard ==
  ASSUME NEW a \in Int, NEW b \in Int, a <= b + 1
  PROVE  IsFiniteSet(a..b) /\ Cardinality(a..b) = b - a + 1
BY FS_Interval

LEMMA SubIntervalCard ==
  ASSUME NEW a \in Int, NEW b \in Int, a <= b + 1, NEW P \in SUBSET (a..b)
  PROVE  IsFiniteSet(P) /\ Cardinality(P) \in Nat /\ Cardinality(P) <= b - a + 1
<1>1. IsFiniteSet(a..b) /\ Cardinality(a..b) = b - a + 1
  BY IntervalCard
<1>2. QED
  BY <1>1, FS_Subset, FS_CardinalityType

\* P, a set of positions up to n with all the later positions of each: the last l
\* positions hold as many of them as there are, up to l.
LEMMA TailCount ==
  ASSUME NEW n \in Nat \ {0}, NEW l \in 1..n, NEW P \in SUBSET (1..n),
         \A i \in P : \A j \in 1..n : i <= j => j \in P
  PROVE  Cardinality({i \in 0..l-1 : n - l + 1 + i \in P}) =
           IF Cardinality(P) >= l THEN l ELSE Cardinality(P)
<1> DEFINE B == {i \in 0..l-1 : n - l + 1 + i \in P}
<1>1. IsFiniteSet(P) /\ Cardinality(P) \in Nat
  <2>1. 1 \in Int /\ n \in Int /\ 1 <= n + 1
    OBVIOUS
  <2>2. QED
    BY <2>1, SubIntervalCard
<1>2. CASE n - l + 1 \in P
  <2>1. B = 0..l-1
    <3>1. ASSUME NEW i \in 0..l-1
          PROVE  n - l + 1 + i \in P
      <4>1. n - l + 1 + i \in 1..n /\ n - l + 1 <= n - l + 1 + i
        OBVIOUS
      <4>2. QED
        BY <1>2, <4>1
    <3>2. QED
      BY <3>1
  <2>2. Cardinality(0..l-1) = l
    <3>1. 0 \in Int /\ l - 1 \in Int /\ 0 <= (l - 1) + 1 /\ (l - 1) - 0 + 1 = l
      OBVIOUS
    <3>2. QED
      BY <3>1, IntervalCard
  <2>3. (n - l + 1)..n \in SUBSET P
    <3>1. ASSUME NEW j \in (n - l + 1)..n
          PROVE  j \in P
      <4>1. j \in 1..n /\ n - l + 1 <= j
        OBVIOUS
      <4>2. QED
        BY <1>2, <4>1
    <3>2. QED
      BY <3>1
  <2>4. Cardinality((n - l + 1)..n) = l
    <3>1. /\ n - l + 1 \in Int /\ n \in Int /\ n - l + 1 <= n + 1
          /\ n - (n - l + 1) + 1 = l
      OBVIOUS
    <3>2. QED
      BY <3>1, IntervalCard
  <2>5. l <= Cardinality(P)
    BY <1>1, <2>3, <2>4, FS_Subset
  <2>6. QED
    BY <2>1, <2>2, <2>5, <1>1
<1>3. CASE n - l + 1 \notin P
  <2>1. P \in SUBSET ((n - l + 2)..n)
    <3>1. ASSUME NEW j \in P
          PROVE  j \in (n - l + 2)..n
      <4>1. j \in 1..n /\ n - l + 1 \in 1..n
        OBVIOUS
      <4>2. ~(j <= n - l + 1)
        BY <1>3, <4>1
      <4>3. QED
        BY <4>1, <4>2
    <3>2. QED
      BY <3>1
  <2>2. Cardinality(P) <= l - 1
    <3>1. /\ n - l + 2 \in Int /\ n \in Int /\ n - l + 2 <= n + 1
          /\ n - (n - l + 2) + 1 = l - 1
      OBVIOUS
    <3>2. QED
      BY <2>1, <3>1, SubIntervalCard
  <2> DEFINE f == [j \in P |-> j - (n - l + 1)]
  <2>3. f \in [P -> B]
    <3>1. ASSUME NEW j \in P
          PROVE  j - (n - l + 1) \in B
      <4>1. j \in (n - l + 2)..n
        BY <2>1
      <4>2. j - (n - l + 1) \in 0..l-1 /\ n - l + 1 + (j - (n - l + 1)) = j
        BY <4>1
      <4>3. QED
        BY <4>2
    <3>2. QED
      BY <3>1
  <2>4. \A a, b \in P : f[a] = f[b] => a = b
    <3>1. ASSUME NEW a \in P, NEW b \in P, a - (n - l + 1) = b - (n - l + 1)
          PROVE  a = b
      <4>1. a \in Int /\ b \in Int /\ n - l + 1 \in Int
        OBVIOUS
      <4>2. QED
        BY <3>1, <4>1
    <3>2. QED
      BY <3>1
  <2>5. \A i \in B : \E j \in P : f[j] = i
    <3>1. ASSUME NEW i \in B
          PROVE  \E j \in P : j - (n - l + 1) = i
      <4>1. n - l + 1 + i \in P /\ (n - l + 1 + i) - (n - l + 1) = i
        OBVIOUS
      <4>2. QED
        BY <4>1
    <3>2. QED
      BY <3>1
  <2> HIDE DEF f, B
  <2>6. ExistsBijection(P, B)
    BY <2>3, <2>4, <2>5, Fun_IsBij DEF ExistsBijection
  <2>7. Cardinality(B) = Cardinality(P)
    BY <1>1, <2>6, FS_Bijection
  <2>8. QED
    BY <1>1, <2>2, <2>7 DEF B
<1>4. QED
  BY <1>2, <1>3

LEMMA RingCounts ==
  ASSUME NEW cap \in Nat \ {0}, NEW since \in Nat,
         NEW w, NEW log \in Seq(Nat), Len(log) > 0, Ordered(log),
         Holds(w.ts, w.head, w.len, log, cap)
  PROVE  LET m == SW!InWindow(log, since)
         IN  CountSince(w, since, cap) = IF m >= cap THEN cap ELSE m
<1> DEFINE n == Len(log)
           l == w.len
           P == {j \in 1..n : log[j] >= since}
<1>1. n \in Nat \ {0} /\ l = (IF n < cap THEN n ELSE cap) /\ l \in 1..n
  BY DEF Holds
<1>2. P \in SUBSET (1..n) /\ \A i \in P : \A j \in 1..n : i <= j => j \in P
  <2>1. ASSUME NEW i \in P, NEW j \in 1..n, i <= j
        PROVE  log[j] >= since
    <3>1. /\ log[i] \in Nat /\ log[j] \in Nat /\ log[i] >= since /\ log[i] <= log[j]
      BY <2>1 DEF Ordered
    <3>2. QED
      BY <3>1
  <2>2. QED
    BY <2>1
<1>3. {i \in 0..l-1 : w.ts[Slot(w.head, i, cap)] >= since} = {i \in 0..l-1 : n - l + 1 + i \in P}
  <2>1. ASSUME NEW i \in 0..l-1
        PROVE  w.ts[Slot(w.head, i, cap)] >= since <=> n - l + 1 + i \in P
    <3>1. n - l + 1 + i \in 1..n
      BY <1>1
    <3>2. w.ts[Slot(w.head, i, cap)] = log[n - l + 1 + i]
      BY DEF Holds
    <3>3. QED
      BY <3>1, <3>2
  <2>2. QED
    BY <2>1
<1> HIDE DEF n, l, P
<1>4. Cardinality({i \in 0..l-1 : n - l + 1 + i \in P}) =
        IF Cardinality(P) >= l THEN l ELSE Cardinality(P)
  BY <1>1, <1>2, TailCount
<1>5. Cardinality(P) \in Nat /\ Cardinality(P) <= n
  <2>1. 1 \in Int /\ n \in Int /\ 1 <= n + 1 /\ n - 1 + 1 = n
    BY <1>1
  <2>2. QED
    BY <1>2, <2>1, SubIntervalCard
<1>6. CountSince(w, since, cap) = IF Cardinality(P) >= cap THEN cap ELSE Cardinality(P)
  <2>1. CountSince(w, since, cap) = IF Cardinality(P) >= l THEN l ELSE Cardinality(P)
    BY <1>3, <1>4 DEF CountSince, l
  <2>2. QED
    BY <1>1, <1>5, <2>1
<1>7. SW!InWindow(log, since) = Cardinality(P)
  BY DEF SW!InWindow, P, n, SW!Cardinality, Cardinality
<1>8. QED
  BY <1>6, <1>7

-----------------------------------------------------------------------------
(* The inductive invariant: every tracked key's ring is in use, not empty,  *)
(* and holds the tail of the log of its hits; no slot, not even one that    *)
(* its policy leaves unused, is later than the newest hit, which is what    *)
(* the sweep relies on when it reads the ring modulo its full size.         *)

Good(k, w, log) ==
  /\ InUse(w, MaxRetry[k])
  /\ w.len \in 1..MaxRetry[k]
  /\ Holds(w.ts, w.head, w.len, log, MaxRetry[k])
  /\ \A j \in 0..RingSize-1 : w.ts[j] <= log[Len(log)]

Table ==
  /\ map = [k \in DOMAIN map |-> map[k]]
  /\ DOMAIN map \subseteq Keys
  /\ \A k \in Keys : k \in DOMAIN map <=> hits[k] # <<>>
  /\ \A k \in DOMAIN map : Good(k, map[k], hits[k])

Logs ==
  /\ now \in Nat
  /\ hits \in [Keys -> Seq(Nat)]
  /\ \A k \in Keys : Ordered(hits[k])
  /\ \A k \in Keys : \A i \in 1..Len(hits[k]) : hits[k][i] <= now

Answer == verdict \in [ban : BOOLEAN, hits : Nat]

IInv == Table /\ Logs /\ Answer /\ MemoryBounded

LEMMA IInvImplies ==
  ASSUME TrackerAssumption, IInv
  PROVE  TypeOK /\ MemoryBounded /\ RingHoldsNewest
<1>1. TypeOK
  <2>1. ASSUME NEW k \in DOMAIN map
        PROVE  /\ map[k] \in Ring
               /\ map[k].len \in 1..MaxRetry[k]
               /\ map[k].head \in 0..MaxRetry[k]-1
    BY DEF IInv, Table, Good, InUse
  <2>2. QED
    BY <2>1 DEF IInv, Table, Logs, Answer, TypeOK
<1>2. RingHoldsNewest
  <2>1. DOMAIN map = SW!Tracked
    BY DEF IInv, Table, SW!Tracked
  <2>2. \A k \in DOMAIN map : Holds(map[k].ts, map[k].head, map[k].len, hits[k], MaxRetry[k])
    BY DEF IInv, Table, Good
  <2>3. QED
    BY <2>1, <2>2 DEF IInv, Logs, Ordered, Holds, RingHoldsNewest
<1>3. QED
  BY <1>1, <1>2 DEF IInv

LEMMA KeyPolicy ==
  ASSUME TrackerAssumption, NEW k \in Keys
  PROVE  /\ MaxRetry[k] \in 1..RingSize /\ MaxRetry[k] \in Nat \ {0}
         /\ FindTime[k] \in Nat
BY DEF TrackerAssumption

LEMMA MonusNat ==
  ASSUME NEW a \in Nat, NEW b \in Nat
  PROVE  SW!Monus(a, b) \in Nat
BY DEF SW!Monus

LEMMA InWindowNat ==
  ASSUME NEW log \in Seq(Nat), NEW since \in Nat
  PROVE  SW!InWindow(log, since) \in Nat
<1> DEFINE P == {j \in 1..Len(log) : log[j] >= since}
<1>1. 1 \in Int /\ Len(log) \in Int /\ 1 <= Len(log) + 1 /\ P \in SUBSET (1..Len(log))
  OBVIOUS
<1> HIDE DEF P
<1>2. Cardinality(P) \in Nat
  BY <1>1, SubIntervalCard
<1>3. QED
  BY <1>2 DEF SW!InWindow, P, SW!Cardinality, Cardinality

\* Appending the clock's reading keeps a log in order.
LEMMA AppendOrdered ==
  ASSUME NEW log \in Seq(Nat), NEW t \in Nat, Ordered(log),
         \A i \in 1..Len(log) : log[i] <= t
  PROVE  /\ Ordered(Append(log, t))
         /\ \A i \in 1..Len(Append(log, t)) : Append(log, t)[i] <= t
<1>1. /\ Len(log) \in Nat
      /\ Len(Append(log, t)) = Len(log) + 1
      /\ Append(log, t)[Len(log) + 1] = t
      /\ \A j \in 1..Len(log) : Append(log, t)[j] = log[j]
  BY AppendParts
<1>2. \A i \in 1..Len(log)+1 : i \in 1..Len(log) \/ i = Len(log) + 1
  BY <1>1
<1>3. \A i \in 1..Len(Append(log, t)) : Append(log, t)[i] <= t
  BY <1>1, <1>2
<1>4. ASSUME NEW i \in 1..Len(log)+1, NEW j \in 1..Len(log)+1, i <= j
      PROVE  Append(log, t)[i] <= Append(log, t)[j]
  <2>1. CASE j = Len(log) + 1
    BY <1>1, <1>3, <2>1
  <2>2. CASE j \in 1..Len(log)
    <3>1. i \in 1..Len(log)
      BY <1>1, <1>4, <2>2
    <3>2. QED
      BY <1>1, <1>4, <2>2, <3>1 DEF Ordered
  <2>3. QED
    BY <1>2, <2>1, <2>2
<1>5. QED
  BY <1>1, <1>3, <1>4 DEF Ordered

\* What a hit of key k computes: the ring of its longer log, and the log's count.
LEMMA HitAnswer ==
  ASSUME TrackerAssumption, IInv, NEW k \in Keys,
         NEW log, log = Append(hits[k], now),
         NEW n, n = SW!InWindow(log, SW!Monus(now, FindTime[k]))
  PROVE  /\ log \in Seq(Nat) /\ log # <<>>
         /\ Ordered(log) /\ \A i \in 1..Len(log) : log[i] <= now
         /\ Good(k, Pushed(k), log)
         /\ n \in Nat
         /\ HitCount(k) = IF n >= MaxRetry[k] THEN MaxRetry[k] ELSE n
<1>1. now \in Nat /\ hits[k] \in Seq(Nat) /\ Ordered(hits[k])
  BY DEF IInv, Logs
<1>2. MaxRetry[k] \in 1..RingSize /\ MaxRetry[k] \in Nat \ {0}
  BY KeyPolicy
<1>3. SW!Monus(now, FindTime[k]) \in Nat
  BY <1>1, KeyPolicy, MonusNat
<1>4. log \in Seq(Nat) /\ Len(log) > 0 /\ log # <<>>
  BY <1>1
<1>5. Ordered(log) /\ \A i \in 1..Len(log) : log[i] <= now
  <2>1. \A i \in 1..Len(hits[k]) : hits[k][i] <= now
    BY DEF IInv, Logs
  <2>2. QED
    BY <1>1, <2>1, AppendOrdered
<1> DEFINE w == IF k \in DOMAIN map THEN map[k] ELSE EmptyRing
<1>6. InUse(w, MaxRetry[k]) /\ Holds(w.ts, w.head, w.len, hits[k], MaxRetry[k])
  <2>1. CASE k \in DOMAIN map
    BY <2>1 DEF IInv, Table, Good
  <2>2. CASE k \notin DOMAIN map
    <3>1. hits[k] = <<>>
      BY <2>2 DEF IInv, Table
    <3>2. QED
      BY <1>2, <2>2, <3>1, EmptyRingHolds
  <2>3. QED
    BY <2>1, <2>2
<1>7. Pushed(k) = Push(w, now, MaxRetry[k])
  BY DEF Pushed
<1> HIDE DEF w
<1>8. Good(k, Pushed(k), log)
  <2>1. \A j \in 0..RingSize-1 : Pushed(k).ts[j] <= now
    <3>1. \A j \in 0..RingSize-1 : w.ts[j] <= now
      <4>1. CASE k \in DOMAIN map
        <5>1. InUse(map[k], MaxRetry[k]) /\ hits[k] # <<>>
              /\ \A j \in 0..RingSize-1 : map[k].ts[j] <= hits[k][Len(hits[k])]
          BY <4>1 DEF IInv, Table, Good
        <5>2. map[k].ts \in Times
          BY <5>1, InUseParts
        <5>3. Len(hits[k]) \in 1..Len(hits[k]) /\ hits[k][Len(hits[k])] \in Nat
          BY <1>1, <5>1
        <5>4. hits[k][Len(hits[k])] <= now
          BY <5>3 DEF IInv, Logs
        <5>5. ASSUME NEW j \in 0..RingSize-1
              PROVE  map[k].ts[j] <= now
          <6>1. map[k].ts[j] \in Nat /\ map[k].ts[j] <= hits[k][Len(hits[k])]
            BY <5>1, <5>2 DEF Times
          <6>2. QED
            BY <1>1, <5>3, <5>4, <6>1
        <5>6. QED
          BY <4>1, <5>5 DEF w
      <4>2. CASE k \notin DOMAIN map
        BY <1>1, <4>2 DEF w, EmptyRing
      <4>3. QED
        BY <4>1, <4>2
    <3>2. QED
      BY <1>1, <1>2, <1>6, <1>7, <3>1, PushBounds
  <2>2. log[Len(log)] = now
    BY <1>1
  <2>3. QED
    BY <1>1, <1>2, <1>6, <1>7, <2>1, <2>2, PushKeeps DEF Good
<1>9. HitCount(k) = IF n >= MaxRetry[k] THEN MaxRetry[k] ELSE n
  <2>1. Holds(Pushed(k).ts, Pushed(k).head, Pushed(k).len, log, MaxRetry[k])
    BY <1>8 DEF Good
  <2>2. QED
    BY <1>2, <1>3, <1>4, <1>5, <2>1, RingCounts DEF HitCount
<1>10. n \in Nat
  BY <1>3, <1>4, InWindowNat
<1>11. QED
  BY <1>4, <1>5, <1>8, <1>9, <1>10

-----------------------------------------------------------------------------
(* Steps. *)

\* Removing entries and their logs, as a ban, a forget, a sweep and making room do.
LEMMA RemoveKeeps ==
  ASSUME TrackerAssumption, IInv, NEW S,
         map' = Without(map, S), Clear(S), now' = now
  PROVE  Table' /\ Logs' /\ MemoryBounded'
<1>1. DOMAIN map' = DOMAIN map \ S /\ \A k \in DOMAIN map' : map'[k] = map[k]
  BY DEF Without
<1>2. \A k \in Keys : hits'[k] = IF k \in S THEN <<>> ELSE hits[k]
  BY DEF Clear
<1>3. Table'
  <2>1. map' = [k \in DOMAIN map' |-> map'[k]]
    BY DEF Without
  <2>2. \A k \in Keys : k \in DOMAIN map' <=> hits'[k] # <<>>
    BY <1>1, <1>2 DEF IInv, Table
  <2>3. ASSUME NEW k \in DOMAIN map'
        PROVE  Good(k, map'[k], hits'[k])
    <3>1. k \in Keys /\ k \in DOMAIN map /\ map'[k] = map[k] /\ hits'[k] = hits[k]
      BY <1>1, <1>2 DEF IInv, Table
    <3>2. QED
      BY <3>1 DEF IInv, Table
  <2>4. QED
    BY <1>1, <2>1, <2>2, <2>3 DEF IInv, Table
<1>4. Logs'
  <2>1. /\ now \in Nat /\ hits \in [Keys -> Seq(Nat)]
        /\ \A k \in Keys : Ordered(hits[k])
        /\ \A k \in Keys : \A i \in 1..Len(hits[k]) : hits[k][i] <= now
    BY DEF IInv, Logs
  <2>2. hits' \in [Keys -> Seq(Nat)]
    BY <2>1 DEF Clear
  <2>3. Ordered(<<>>) /\ Len(<<>>) = 0
    BY DEF Ordered
  <2>4. ASSUME NEW k \in Keys
        PROVE  Ordered(hits'[k]) /\ \A i \in 1..Len(hits'[k]) : hits'[k][i] <= now'
    <3>1. CASE k \in S
      BY <1>2, <2>3, <3>1
    <3>2. CASE k \notin S
      BY <1>2, <2>1, <3>2
    <3>3. QED
      BY <3>1, <3>2
  <2>5. QED
    BY <2>1, <2>2, <2>4 DEF Logs
<1>5. MemoryBounded'
  <2>1. IsFiniteSet(DOMAIN map) /\ Cardinality(DOMAIN map) <= MaxEntries /\ MaxEntries \in Nat
    BY DEF IInv, MemoryBounded, TrackerAssumption
  <2>2. DOMAIN map' \in SUBSET DOMAIN map
    BY <1>1
  <2>3. IsFiniteSet(DOMAIN map') /\ Cardinality(DOMAIN map') <= Cardinality(DOMAIN map)
    BY <2>1, <2>2, FS_Subset
  <2>4. Cardinality(DOMAIN map') \in Nat /\ Cardinality(DOMAIN map) \in Nat
    BY <2>1, <2>3, FS_CardinalityType
  <2>5. QED
    BY <2>1, <2>3, <2>4 DEF MemoryBounded
<1>6. QED
  BY <1>3, <1>4, <1>5

\* What is evicted for key k are other entries, and leaves room for it.
LEMMA EvictionMakesRoom ==
  ASSUME TrackerAssumption, IInv, NEW k \in Keys, NEW E \in Evictions(k)
  PROVE  /\ E \in SUBSET DOMAIN map /\ k \notin E
         /\ E # {} => k \notin DOMAIN map /\ Cardinality(DOMAIN map) >= MaxEntries
         /\ IsFiniteSet((DOMAIN map \ E) \cup {k})
         /\ Cardinality((DOMAIN map \ E) \cup {k}) <= MaxEntries
<1> DEFINE D == DOMAIN map
           c == Cardinality(D)
<1>1. /\ IsFiniteSet(D) /\ c <= MaxEntries /\ c \in Nat
      /\ MaxEntries \in Nat \ {0} /\ EvictDivisor \in Nat \ {0}
  BY FS_CardinalityType DEF IInv, MemoryBounded, TrackerAssumption
<1>2. CASE k \notin D /\ c >= MaxEntries
  <2>1. E \in SUBSET D /\ Cardinality(E) = BatchSize
    BY <1>2 DEF Evictions, OldestBatches
  <2>2. BatchSize \in Nat \ {0}
    <3>1. c \div EvictDivisor \in Nat
      BY <1>1
    <3> HIDE DEF c
    <3>2. QED
      BY <3>1 DEF BatchSize, c
  <2>3. IsFiniteSet(D \ E) /\ Cardinality(D \ E) = c - Cardinality(E)
    <3>1. D \cap E = E
      BY <2>1
    <3>2. QED
      BY <1>1, <3>1, FS_Difference
  <2>4. /\ IsFiniteSet((D \ E) \cup {k})
        /\ Cardinality((D \ E) \cup {k}) = Cardinality(D \ E) + 1
    BY <1>2, <2>3, FS_AddElement
  <2> HIDE DEF c, D
  <2>5. Cardinality((D \ E) \cup {k}) <= MaxEntries
    BY <1>1, <2>1, <2>2, <2>3, <2>4
  <2>6. QED
    BY <1>2, <2>1, <2>4, <2>5 DEF c, D
<1>3. CASE ~(k \notin D /\ c >= MaxEntries)
  <2>1. E = {}
    BY <1>3 DEF Evictions
  <2>2. (D \ E) \cup {k} = D \cup {k}
    BY <2>1
  <2>3. /\ IsFiniteSet(D \cup {k})
        /\ Cardinality(D \cup {k}) = IF k \in D THEN c ELSE c + 1
    BY <1>1, FS_AddElement
  <2> HIDE DEF c, D
  <2>4. Cardinality(D \cup {k}) <= MaxEntries
    BY <1>1, <1>3, <2>3
  <2>5. QED
    BY <2>1, <2>2, <2>3, <2>4 DEF D
<1>4. QED
  BY <1>2, <1>3

LEMMA HitBelowKeeps ==
  ASSUME TrackerAssumption, IInv, NEW k \in Keys, NEW E \in Evictions(k), HitBelow(k, E)
  PROVE  IInv'
<1> DEFINE log == Append(hits[k], now)
           n == SW!InWindow(log, SW!Monus(now, FindTime[k]))
<1>1. /\ log \in Seq(Nat) /\ log # <<>>
      /\ Ordered(log) /\ \A i \in 1..Len(log) : log[i] <= now
      /\ Good(k, Pushed(k), log)
      /\ n \in Nat
      /\ HitCount(k) = IF n >= MaxRetry[k] THEN MaxRetry[k] ELSE n
  BY HitAnswer
<1> HIDE DEF n
<1>2. /\ E \in SUBSET DOMAIN map /\ k \notin E
      /\ IsFiniteSet((DOMAIN map \ E) \cup {k})
      /\ Cardinality((DOMAIN map \ E) \cup {k}) <= MaxEntries
  BY EvictionMakesRoom
<1>3. /\ DOMAIN map' = (DOMAIN map \ E) \cup {k}
      /\ map' = [x \in DOMAIN map' |-> map'[x]]
      /\ \A x \in DOMAIN map' : map'[x] = IF x = k THEN Pushed(k) ELSE map[x]
  BY DEF HitBelow, Put, Without
<1>4. /\ hits' = [x \in Keys |-> IF x = k THEN log ELSE IF x \in E THEN <<>> ELSE hits[x]]
      /\ now' = now
  BY DEF HitBelow
<1> HIDE DEF log
<1>5. /\ now \in Nat /\ hits \in [Keys -> Seq(Nat)]
      /\ \A x \in Keys : Ordered(hits[x])
      /\ \A x \in Keys : \A i \in 1..Len(hits[x]) : hits[x][i] <= now
  BY DEF IInv, Logs
<1>6. Table'
  <2>1. DOMAIN map' \subseteq Keys
    BY <1>2, <1>3 DEF IInv, Table
  <2>2. \A x \in Keys : x \in DOMAIN map' <=> hits'[x] # <<>>
    BY <1>1, <1>2, <1>3, <1>4 DEF IInv, Table
  <2>3. ASSUME NEW x \in DOMAIN map'
        PROVE  Good(x, map'[x], hits'[x])
    <3>1. CASE x = k
      BY <1>1, <1>3, <1>4, <3>1
    <3>2. CASE x # k
      <4>1. x \in Keys /\ x \in DOMAIN map /\ x \notin E
        BY <1>3, <2>1, <3>2
      <4>2. map'[x] = map[x] /\ hits'[x] = hits[x]
        BY <1>3, <1>4, <3>2, <4>1
      <4>3. QED
        BY <4>1, <4>2 DEF IInv, Table
    <3>3. QED
      BY <3>1, <3>2
  <2>4. QED
    BY <1>3, <2>1, <2>2, <2>3 DEF Table
<1>7. Logs'
  <2>1. hits' \in [Keys -> Seq(Nat)]
    BY <1>1, <1>4, <1>5
  <2>2. Ordered(<<>>) /\ Len(<<>>) = 0
    BY DEF Ordered
  <2>3. ASSUME NEW x \in Keys
        PROVE  Ordered(hits'[x]) /\ \A i \in 1..Len(hits'[x]) : hits'[x][i] <= now'
    <3>1. CASE x = k
      BY <1>1, <1>4, <3>1
    <3>2. CASE x # k /\ x \in E
      BY <1>4, <2>2, <3>2
    <3>3. CASE x # k /\ x \notin E
      BY <1>4, <1>5, <3>3
    <3>4. QED
      BY <3>1, <3>2, <3>3
  <2>4. QED
    BY <1>4, <1>5, <2>1, <2>3 DEF Logs
<1>8. Answer'
  <2>1. HitCount(k) \in Nat
    BY <1>1, KeyPolicy
  <2>2. verdict' = [ban |-> FALSE, hits |-> HitCount(k)]
    BY DEF HitBelow
  <2>3. QED
    BY <2>1, <2>2 DEF Answer
<1>9. MemoryBounded'
  BY <1>2, <1>3 DEF MemoryBounded
<1>10. QED
  BY <1>6, <1>7, <1>8, <1>9 DEF IInv

LEMMA HitBanKeeps ==
  ASSUME TrackerAssumption, IInv, NEW k \in Keys, NEW E \in Evictions(k), HitBan(k, E)
  PROVE  IInv'
<1>1. Table' /\ Logs' /\ MemoryBounded'
  <2>1. map' = Without(map, E \cup {k}) /\ Clear(E \cup {k}) /\ now' = now
    BY DEF HitBan
  <2>2. QED
    BY <2>1, RemoveKeeps
<1>2. Answer'
  <2>1. HitCount(k) \in Nat
    BY HitAnswer, KeyPolicy
  <2>2. verdict' = [ban |-> TRUE, hits |-> HitCount(k)]
    BY DEF HitBan
  <2>3. QED
    BY <2>1, <2>2 DEF Answer
<1>3. QED
  BY <1>1, <1>2 DEF IInv

LEMMA NoVerdictAnswers == verdict' = SW!NoVerdict => Answer'
BY DEF Answer, SW!NoVerdict

LEMMA InitEstablishes ==
  ASSUME TrackerAssumption, Init
  PROVE  IInv
<1>1. DOMAIN map = {} /\ map = [k \in DOMAIN map |-> map[k]]
  BY DEF Init, EmptyTable
<1>2. hits = [k \in Keys |-> <<>>] /\ now = Epoch /\ verdict = SW!NoVerdict
  BY DEF Init
<1>3. Table
  BY <1>1, <1>2 DEF Table
<1>4. Logs
  BY <1>2 DEF Logs, Ordered, TrackerAssumption
<1>5. MemoryBounded
  BY <1>1, FS_EmptySet DEF MemoryBounded, TrackerAssumption
<1>6. Answer
  BY <1>2 DEF Answer, SW!NoVerdict
<1>7. QED
  BY <1>3, <1>4, <1>5, <1>6 DEF IInv

LEMMA NextKeeps ==
  ASSUME TrackerAssumption, IInv, [Next]_vars
  PROVE  IInv'
<1>1. ASSUME NEW k \in Keys, NEW E \in Evictions(k), HitBelow(k, E)
      PROVE  IInv'
  BY <1>1, HitBelowKeeps
<1>2. ASSUME NEW k \in Keys, NEW E \in Evictions(k), HitBan(k, E)
      PROVE  IInv'
  BY <1>2, HitBanKeeps
<1>3. ASSUME NEW k \in Keys, Forget(k)
      PROVE  IInv'
  BY <1>3, RemoveKeeps, NoVerdictAnswers DEF Forget, IInv
<1>4. ASSUME Sweep
      PROVE  IInv'
  BY <1>4, RemoveKeeps, NoVerdictAnswers DEF Sweep, IInv
<1>5. ASSUME Clock
      PROVE  IInv'
  <2>1. map' = map /\ hits' = hits /\ now' = now + 1 /\ verdict' = SW!NoVerdict
    BY <1>5 DEF Clock
  <2>2. Table' /\ MemoryBounded'
    BY <2>1 DEF IInv, Table, MemoryBounded
  <2>3. Logs'
    <3>1. /\ now \in Nat /\ now' \in Nat
          /\ \A k \in Keys : Ordered(hits'[k]) /\ hits'[k] \in Seq(Nat)
      BY <2>1 DEF IInv, Logs
    <3>2. ASSUME NEW k \in Keys, NEW i \in 1..Len(hits'[k])
          PROVE  hits'[k][i] <= now'
      <4>1. hits[k][i] \in Nat /\ hits[k][i] <= now
        BY <2>1, <3>1 DEF IInv, Logs
      <4>2. QED
        BY <2>1, <3>1, <4>1
    <3>3. QED
      BY <2>1, <3>1, <3>2 DEF IInv, Logs
  <2>4. QED
    BY <2>1, <2>2, <2>3, NoVerdictAnswers DEF IInv
<1>6. CASE UNCHANGED vars
  BY <1>6 DEF IInv, Table, Logs, Answer, MemoryBounded, vars
<1>7. QED
  BY <1>1, <1>2, <1>3, <1>4, <1>5, <1>6 DEF Next

\* The rings stay inside maxretry slots, the table inside the keys.
THEOREM TypeCorrect == Spec => []TypeOK
<1>1. Init => IInv
  BY InitEstablishes, TrackerAssumption
<1>2. IInv /\ [Next]_vars => IInv'
  BY NextKeeps, TrackerAssumption
<1>3. IInv => TypeOK
  BY IInvImplies, TrackerAssumption
<1>4. QED
  BY <1>1, <1>2, <1>3, PTL DEF Spec

\* The table never holds more than max_tracked keys, whatever the traffic.
THEOREM TableBounded == Spec => []MemoryBounded
<1>1. Init => IInv
  BY InitEstablishes, TrackerAssumption
<1>2. IInv /\ [Next]_vars => IInv'
  BY NextKeeps, TrackerAssumption
<1>3. IInv => MemoryBounded
  BY DEF IInv
<1>4. QED
  BY <1>1, <1>2, <1>3, PTL DEF Spec

\* Every tracked key's ring holds the newest hits since its fresh start, in order.
THEOREM RingsHoldNewest == Spec => []RingHoldsNewest
<1>1. Init => IInv
  BY InitEstablishes, TrackerAssumption
<1>2. IInv /\ [Next]_vars => IInv'
  BY NextKeeps, TrackerAssumption
<1>3. IInv => RingHoldsNewest
  BY IInvImplies, TrackerAssumption
<1>4. QED
  BY <1>1, <1>2, <1>3, PTL DEF Spec

-----------------------------------------------------------------------------
(* Tracker implements SlidingWindow. *)

LEMMA TrackedKeys ==
  ASSUME IInv
  PROVE  DOMAIN map = SW!Tracked
BY DEF IInv, Table, SW!Tracked

LEMMA HitBelowRefines ==
  ASSUME TrackerAssumption, IInv, NEW k \in Keys, NEW E \in Evictions(k), HitBelow(k, E)
  PROVE  SW!Hit(k, E)
<1> DEFINE log == Append(hits[k], now)
           n == SW!InWindow(log, SW!Monus(now, FindTime[k]))
<1>1. n \in Nat /\ HitCount(k) = IF n >= MaxRetry[k] THEN MaxRetry[k] ELSE n
  BY HitAnswer
<1>2. MaxRetry[k] \in Nat \ {0} /\ HitCount(k) < MaxRetry[k]
  BY KeyPolicy DEF HitBelow
<1> HIDE DEF n
<1>3. ~(n >= MaxRetry[k]) /\ HitCount(k) = n
  BY <1>1, <1>2
<1>4. QED
  BY <1>3 DEF HitBelow, SW!Hit, n

LEMMA HitBanRefines ==
  ASSUME TrackerAssumption, IInv, NEW k \in Keys, NEW E \in Evictions(k), HitBan(k, E)
  PROVE  SW!Hit(k, E)
<1> DEFINE log == Append(hits[k], now)
           n == SW!InWindow(log, SW!Monus(now, FindTime[k]))
<1>1. n \in Nat /\ HitCount(k) = IF n >= MaxRetry[k] THEN MaxRetry[k] ELSE n
  BY HitAnswer
<1>2. MaxRetry[k] \in Nat \ {0} /\ HitCount(k) >= MaxRetry[k]
  BY KeyPolicy DEF HitBan
<1> HIDE DEF n
<1>3. n >= MaxRetry[k] /\ HitCount(k) = MaxRetry[k]
  BY <1>1, <1>2
<1>4. hits' = [x \in Keys |-> IF x = k THEN <<>> ELSE IF x \in E THEN <<>> ELSE hits[x]]
  BY DEF HitBan, Clear
<1>5. QED
  BY <1>3, <1>4 DEF HitBan, SW!Hit, n

LEMMA HitMayEvict ==
  ASSUME TrackerAssumption, IInv, NEW k \in Keys, NEW E \in Evictions(k)
  PROVE  E \in SW!Evictable(k)
<1>1. /\ E \in SUBSET DOMAIN map
      /\ E # {} => k \notin DOMAIN map /\ Cardinality(DOMAIN map) >= MaxEntries
  BY EvictionMakesRoom
<1>2. QED
  BY <1>1, TrackedKeys DEF SW!Evictable, SW!Cardinality, Cardinality

\* Reading modulo the full ring, the sweep never finds a later time than the newest.
LEMMA SweepTakesIdle ==
  ASSUME TrackerAssumption, IInv
  PROVE  SW!IdleKeys \subseteq Swept /\ Swept \subseteq SW!Tracked
<1>1. SW!Monus(now, Idle) \in Nat
  BY MonusNat DEF IInv, Logs, TrackerAssumption
<1>2. ASSUME NEW k \in SW!IdleKeys
      PROVE  k \in Swept
  <2>1. k \in DOMAIN map /\ k \in Keys
    BY TrackedKeys DEF SW!IdleKeys, SW!Tracked
  <2>2. /\ InUse(map[k], MaxRetry[k]) /\ hits[k] # <<>> /\ hits[k] \in Seq(Nat)
        /\ map[k].len \in 1..MaxRetry[k]
        /\ \A j \in 0..RingSize-1 : map[k].ts[j] <= hits[k][Len(hits[k])]
    BY <2>1 DEF IInv, Table, Good, Logs
  <2>3. hits[k][Len(hits[k])] \in Nat /\ hits[k][Len(hits[k])] < SW!Monus(now, Idle)
    BY <2>2 DEF SW!IdleKeys, SW!Newest
  <2>4. /\ map[k].ts \in Times /\ map[k].head \in 0..MaxRetry[k]-1
        /\ MaxRetry[k] \in 1..RingSize /\ RingSize \in Nat \ {0}
    BY <2>1, <2>2, InUseParts, KeyPolicy DEF TrackerAssumption
  <2> DEFINE j == Slot(map[k].head, map[k].len - 1, RingSize)
  <2>5. j \in 0..RingSize-1
    <3>1. \A cap \in 1..RingSize : \A h \in 0..cap-1 : \A l \in 1..cap :
            h \in 0..RingSize-1 /\ l - 1 \in 0..RingSize
      BY <2>4
    <3>2. map[k].head \in 0..RingSize-1 /\ map[k].len - 1 \in 0..RingSize
      BY <2>2, <2>4, <3>1
    <3>3. QED
      BY <2>4, <3>2, SlotWraps
  <2>6. SweepLast(k) = map[k].ts[j]
    BY <2>2, <2>4 DEF SweepLast, Last
  <2> HIDE DEF j
  <2>7. map[k].ts[j] \in Nat
    BY <2>4, <2>5 DEF Times
  <2>8. SweepLast(k) < SW!Monus(now, Idle)
    BY <1>1, <2>2, <2>3, <2>5, <2>6, <2>7
  <2>9. QED
    BY <2>1, <2>8 DEF Swept
<1>3. QED
  BY <1>2, TrackedKeys DEF Swept

LEMMA StepRefines ==
  ASSUME TrackerAssumption, IInv, [Next]_vars
  PROVE  [SW!Next]_(SW!windowVars)
<1>1. ASSUME NEW k \in Keys, NEW E \in Evictions(k), HitBelow(k, E) \/ HitBan(k, E)
      PROVE  SW!Next
  BY <1>1, HitBelowRefines, HitBanRefines, HitMayEvict DEF SW!Next
<1>2. ASSUME NEW k \in Keys, Forget(k)
      PROVE  SW!Next
  BY <1>2 DEF Forget, Clear, SW!Next, SW!Forget, SW!Drop
<1>3. ASSUME Sweep
      PROVE  SW!Next
  BY <1>3, SweepTakesIdle DEF Sweep, Clear, SW!Next, SW!Sweep, SW!Drop
<1>4. ASSUME Clock
      PROVE  SW!Next
  <2>1. now \in Nat
    BY DEF IInv, Logs
  <2>2. now' \in Nat /\ now' >= now /\ verdict' = SW!NoVerdict /\ hits' = hits
    BY <1>4, <2>1 DEF Clock
  <2>3. QED
    BY <2>2 DEF SW!Next, SW!Clock
<1>5. CASE UNCHANGED vars
  BY <1>5 DEF vars, SW!windowVars
<1>6. QED
  BY <1>1, <1>2, <1>3, <1>4, <1>5 DEF Next

\* The bounded table of rings answers every hit as the sliding window over the
\* whole log of hits does, and drops only keys that one may drop.
THEOREM Refinement == Spec => ImplementsSlidingWindow
<1>1. Init => IInv
  BY InitEstablishes, TrackerAssumption
<1>2. IInv /\ [Next]_vars => IInv'
  BY NextKeeps, TrackerAssumption
<1>3. Init => SW!Init
  BY TrackerAssumption DEF Init, SW!Init, TrackerAssumption
<1>4. IInv /\ [Next]_vars => [SW!Next]_(SW!windowVars)
  BY StepRefines, TrackerAssumption
<1>5. QED
  BY <1>1, <1>2, <1>3, <1>4, PTL DEF Spec, ImplementsSlidingWindow, SW!Spec

\* A sweep spares every fresh entry whose ring has not wrapped round.
THEOREM SweepSpares == Spec => SweepSparesUnwrapped
<1>1. Init => IInv
  BY InitEstablishes, TrackerAssumption
<1>2. IInv /\ [Next]_vars => IInv'
  BY NextKeeps, TrackerAssumption
<1> DEFINE Spares == \A k \in DOMAIN map :
             SW!Newest(k) >= SW!Monus(now, Idle) /\ map[k].head = 0 => k \in DOMAIN map'
<1>3. ASSUME IInv, Sweep, NEW k \in DOMAIN map,
             SW!Newest(k) >= SW!Monus(now, Idle), map[k].head = 0
      PROVE  k \in DOMAIN map'
  <2>1. /\ Good(k, map[k], hits[k]) /\ k \in Keys
        /\ hits[k] \in Seq(Nat) /\ Len(hits[k]) \in Nat
    BY <1>3 DEF IInv, Table, Logs
  <2> DEFINE cap == MaxRetry[k]
             l == map[k].len
  <2>2. l \in 1..cap /\ cap \in 1..RingSize /\ RingSize \in Nat \ {0} /\ cap \in Nat \ {0}
    BY <2>1, KeyPolicy, TrackerAssumption DEF Good, TrackerAssumption
  <2>3. map[k].ts[Slot(0, l - 1, cap)] = hits[k][Len(hits[k]) - l + 1 + (l - 1)]
    <3>1. Holds(map[k].ts, 0, l, hits[k], cap)
      BY <1>3, <2>1 DEF Good
    <3> HIDE DEF l, cap
    <3>2. l - 1 \in 0..l-1
      BY <2>2
    <3>3. QED
      BY <3>1, <3>2 DEF Holds
  <2>4. Slot(0, l - 1, cap) = l - 1 /\ Slot(0, l - 1, RingSize) = l - 1
    <3>1. /\ 0 \in 0..cap-1 /\ l - 1 \in 0..cap /\ 0 + (l - 1) < cap
          /\ 0 \in 0..RingSize-1 /\ l - 1 \in 0..RingSize /\ 0 + (l - 1) < RingSize
          /\ 0 + (l - 1) = l - 1
      BY <2>2
    <3>2. QED
      BY <2>2, <3>1, SlotWraps
  <2>5. SweepLast(k) = map[k].ts[l - 1]
    BY <1>3, <2>2, <2>4 DEF SweepLast, Last
  <2>6. Len(hits[k]) - l + 1 + (l - 1) = Len(hits[k])
    BY <2>1, <2>2
  <2>7. SweepLast(k) = SW!Newest(k)
    BY <2>3, <2>4, <2>5, <2>6 DEF SW!Newest
  <2>8. SW!Newest(k) \in Nat /\ SW!Monus(now, Idle) \in Nat
    <3>1. hits[k] # <<>> /\ now \in Nat /\ Idle \in Nat
      BY <1>3, <2>1, TrackerAssumption DEF IInv, Table, Logs, TrackerAssumption
    <3>2. \A log \in Seq(Nat) : log # <<>> => log[Len(log)] \in Nat
      OBVIOUS
    <3>3. SW!Newest(k) \in Nat
      BY <2>1, <3>1, <3>2 DEF SW!Newest
    <3>4. SW!Monus(now, Idle) \in Nat
      BY <3>1, MonusNat
    <3>5. QED
      BY <3>3, <3>4
  <2>9. ~(SweepLast(k) < SW!Monus(now, Idle))
    BY <1>3, <2>7, <2>8
  <2>10. QED
    BY <1>3, <2>9 DEF Sweep, Swept, Without
<1>4. IInv /\ [Next]_vars => [Sweep => Spares]_vars
  BY <1>3
<1>5. QED
  BY <1>1, <1>2, <1>4, PTL DEF Spec, SweepSparesUnwrapped
=============================================================================
