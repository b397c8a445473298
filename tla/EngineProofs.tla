----------------------------- MODULE EngineProofs -----------------------------
(***************************************************************************)
(* Proofs about Engine, for any hosts, networks, filters, policies, lines  *)
(* and failures: what the mirror and the kernel hold, whom the engine bans,*)
(* when, after how many hits and for how long, and what it remembers of    *)
(* earlier bans.  The type invariant carries the one arithmetic fact all   *)
(* of it needs: the time the engine works with never runs ahead of the     *)
(* clock.                                                                  *)
(***************************************************************************)
EXTENDS Engine, TLAPS, FiniteSetTheorems, WellFoundedInduction

-----------------------------------------------------------------------------
(* The parts of TypeOK, by the actions that disturb them. *)

WorldOK ==
  /\ phase \in {"down", "starting", "up"}
  /\ backend \in Backends
  /\ allow \in AllowLists \cup {{}}

ClockOK == now \in Nat /\ t \in Nat /\ t <= now

LineTasks == [do : {"line"}, line : Lines, todo : SUBSET Filters]

TaskOK ==
  /\ task \in {Idle, Ready, Drain} \cup LineTasks
  /\ task.do = "line" => task.todo \subseteq DOMAIN task.line

Keys == Filters \X Nets

TrackerOK ==
  /\ hits \in [Keys -> Seq(Nat)]
  /\ verdict \in [ban : BOOLEAN, hits : Nat]

MirrorOK == DOMAIN active \subseteq Nets /\ \A n \in DOMAIN active : active[n] \in Nat

HistoryOK(h) ==
  /\ DOMAIN h \subseteq Nets
  /\ \A n \in DOMAIN h : h[n] \in [count : Nat \ {0}, last : Nat]

\* The firewall keeps no ban past its end.
Punctual == \A n \in Nets : kernel[n] = 0 \/ kernel[n] >= now

FirewallOK == kernel \in [Nets -> Nat] /\ promised \in [Nets -> Nat] /\ Punctual

LogOK == log \in Seq(Entry) /\ session \in 0..Len(log)

LEMMA TypeParts ==
  TypeOK /\ Punctual <=>
             /\ WorldOK /\ ClockOK /\ TaskOK /\ TrackerOK /\ MirrorOK
             /\ HistoryOK(history) /\ lastSweep \in Nat
             /\ FirewallOK /\ LogOK /\ fresh \in [Nets -> 0..Enough]
BY DEF TypeOK, WorldOK, ClockOK, TaskOK, LineTasks, TrackerOK, Keys, MirrorOK, HistoryOK,
       FirewallOK, LogOK

\* A line being handled: its next filter, host and network are what they should be.
LEMMA LineParts ==
  ASSUME EngineAssumption, TaskOK, NEW f, Turn(f)
  PROVE  /\ f \in Filters /\ Net(f) \in Nets /\ Host(f) \in Hosts
         /\ task \in LineTasks
<1>1. task.do = "line"
  BY DEF Turn, Serving
<1>2. task \in LineTasks
  BY <1>1 DEF TaskOK, Idle, Ready, Drain
<1>3. task.line \in Lines /\ f \in task.todo /\ task.todo \subseteq DOMAIN task.line
  BY <1>1, <1>2 DEF TaskOK, LineTasks, Turn
<1>4. PICK F \in SUBSET Filters : task.line \in [F -> Hosts]
  BY <1>3 DEF EngineAssumption
<1>5. f \in Filters /\ task.line[f] \in Hosts
  BY <1>3, <1>4
<1>6. QED
  BY <1>2, <1>5 DEF EngineAssumption, Net, Host

LEMMA NextFilterTyped ==
  ASSUME EngineAssumption, TaskOK, NEW f, Turn(f), NextFilter(f)
  PROVE  TaskOK'
<1>1. task \in LineTasks
  BY LineParts
<1>2. PICK line \in Lines, todo \in SUBSET Filters :
        task = [do |-> "line", line |-> line, todo |-> todo]
  BY <1>1 DEF LineTasks
<1>3. task' = [do |-> "line", line |-> line, todo |-> todo \ {f}]
  BY <1>2 DEF NextFilter
<1>4. todo \subseteq DOMAIN line
  BY <1>2 DEF TaskOK
<1>5. QED
  BY <1>3, <1>4 DEF TaskOK, LineTasks

-----------------------------------------------------------------------------
(* The tracker's answers. *)

LEMMA SubNat ==
  ASSUME NEW a \in Nat, NEW b \in Nat
  PROVE  SW!Monus(a, b) \in Nat
BY DEF SW!Monus

LEMMA InWindowNat ==
  ASSUME NEW s \in Seq(Nat), NEW since
  PROVE  SW!InWindow(s, since) \in Nat
<1> DEFINE P == {j \in 1..Len(s) : s[j] >= since}
<1>1. Len(s) \in Nat /\ P \subseteq 1..Len(s) /\ 1 \in Int /\ Len(s) \in Int
  OBVIOUS
<1> HIDE DEF P
<1>2. IsFiniteSet(P)
  BY <1>1, FS_Interval, FS_Subset
<1>3. Cardinality(P) \in Nat
  BY <1>2, FS_CardinalityType
<1>4. QED
  BY <1>3 DEF SW!InWindow, P, SW!Cardinality, Cardinality

LEMMA HitTyped ==
  ASSUME EngineAssumption, TrackerOK, t \in Nat,
         NEW f \in Filters, NEW n \in Nets, NEW lost, SW!Hit(<<f, n>>, lost)
  PROVE  TrackerOK'
<1> DEFINE k == <<f, n>>
           s == Append(hits[k], t)
           since == SW!Monus(t, FindTime[f])
           c == SW!InWindow(s, since)
<1>1. k \in Keys /\ k[1] = f /\ MaxRetry[f] \in Nat
  BY DEF Keys, EngineAssumption
<1>2. hits[k] \in Seq(Nat) /\ s \in Seq(Nat)
  BY <1>1 DEF TrackerOK
<1>3. c \in Nat
  BY <1>2, InWindowNat
<1> HIDE DEF c, since, s
<1>4. verdict' = IF c >= MaxRetry[f] THEN [ban |-> TRUE, hits |-> MaxRetry[f]]
                 ELSE [ban |-> FALSE, hits |-> c]
  BY <1>1 DEF SW!Hit, c, since, s, Keys
<1>5. hits' = [x \in Keys |-> IF x = k THEN IF c >= MaxRetry[f] THEN <<>> ELSE s
                              ELSE IF x \in lost THEN <<>> ELSE hits[x]]
  BY <1>1 DEF SW!Hit, c, since, s, Keys
<1>6. hits' \in [Keys -> Seq(Nat)]
  BY <1>2, <1>5 DEF TrackerOK
<1>7. verdict' \in [ban : BOOLEAN, hits : Nat]
  BY <1>1, <1>3, <1>4
<1>8. QED
  BY <1>6, <1>7 DEF TrackerOK

LEMMA DropTyped ==
  ASSUME TrackerOK, NEW lost, SW!Drop(lost)
  PROVE  TrackerOK'
<1>1. hits' = [x \in Keys |-> IF x \in lost THEN <<>> ELSE hits[x]]
  BY DEF SW!Drop, Keys
<1>2. verdict' \in [ban : BOOLEAN, hits : Nat]
  BY DEF SW!Drop, SW!NoVerdict
<1>3. QED
  BY <1>1, <1>2 DEF TrackerOK

LEMMA IdleTyped ==
  ASSUME TrackerOK, TrackerIdle
  PROVE  TrackerOK'
BY DEF TrackerOK, TrackerIdle, SW!NoVerdict

-----------------------------------------------------------------------------
(* The values the engine computes. *)

LEMMA NatMin ==
  ASSUME NEW T \in SUBSET Nat, T # {}
  PROVE  \E x \in T : \A y \in T : x <= y
<1> DEFINE R == OpToRel(<, Nat)
<1>1. IsWellFoundedOn(R, Nat)
  BY NatLessThanWellFounded
<1>2. \A y, x \in Nat : y < x => <<y, x>> \in R
  BY DEF OpToRel
<1> HIDE DEF R
<1>3. PICK x \in T : \A y \in T : ~ (<<y, x>> \in R)
  BY <1>1, WFMin
<1>4. ASSUME NEW y \in T
      PROVE  x <= y
  <2>1. ~ (y < x)
    BY <1>2, <1>3
  <2>2. x \in Nat /\ y \in Nat
    OBVIOUS
  <2>3. QED
    BY <2>1, <2>2
<1>5. QED
  BY <1>4

LEMMA LastOf ==
  ASSUME NEW m \in Nat, NEW S \in SUBSET (1..m), S # {}
  PROVE  \E i \in S : \A j \in S : j <= i
<1> DEFINE T == {m - i : i \in S}
<1>0. \A i \in S : i \in Nat /\ m - i \in Nat
  <2>1. \A i \in 1..m : i \in Nat /\ m - i \in Nat
    OBVIOUS
  <2>2. QED
    BY <2>1
<1>1. T \in SUBSET Nat /\ T # {}
  BY <1>0
<1>2. PICK x \in T : \A y \in T : x <= y
  <2> HIDE DEF T
  <2> QED
    BY <1>1, NatMin
<1>3. PICK i \in S : x = m - i
  OBVIOUS
<1>4. ASSUME NEW j \in S
      PROVE  j <= i
  <2>1. x <= m - j
    BY <1>2
  <2>2. i \in Nat /\ j \in Nat
    BY <1>0
  <2>3. QED
    BY <1>3, <2>1, <2>2
<1>5. QED
  BY <1>4

LEMMA EscalationTyped ==
  ASSUME HistoryOK(history), NEW n
  PROVE  Escalation(n) \in Nat
BY DEF HistoryOK, Escalation

LEMMA TtlTyped ==
  ASSUME EngineAssumption, HistoryOK(history), NEW f \in Filters, NEW n
  PROVE  EscalatedTtl(BanTime[f], n) \in Nat
<1> DEFINE base == BanTime[f]
           steps == Least(Escalation(n), MaxSteps)
           long == Factor ^ steps
<1>1. base \in Nat /\ MaxBan \in Nat /\ MaxSteps \in Nat
  BY DEF EngineAssumption
<1>2. steps \in 0..MaxSteps
  BY <1>1, EscalationTyped DEF Least
<1>3. long \in Nat
  <2> HIDE DEF steps
  <2> QED
    BY <1>2 DEF EngineAssumption
<1>4. EscalatedTtl(base, n) =
        IF steps = 0 \/ base * long < base THEN base
        ELSE IF base * long >= MaxBan THEN IF MaxBan < base THEN base ELSE MaxBan
        ELSE base * long
  BY DEF EscalatedTtl
<1> HIDE DEF long, steps, base
<1>5. base * long \in Nat
  BY <1>1, <1>3
<1>6. QED
  BY <1>1, <1>4, <1>5 DEF base

LEMMA WithoutHistory ==
  ASSUME NEW h, HistoryOK(h), NEW S
  PROVE  HistoryOK(Without(h, S))
BY DEF HistoryOK, Without

LEMMA TrimTyped ==
  ASSUME NEW h, HistoryOK(h), NEW g \in TrimHistory(h)
  PROVE  HistoryOK(g)
<1>1. g = h \/ \E D : g = Without(h, D)
  BY DEF TrimHistory
<1>2. QED
  BY <1>1, WithoutHistory

LEMMA RecordedTyped ==
  ASSUME HistoryOK(history), t \in Nat, NEW n \in Nets, NEW g \in Recorded(n)
  PROVE  HistoryOK(g)
<1>1. PICK h \in IF n \in DOMAIN history THEN {history} ELSE TrimHistory(history) :
        g = Put(h, n, [count |-> IF n \in DOMAIN h THEN h[n].count + 1 ELSE 1, last |-> t])
  BY DEF Recorded
<1>2. HistoryOK(h)
  BY TrimTyped
<1>3. (IF n \in DOMAIN h THEN h[n].count + 1 ELSE 1) \in Nat \ {0}
  BY <1>2 DEF HistoryOK
<1> DEFINE b == [count |-> IF n \in DOMAIN h THEN h[n].count + 1 ELSE 1, last |-> t]
<1>4. b \in [count : Nat \ {0}, last : Nat]
  BY <1>3
<1>5. g = Put(h, n, b)
  BY <1>1
<1> HIDE DEF b
<1>6. QED
  BY <1>2, <1>4, <1>5 DEF HistoryOK, Put

LEMMA RebuiltTyped ==
  ASSUME LogOK
  PROVE  HistoryOK(Rebuilt)
<1> DEFINE recent(n) ==
             {i \in 1..Len(log) : log[i].net = n /\ log[i].ts >= SW!Monus(t, Memory)}
           last(n) == CHOOSE i \in recent(n) : \A j \in recent(n) : j <= i
           b(n) == [count |-> Cardinality(recent(n)), last |-> log[last(n)].ts]
<1>1. Rebuilt = [n \in {n \in Nets : recent(n) # {}} |-> b(n)]
  BY DEF Rebuilt
<1>2. ASSUME NEW n \in Nets, recent(n) # {}
      PROVE  b(n) \in [count : Nat \ {0}, last : Nat]
  <2> DEFINE S == recent(n)
  <2>1. Len(log) \in Nat /\ S \in SUBSET (1..Len(log)) /\ S # {}
    BY <1>2 DEF LogOK
  <2>2. last(n) \in 1..Len(log)
    <3>1. \E i \in S : \A j \in S : j <= i
      <4> HIDE DEF S
      <4> QED
        BY <2>1, LastOf
    <3>2. last(n) \in S
      BY <3>1
    <3>3. QED
      BY <2>1, <3>2
  <2>3. log[last(n)].ts \in Nat
    <3> DEFINE l == last(n)
    <3>1. l \in 1..Len(log)
      BY <2>2
    <3> HIDE DEF l, last
    <3>2. log[l] \in Entry
      BY <3>1 DEF LogOK
    <3>3. log[l].ts \in Nat
      BY <3>2 DEF Entry
    <3>4. QED
      BY <3>3 DEF l
  <2>4. Cardinality(S) \in Nat \ {0}
    <3> HIDE DEF S
    <3>1. IsFiniteSet(1..Len(log))
      BY <2>1, FS_Interval
    <3>2. IsFiniteSet(S)
      BY <2>1, <3>1, FS_Subset
    <3>3. QED
      BY <2>1, <3>2, FS_CardinalityType, FS_EmptySet
  <2>5. QED
    BY <2>3, <2>4
<1> HIDE DEF b, recent
<1>3. QED
  BY <1>1, <1>2 DEF HistoryOK

LEMMA AppendTyped ==
  ASSUME LogOK, HistoryOK(history), t \in Nat, NEW n \in Nets, NEW f \in Filters, NEW ttl \in Nat,
         AppendBan(n, f, ttl)
  PROVE  LogOK'
<1> DEFINE e == [net |-> n, filter |-> f, ts |-> t, ttl |-> ttl, escalation |-> Escalation(n)]
<1>1. e \in Entry
  BY EscalationTyped DEF Entry
<1>2. \/ log' = log /\ session' = Len(log)
      \/ log' = Append(log, e) /\ session' = session
  BY DEF AppendBan
<1> HIDE DEF e
<1>3. Len(log) \in Nat /\ session \in 0..Len(log)
  BY DEF LogOK
<1>4. log' \in Seq(Entry) /\ Len(log') >= Len(log) /\ Len(log') \in Nat
  BY <1>1, <1>2 DEF LogOK
<1>5. session' \in 0..Len(log')
  BY <1>2, <1>3, <1>4
<1>6. QED
  BY <1>4, <1>5 DEF LogOK

-----------------------------------------------------------------------------
(* Steps.  IInv is inductive: a ban the mirror believes in is put there no  *)
(* longer than the firewall keeps it, and every other step only forgets     *)
(* bans or gives up the promise.                                            *)

IInv == TypeOK /\ Punctual /\ MirrorBacked

LEMMA Parts ==
  ASSUME IInv
  PROVE  /\ WorldOK /\ ClockOK /\ TaskOK /\ TrackerOK /\ MirrorOK
         /\ HistoryOK(history) /\ lastSweep \in Nat
         /\ FirewallOK /\ LogOK /\ fresh \in [Nets -> 0..Enough] /\ MirrorBacked
BY TypeParts DEF IInv

LEMMA PartsPrime ==
  ASSUME WorldOK', ClockOK', TaskOK', TrackerOK', MirrorOK',
         HistoryOK(history)', (lastSweep \in Nat)',
         FirewallOK', LogOK', (fresh \in [Nets -> 0..Enough])', MirrorBacked'
  PROVE  IInv'
<1>1. TypeOK' /\ Punctual' <=>
                  /\ WorldOK' /\ ClockOK' /\ TaskOK' /\ TrackerOK' /\ MirrorOK'
                  /\ HistoryOK(history)' /\ (lastSweep \in Nat)'
                  /\ FirewallOK' /\ LogOK' /\ (fresh \in [Nets -> 0..Enough])'
  BY TypeParts, PTL
<1>2. QED
  BY <1>1 DEF IInv

\* Dropping mirror entries.
LEMMA ForgetKeeps ==
  ASSUME MirrorOK, MirrorBacked, NEW S, active' = Without(active, S),
         now' = now, UNCHANGED firewall
  PROVE  MirrorOK' /\ MirrorBacked'
BY DEF MirrorOK, MirrorBacked, Without, firewall

\* A ban of network n, recorded in the mirror with the time the engine works with.
LEMMA BanKeeps ==
  ASSUME MirrorOK, MirrorBacked, FirewallOK, ClockOK, NEW n \in Nets, NEW ttl \in Nat,
         FirewallBan(n, ttl), active' = Put(active, n, t + ttl), now' = now, t' = t
  PROVE  MirrorOK' /\ MirrorBacked' /\ FirewallOK'
<1>1. now \in Nat /\ t \in Nat /\ t <= now /\ t + ttl \in Nat /\ now + ttl \in Nat
      /\ now + ttl >= t + ttl
  BY DEF ClockOK
<1>2. /\ DOMAIN active' = DOMAIN active \cup {n}
      /\ \A m \in DOMAIN active' : active'[m] = IF m = n THEN t + ttl ELSE active[m]
  BY DEF Put
<1>3. /\ kernel' = [kernel EXCEPT ![n] = now + ttl]
      /\ promised' = [promised EXCEPT ![n] = t + ttl]
  BY DEF FirewallBan
<1>4. MirrorOK'
  BY <1>1, <1>2 DEF MirrorOK
<1>5. FirewallOK'
  BY <1>1, <1>3 DEF FirewallOK, Punctual
<1>6. ASSUME NEW m \in DOMAIN active', active'[m] > now', promised'[m] # 0
      PROVE  kernel'[m] >= active'[m]
  <2>1. CASE m = n
    BY <1>1, <1>2, <1>3, <2>1 DEF FirewallOK
  <2>2. CASE m # n
    <3>1. m \in DOMAIN active /\ m \in Nets /\ active'[m] = active[m]
      BY <1>2, <2>2 DEF MirrorOK
    <3>2. kernel'[m] = kernel[m] /\ promised'[m] = promised[m]
      BY <1>3, <2>2, <3>1 DEF FirewallOK
    <3>3. QED
      BY <1>6, <3>1, <3>2 DEF MirrorBacked
  <2>3. QED
    BY <2>1, <2>2
<1>7. QED
  BY <1>4, <1>5, <1>6 DEF MirrorBacked

\* Giving up the promise of network n, whatever becomes of the firewall's ban.
LEMMA GiveUpKeeps ==
  ASSUME MirrorOK, MirrorBacked, FirewallOK, NEW n \in Nets, NEW S,
         kernel' = kernel \/ kernel' = [kernel EXCEPT ![n] = 0],
         promised' = [promised EXCEPT ![n] = 0],
         active' = Without(active, S), now' = now
  PROVE  MirrorOK' /\ MirrorBacked' /\ FirewallOK'
<1>1. /\ DOMAIN active' = DOMAIN active \ S
      /\ \A m \in DOMAIN active' : active'[m] = active[m]
  BY DEF Without
<1>2. MirrorOK'
  BY <1>1 DEF MirrorOK
<1>3. FirewallOK'
  BY DEF FirewallOK, Punctual
<1>4. ASSUME NEW m \in DOMAIN active', active'[m] > now', promised'[m] # 0
      PROVE  kernel'[m] >= active'[m]
  <2>1. m \in DOMAIN active /\ m \in Nets /\ active'[m] = active[m]
    BY <1>1 DEF MirrorOK
  <2>2. m # n
    BY <1>4, <2>1 DEF FirewallOK
  <2>3. kernel'[m] = kernel[m] /\ promised'[m] = promised[m]
    BY <2>1, <2>2 DEF FirewallOK
  <2>4. QED
    BY <1>4, <2>1, <2>3 DEF MirrorBacked
<1>5. QED
  BY <1>2, <1>3, <1>4 DEF MirrorBacked

\* Steps that only move the task and read the clock.
LEMMA QuietKeeps ==
  ASSUME IInv, Read, TrackerIdle, t' = t \/ t' = now, TaskOK'
  PROVE  IInv'
<1>1. /\ WorldOK' /\ MirrorOK' /\ HistoryOK(history)' /\ (lastSweep \in Nat)'
      /\ FirewallOK' /\ LogOK' /\ (fresh \in [Nets -> 0..Enough])' /\ MirrorBacked'
  BY Parts DEF Read, memory, firewall, events, WorldOK, MirrorOK, HistoryOK, FirewallOK, LogOK,
     Punctual, MirrorBacked
<1>2. ClockOK'
  BY Parts DEF ClockOK, Read
<1>3. TrackerOK'
  BY Parts, IdleTyped
<1>4. QED
  BY <1>1, <1>2, <1>3, PartsPrime

LEMMA WaitingTyped ==
  ASSUME task' \in {Idle, Ready, Drain}
  PROVE  TaskOK'
BY DEF TaskOK, Idle, Ready, Drain

LEMMA LineTyped ==
  ASSUME EngineAssumption, NEW line \in Lines, task' = LineTask(line)
  PROVE  TaskOK'
<1>1. DOMAIN line \in SUBSET Filters
  <2>1. PICK F \in SUBSET Filters : line \in [F -> Hosts]
    BY DEF EngineAssumption
  <2>2. QED
    BY <2>1
<1>2. QED
  BY <1>1 DEF TaskOK, LineTask, LineTasks

LEMMA WakeKeeps ==
  ASSUME EngineAssumption, IInv, Wake
  PROVE  IInv'
BY WaitingTyped, QuietKeeps DEF Wake

LEMMA ReceiveLineKeeps ==
  ASSUME EngineAssumption, IInv, NEW line \in Lines, ReceiveLine(line)
  PROVE  IInv'
BY LineTyped, QuietKeeps DEF ReceiveLine

LEMMA QueueEmptyKeeps ==
  ASSUME EngineAssumption, IInv, QueueEmpty
  PROVE  IInv'
BY WaitingTyped, QuietKeeps DEF QueueEmpty, Done

LEMMA EndLineKeeps ==
  ASSUME EngineAssumption, IInv, EndLine
  PROVE  IInv'
BY WaitingTyped, QuietKeeps DEF EndLine

LEMMA IgnoreKeeps ==
  ASSUME EngineAssumption, IInv, NEW f \in Filters, IgnoreAllowed(f) \/ AlreadyBanned(f)
  PROVE  IInv'
<1>1. TaskOK'
  BY Parts, NextFilterTyped DEF IgnoreAllowed, AlreadyBanned
<1>2. QED
  BY <1>1, QuietKeeps DEF IgnoreAllowed, AlreadyBanned

LEMMA TrackTyped ==
  ASSUME EngineAssumption, IInv, NEW f \in Filters, NEW b, Track(f, b)
  PROVE  /\ Net(f) \in Nets
         /\ TrackerOK' /\ ClockOK' /\ WorldOK' /\ (lastSweep \in Nat)'
         /\ (fresh \in [Nets -> 0..Enough])'
         /\ now' = now /\ t' = t
<1>1. Turn(f) /\ Net(f) \in Nets
  BY Parts, LineParts DEF Track
<1>2. PICK lost : SW!Hit(<<f, Net(f)>>, lost)
  BY DEF Track
<1>3. t' = t /\ now' = now /\ lastSweep' = lastSweep
  BY <1>2 DEF Track, SW!Hit
<1>4. ClockOK' /\ WorldOK' /\ (lastSweep \in Nat)'
  BY <1>3, Parts DEF Track, ClockOK, WorldOK
<1>5. TrackerOK'
  BY <1>1, <1>2, Parts, HitTyped DEF ClockOK
<1>6. (fresh \in [Nets -> 0..Enough])'
  <2>1. Enough \in Nat /\ fresh \in [Nets -> 0..Enough]
    BY Parts DEF EngineAssumption
  <2>2. Least(fresh[Net(f)] + 1, Enough) \in 0..Enough
    BY <1>1, <2>1 DEF Least
  <2>3. fresh' = [fresh EXCEPT ![Net(f)] = Least(fresh[Net(f)] + 1, Enough)]
    BY DEF Track
  <2>4. QED
    BY <1>1, <2>1, <2>2, <2>3
<1>7. QED
  BY <1>1, <1>3, <1>4, <1>5, <1>6

LEMMA BelowKeeps ==
  ASSUME EngineAssumption, IInv, NEW f \in Filters, Below(f)
  PROVE  IInv'
<1>1. /\ TrackerOK' /\ ClockOK' /\ WorldOK' /\ (lastSweep \in Nat)'
      /\ (fresh \in [Nets -> 0..Enough])' /\ now' = now
  BY TrackTyped DEF Below
<1>2. TaskOK'
  BY Parts, NextFilterTyped DEF Below, Track
<1>3. /\ MirrorOK' /\ HistoryOK(history)' /\ FirewallOK' /\ LogOK' /\ MirrorBacked'
  BY <1>1, Parts DEF Below, firewall, events, MirrorOK, HistoryOK, FirewallOK, LogOK,
     Punctual, MirrorBacked
<1>4. QED
  BY <1>1, <1>2, <1>3, PartsPrime

LEMMA AutoBanKeeps ==
  ASSUME EngineAssumption, IInv, NEW f \in Filters, AutoBan(f)
  PROVE  IInv'
<1> DEFINE n == Net(f)
           ttl == EscalatedTtl(BanTime[f], n)
<1>1. /\ TrackerOK' /\ ClockOK' /\ WorldOK' /\ (lastSweep \in Nat)' /\ n \in Nets
      /\ (fresh \in [Nets -> 0..Enough])' /\ now' = now /\ t' = t
  BY TrackTyped DEF AutoBan
<1>2. TaskOK'
  BY Parts, NextFilterTyped DEF AutoBan, Track
<1>3. ttl \in Nat
  BY Parts, TtlTyped
<1>4. /\ FirewallBan(n, ttl) /\ active' = Put(active, n, t + ttl)
      /\ history' \in Recorded(n) /\ AppendBan(n, f, ttl)
  BY DEF AutoBan
<1> HIDE DEF n, ttl
<1>5. MirrorOK' /\ MirrorBacked' /\ FirewallOK'
  BY <1>1, <1>3, <1>4, Parts, BanKeeps
<1>6. HistoryOK(history')
  BY <1>1, <1>4, Parts, RecordedTyped DEF ClockOK
<1>7. LogOK'
  BY <1>1, <1>3, <1>4, Parts, AppendTyped DEF ClockOK
<1>8. QED
  BY <1>1, <1>2, <1>5, <1>6, <1>7, PartsPrime DEF HistoryOK

LEMMA WithoutNone ==
  ASSUME MirrorOK, MirrorBacked, FirewallOK, NEW n \in Nets,
         kernel' = kernel \/ kernel' = [kernel EXCEPT ![n] = 0],
         promised' = [promised EXCEPT ![n] = 0],
         active' = active, now' = now
  PROVE  MirrorOK' /\ MirrorBacked' /\ FirewallOK'
<1>1. MirrorOK' /\ FirewallOK'
  BY DEF MirrorOK, FirewallOK, Punctual
<1>2. ASSUME NEW m \in DOMAIN active, active[m] > now, promised'[m] # 0
      PROVE  kernel'[m] >= active[m]
  <2>1. m \in Nets /\ m # n
    BY <1>2 DEF MirrorOK, FirewallOK, Punctual
  <2>2. kernel'[m] = kernel[m] /\ promised'[m] = promised[m]
    BY <2>1 DEF FirewallOK
  <2>3. QED
    BY <1>2, <2>2 DEF MirrorBacked
<1>3. QED
  BY <1>1, <1>2 DEF MirrorBacked

LEMMA BanFailsKeeps ==
  ASSUME MirrorOK, MirrorBacked, FirewallOK, NEW n \in Nets, FirewallBanFails(n),
         active' = active, now' = now
  PROVE  MirrorOK' /\ MirrorBacked' /\ FirewallOK'
BY WithoutNone DEF FirewallBanFails

LEMMA AutoBanFailsKeeps ==
  ASSUME EngineAssumption, IInv, NEW f \in Filters, AutoBanFails(f)
  PROVE  IInv'
<1>1. /\ TrackerOK' /\ ClockOK' /\ WorldOK' /\ (lastSweep \in Nat)' /\ Net(f) \in Nets
      /\ (fresh \in [Nets -> 0..Enough])' /\ now' = now
  BY TrackTyped DEF AutoBanFails
<1>2. TaskOK'
  BY Parts, NextFilterTyped DEF AutoBanFails, Track
<1>3. MirrorOK' /\ MirrorBacked' /\ FirewallOK'
  BY <1>1, Parts, BanFailsKeeps DEF AutoBanFails
<1>4. HistoryOK(history)' /\ LogOK'
  BY <1>1, Parts DEF AutoBanFails, events, HistoryOK, LogOK
<1>5. QED
  BY <1>1, <1>2, <1>3, <1>4, PartsPrime

LEMMA HousekeepKeeps ==
  ASSUME EngineAssumption, IInv, Housekeep, TaskOK'
  PROVE  IInv'
<1>1. PICK lost : SW!Sweep(lost)
  BY DEF Housekeep
<1>2. SW!Drop(lost) /\ t' = t
  BY <1>1 DEF SW!Sweep, SW!Drop
<1>3. TrackerOK'
  BY <1>2, Parts, DropTyped
<1>4. ClockOK' /\ WorldOK' /\ (lastSweep \in Nat)' /\ FirewallOK' /\ LogOK'
      /\ (fresh \in [Nets -> 0..Enough])'
  BY <1>2, Parts DEF Housekeep, firewall, events, ClockOK, WorldOK, FirewallOK, Punctual, LogOK
<1>5. MirrorOK' /\ MirrorBacked'
  BY Parts, ForgetKeeps DEF Housekeep
<1>6. HistoryOK(history')
  <2>1. PICK S : history' \in TrimHistory(Without(history, S))
    BY DEF Housekeep
  <2>2. QED
    BY <2>1, Parts, WithoutHistory, TrimTyped
<1>7. QED
  BY <1>3, <1>4, <1>5, <1>6, PartsPrime DEF HistoryOK

LEMMA TickKeeps ==
  ASSUME EngineAssumption, IInv, Tick \/ EndLineTick
  PROVE  IInv'
BY WaitingTyped, HousekeepKeeps DEF Tick, EndLineTick, Done

\* What every request leaves alone.
LEMMA RequestTyped ==
  ASSUME IInv, Request
  PROVE  /\ TaskOK' /\ ClockOK' /\ WorldOK' /\ (lastSweep \in Nat)'
         /\ HistoryOK(history)' /\ LogOK' /\ now' = now /\ t' = t
<1>1. TaskOK'
  BY WaitingTyped DEF Request, Done
<1>2. QED
  BY <1>1, Parts DEF Request, events, ClockOK, WorldOK, HistoryOK, LogOK

LEMMA FreshKept ==
  ASSUME IInv, UNCHANGED fresh
  PROVE  (fresh \in [Nets -> 0..Enough])'
BY Parts

LEMMA ManualBanKeeps ==
  ASSUME EngineAssumption, IInv, NEW n \in Nets, NEW ttl \in Ttls, ManualBan(n, ttl)
  PROVE  IInv'
<1>1. /\ TaskOK' /\ ClockOK' /\ WorldOK' /\ (lastSweep \in Nat)'
      /\ HistoryOK(history)' /\ LogOK' /\ now' = now /\ t' = t
  BY RequestTyped DEF ManualBan
<1>2. ttl \in Nat
  BY DEF EngineAssumption
<1>3. MirrorOK' /\ MirrorBacked' /\ FirewallOK'
  BY <1>1, <1>2, Parts, BanKeeps DEF ManualBan
<1>4. TrackerOK' /\ (fresh \in [Nets -> 0..Enough])'
  BY Parts, IdleTyped, FreshKept DEF ManualBan
<1>5. QED
  BY <1>1, <1>3, <1>4, PartsPrime

LEMMA ManualBanFailsKeeps ==
  ASSUME EngineAssumption, IInv, NEW n \in Nets, ManualBanFails(n)
  PROVE  IInv'
<1>1. /\ TaskOK' /\ ClockOK' /\ WorldOK' /\ (lastSweep \in Nat)'
      /\ HistoryOK(history)' /\ LogOK' /\ now' = now /\ t' = t
  BY RequestTyped DEF ManualBanFails
<1>2. MirrorOK' /\ MirrorBacked' /\ FirewallOK'
  BY <1>1, Parts, BanFailsKeeps DEF ManualBanFails
<1>3. TrackerOK' /\ (fresh \in [Nets -> 0..Enough])'
  BY Parts, IdleTyped, FreshKept DEF ManualBanFails
<1>4. QED
  BY <1>1, <1>2, <1>3, PartsPrime

LEMMA UnbanKeeps ==
  ASSUME EngineAssumption, IInv, NEW n \in Nets, Unban(n)
  PROVE  IInv'
<1>1. /\ TaskOK' /\ ClockOK' /\ WorldOK' /\ (lastSweep \in Nat)'
      /\ HistoryOK(history)' /\ LogOK' /\ now' = now /\ t' = t
  BY RequestTyped DEF Unban
<1>2. MirrorOK' /\ MirrorBacked' /\ FirewallOK'
  BY <1>1, Parts, GiveUpKeeps DEF Unban
<1>3. TrackerOK'
  BY Parts, DropTyped DEF Unban
<1>4. (fresh \in [Nets -> 0..Enough])'
  <2>1. 0 \in 0..Enough
    BY DEF EngineAssumption
  <2>2. QED
    BY <2>1, Parts DEF Unban
<1>5. QED
  BY <1>1, <1>2, <1>3, <1>4, PartsPrime

LEMMA ShowKeeps ==
  ASSUME EngineAssumption, IInv, List \/ Status \/ OnlyAnswer
  PROVE  IInv'
<1>1. Request /\ TrackerIdle /\ UNCHANGED <<firewall, fresh>>
  BY DEF List, Status, OnlyAnswer
<1>2. /\ TaskOK' /\ ClockOK' /\ WorldOK' /\ (lastSweep \in Nat)'
      /\ HistoryOK(history)' /\ LogOK' /\ now' = now /\ t' = t
  BY <1>1, RequestTyped
<1>3. MirrorOK' /\ MirrorBacked'
  <2>1. CASE \E S : active' = Without(active, S)
    BY <1>1, <1>2, <2>1, Parts, ForgetKeeps
  <2>2. CASE active' = active
    BY <1>1, <1>2, <2>2, Parts DEF MirrorOK, MirrorBacked, firewall
  <2>3. QED
    BY <2>1, <2>2 DEF List, Status, OnlyAnswer
<1>4. TrackerOK' /\ FirewallOK' /\ (fresh \in [Nets -> 0..Enough])'
  BY <1>1, <1>2, Parts, IdleTyped, FreshKept DEF firewall, FirewallOK, Punctual
<1>5. QED
  BY <1>2, <1>3, <1>4, PartsPrime

-----------------------------------------------------------------------------
(* Start, stop and the world. *)

\* The end of the process, whatever it does to the firewall's bans.
LEMMA HaltKeeps ==
  ASSUME IInv, Halt, UNCHANGED events, UNCHANGED fresh, FirewallOK'
  PROVE  IInv'
<1>1. SW!Drop(SW!Tracked) /\ t' = t /\ now' = now /\ backend' = backend /\ allow' = allow
      /\ phase' = "down" /\ history' = history /\ active' = EmptyTable /\ lastSweep' = 0
  BY DEF Halt, SW!Drop
<1>2. ClockOK' /\ WorldOK' /\ (lastSweep \in Nat)' /\ LogOK' /\ HistoryOK(history)'
  BY <1>1, Parts DEF events, ClockOK, WorldOK, LogOK, HistoryOK
<1>3. MirrorOK' /\ MirrorBacked'
  BY <1>1 DEF MirrorOK, MirrorBacked, EmptyTable
<1>4. TaskOK' /\ TrackerOK'
  BY <1>1, Parts, WaitingTyped, DropTyped DEF Halt, Done
<1>5. QED
  BY <1>2, <1>3, <1>4, FreshKept, PartsPrime

LEMMA FirewallKept ==
  ASSUME IInv, UNCHANGED firewall, now' = now
  PROVE  FirewallOK'
BY Parts DEF firewall, FirewallOK, Punctual

\* A ban that only the firewall learns of.
LEMMA FirewallBanTyped ==
  ASSUME IInv, NEW n \in Nets, NEW ttl \in Nat, FirewallBan(n, ttl), now' = now
  PROVE  FirewallOK'
BY Parts DEF FirewallBan, FirewallOK, Punctual, ClockOK

LEMMA DownKeeps ==
  ASSUME EngineAssumption, IInv, StartFails \/ Stop \/ Crash \/ Reboot
  PROVE  IInv'
<1>1. Halt /\ UNCHANGED events /\ UNCHANGED fresh /\ now' = now
  BY DEF StartFails, Stop, Crash, Reboot, Halt
<1>2. FirewallOK'
  <2>1. CASE UNCHANGED firewall
    BY <1>1, <2>1, FirewallKept
  <2>2. CASE Reboot
    BY <2>2 DEF Reboot, FirewallOK, Punctual
  <2>3. QED
    BY <2>1, <2>2 DEF StartFails, Stop, Crash
<1>3. QED
  BY <1>1, <1>2, HaltKeeps

LEMMA CrashInBanKeeps ==
  ASSUME EngineAssumption, IInv, NEW f \in Filters, CrashInBan(f)
  PROVE  IInv'
<1>1. Net(f) \in Nets
  BY Parts, LineParts DEF CrashInBan
<1>2. EscalatedTtl(BanTime[f], Net(f)) \in Nat
  BY Parts, TtlTyped
<1>3. Halt /\ UNCHANGED events /\ UNCHANGED fresh /\ now' = now
  BY DEF CrashInBan, Halt
<1>4. FirewallOK'
  BY <1>1, <1>2, <1>3, FirewallBanTyped DEF CrashInBan
<1>5. QED
  BY <1>3, <1>4, HaltKeeps

LEMMA StartKeeps ==
  ASSUME EngineAssumption, IInv, NEW list \in AllowLists, Start(list)
  PROVE  IInv'
<1>1. ClockOK' /\ WorldOK' /\ now' = now
  BY Parts DEF Start, ClockOK, WorldOK
<1>2. MirrorOK' /\ MirrorBacked' /\ HistoryOK(history)' /\ (lastSweep \in Nat)' /\ LogOK'
  BY <1>1, Parts DEF Start, memory, firewall, events, MirrorOK, MirrorBacked, HistoryOK, LogOK
<1>3. TaskOK' /\ TrackerOK' /\ FirewallOK' /\ (fresh \in [Nets -> 0..Enough])'
  BY <1>1, Parts, IdleTyped, FirewallKept, FreshKept DEF Start, TaskOK
<1>4. QED
  BY <1>1, <1>2, <1>3, PartsPrime

\* What the firewall lists is in the mirror for no longer than it lasts, because the
\* seconds left are added to a time that is not ahead of the clock.
LEMMA StartedKeeps ==
  ASSUME EngineAssumption, IInv, Started
  PROVE  IInv'
<1>1. ClockOK' /\ WorldOK' /\ TaskOK' /\ now' = now /\ kernel' = kernel
  BY Parts DEF Started, ClockOK, WorldOK, TaskOK
<1>2. DOMAIN active' \subseteq Listed
      /\ \A n \in DOMAIN active' : active'[n] = t + kernel[n] - now
  BY DEF Started, Reconciled
<1>3. ASSUME NEW n \in DOMAIN active'
      PROVE  n \in Nets /\ active'[n] \in Nat /\ kernel[n] >= active'[n]
  <2>1. n \in Nets /\ kernel[n] # 0
    BY <1>2 DEF Listed
  <2>2. kernel[n] >= now /\ kernel[n] \in Nat /\ t \in Nat /\ now \in Nat /\ t <= now
    BY <2>1, Parts DEF FirewallOK, Punctual, ClockOK
  <2>3. QED
    BY <1>2, <2>1, <2>2
<1>4. MirrorOK' /\ MirrorBacked'
  BY <1>1, <1>3 DEF MirrorOK, MirrorBacked
<1>5. FirewallOK'
  <2>1. ASSUME NEW n \in Nets, kernel[n] # 0
        PROVE  t + kernel[n] - now \in Nat
    <3>1. kernel[n] >= now /\ kernel[n] \in Nat /\ t \in Nat /\ now \in Nat
      BY <2>1, Parts DEF FirewallOK, Punctual, ClockOK
    <3> QED
      BY <3>1
  <2>2. promised' \in [Nets -> Nat]
    BY <2>1 DEF Started
  <2>3. QED
    BY <1>1, <2>2, Parts DEF FirewallOK, Punctual
<1>6. LogOK'
  BY Parts DEF Started, LogOK
<1>7. HistoryOK(history)'
  BY Parts, RebuiltTyped DEF Started, HistoryOK
<1>8. (lastSweep \in Nat)' /\ TrackerOK' /\ (fresh \in [Nets -> 0..Enough])'
  BY Parts, IdleTyped DEF Started, EngineAssumption
<1>9. QED
  BY <1>1, <1>4, <1>5, <1>6, <1>7, <1>8, PartsPrime

\* What the firewall and the clock leave alone.
LEMMA WorldTyped ==
  ASSUME IInv, UNCHANGED <<phase, backend, t, task, tracker, memory, allow, events, fresh>>
  PROVE  /\ WorldOK' /\ TaskOK' /\ TrackerOK' /\ MirrorOK'
         /\ HistoryOK(history)' /\ (lastSweep \in Nat)'
         /\ LogOK' /\ (fresh \in [Nets -> 0..Enough])'
BY Parts DEF tracker, memory, events, WorldOK, TaskOK, TrackerOK, MirrorOK, HistoryOK, LogOK

LEMMA ExternalRemoveKeeps ==
  ASSUME EngineAssumption, IInv, NEW n \in Nets, ExternalRemove(n)
  PROVE  IInv'
<1>1. active' = active /\ now' = now /\ ClockOK'
  BY Parts DEF ExternalRemove, memory, ClockOK
<1>2. MirrorBacked' /\ FirewallOK'
  BY <1>1, Parts, WithoutNone DEF ExternalRemove
<1>3. QED
  BY <1>1, <1>2, WorldTyped, PartsPrime DEF ExternalRemove

LEMMA ClockKeeps ==
  ASSUME EngineAssumption, IInv, Clock
  PROVE  IInv'
<1>1. now' = now + 1 /\ t' = t /\ active' = active /\ promised' = promised
      /\ kernel' = [n \in Nets |-> IF kernel[n] <= now' THEN 0 ELSE kernel[n]]
  BY DEF Clock, memory
<1>2. now \in Nat /\ now' \in Nat /\ ClockOK'
  BY <1>1, Parts DEF ClockOK
<1>3. FirewallOK'
  BY <1>1, <1>2, Parts DEF FirewallOK, Punctual
<1>4. ASSUME NEW n \in DOMAIN active', active'[n] > now', promised'[n] # 0
      PROVE  kernel'[n] >= active'[n]
  <2>1. n \in Nets /\ active[n] \in Nat /\ kernel[n] \in Nat
    BY <1>1, Parts DEF MirrorOK, FirewallOK
  <2>2. kernel[n] >= active[n]
    BY <1>1, <1>2, <1>4, <2>1, Parts DEF MirrorBacked
  <2>3. QED
    BY <1>1, <1>2, <1>4, <2>1, <2>2
<1>5. QED
  BY <1>2, <1>3, <1>4, WorldTyped, PartsPrime DEF Clock, MirrorBacked

-----------------------------------------------------------------------------

LEMMA InitIInv ==
  ASSUME EngineAssumption, Init
  PROVE  IInv
<1>1. WorldOK /\ ClockOK /\ TaskOK /\ TrackerOK /\ MirrorOK
      /\ HistoryOK(history) /\ lastSweep \in Nat
      /\ FirewallOK /\ LogOK /\ fresh \in [Nets -> 0..Enough]
  BY DEF EngineAssumption, Init, WorldOK, ClockOK, TaskOK, Idle, TrackerOK, Keys,
     SW!NoVerdict, MirrorOK, EmptyTable, HistoryOK, FirewallOK, Punctual, LogOK
<1>2. MirrorBacked
  BY DEF Init, EmptyTable, MirrorBacked
<1>3. QED
  BY <1>1, <1>2, TypeParts DEF IInv

LEMMA StutterKeeps ==
  ASSUME IInv, UNCHANGED vars
  PROVE  IInv'
<1>1. ClockOK' /\ MirrorBacked' /\ FirewallOK'
  BY Parts DEF vars, memory, firewall, ClockOK, MirrorBacked, FirewallOK, Punctual
<1>2. QED
  BY <1>1, WorldTyped, PartsPrime DEF vars

LEMMA NextKeeps ==
  ASSUME EngineAssumption, IInv, [Next]_vars
  PROVE  IInv'
<1>1. CASE Lifecycle
  BY <1>1, StartKeeps, StartedKeeps, DownKeeps DEF Lifecycle
<1>2. CASE HandleLine
  BY <1>2, ReceiveLineKeeps, QueueEmptyKeeps, IgnoreKeeps, BelowKeeps, AutoBanKeeps,
     AutoBanFailsKeeps, CrashInBanKeeps, EndLineKeeps, TickKeeps DEF HandleLine
<1>3. CASE HandleRequest
  BY <1>3, ManualBanKeeps, ManualBanFailsKeeps, UnbanKeeps, ShowKeeps DEF HandleRequest
<1>4. CASE Wake \/ Tick \/ Clock \/ \E n \in Nets : ExternalRemove(n)
  BY <1>4, WakeKeeps, TickKeeps, ClockKeeps, ExternalRemoveKeeps
<1>5. CASE UNCHANGED vars
  BY <1>5, StutterKeeps
<1>6. QED
  BY <1>1, <1>2, <1>3, <1>4, <1>5 DEF Next

LEMMA Invariant == Spec => []IInv
<1>1. Init => IInv
  BY EngineAssumption, InitIInv
<1>2. IInv /\ [Next]_vars => IInv'
  BY EngineAssumption, NextKeeps
<1>3. QED
  BY <1>1, <1>2, PTL DEF Spec

\* The engine, the firewall and the log stay well formed through every call, failure
\* and restart, for any hosts, filters and policies; in particular the time the engine
\* works with never runs ahead of the clock.
THEOREM TypeCorrect == Spec => []TypeOK
<1>1. IInv => TypeOK
  BY DEF IInv
<1>2. QED
  BY <1>1, Invariant, PTL

\* Whatever lines, requests, failures, crashes and restarts there were, a network whose
\* hits the engine ignores as banned is banned by the firewall for at least as long,
\* unless the firewall lost the ban or refused to renew it.
THEOREM MirrorIsBacked == Spec => []MirrorBacked
<1>1. IInv => MirrorBacked
  BY DEF IInv
<1>2. QED
  BY <1>1, Invariant, PTL

-----------------------------------------------------------------------------
(* Allowed addresses. *)

Lengthened(n) == kernel'[n] > kernel[n]

Free(n) == \A a \in allow : a \cap n = {}

LEMMA BanLengthensOne ==
  ASSUME FirewallOK, NEW m, NEW ttl, FirewallBan(m, ttl),
         NEW n \in Nets, Lengthened(n)
  PROVE  n = m
BY DEF FirewallOK, FirewallBan, Lengthened

LEMMA SteadyLengthensNone ==
  ASSUME FirewallOK, ClockOK, NEW n \in Nets,
         \/ UNCHANGED kernel
         \/ \E m \in Nets : kernel' = [kernel EXCEPT ![m] = 0]
         \/ kernel' = [m \in Nets |-> 0]
         \/ \E u : kernel' = [m \in Nets |-> IF kernel[m] <= u THEN 0 ELSE kernel[m]]
  PROVE  ~Lengthened(n)
<1>1. kernel[n] \in Nat /\ kernel'[n] \in {0, kernel[n]}
  BY DEF FirewallOK
<1>2. QED
  BY <1>1 DEF Lengthened

LEMMA LineStepSpares ==
  ASSUME EngineAssumption, IInv, HandleLine, NEW n \in Nets, Lengthened(n)
  PROVE  Free(n)
<1>1. \/ UNCHANGED kernel
      \/ \E f \in Filters : AutoBan(f) \/ CrashInBan(f) \/ AutoBanFails(f)
  BY DEF HandleLine, ReceiveLine, QueueEmpty, IgnoreAllowed, AlreadyBanned, Below, EndLine,
     EndLineTick, Housekeep, Read, firewall
<1>2. ASSUME NEW f \in Filters, AutoBan(f) \/ CrashInBan(f)
      PROVE  Free(n)
  <2>1. ~Spared(f)
    BY <1>2 DEF AutoBan, CrashInBan, Track
  <2>2. n = Net(f)
    BY <1>2, Parts, BanLengthensOne DEF AutoBan, CrashInBan
  <2>3. QED
    BY <2>1, <2>2 DEF Spared, Overlaps, Free
<1>3. ASSUME NEW f \in Filters, AutoBanFails(f)
      PROVE  Free(n)
  <2>1. Net(f) \in Nets
    BY <1>3, Parts, LineParts DEF AutoBanFails, Track
  <2>2. UNCHANGED kernel \/ kernel' = [kernel EXCEPT ![Net(f)] = 0]
    BY <1>3 DEF AutoBanFails, FirewallBanFails
  <2>3. ~Lengthened(n)
    BY <2>1, <2>2, Parts, SteadyLengthensNone
  <2>4. QED
    BY <2>3
<1>4. CASE UNCHANGED kernel
  BY <1>4, Parts, SteadyLengthensNone
<1>5. QED
  BY <1>1, <1>2, <1>3, <1>4

LEMMA RequestSpares ==
  ASSUME EngineAssumption, IInv, HandleRequest, NEW n \in Nets, Lengthened(n)
  PROVE  Free(n)
<1>1. ASSUME NEW m \in Nets, NEW ttl \in Ttls, ManualBan(m, ttl)
      PROVE  Free(n)
  <2>1. n = m
    BY <1>1, Parts, BanLengthensOne DEF ManualBan
  <2>2. QED
    BY <1>1, <2>1 DEF ManualBan, MayBan, Overlaps, Free
<1>2. CASE \/ \E m \in Nets : ManualBanFails(m) \/ Unban(m)
           \/ List \/ Status \/ OnlyAnswer
  <2>1. \/ UNCHANGED kernel
        \/ \E m \in Nets : kernel' = [kernel EXCEPT ![m] = 0]
    BY <1>2 DEF ManualBanFails, FirewallBanFails, Unban, List, Status, OnlyAnswer, firewall
  <2>2. QED
    BY <2>1, Parts, SteadyLengthensNone
<1>3. QED
  BY <1>1, <1>2 DEF HandleRequest

LEMMA NextSpares ==
  ASSUME EngineAssumption, IInv, Next, NEW n \in Nets, Lengthened(n)
  PROVE  Free(n)
<1>1. CASE Lifecycle
  <2>1. UNCHANGED kernel \/ kernel' = [m \in Nets |-> 0]
    BY <1>1 DEF Lifecycle, Start, Started, StartFails, Stop, Crash, Reboot, firewall
  <2>2. QED
    BY <2>1, Parts, SteadyLengthensNone
<1>2. CASE Wake \/ Tick \/ Clock \/ \E m \in Nets : ExternalRemove(m)
  <2>1. \/ UNCHANGED kernel
        \/ \E m \in Nets : kernel' = [kernel EXCEPT ![m] = 0]
        \/ \E u : kernel' = [m \in Nets |-> IF kernel[m] <= u THEN 0 ELSE kernel[m]]
    BY <1>2 DEF Wake, Tick, Clock, ExternalRemove, Read, Housekeep, firewall
  <2>2. QED
    BY <2>1, Parts, SteadyLengthensNone
<1>3. QED
  BY <1>1, <1>2, LineStepSpares, RequestSpares DEF Next

\* For any hosts, networks and allow lists, no step gives the firewall a ban, or a
\* longer one, that covers an address on the allow list in force, whether the ban is
\* automatic or asked for, and even if the daemon dies in the middle of it.
THEOREM NeverBans == Spec => NeverBansAllowed
<1>1. IInv /\ [Next]_vars =>
        [\A n \in Nets : kernel'[n] > kernel[n] => \A a \in allow : a \cap n = {}]_vars
  BY EngineAssumption, NextSpares DEF Lengthened, Free
<1>2. QED
  BY <1>1, Invariant, PTL DEF Spec, NeverBansAllowed

-----------------------------------------------------------------------------
(* What was promised is kept by the firewall, and known to the mirror for   *)
(* as long as the engine's time, or the time at which it will next wake,    *)
(* has not passed it.                                                       *)

\* The time by which the mirror is next asked.
Asking == IF task.do = "idle" THEN now ELSE t

\* The mirror has what was promised beyond u.
Known(u) == \A n \in Nets : promised[n] > u => n \in DOMAIN active /\ active[n] >= promised[n]

Honoured == \A n \in Nets : promised[n] > now => kernel[n] >= promised[n]

PromiseOK ==
  /\ Honoured
  /\ phase = "up" => Known(Asking)

\* Steps that promise nothing and forget of the mirror what has run out.
LEMMA SteadyPromise ==
  ASSUME IInv, PromiseOK, UNCHANGED firewall, now' = now, phase' = phase,
         \/ active' = active
         \/ active' = Without(active, {n \in DOMAIN active : active[n] <= t}),
         Asking' \in Nat, Asking' >= Asking
  PROVE  PromiseOK'
<1>1. ClockOK /\ MirrorOK /\ FirewallOK
  BY Parts
<1>2. Asking \in Nat /\ t <= Asking
  BY <1>1 DEF ClockOK, Asking
<1>4. Honoured'
  BY DEF PromiseOK, Honoured, firewall
<1>5. ASSUME phase' = "up", NEW n \in Nets, promised'[n] > Asking'
      PROVE  n \in DOMAIN active' /\ active'[n] >= promised'[n]
  <2>1. promised'[n] = promised[n] /\ promised[n] \in Nat
    BY <1>1 DEF firewall, FirewallOK
  <2>2. promised[n] > Asking
    <3> HIDE DEF Asking
    <3> QED
      BY <1>2, <1>5, <2>1
  <2>3. n \in DOMAIN active /\ active[n] >= promised[n]
    BY <1>5, <2>2 DEF PromiseOK, Known
  <2>4. active[n] \in Nat /\ ~(active[n] <= t)
    BY <1>1, <1>2, <2>1, <2>2, <2>3 DEF MirrorOK, ClockOK
  <2>5. n \in DOMAIN active' /\ active'[n] = active[n]
    BY <2>3, <2>4 DEF Without
  <2> QED
    BY <2>1, <2>3, <2>5
<1> HIDE DEF Asking
<1> QED
  BY <1>4, <1>5 DEF PromiseOK, Known

\* A ban of network m.
LEMMA BanPromise ==
  ASSUME IInv, PromiseOK, now' = now, t' = t, task.do # "idle",
         NEW m \in Nets, NEW ttl \in Nat, FirewallBan(m, ttl),
         phase' # "up" \/ (phase' = phase /\ active' = Put(active, m, t + ttl))
  PROVE  PromiseOK'
<1>1. ClockOK /\ FirewallOK
  BY Parts
<1>2. /\ now \in Nat /\ t \in Nat /\ t <= now /\ now + ttl >= t + ttl
      /\ kernel \in [Nets -> Nat] /\ promised \in [Nets -> Nat]
  BY <1>1 DEF ClockOK, FirewallOK
<1>3. ASSUME NEW n \in Nets
      PROVE  /\ n = m => kernel'[n] = now + ttl /\ promised'[n] = t + ttl
             /\ n # m => kernel'[n] = kernel[n] /\ promised'[n] = promised[n]
  BY <1>2 DEF FirewallBan
<1>4. Honoured'
  BY <1>2, <1>3 DEF PromiseOK, Honoured
<1>5. ASSUME phase' = "up", NEW n \in Nets, promised'[n] > Asking'
      PROVE  n \in DOMAIN active' /\ active'[n] >= promised'[n]
  <2>1. phase = "up" /\ active' = Put(active, m, t + ttl)
    BY <1>5
  <2>2. CASE n = m
    BY <1>2, <1>3, <2>1, <2>2 DEF Put
  <2>3. CASE n # m
    <3>1. promised[n] > t
      <4>1. promised'[n] = promised[n] /\ promised[n] \in Nat
        BY <1>2, <1>3, <2>3
      <4>2. Asking' \in {now, t}
        BY DEF Asking
      <4> QED
        BY <1>2, <1>5, <4>1, <4>2
    <3>2. n \in DOMAIN active /\ active[n] >= promised[n]
      BY <2>1, <3>1 DEF PromiseOK, Known, Asking
    <3> QED
      BY <1>3, <2>1, <2>3, <3>2 DEF Put
  <2> QED
    BY <2>2, <2>3
<1> QED
  BY <1>4, <1>5 DEF PromiseOK, Known

\* Promises given up.
LEMMA LessPromise ==
  ASSUME IInv, PromiseOK, now' = now, t' = t, phase' = phase, Asking' \in Nat, Asking' >= Asking,
         NEW m \in Nets, promised' = [promised EXCEPT ![m] = 0],
         kernel' = kernel \/ kernel' = [kernel EXCEPT ![m] = 0],
         active' = active \/ active' = Without(active, {m})
  PROVE  PromiseOK'
<1>1. /\ now \in Nat /\ kernel \in [Nets -> Nat] /\ promised \in [Nets -> Nat]
      /\ Asking \in Nat
  BY Parts DEF ClockOK, FirewallOK, Asking
<1>2. \A n \in Nets : promised'[n] > 0 => n # m /\ promised'[n] = promised[n] /\ kernel'[n] = kernel[n]
  BY <1>1
<1>3. Honoured'
  BY <1>1, <1>2 DEF PromiseOK, Honoured
<1>4. ASSUME phase' = "up", NEW n \in Nets, promised'[n] > Asking'
      PROVE  n \in DOMAIN active' /\ active'[n] >= promised'[n]
  <2>1. promised'[n] \in Nat
    BY <1>1
  <2>2. promised'[n] > 0 /\ promised'[n] > Asking
    <3> HIDE DEF Asking
    <3> QED
      BY <1>1, <1>4, <2>1
  <2>3. n \in DOMAIN active /\ active[n] >= promised[n] /\ n # m
    BY <1>2, <1>4, <2>2 DEF PromiseOK, Known
  <2> QED
    BY <1>2, <2>2, <2>3 DEF Without
<1> HIDE DEF Asking
<1> QED
  BY <1>3, <1>4 DEF PromiseOK, Known

\* The daemon ends.
LEMMA DownPromise ==
  ASSUME IInv, PromiseOK, now' = now, phase' # "up",
         UNCHANGED firewall \/ (promised' = [n \in Nets |-> 0])
  PROVE  PromiseOK'
<1>1. now \in Nat /\ promised \in [Nets -> Nat]
  BY Parts DEF ClockOK, FirewallOK
<1>2. Honoured'
  BY <1>1 DEF PromiseOK, Honoured, firewall
<1> QED
  BY <1>2 DEF PromiseOK

LEMMA StartedPromise ==
  ASSUME IInv, Started
  PROVE  PromiseOK'
<1>1. /\ now' = now /\ kernel' = kernel /\ t' = t
      /\ \A n \in DOMAIN active' : active'[n] = t + kernel[n] - now
      /\ DOMAIN active' \subseteq Nets
      /\ promised' = [n \in Nets |-> IF n \in DOMAIN active' THEN t + kernel[n] - now ELSE 0]
  BY DEF Started, Reconciled, Listed
<1>2. /\ now \in Nat /\ t \in Nat /\ t <= now /\ kernel \in [Nets -> Nat]
  BY Parts DEF ClockOK, FirewallOK
<1>3. ASSUME NEW n \in Nets
      PROVE  /\ n \in DOMAIN active' => promised'[n] = active'[n] /\ promised'[n] = t + kernel[n] - now
             /\ n \notin DOMAIN active' => promised'[n] = 0
  BY <1>1
<1>4. Honoured'
  BY <1>1, <1>2, <1>3 DEF Honoured
<1>5. Known(Asking)'
  <2>1. Asking' \in {now, t}
    BY <1>1 DEF Asking
  <2>2. ASSUME NEW n \in Nets, promised'[n] > Asking'
        PROVE  n \in DOMAIN active' /\ active'[n] >= promised'[n]
    <3>1. Asking' \in Nat
      BY <1>2, <2>1
    <3>2. n \in DOMAIN active'
      BY <1>3, <2>2, <3>1
    <3> QED
      BY <1>1, <1>2, <1>3, <3>2
  <2> HIDE DEF Asking
  <2> QED
    BY <2>2 DEF Known
<1> QED
  BY <1>4, <1>5 DEF PromiseOK

LEMMA ClockPromise ==
  ASSUME IInv, PromiseOK, Clock
  PROVE  PromiseOK'
<1>1. /\ now' = now + 1 /\ t' = t /\ active' = active /\ promised' = promised /\ task' = task
      /\ phase' = phase /\ kernel' = [n \in Nets |-> IF kernel[n] <= now' THEN 0 ELSE kernel[n]]
  BY DEF Clock, memory
<1>2. /\ now \in Nat /\ t \in Nat /\ kernel \in [Nets -> Nat] /\ promised \in [Nets -> Nat]
  BY Parts DEF ClockOK, FirewallOK
<1>3. ASSUME NEW n \in Nets, promised'[n] > now'
      PROVE  kernel'[n] >= promised'[n]
  <2>1. promised[n] \in Nat /\ kernel[n] \in Nat
    BY <1>2
  <2>2. kernel[n] >= promised[n]
    BY <1>1, <1>2, <1>3, <2>1 DEF PromiseOK, Honoured
  <2>3. ~(kernel[n] <= now')
    BY <1>1, <1>2, <1>3, <2>1, <2>2
  <2> QED
    BY <1>1, <2>2, <2>3
<1>4. ASSUME phase' = "up"
      PROVE  Known(Asking)'
  <2>1. Asking \in Nat /\ Asking' >= Asking /\ Asking' \in Nat
    BY <1>1, <1>2 DEF Asking
  <2>2. \A n \in Nets : promised'[n] > Asking' => promised[n] > Asking
    <3> HIDE DEF Asking
    <3> QED
      BY <1>1, <1>2, <2>1
  <2> HIDE DEF Asking
  <2> QED
    BY <1>1, <1>4, <2>2 DEF PromiseOK, Known
<1> QED
  BY <1>3, <1>4 DEF PromiseOK, Honoured

LEMMA BusyAsking ==
  ASSUME IInv, now' = now, t' = t, task.do # "idle" \/ task' = task
  PROVE  Asking' \in Nat /\ Asking' >= Asking
BY Parts DEF ClockOK, Asking

LEMMA LinePromise ==
  ASSUME EngineAssumption, IInv, PromiseOK, HandleLine
  PROVE  PromiseOK'
<1>1. CASE \/ \E line \in Lines : ReceiveLine(line)
           \/ QueueEmpty \/ EndLine \/ EndLineTick
           \/ \E f \in Filters : IgnoreAllowed(f) \/ AlreadyBanned(f) \/ Below(f)
  <2>1. task.do # "idle"
    BY <1>1 DEF ReceiveLine, QueueEmpty, EndLine, EndLineTick, IgnoreAllowed, AlreadyBanned,
       Below, Track, Turn, Serving
  <2>2. /\ now' = now /\ t' = t /\ phase' = phase /\ UNCHANGED firewall
        /\ \/ active' = active
           \/ active' = Without(active, {n \in DOMAIN active : active[n] <= t})
    BY <1>1 DEF ReceiveLine, QueueEmpty, EndLine, EndLineTick, IgnoreAllowed, AlreadyBanned,
       Below, Track, Read, memory, Housekeep, SW!Sweep, SW!Drop, SW!Hit
  <2> QED
    BY <2>1, <2>2, BusyAsking, SteadyPromise
<1>2. ASSUME NEW f \in Filters, AutoBan(f)
      PROVE  PromiseOK'
  <2>1. task.do # "idle" /\ Net(f) \in Nets /\ now' = now /\ t' = t /\ phase' = phase
    BY <1>2, TrackTyped DEF AutoBan, Track, Turn, Serving
  <2>2. EscalatedTtl(BanTime[f], Net(f)) \in Nat
    BY Parts, TtlTyped
  <2> QED
    BY <1>2, <2>1, <2>2, BanPromise DEF AutoBan
<1>3. ASSUME NEW f \in Filters, AutoBanFails(f)
      PROVE  PromiseOK'
  <2>1. task.do # "idle" /\ Net(f) \in Nets /\ now' = now /\ t' = t /\ phase' = phase
    BY <1>3, TrackTyped DEF AutoBanFails, Track, Turn, Serving
  <2>2. Asking' \in Nat /\ Asking' >= Asking
    BY <2>1, BusyAsking
  <2> QED
    BY <1>3, <2>1, <2>2, LessPromise DEF AutoBanFails, FirewallBanFails
<1>4. ASSUME NEW f \in Filters, CrashInBan(f)
      PROVE  PromiseOK'
  <2>1. task.do # "idle" /\ Net(f) \in Nets /\ now' = now /\ t' = t /\ phase' # "up"
    BY <1>4, Parts, LineParts DEF CrashInBan, Turn, Serving, Halt, SW!Drop
  <2>2. EscalatedTtl(BanTime[f], Net(f)) \in Nat
    BY Parts, TtlTyped
  <2> QED
    BY <1>4, <2>1, <2>2, BanPromise DEF CrashInBan
<1> QED
  BY <1>1, <1>2, <1>3, <1>4 DEF HandleLine

LEMMA RequestPromise ==
  ASSUME EngineAssumption, IInv, PromiseOK, HandleRequest
  PROVE  PromiseOK'
<1>0. /\ task.do # "idle" /\ now' = now /\ t' = t /\ phase' = phase
      /\ Asking' \in Nat /\ Asking' >= Asking
  <2>1. Request
    BY DEF HandleRequest, ManualBan, ManualBanFails, Unban, List, Status, OnlyAnswer
  <2>2. task.do # "idle" /\ now' = now /\ t' = t /\ phase' = phase
    BY <2>1 DEF Request, Serving
  <2> QED
    BY <2>2, BusyAsking
<1> HIDE DEF Asking
<1>1. ASSUME NEW n \in Nets, NEW ttl \in Ttls, ManualBan(n, ttl)
      PROVE  PromiseOK'
  <2>1. ttl \in Nat
    BY DEF EngineAssumption
  <2> QED
    BY <1>0, <1>1, <2>1, BanPromise DEF ManualBan
<1>2. ASSUME NEW n \in Nets, ManualBanFails(n) \/ Unban(n)
      PROVE  PromiseOK'
  <2>1. /\ promised' = [promised EXCEPT ![n] = 0]
        /\ kernel' = kernel \/ kernel' = [kernel EXCEPT ![n] = 0]
        /\ active' = active \/ active' = Without(active, {n})
    BY <1>2 DEF ManualBanFails, Unban, FirewallBanFails
  <2> QED
    BY <1>0, <2>1, LessPromise
<1>3. CASE Status \/ OnlyAnswer \/ (List /\ backend # "nft")
  BY <1>0, <1>3, SteadyPromise DEF Status, OnlyAnswer, List
<1>4. CASE List /\ backend = "nft"
  <2>1. UNCHANGED firewall /\ active' = Without(active, DOMAIN active \ Listed)
    BY <1>4 DEF List
  <2>2. now \in Nat /\ FirewallOK
    BY Parts DEF ClockOK
  <2>3. Honoured'
    BY <1>0, <2>1 DEF PromiseOK, Honoured, firewall
  <2>4. Asking' = now
    BY <1>0, <1>4 DEF Asking, List, Request, Done, Idle
  <2>5. ASSUME phase' = "up", NEW n \in Nets, promised'[n] > now
        PROVE  n \in DOMAIN active' /\ active'[n] >= promised'[n]
    <3>1. promised'[n] = promised[n] /\ kernel[n] >= promised[n]
      BY <2>1, <2>5 DEF firewall, PromiseOK, Honoured
    <3>2. n \in Listed
      BY <2>2, <2>5, <3>1 DEF Listed, FirewallOK
    <3>3. promised[n] > Asking
      BY <2>5, <3>1, <2>2, Parts DEF Asking, ClockOK, FirewallOK
    <3>4. n \in DOMAIN active /\ active[n] >= promised[n]
      BY <1>0, <2>5, <3>3 DEF PromiseOK, Known
    <3> QED
      BY <2>1, <3>1, <3>2, <3>4 DEF Without
  <2> QED
    BY <2>3, <2>4, <2>5 DEF PromiseOK, Known
<1> QED
  BY <1>1, <1>2, <1>3, <1>4 DEF HandleRequest

LEMMA PromiseStep ==
  ASSUME EngineAssumption, IInv, PromiseOK, [Next]_vars
  PROVE  PromiseOK'
<1>1. CASE Lifecycle
  <2>1. CASE \E list \in AllowLists : Start(list)
    BY <2>1, DownPromise DEF Start
  <2>2. CASE Started
    BY <2>2, StartedPromise
  <2>3. CASE StartFails \/ Stop \/ Crash \/ Reboot
    <3>1. now' = now /\ phase' # "up" /\ (UNCHANGED firewall \/ promised' = [n \in Nets |-> 0])
      BY <2>3 DEF StartFails, Stop, Crash, Reboot, Halt
    <3> QED
      BY <3>1, DownPromise
  <2> QED
    BY <1>1, <2>1, <2>2, <2>3 DEF Lifecycle
<1>2. CASE Tick
  <2>1. /\ now' = now /\ t' = t /\ phase' = phase /\ UNCHANGED firewall /\ task.do # "idle"
        /\ active' = Without(active, {n \in DOMAIN active : active[n] <= t})
    BY <1>2 DEF Tick, Serving, Housekeep, SW!Sweep, SW!Drop
  <2> QED
    BY <2>1, BusyAsking, SteadyPromise
<1>3. CASE Wake
  <2>1. /\ now' = now /\ t' = now /\ phase' = phase /\ UNCHANGED firewall /\ active' = active
        /\ task.do = "idle" /\ task'.do # "idle" /\ now \in Nat
    BY <1>3, Parts DEF Wake, Serving, Ready, Read, memory, ClockOK
  <2>2. Asking' \in Nat /\ Asking' >= Asking
    BY <2>1 DEF Asking
  <2> QED
    BY <2>1, <2>2, SteadyPromise
<1>4. ASSUME NEW n \in Nets, ExternalRemove(n)
      PROVE  PromiseOK'
  <2>1. /\ now' = now /\ t' = t /\ phase' = phase /\ active' = active /\ task' = task
        /\ kernel' = [kernel EXCEPT ![n] = 0] /\ promised' = [promised EXCEPT ![n] = 0]
    BY <1>4 DEF ExternalRemove, memory
  <2>2. Asking' \in Nat /\ Asking' >= Asking
    BY <2>1, BusyAsking
  <2> QED
    BY <2>1, <2>2, LessPromise
<1>5. CASE UNCHANGED vars
  <2>1. /\ now' = now /\ t' = t /\ phase' = phase /\ UNCHANGED firewall /\ active' = active
        /\ task' = task
    BY <1>5 DEF vars, memory
  <2> QED
    BY <2>1, BusyAsking, SteadyPromise
<1> QED
  BY <1>1, <1>2, <1>3, <1>4, <1>5, LinePromise, RequestPromise, ClockPromise DEF Next

\* While a call is served or the daemon starts, the clock is not far ahead, and the
\* firewall lets no ban last longer than promised by more than that.
LagOK ==
  /\ task.do # "idle" \/ phase = "starting" => now <= t + MaxLag
  /\ \A n \in Nets : promised[n] # 0 => kernel[n] <= promised[n] + MaxLag

\* What was promised to m is given up.
GivenUp(m) ==
  /\ promised' = [promised EXCEPT ![m] = 0]
  /\ kernel' = kernel \/ kernel' = [kernel EXCEPT ![m] = 0]

LEMMA LagKept ==
  ASSUME EngineAssumption, IInv, LagOK,
         \/ t' = now'
         \/ /\ t' = t /\ now' = now
            /\ task'.do # "idle" \/ phase' = "starting" => task.do # "idle" \/ phase = "starting",
         \/ UNCHANGED firewall
         \/ promised' = [n \in Nets |-> 0]
         \/ \E m \in Nets : GivenUp(m)
         \/ /\ task.do # "idle" /\ now' = now /\ t' = t
            /\ \E m \in Nets, ttl \in Nat : FirewallBan(m, ttl),
         ClockOK'
  PROVE  LagOK'
<1>1. /\ now \in Nat /\ t \in Nat /\ kernel \in [Nets -> Nat] /\ promised \in [Nets -> Nat]
      /\ now' \in Nat /\ t' \in Nat /\ MaxLag \in Nat
  BY Parts DEF ClockOK, FirewallOK, EngineAssumption
<1>2. task'.do # "idle" \/ phase' = "starting" => now' <= t' + MaxLag
  BY <1>1 DEF LagOK
<1>3. ASSUME NEW n \in Nets, promised'[n] # 0
      PROVE  kernel'[n] <= promised'[n] + MaxLag
  <2>1. CASE UNCHANGED firewall
    BY <1>3, <2>1 DEF firewall, LagOK
  <2>2. CASE promised' = [m \in Nets |-> 0]
    BY <1>3, <2>2
  <2>3. CASE \E m \in Nets : GivenUp(m)
    <3>1. PICK m \in Nets : GivenUp(m)
      BY <2>3
    <3>2. n # m
      BY <1>1, <1>3, <3>1 DEF GivenUp
    <3>3. promised'[n] = promised[n] /\ kernel'[n] = kernel[n]
      BY <1>1, <3>1, <3>2 DEF GivenUp
    <3> QED
      BY <1>3, <3>3 DEF LagOK
  <2>4. CASE /\ task.do # "idle" /\ now' = now /\ t' = t
             /\ \E m \in Nets, ttl \in Nat : FirewallBan(m, ttl)
    <3>1. PICK m \in Nets, ttl \in Nat : FirewallBan(m, ttl)
      BY <2>4
    <3>2. CASE n = m
      <4>1. kernel'[n] = now + ttl /\ promised'[n] = t + ttl
        BY <1>1, <3>1, <3>2 DEF FirewallBan
      <4>2. now <= t + MaxLag
        BY <2>4 DEF LagOK
      <4> QED
        BY <1>1, <4>1, <4>2
    <3>3. CASE n # m
      <4>1. promised'[n] = promised[n] /\ kernel'[n] = kernel[n]
        BY <1>1, <3>1, <3>3 DEF FirewallBan
      <4> QED
        BY <1>3, <4>1 DEF LagOK
    <3> QED
      BY <3>2, <3>3
  <2> QED
    BY <2>1, <2>2, <2>3, <2>4
<1> QED
  BY <1>2, <1>3 DEF LagOK

LEMMA LagLine ==
  ASSUME EngineAssumption, IInv, LagOK, HandleLine, ClockOK'
  PROVE  LagOK'
<1>1. CASE \/ \E line \in Lines : ReceiveLine(line)
           \/ QueueEmpty \/ EndLine \/ EndLineTick
           \/ \E f \in Filters : IgnoreAllowed(f) \/ AlreadyBanned(f) \/ Below(f)
  <2>1. task.do # "idle"
    BY <1>1 DEF ReceiveLine, QueueEmpty, EndLine, EndLineTick, IgnoreAllowed, AlreadyBanned,
       Below, Track, Turn, Serving
  <2>2. now' = now /\ t' = t /\ UNCHANGED firewall
    BY <1>1 DEF ReceiveLine, QueueEmpty, EndLine, EndLineTick, IgnoreAllowed, AlreadyBanned,
       Below, Track, Read, memory, Housekeep, SW!Sweep, SW!Drop, SW!Hit
  <2> QED
    BY <2>1, <2>2, LagKept
<1>2. ASSUME NEW f \in Filters, AutoBan(f)
      PROVE  LagOK'
  <2>1. task.do # "idle" /\ Net(f) \in Nets /\ now' = now /\ t' = t
    BY <1>2, TrackTyped DEF AutoBan, Track, Turn, Serving
  <2>2. EscalatedTtl(BanTime[f], Net(f)) \in Nat
    BY Parts, TtlTyped
  <2>3. FirewallBan(Net(f), EscalatedTtl(BanTime[f], Net(f)))
    BY <1>2 DEF AutoBan
  <2> QED
    BY <2>1, <2>2, <2>3, LagKept
<1>3. ASSUME NEW f \in Filters, AutoBanFails(f)
      PROVE  LagOK'
  <2>1. task.do # "idle" /\ Net(f) \in Nets /\ now' = now /\ t' = t
    BY <1>3, TrackTyped DEF AutoBanFails, Track, Turn, Serving
  <2> QED
    BY <1>3, <2>1, LagKept DEF AutoBanFails, FirewallBanFails, GivenUp
<1>4. ASSUME NEW f \in Filters, CrashInBan(f)
      PROVE  LagOK'
  <2>1. task.do # "idle" /\ Net(f) \in Nets /\ now' = now /\ t' = t
    BY <1>4, Parts, LineParts DEF CrashInBan, Turn, Serving, Halt, SW!Drop
  <2>2. EscalatedTtl(BanTime[f], Net(f)) \in Nat
    BY Parts, TtlTyped
  <2>3. FirewallBan(Net(f), EscalatedTtl(BanTime[f], Net(f)))
    BY <1>4 DEF CrashInBan
  <2> QED
    BY <2>1, <2>2, <2>3, LagKept
<1> QED
  BY <1>1, <1>2, <1>3, <1>4 DEF HandleLine

LEMMA LagRequest ==
  ASSUME EngineAssumption, IInv, LagOK, HandleRequest, ClockOK'
  PROVE  LagOK'
<1>0. task.do # "idle" /\ now' = now /\ t' = t
  <2>1. Request
    BY DEF HandleRequest, ManualBan, ManualBanFails, Unban, List, Status, OnlyAnswer
  <2> QED
    BY <2>1 DEF Request, Serving
<1>1. ASSUME NEW n \in Nets, NEW ttl \in Ttls, ManualBan(n, ttl)
      PROVE  LagOK'
  <2>1. ttl \in Nat /\ FirewallBan(n, ttl)
    BY <1>1 DEF EngineAssumption, ManualBan
  <2> QED
    BY <1>0, <2>1, LagKept
<1>2. ASSUME NEW n \in Nets, ManualBanFails(n) \/ Unban(n)
      PROVE  LagOK'
  <2>1. GivenUp(n)
    BY <1>2 DEF ManualBanFails, Unban, FirewallBanFails, GivenUp
  <2> QED
    BY <1>0, <2>1, LagKept
<1>3. CASE List \/ Status \/ OnlyAnswer
  <2>1. UNCHANGED firewall
    BY <1>3 DEF List, Status, OnlyAnswer
  <2> QED
    BY <1>0, <2>1, LagKept
<1> QED
  BY <1>1, <1>2, <1>3 DEF HandleRequest

LEMMA LagStep ==
  ASSUME EngineAssumption, IInv, LagOK, [Next]_vars, ClockOK'
  PROVE  LagOK'
<1>1. CASE Lifecycle
  <2>1. CASE \E list \in AllowLists : Start(list)
    <3>1. t' = now' /\ UNCHANGED firewall
      BY <2>1 DEF Start
    <3> QED
      BY <3>1, LagKept
  <2>2. CASE Started
    <3>1. /\ now' = now /\ t' = t /\ kernel' = kernel /\ phase = "starting" /\ task' = task
          /\ \A n \in Nets : promised'[n] # 0 => promised'[n] = t + kernel[n] - now
      BY <2>2 DEF Started
    <3>2. /\ now \in Nat /\ t \in Nat /\ kernel \in [Nets -> Nat] /\ MaxLag \in Nat
          /\ now <= t + MaxLag
      BY <3>1, Parts DEF ClockOK, FirewallOK, EngineAssumption, LagOK
    <3>3. ASSUME NEW n \in Nets, promised'[n] # 0
          PROVE  kernel'[n] <= promised'[n] + MaxLag
      <4>1. kernel[n] \in Nat /\ kernel'[n] = kernel[n] /\ promised'[n] = t + kernel[n] - now
        BY <3>1, <3>2, <3>3
      <4> QED
        BY <3>2, <4>1
    <3> QED
      BY <3>1, <3>2, <3>3 DEF LagOK
  <2>3. CASE StartFails \/ Stop \/ Crash \/ Reboot
    <3>1. /\ now' = now /\ phase' = "down" /\ task'.do = "idle"
          /\ (UNCHANGED firewall \/ promised' = [n \in Nets |-> 0])
      BY <2>3 DEF StartFails, Stop, Crash, Reboot, Halt, Done, Idle
    <3>2. ASSUME NEW n \in Nets, promised'[n] # 0
          PROVE  kernel'[n] <= promised'[n] + MaxLag
      <4>1. UNCHANGED firewall
        BY <3>1, <3>2
      <4> QED
        BY <3>2, <4>1 DEF firewall, LagOK
    <3> QED
      BY <3>1, <3>2 DEF LagOK
  <2> QED
    BY <1>1, <2>1, <2>2, <2>3 DEF Lifecycle
<1>2. CASE Tick
  <2>1. now' = now /\ t' = t /\ UNCHANGED firewall /\ task.do # "idle"
    BY <1>2 DEF Tick, Serving, Housekeep, SW!Sweep, SW!Drop
  <2> QED
    BY <2>1, LagKept
<1>3. CASE Wake
  <2>1. t' = now' /\ UNCHANGED firewall
    BY <1>3 DEF Wake, Read
  <2> QED
    BY <2>1, LagKept
<1>4. ASSUME NEW n \in Nets, ExternalRemove(n)
      PROVE  LagOK'
  <2>1. /\ now' = now /\ t' = t /\ task' = task /\ phase' = phase
        /\ GivenUp(n)
    BY <1>4 DEF ExternalRemove, GivenUp
  <2> QED
    BY <2>1, LagKept
<1>5. CASE Clock
  <2>1. /\ now' = now + 1 /\ t' = t /\ task' = task /\ phase' = phase /\ promised' = promised
        /\ kernel' = [n \in Nets |-> IF kernel[n] <= now' THEN 0 ELSE kernel[n]]
        /\ task # Idle \/ phase = "starting" => now < t + MaxLag
    BY <1>5 DEF Clock
  <2>2. /\ now \in Nat /\ t \in Nat /\ kernel \in [Nets -> Nat] /\ promised \in [Nets -> Nat]
        /\ MaxLag \in Nat
    BY Parts DEF ClockOK, FirewallOK, EngineAssumption
  <2>3. task'.do # "idle" \/ phase' = "starting" => now' <= t' + MaxLag
    <3>1. task.do # "idle" => task # Idle
      BY DEF Idle
    <3> QED
      BY <2>1, <2>2, <3>1
  <2>4. ASSUME NEW n \in Nets, promised'[n] # 0
        PROVE  kernel'[n] <= promised'[n] + MaxLag
    <3>1. kernel[n] <= promised[n] + MaxLag /\ kernel[n] \in Nat /\ promised[n] \in Nat
      BY <2>1, <2>2, <2>4 DEF LagOK
    <3>2. kernel'[n] \in {0, kernel[n]}
      BY <2>1
    <3> QED
      BY <2>1, <2>2, <3>1, <3>2
  <2> QED
    BY <2>3, <2>4 DEF LagOK
<1>6. CASE UNCHANGED vars
  <2>1. now' = now /\ t' = t /\ phase' = phase /\ UNCHANGED firewall /\ task' = task
    BY <1>6 DEF vars
  <2> QED
    BY <2>1, LagKept
<1> QED
  BY <1>1, <1>2, <1>3, <1>4, <1>5, <1>6, LagLine, LagRequest DEF Next

\* No automatic ban comes before the one in force has run out, by the engine's time and,
\* but for the lag of a command, in the firewall, for any filters that match one line,
\* queued lines, failures, and restarts that find the ban in nftables.
THEOREM NoneEarly == Spec => NoEarlyReban
<1>1. Init => IInv /\ PromiseOK /\ LagOK
  <2>1. Init => LagOK
    BY DEF Init, LagOK, Idle
  <2> QED
    BY <2>1, EngineAssumption, InitIInv DEF Init, PromiseOK, Honoured, Known, EngineAssumption
<1>2. IInv /\ PromiseOK /\ LagOK /\ [Next]_vars => IInv' /\ PromiseOK' /\ LagOK'
  <2>1. IInv /\ [Next]_vars => IInv' /\ ClockOK'
    <3>1. IInv' => ClockOK'
      BY DEF IInv, TypeOK, ClockOK
    <3> QED
      BY <3>1, EngineAssumption, NextKeeps
  <2> QED
    BY <2>1, EngineAssumption, PromiseStep, LagStep
<1>3. IInv /\ PromiseOK /\ LagOK =>
        [\A f \in Filters : AutoBan(f) /\ promised[Net(f)] # 0 =>
           promised[Net(f)] <= t /\ kernel[Net(f)] <= t + MaxLag]_vars
  <2> SUFFICES ASSUME IInv, PromiseOK, LagOK, NEW f \in Filters, AutoBan(f), promised[Net(f)] # 0
               PROVE  promised[Net(f)] <= t /\ kernel[Net(f)] <= t + MaxLag
    OBVIOUS
  <2>1. phase = "up" /\ task.do = "line" /\ ~Banned(Net(f)) /\ Net(f) \in Nets
    BY EngineAssumption, TrackTyped DEF AutoBan, Track, Turn, Serving
  <2>2. /\ t \in Nat /\ promised[Net(f)] \in Nat /\ kernel[Net(f)] \in Nat /\ MaxLag \in Nat
        /\ MirrorOK
    <3>1. kernel \in [Nets -> Nat] /\ promised \in [Nets -> Nat] /\ t \in Nat /\ MirrorOK
      BY Parts DEF ClockOK, FirewallOK
    <3>2. kernel[Net(f)] \in Nat /\ promised[Net(f)] \in Nat
      BY <2>1, <3>1
    <3>3. MaxLag \in Nat
      BY EngineAssumption DEF EngineAssumption
    <3> QED
      BY <3>1, <3>2, <3>3
  <2>3. ASSUME promised[Net(f)] > t
        PROVE  FALSE
    <3>1. Net(f) \in DOMAIN active /\ active[Net(f)] >= promised[Net(f)]
      BY <2>1, <2>3 DEF PromiseOK, Known, Asking
    <3> QED
      BY <2>1, <2>2, <2>3, <3>1 DEF Banned, MirrorOK
  <2>4. kernel[Net(f)] <= promised[Net(f)] + MaxLag
    BY <2>1 DEF LagOK
  <2> QED
    BY <2>2, <2>3, <2>4
<1> QED
  BY <1>1, <1>2, <1>3, PTL DEF Spec, NoEarlyReban

-----------------------------------------------------------------------------
(* The tracker holds no hit from before an unban or a start.                *)

FreshOK ==
  /\ \A k \in Keys : Len(hits[k]) <= fresh[k[2]] \/ fresh[k[2]] >= Enough
  /\ phase # "up" => \A k \in Keys : hits[k] = <<>>

LEMMA SteadyFresh ==
  ASSUME IInv, FreshOK, UNCHANGED fresh, phase' = phase,
         TrackerIdle \/ \E lost : SW!Drop(lost)
  PROVE  FreshOK'
<1>1. fresh \in [Nets -> 0..Enough] /\ hits \in [Keys -> Seq(Nat)]
  BY Parts DEF TrackerOK
<1>2. \A k \in Keys : hits'[k] = hits[k] \/ hits'[k] = <<>>
  BY DEF TrackerIdle, SW!Drop, Keys
<1>3. ASSUME NEW k \in Keys
      PROVE  Len(hits'[k]) <= fresh'[k[2]] \/ fresh'[k[2]] >= Enough
  <2>1. k[2] \in Nets
    BY DEF Keys
  <2>2. fresh[k[2]] \in Nat
    BY <1>1, <2>1
  <2> QED
    BY <1>2, <2>2 DEF FreshOK
<1> QED
  BY <1>2, <1>3 DEF FreshOK

LEMMA EmptyFresh ==
  ASSUME \A k \in Keys : hits'[k] = <<>>, fresh' \in [Nets -> Nat]
  PROVE  FreshOK'
<1>1. ASSUME NEW k \in Keys
      PROVE  Len(hits'[k]) <= fresh'[k[2]]
  <2>1. k[2] \in Nets /\ Len(<<>>) = 0
    BY DEF Keys
  <2> QED
    BY <2>1
<1> QED
  BY <1>1 DEF FreshOK

LEMMA HaltFresh ==
  ASSUME IInv, Halt, UNCHANGED fresh
  PROVE  FreshOK'
<1>1. \A k \in Keys : hits'[k] = <<>>
  BY DEF Halt, SW!Drop, SW!Tracked, Keys
<1>2. fresh' \in [Nets -> Nat]
  BY Parts
<1> QED
  BY <1>1, <1>2, EmptyFresh

LEMMA TrackFresh ==
  ASSUME EngineAssumption, IInv, FreshOK, NEW f \in Filters, NEW b, Track(f, b)
  PROVE  FreshOK'
<1>1. Net(f) \in Nets /\ phase = "up" /\ phase' = "up"
  BY TrackTyped DEF Track, Turn, Serving
<1>2. fresh \in [Nets -> 0..Enough] /\ hits \in [Keys -> Seq(Nat)] /\ Enough \in Nat /\ t \in Nat
  BY Parts DEF TrackerOK, EngineAssumption, ClockOK
<1>3. fresh' = [fresh EXCEPT ![Net(f)] = Least(@ + 1, Enough)]
  BY DEF Track
<1>4. \A k \in Keys : \/ hits'[k] = hits[k] \/ hits'[k] = <<>>
                      \/ k[2] = Net(f) /\ hits'[k] = Append(hits[k], t)
  <2>1. PICK lost : SW!Hit(<<f, Net(f)>>, lost)
    BY DEF Track
  <2> DEFINE h == <<f, Net(f)>>
             full == SW!InWindow(Append(hits[h], t), SW!Monus(t, FindTime[f])) >= MaxRetry[f]
  <2>2. h \in Keys /\ h[1] = f /\ h[2] = Net(f)
    BY <1>1 DEF Keys
  <2>3. hits' = [x \in Keys |-> IF x = h THEN IF full THEN <<>> ELSE Append(hits[h], t)
                                ELSE IF x \in lost THEN <<>> ELSE hits[x]]
    BY <2>1, <2>2 DEF SW!Hit, Keys
  <2> HIDE DEF h, full
  <2> QED
    BY <2>2, <2>3
<1>5. ASSUME NEW k \in Keys
      PROVE  Len(hits'[k]) <= fresh'[k[2]] \/ fresh'[k[2]] >= Enough
  <2>1. k[2] \in Nets /\ hits[k] \in Seq(Nat)
    BY <1>2 DEF Keys
  <2>2. fresh[k[2]] \in 0..Enough
    BY <1>2, <2>1
  <2>3. Len(hits[k]) <= fresh[k[2]] \/ fresh[k[2]] >= Enough
    BY DEF FreshOK
  <2>4. /\ k[2] = Net(f) => fresh'[k[2]] = Least(fresh[k[2]] + 1, Enough)
        /\ k[2] # Net(f) => fresh'[k[2]] = fresh[k[2]]
    BY <1>2, <1>3, <2>1
  <2>5. /\ Len(hits[k]) \in Nat /\ Len(<<>>) = 0
        /\ Len(Append(hits[k], t)) = Len(hits[k]) + 1
    BY <1>2, <2>1
  <2>6. \/ Len(hits'[k]) = Len(hits[k]) \/ Len(hits'[k]) = 0
        \/ k[2] = Net(f) /\ Len(hits'[k]) = Len(hits[k]) + 1
    BY <1>4, <2>5
  <2>7. Len(hits'[k]) \in Nat
    BY <2>5, <2>6
  <2>8. CASE k[2] # Net(f)
    BY <1>2, <2>2, <2>3, <2>4, <2>5, <2>6, <2>8
  <2>9. CASE k[2] = Net(f)
    <3>1. fresh'[k[2]] = IF fresh[k[2]] + 1 <= Enough THEN fresh[k[2]] + 1 ELSE Enough
      BY <2>4, <2>9 DEF Least
    <3>2. Len(hits'[k]) <= Len(hits[k]) + 1
      BY <2>5, <2>6
    <3>3. fresh[k[2]] \in Nat /\ Enough \in Nat /\ Len(hits[k]) \in Nat
      BY <1>2, <2>2, <2>5
    <3>4. CASE fresh[k[2]] + 1 <= Enough
      <4>1. fresh'[k[2]] = fresh[k[2]] + 1
        BY <3>1, <3>4
      <4>2. Len(hits[k]) <= fresh[k[2]]
        BY <2>3, <3>3, <3>4
      <4>3. Len(hits'[k]) <= fresh[k[2]] + 1
        <5> DEFINE old == Len(hits[k])
                   new == Len(hits'[k])
                   counted == fresh[k[2]]
        <5>1. old \in Nat /\ new \in Nat /\ counted \in Nat /\ new <= old + 1 /\ old <= counted
          BY <2>7, <3>2, <3>3, <4>2
        <5> HIDE DEF old, new, counted
        <5>2. new <= counted + 1
          BY <5>1
        <5> QED
          BY <5>2 DEF new, counted
      <4> QED
        BY <4>1, <4>3
    <3>5. CASE ~(fresh[k[2]] + 1 <= Enough)
      <4>1. fresh'[k[2]] = Enough
        BY <3>1, <3>5
      <4> QED
        BY <3>3, <4>1
    <3> QED
      BY <3>4, <3>5
  <2> QED
    BY <2>8, <2>9
<1> QED
  BY <1>1, <1>5 DEF FreshOK

LEMMA UnbanFresh ==
  ASSUME IInv, FreshOK, NEW n \in Nets, Unban(n)
  PROVE  FreshOK'
<1>1. fresh \in [Nets -> 0..Enough] /\ hits \in [Keys -> Seq(Nat)]
  BY Parts DEF TrackerOK
<1>2. /\ \A k \in Keys : hits'[k] = IF k[2] = n THEN <<>> ELSE hits[k]
      /\ fresh' = [fresh EXCEPT ![n] = 0] /\ phase' = phase
  BY DEF Unban, Request, SW!Drop, Forgotten, Keys
<1>3. ASSUME NEW k \in Keys
      PROVE  Len(hits'[k]) <= fresh'[k[2]] \/ fresh'[k[2]] >= Enough
  <2>1. k[2] \in Nets /\ Len(<<>>) = 0
    BY DEF Keys
  <2> QED
    BY <1>1, <1>2, <2>1 DEF FreshOK
<1>4. ASSUME phase' # "up", NEW k \in Keys
      PROVE  hits'[k] = <<>>
  BY <1>2, <1>4 DEF FreshOK
<1> QED
  BY <1>3, <1>4 DEF FreshOK

LEMMA FreshStep ==
  ASSUME EngineAssumption, IInv, FreshOK, [Next]_vars
  PROVE  FreshOK'
<1>1. CASE \/ Wake \/ \E line \in Lines : ReceiveLine(line)
           \/ QueueEmpty \/ EndLine \/ EndLineTick \/ Tick
           \/ \E f \in Filters : IgnoreAllowed(f) \/ AlreadyBanned(f)
  BY <1>1, SteadyFresh DEF Wake, ReceiveLine, QueueEmpty, EndLine, EndLineTick, Tick,
     IgnoreAllowed, AlreadyBanned, Read, Housekeep, SW!Sweep
<1>2. CASE \E f \in Filters : Below(f) \/ AutoBan(f) \/ AutoBanFails(f)
  BY <1>2, TrackFresh DEF Below, AutoBan, AutoBanFails
<1>3. CASE StartFails \/ Stop \/ Crash \/ Reboot \/ \E f \in Filters : CrashInBan(f)
  BY <1>3, HaltFresh DEF StartFails, Stop, Crash, Reboot, CrashInBan
<1>4. CASE \E list \in AllowLists : Start(list)
  <2>1. /\ hits' = hits /\ phase # "up" /\ UNCHANGED fresh
    BY <1>4 DEF Start, TrackerIdle
  <2>2. fresh' \in [Nets -> Nat]
    BY <2>1, Parts
  <2> QED
    BY <2>1, <2>2, EmptyFresh DEF FreshOK
<1>5. CASE Started
  <2>1. hits' = hits /\ phase # "up" /\ fresh' = [n \in Nets |-> 0]
    BY <1>5 DEF Started, TrackerIdle
  <2>2. fresh' \in [Nets -> Nat]
    BY <2>1
  <2> QED
    BY <2>1, <2>2, EmptyFresh DEF FreshOK
<1>6. CASE \/ \E n \in Nets, ttl \in Ttls : ManualBan(n, ttl)
           \/ \E n \in Nets : ManualBanFails(n)
           \/ List \/ Status \/ OnlyAnswer
  BY <1>6, SteadyFresh DEF ManualBan, ManualBanFails, List, Status, OnlyAnswer, Request
<1>7. CASE \E n \in Nets : Unban(n)
  BY <1>7, UnbanFresh
<1>8. CASE Clock \/ UNCHANGED vars \/ \E n \in Nets : ExternalRemove(n)
  <2>1. hits' = hits /\ fresh' = fresh /\ phase' = phase
    BY <1>8 DEF Clock, vars, ExternalRemove, tracker
  <2> QED
    BY <2>1 DEF FreshOK
<1> QED
  BY <1>1, <1>2, <1>3, <1>4, <1>5, <1>6, <1>7, <1>8
     DEF Next, Lifecycle, HandleLine, HandleRequest

LEMMA InWindowBounded ==
  ASSUME NEW s \in Seq(Nat), NEW since
  PROVE  SW!InWindow(s, since) <= Len(s)
<1> DEFINE P == {j \in 1..Len(s) : s[j] >= since}
<1>1. Len(s) \in Nat /\ P \subseteq 1..Len(s) /\ 1 \in Int /\ Len(s) \in Int
  OBVIOUS
<1> HIDE DEF P
<1>2. IsFiniteSet(1..Len(s)) /\ Cardinality(1..Len(s)) = Len(s)
  <2>1. \A m \in Int : /\ IsFiniteSet(1..m)
                       /\ Cardinality(1..m) = IF 1 > m THEN 0 ELSE m - 1 + 1
    BY FS_Interval
  <2> QED
    BY <1>1, <2>1
<1>3. Cardinality(P) <= Len(s)
  BY <1>1, <1>2, FS_Subset
<1> QED
  BY <1>3 DEF SW!InWindow, P, SW!Cardinality, Cardinality

\* A network is banned only for hits that came since it was last unbanned or the daemon
\* started, for any filters, evictions, sweeps, failures and requests in between.
THEOREM Afresh == Spec => StartsAfresh
<1>1. Init => IInv /\ FreshOK
  <2> SUFFICES ASSUME Init PROVE IInv /\ FreshOK
    OBVIOUS
  <2>1. IInv
    BY EngineAssumption, InitIInv
  <2>2. \A k \in Keys : hits[k] = <<>> /\ Len(<<>>) = 0 /\ fresh[k[2]] = 0
    BY DEF Init, Keys
  <2>3. FreshOK
    BY <2>2 DEF FreshOK
  <2> QED
    BY <2>1, <2>3
<1>2. IInv /\ FreshOK /\ [Next]_vars => IInv' /\ FreshOK'
  BY EngineAssumption, NextKeeps, FreshStep
<1>3. IInv /\ FreshOK /\ [Next]_vars =>
        [\A f \in Filters : AutoBan(f) => fresh'[Net(f)] >= MaxRetry[f]]_vars
  <2> SUFFICES ASSUME IInv, FreshOK, NEW f \in Filters, AutoBan(f)
               PROVE  fresh'[Net(f)] >= MaxRetry[f]
    OBVIOUS
  <2> DEFINE k == <<f, Net(f)>>
             s == Append(hits[k], t)
             c == SW!InWindow(s, SW!Monus(t, FindTime[f]))
  <2>1. Net(f) \in Nets
    BY EngineAssumption, TrackTyped DEF AutoBan
  <2>2. /\ k \in Keys /\ hits[k] \in Seq(Nat) /\ t \in Nat /\ Enough \in Nat
        /\ fresh \in [Nets -> 0..Enough]
        /\ MaxRetry[f] \in Nat /\ MaxRetry[f] <= Enough
    BY <2>1, EngineAssumption, Parts DEF Keys, TrackerOK, ClockOK, EngineAssumption
  <2>3. s \in Seq(Nat) /\ Len(s) = Len(hits[k]) + 1 /\ Len(hits[k]) \in Nat
    BY <2>2
  <2>4. c <= Len(s) /\ c \in Nat
    <3> HIDE DEF s
    <3> QED
      BY <2>3, InWindowBounded, InWindowNat
  <2>5. c >= MaxRetry[f]
    <3>1. PICK lost : SW!Hit(k, lost)
      BY DEF AutoBan, Track
    <3>2. verdict' = IF c >= MaxRetry[f] THEN [ban |-> TRUE, hits |-> MaxRetry[f]]
                     ELSE [ban |-> FALSE, hits |-> c]
      BY <2>2, <3>1 DEF SW!Hit, Keys
    <3>3. verdict'.ban = TRUE
      BY DEF AutoBan, Track
    <3> HIDE DEF c
    <3> QED
      BY <3>2, <3>3
  <2>6. Len(hits[k]) <= fresh[Net(f)] \/ fresh[Net(f)] >= Enough
    BY <2>2 DEF FreshOK
  <2>7. fresh'[Net(f)] = Least(fresh[Net(f)] + 1, Enough)
    BY <2>1, <2>2 DEF AutoBan, Track
  <2> HIDE DEF c, s, k
  <2>8. MaxRetry[f] <= Len(hits[k]) + 1
    BY <2>2, <2>3, <2>4, <2>5
  <2>9. fresh[Net(f)] \in 0..Enough
    BY <2>1, <2>2
  <2> QED
    BY <2>2, <2>3, <2>6, <2>7, <2>8, <2>9 DEF Least
<1> QED
  BY <1>1, <1>2, <1>3, PTL DEF Spec, StartsAfresh

-----------------------------------------------------------------------------
(* The history.  It has room for one more network whenever it takes one in. *)

LEMMA TrimBounded ==
  ASSUME EngineAssumption, NEW h, IsFiniteSet(DOMAIN h), NEW g \in TrimHistory(h)
  PROVE  /\ IsFiniteSet(DOMAIN g)
         /\ Cardinality(DOMAIN g) < MaxTracked
<1> DEFINE d == MaxTracked \div TrimDivisor
           batch == IF MaxTracked < TrimDivisor THEN 1 ELSE d
           keep == MaxTracked - batch
           count == Cardinality(DOMAIN h)
<1>1. /\ MaxTracked \in Nat \ {0} /\ TrimDivisor \in Nat \ {0} /\ count \in Nat
  BY FS_CardinalityType DEF EngineAssumption
<1>2. batch \in Nat \ {0}
  <2>1. d \in Nat
    BY <1>1
  <2>2. MaxTracked >= TrimDivisor => d >= 1
    <3>1. /\ d \in Int /\ MaxTracked < TrimDivisor * (d + 1)
      BY <1>1
    <3>2. ASSUME MaxTracked >= TrimDivisor, d = 0
          PROVE  FALSE
      <4>1. MaxTracked < TrimDivisor * (0 + 1)
        BY <3>1, <3>2
      <4> QED
        BY <1>1, <3>2, <4>1
    <3> HIDE DEF d
    <3> QED
      BY <2>1, <3>2
  <2> HIDE DEF d
  <2> QED
    BY <1>1, <2>1, <2>2
<1>3. TrimHistory(h) =
        IF count < MaxTracked THEN {h}
        ELSE {Without(h, D) : D \in {D \in SUBSET DOMAIN h :
                /\ Cardinality(D) = count - keep
                /\ \A x \in D : \A n \in DOMAIN h \ D : h[x].last <= h[n].last}}
  BY DEF TrimHistory
<1> HIDE DEF batch
<1>4. CASE count < MaxTracked
  BY <1>3, <1>4
<1>5. CASE ~(count < MaxTracked)
  <2>1. PICK D \in SUBSET DOMAIN h : Cardinality(D) = count - keep /\ g = Without(h, D)
    BY <1>3, <1>5
  <2>2. DOMAIN g = DOMAIN h \ D /\ D \cap DOMAIN h = D /\ DOMAIN h \cap D = D
    BY <2>1 DEF Without
  <2>3. /\ IsFiniteSet(DOMAIN h \ D)
        /\ Cardinality(DOMAIN h \ D) = Cardinality(DOMAIN h) - Cardinality(DOMAIN h \cap D)
    BY FS_Difference
  <2>4. Cardinality(DOMAIN g) = count - (count - keep)
    BY <2>1, <2>2, <2>3
  <2> HIDE DEF count
  <2> QED
    BY <1>1, <1>2, <2>2, <2>3, <2>4
<1> QED
  BY <1>4, <1>5

LEMMA PutDomain == ASSUME NEW h, NEW n, NEW v PROVE DOMAIN Put(h, n, v) = DOMAIN h \cup {n}
BY DEF Put

BoundOK ==
  /\ IsFiniteSet(DOMAIN history)
  /\ HistoryBounded

LEMMA RecordBound ==
  ASSUME EngineAssumption, IsFiniteSet(DOMAIN history), NEW n, NEW g \in Recorded(n)
  PROVE  /\ IsFiniteSet(DOMAIN g)
         /\ Cardinality(DOMAIN history) <= MaxTracked => Cardinality(DOMAIN g) <= MaxTracked
<1>1. PICK h \in IF n \in DOMAIN history THEN {history} ELSE TrimHistory(history) :
        \E v : g = Put(h, n, v)
  BY DEF Recorded
<1>2. DOMAIN g = DOMAIN h \cup {n}
  BY <1>1, PutDomain
<1>3. CASE n \in DOMAIN history
  <2>1. DOMAIN g = DOMAIN history
    BY <1>1, <1>2, <1>3
  <2> QED
    BY <2>1
<1>4. CASE n \notin DOMAIN history
  <2>1. IsFiniteSet(DOMAIN h) /\ Cardinality(DOMAIN h) < MaxTracked
    BY <1>1, <1>4, TrimBounded
  <2>2. /\ IsFiniteSet(DOMAIN h \cup {n})
        /\ Cardinality(DOMAIN h \cup {n}) =
             IF n \in DOMAIN h THEN Cardinality(DOMAIN h) ELSE Cardinality(DOMAIN h) + 1
    BY <2>1, FS_AddElement
  <2>3. Cardinality(DOMAIN h) \in Nat /\ MaxTracked \in Nat
    BY <2>1, FS_CardinalityType DEF EngineAssumption
  <2> QED
    BY <1>2, <2>1, <2>2, <2>3
<1> QED
  BY <1>3, <1>4

\* What start finds in the log is of finitely many networks.
LEMMA RebuiltFinite ==
  ASSUME LogOK
  PROVE  IsFiniteSet(DOMAIN Rebuilt)
<1> DEFINE Logged == {log[i].net : i \in 1..Len(log)}
<1>1. Len(log) \in Nat
  BY DEF LogOK
<1>2. IsFiniteSet(1..Len(log))
  BY <1>1, FS_Interval
<1>3. IsFiniteSet(Logged)
  <2> DEFINE net == [i \in 1..Len(log) |-> log[i].net]
  <2>1. Logged = {net[i] : i \in DOMAIN net} /\ DOMAIN net = 1..Len(log)
    OBVIOUS
  <2>2. net \in Surjection(1..Len(log), Logged)
    BY DEF Surjection
  <2> QED
    BY <1>2, <2>2, FS_Surjection
<1>4. DOMAIN Rebuilt \subseteq Logged
  BY DEF Rebuilt
<1> QED
  BY <1>3, <1>4, FS_Subset

LEMMA BoundStep ==
  ASSUME EngineAssumption, IInv, BoundOK, [Next]_vars
  PROVE  BoundOK'
<1>1. CASE history' = history /\ (phase' # "up" \/ (lastSweep' = lastSweep /\ phase' = phase))
  BY <1>1 DEF BoundOK, HistoryBounded
<1>2. CASE \E f \in Filters : AutoBan(f)
  <2>1. PICK f \in Filters : AutoBan(f)
    BY <1>2
  <2>2. /\ history' \in Recorded(Net(f)) /\ lastSweep' = lastSweep /\ phase' = phase
        /\ phase = "up"
    BY <2>1 DEF AutoBan, Track, Turn, Serving
  <2> QED
    BY <2>2, RecordBound DEF BoundOK, HistoryBounded
<1>3. CASE Tick \/ EndLineTick
  <2>1. PICK S : history' \in TrimHistory(Without(history, S))
    BY <1>3 DEF Tick, EndLineTick, Housekeep
  <2>2. IsFiniteSet(DOMAIN Without(history, S))
    <3>1. DOMAIN Without(history, S) \subseteq DOMAIN history
      BY DEF Without
    <3> QED
      BY <3>1, FS_Subset DEF BoundOK
  <2>3. IsFiniteSet(DOMAIN history') /\ Cardinality(DOMAIN history') < MaxTracked
    BY <2>1, <2>2, TrimBounded
  <2>4. Cardinality(DOMAIN history') \in Nat /\ MaxTracked \in Nat
    BY <2>3, FS_CardinalityType DEF EngineAssumption
  <2> QED
    BY <2>3, <2>4 DEF BoundOK, HistoryBounded
<1>4. CASE Started
  BY <1>4, Parts, RebuiltFinite DEF Started, BoundOK, HistoryBounded
<1>5. CASE Lifecycle /\ ~Started
  <2>1. history' = history /\ phase' # "up"
    BY <1>5 DEF Lifecycle, Start, StartFails, Stop, Crash, Reboot, Halt, memory
  <2> QED
    BY <1>1, <2>1
<1>6. CASE HandleLine /\ ~(\E f \in Filters : AutoBan(f)) /\ ~EndLineTick
  <2>1. history' = history /\ (phase' # "up" \/ (lastSweep' = lastSweep /\ phase' = phase))
    BY <1>6 DEF HandleLine, ReceiveLine, QueueEmpty, IgnoreAllowed, AlreadyBanned, Below, Track,
       AutoBanFails, CrashInBan, EndLine, Halt, Read, memory
  <2> QED
    BY <1>1, <2>1
<1>7. CASE HandleRequest
  <2>1. history' = history /\ lastSweep' = lastSweep /\ phase' = phase
    BY <1>7 DEF HandleRequest, ManualBan, ManualBanFails, Unban, List, Status, OnlyAnswer, Request
  <2> QED
    BY <1>1, <2>1
<1>8. CASE Wake \/ Clock \/ UNCHANGED vars \/ \E n \in Nets : ExternalRemove(n)
  <2>1. history' = history /\ lastSweep' = lastSweep /\ phase' = phase
    BY <1>8 DEF Wake, Clock, ExternalRemove, vars, Read, memory
  <2> QED
    BY <1>1, <2>1
<1> QED
  BY <1>2, <1>3, <1>4, <1>5, <1>6, <1>7, <1>8 DEF Next, HandleLine

\* From the first tick on the history never holds more than max_tracked networks, however
\* many are banned.
THEOREM Bounded == Spec => []HistoryBounded
<1>1. Init => IInv /\ BoundOK
  <2> SUFFICES ASSUME Init PROVE IInv /\ BoundOK
    OBVIOUS
  <2>1. DOMAIN history = {} /\ phase = "down"
    BY DEF Init, EmptyTable
  <2> QED
    BY <2>1, EngineAssumption, InitIInv, FS_EmptySet DEF BoundOK, HistoryBounded
<1>2. IInv /\ BoundOK /\ [Next]_vars => IInv' /\ BoundOK'
  BY EngineAssumption, NextKeeps, BoundStep
<1>3. BoundOK => HistoryBounded
  BY DEF BoundOK
<1> QED
  BY <1>1, <1>2, <1>3, PTL DEF Spec

-----------------------------------------------------------------------------
(* While the daemon runs the history counts every logged ban inside the     *)
(* memory, if it never fills; a start counts them anew.                     *)

Roomy == IsFiniteSet(Nets) /\ Cardinality(Nets) < MaxTracked

Recent(n) == {i \in 1..Len(log) : log[i].net = n /\ t - log[i].ts <= Memory}

\* The log goes up to now, in the order of time.
Sorted ==
  /\ \A i \in 1..Len(log) : log[i].ts <= t
  /\ \A i, j \in 1..Len(log) : i <= j => log[i].ts <= log[j].ts

Counted(n) ==
  Recent(n) # {} =>
    /\ n \in DOMAIN history
    /\ Cardinality(Recent(n)) <= history[n].count
    /\ \A i \in Recent(n) : log[i].ts <= history[n].last

CountOK ==
  /\ Sorted
  /\ Roomy /\ phase = "up" => \A n \in Nets : Counted(n)

LEMMA LogTimes ==
  ASSUME LogOK
  PROVE  /\ Len(log) \in Nat
         /\ \A i \in 1..Len(log) : log[i] \in Entry /\ log[i].ts \in Nat
<1>1. Len(log) \in Nat /\ \A i \in 1..Len(log) : log[i] \in Entry
  BY DEF LogOK
<1> QED
  BY <1>1 DEF Entry

LEMMA RecentFinite ==
  ASSUME LogOK, NEW n
  PROVE  IsFiniteSet(Recent(n)) /\ Cardinality(Recent(n)) \in Nat
<1>1. Recent(n) \subseteq 1..Len(log) /\ IsFiniteSet(1..Len(log))
  BY LogTimes, FS_Interval DEF Recent
<1> QED
  BY <1>1, FS_Subset, FS_CardinalityType

LEMMA TrimRoomy ==
  ASSUME EngineAssumption, Roomy, NEW h, DOMAIN h \subseteq Nets, NEW g \in TrimHistory(h)
  PROVE  g = h
<1>1. Cardinality(DOMAIN h) <= Cardinality(Nets)
  BY FS_Subset DEF Roomy
<1>2. IsFiniteSet(DOMAIN h)
  BY FS_Subset DEF Roomy
<1>3. Cardinality(DOMAIN h) \in Nat /\ Cardinality(Nets) \in Nat /\ MaxTracked \in Nat
  BY <1>2, FS_CardinalityType DEF Roomy, EngineAssumption
<1>4. Cardinality(DOMAIN h) < MaxTracked
  BY <1>1, <1>3 DEF Roomy
<1>5. TrimHistory(h) = {h}
  BY <1>4 DEF TrimHistory
<1> QED
  BY <1>5

\* Time goes on, and bans leave the memory.
LEMMA LaterCounted ==
  ASSUME IInv, CountOK, log' = log, history' = history, t' \in Nat, t' >= t,
         phase' # "up" \/ phase' = phase
  PROVE  CountOK'
<1>1. /\ LogOK /\ t \in Nat /\ Memory \in Nat /\ Len(log) \in Nat
      /\ \A i \in 1..Len(log) : log[i].ts \in Nat
  BY EngineAssumption, Parts, LogTimes DEF ClockOK, EngineAssumption
<1>2. Sorted'
  BY <1>1 DEF CountOK, Sorted
<1>3. ASSUME Roomy, phase' = "up", NEW n \in Nets
      PROVE  Counted(n)'
  <2>1. Recent(n)' \subseteq Recent(n)
    BY <1>1 DEF Recent
  <2>2. Counted(n)
    BY <1>3 DEF CountOK
  <2>3. Cardinality(Recent(n)') <= Cardinality(Recent(n)) /\ Cardinality(Recent(n)') \in Nat
        /\ Cardinality(Recent(n)) \in Nat
    BY <1>1, <2>1, RecentFinite, FS_Subset, FS_CardinalityType
  <2>4. n \in DOMAIN history => history[n].count \in Nat
    BY Parts DEF HistoryOK
  <2> HIDE DEF Recent
  <2> QED
    BY <2>1, <2>2, <2>3, <2>4 DEF Counted
<1> QED
  BY <1>2, <1>3 DEF CountOK, Roomy

\* Housekeeping drops of the history only what has left the memory.
LEMMA TickCounted ==
  ASSUME EngineAssumption, IInv, CountOK, Housekeep
  PROVE  CountOK'
<1>1. /\ log' = log /\ t' = t /\ phase' = phase
      /\ history' \in TrimHistory(
           Without(history, {n \in DOMAIN history : SW!Monus(t, history[n].last) > Memory}))
  BY DEF Housekeep, SW!Sweep, SW!Drop, events
<1>2. /\ LogOK /\ HistoryOK(history) /\ t \in Nat /\ Memory \in Nat
      /\ \A i \in 1..Len(log) : log[i].ts \in Nat
  BY Parts, LogTimes DEF ClockOK, EngineAssumption
<1>3. Sorted'
  BY <1>1 DEF CountOK, Sorted
<1>4. ASSUME Roomy, phase' = "up", NEW n \in Nets
      PROVE  Counted(n)'
  <2> DEFINE old == {m \in DOMAIN history : SW!Monus(t, history[m].last) > Memory}
  <2>1. history' = Without(history, old)
    <3>1. DOMAIN Without(history, old) \subseteq Nets
      BY <1>2 DEF Without, HistoryOK
    <3> HIDE DEF old
    <3>2. history' \in TrimHistory(Without(history, old))
      BY <1>1 DEF old
    <3> QED
      BY <1>4, <3>1, <3>2, TrimRoomy
  <2>2. Recent(n)' = Recent(n) /\ Counted(n)
    BY <1>1, <1>4 DEF Recent, CountOK
  <2>3. ASSUME Recent(n) # {}
        PROVE  n \in DOMAIN history' /\ history'[n] = history[n]
    <3>1. PICK i \in Recent(n) : TRUE
      BY <2>3
    <3>2. /\ n \in DOMAIN history /\ log[i].ts <= history[n].last
          /\ t - log[i].ts <= Memory /\ log[i].ts \in Nat
      BY <1>2, <2>2, <2>3, <3>1 DEF Counted, Recent
    <3>3. history[n].last \in Nat
      BY <1>2, <3>2 DEF HistoryOK
    <3>4. ~(SW!Monus(t, history[n].last) > Memory)
      BY <1>2, <3>2, <3>3 DEF SW!Monus
    <3> QED
      BY <2>1, <3>2, <3>4 DEF Without
  <2> QED
    BY <1>1, <2>2, <2>3 DEF Counted
<1> QED
  BY <1>1, <1>3, <1>4 DEF CountOK, Roomy

\* One element more adds at most one.
LEMMA OneMore ==
  ASSUME NEW S, NEW x, IsFiniteSet(S)
  PROVE  IsFiniteSet(S \cup {x}) /\ Cardinality(S \cup {x}) <= Cardinality(S) + 1
<1>1. Cardinality(S) \in Nat
  BY FS_CardinalityType
<1>2. /\ IsFiniteSet(S \cup {x})
      /\ Cardinality(S \cup {x}) = IF x \in S THEN Cardinality(S) ELSE Cardinality(S) + 1
  BY FS_AddElement
<1> QED
  BY <1>1, <1>2

\* One more ban of a network, logged or not.
LEMMA BanCounted ==
  ASSUME EngineAssumption, IInv, CountOK, NEW f \in Filters, AutoBan(f)
  PROVE  CountOK'
<1> DEFINE b == Net(f)
           e == [net |-> b, filter |-> f, ts |-> t, ttl |-> EscalatedTtl(BanTime[f], b),
                 escalation |-> Escalation(b)]
<1>1. b \in Nets /\ t' = t /\ phase' = phase /\ phase = "up"
  BY TrackTyped DEF AutoBan, Track, Turn, Serving
<1>2. log' = log \/ log' = Append(log, e)
  BY DEF AutoBan, AppendBan
<1>3. history' \in Recorded(b)
  BY DEF AutoBan
<1>4. e.net = b /\ e.ts = t
  OBVIOUS
<1> HIDE DEF b, e
<1>5. /\ LogOK /\ HistoryOK(history) /\ t \in Nat /\ Memory \in Nat /\ Len(log) \in Nat
      /\ \A i \in 1..Len(log) : log[i].ts \in Nat
  BY Parts, LogTimes DEF ClockOK, EngineAssumption
<1>6. /\ Len(log') = Len(log) \/ Len(log') = Len(log) + 1
      /\ \A i \in 1..Len(log) : log'[i] = log[i]
      /\ Len(log') = Len(log) + 1 => log'[Len(log) + 1] = e
      /\ Len(log') = Len(log) => log' = log
  <2>1. CASE log' = log
    BY <1>5, <2>1
  <2>2. CASE log' = Append(log, e)
    <3>1. \E R : log \in Seq(R)
      BY <1>5 DEF LogOK
    <3> QED
      BY <1>5, <2>2, <3>1
  <2> QED
    BY <1>2, <2>1, <2>2
<1>7. \A i \in 1..Len(log') : i \in 1..Len(log) \/ (i = Len(log) + 1 /\ Len(log') = Len(log) + 1)
  BY <1>5, <1>6
<1>8. Sorted'
  <2>1. ASSUME NEW i \in 1..Len(log')
        PROVE  log'[i].ts <= t' /\ log'[i].ts \in Nat
    <3>1. CASE i \in 1..Len(log)
      BY <1>1, <1>5, <1>6, <3>1 DEF CountOK, Sorted
    <3>2. CASE i = Len(log) + 1 /\ Len(log') = Len(log) + 1
      <4>1. log'[i].ts = t
        BY <1>4, <1>6, <3>2
      <4> QED
        BY <1>1, <1>5, <4>1
    <3> QED
      BY <1>7, <3>1, <3>2
  <2>2. ASSUME NEW i \in 1..Len(log'), NEW j \in 1..Len(log'), i <= j
        PROVE  log'[i].ts <= log'[j].ts
    <3>1. CASE j \in 1..Len(log)
      <4>1. i \in 1..Len(log)
        BY <1>5, <2>2, <3>1
      <4> QED
        BY <1>6, <2>2, <3>1, <4>1 DEF CountOK, Sorted
    <3>2. CASE j = Len(log) + 1 /\ Len(log') = Len(log) + 1
      BY <1>1, <1>4, <1>6, <2>1, <3>2
    <3> QED
      BY <1>7, <3>1, <3>2
  <2> QED
    BY <2>1, <2>2 DEF Sorted
<1>9. ASSUME Roomy, NEW n \in Nets
      PROVE  Counted(n)'
  <2>0. Counted(n) /\ IsFiniteSet(Recent(n)) /\ Cardinality(Recent(n)) \in Nat
    BY <1>1, <1>5, <1>9, RecentFinite DEF CountOK
  <2>1. PICK h \in IF b \in DOMAIN history THEN {history} ELSE TrimHistory(history) :
          history' = Put(h, b, [count |-> IF b \in DOMAIN h THEN h[b].count + 1 ELSE 1, last |-> t])
    BY <1>3 DEF Recorded
  <2>2. h = history
    BY <1>5, <1>9, <2>1, TrimRoomy DEF HistoryOK
  <2>3. /\ DOMAIN history' = DOMAIN history \cup {b}
        /\ history'[b] = [count |-> IF b \in DOMAIN history THEN history[b].count + 1 ELSE 1,
                          last |-> t]
        /\ \A m \in DOMAIN history : m # b => history'[m] = history[m]
    BY <2>1, <2>2 DEF Put
  <2>4. CASE n # b
    <3>1. Recent(n)' = Recent(n)
      BY <1>1, <1>4, <1>5, <1>6, <1>7, <2>4 DEF Recent
    <3>2. \A i \in Recent(n) : log'[i] = log[i]
      BY <1>6 DEF Recent
    <3> QED
      BY <2>0, <2>3, <2>4, <3>1, <3>2 DEF Counted
  <2>5. CASE n = b
    <3>1. Recent(n)' \subseteq Recent(n) \cup {Len(log) + 1}
      BY <1>1, <1>6, <1>7 DEF Recent
    <3>2. /\ IsFiniteSet(Recent(n) \cup {Len(log) + 1})
          /\ Cardinality(Recent(n) \cup {Len(log) + 1}) <= Cardinality(Recent(n)) + 1
      BY <2>0, OneMore
    <3>3. /\ Cardinality(Recent(n)') <= Cardinality(Recent(n) \cup {Len(log) + 1})
          /\ Cardinality(Recent(n)') \in Nat
          /\ Cardinality(Recent(n) \cup {Len(log) + 1}) \in Nat
      BY <3>1, <3>2, FS_Subset, FS_CardinalityType
    <3>4. Cardinality(Recent(n)') <= Cardinality(Recent(n)) + 1
      BY <2>0, <3>2, <3>3
    <3>5. b \in DOMAIN history => history[b].count \in Nat
      BY <1>5 DEF HistoryOK
    <3>6. b \notin DOMAIN history => Cardinality(Recent(n)) = 0
      BY <2>0, <2>5, FS_EmptySet DEF Counted
    <3>7. b \in DOMAIN history => Cardinality(Recent(n)) <= history[b].count
      <4>1. CASE Recent(n) = {}
        BY <3>5, <4>1, FS_EmptySet
      <4> QED
        BY <2>0, <2>5, <4>1 DEF Counted
    <3>8. Cardinality(Recent(n)') <= history'[b].count
      BY <2>0, <2>3, <3>3, <3>4, <3>5, <3>6, <3>7
    <3>9. \A i \in Recent(n)' : log'[i].ts <= history'[n].last
      BY <1>1, <1>8, <2>3, <2>5 DEF Recent, Sorted
    <3> QED
      BY <2>3, <2>5, <3>8, <3>9 DEF Counted
  <2> QED
    BY <2>4, <2>5
<1> QED
  BY <1>8, <1>9 DEF CountOK, Roomy

\* A start counts what is in the log.
LEMMA StartedCounted ==
  ASSUME EngineAssumption, IInv, CountOK, Started
  PROVE  CountOK'
<1>0. \A S \in SUBSET (1..Len(log)) : S # {} => \E i \in S : \A j \in S : j <= i
  <2>1. Len(log) \in Nat
    BY Parts DEF LogOK
  <2> QED
    BY <2>1, LastOf
<1>1. log' = log /\ t' = t /\ history' = Rebuilt
  BY DEF Started
<1>2. /\ LogOK /\ t \in Nat /\ Memory \in Nat /\ Len(log) \in Nat
      /\ \A i \in 1..Len(log) : log[i].ts \in Nat
  BY Parts, LogTimes DEF ClockOK, EngineAssumption
<1>3. Sorted'
  BY <1>1 DEF CountOK, Sorted
<1>4. ASSUME NEW n \in Nets
      PROVE  Counted(n)'
  <2> DEFINE recent(m) == {i \in 1..Len(log) : log[i].net = m /\ log[i].ts >= SW!Monus(t, Memory)}
             last(m) == CHOOSE i \in recent(m) : \A j \in recent(m) : j <= i
  <2>1. Rebuilt = [m \in {m \in Nets : recent(m) # {}} |->
                     [count |-> Cardinality(recent(m)), last |-> log[last(m)].ts]]
    BY DEF Rebuilt
  <2>2. recent(n) = Recent(n)
    BY <1>2 DEF Recent, SW!Monus
  <2>3. ASSUME Recent(n) # {}
        PROVE  \A i \in Recent(n) : log[i].ts <= log[last(n)].ts
    <3> DEFINE S == recent(n)
    <3>1. S \in SUBSET (1..Len(log)) /\ S # {}
      BY <2>2, <2>3
    <3>2. \E i \in S : \A j \in S : j <= i
      BY <1>0, <3>1
    <3>3. last(n) \in S /\ \A j \in S : j <= last(n)
      BY <3>2
    <3> HIDE DEF last
    <3> QED
      BY <2>2, <3>1, <3>3 DEF CountOK, Sorted
  <2>4. Recent(n)' = Recent(n)
    BY <1>1 DEF Recent
  <2> HIDE DEF recent, last
  <2>5. Recent(n) # {} => n \in DOMAIN Rebuilt /\ Rebuilt[n].count = Cardinality(Recent(n))
                                              /\ Rebuilt[n].last = log[last(n)].ts
    BY <2>1, <2>2
  <2>6. Cardinality(Recent(n)) \in Nat
    BY <1>2, RecentFinite
  <2> QED
    BY <1>1, <2>3, <2>4, <2>5, <2>6 DEF Counted
<1> QED
  BY <1>3, <1>4 DEF CountOK, Roomy

LEMMA CountStep ==
  ASSUME EngineAssumption, IInv, CountOK, [Next]_vars
  PROVE  CountOK'
<1>0. t \in Nat /\ now \in Nat /\ t <= now
  BY Parts DEF ClockOK
<1>1. CASE Lifecycle /\ ~Started
  <2>1. log' = log /\ history' = history /\ (t' = t \/ t' = now) /\ phase' # "up"
    BY <1>1 DEF Lifecycle, Start, StartFails, Stop, Crash, Reboot, Halt, SW!Drop, memory, events
  <2> QED
    BY <1>0, <2>1, LaterCounted
<1>2. CASE HandleLine /\ ~(\E f \in Filters : AutoBan(f)) /\ ~EndLineTick
  <2>1. log' = log /\ history' = history /\ t' = t /\ (phase' # "up" \/ phase' = phase)
    BY <1>2 DEF HandleLine, ReceiveLine, QueueEmpty, IgnoreAllowed, AlreadyBanned, Below, Track,
       AutoBanFails, CrashInBan, EndLine, Halt, Read, memory, events, SW!Hit, SW!Drop
  <2> QED
    BY <1>0, <2>1, LaterCounted
<1>3. CASE HandleRequest
  <2>1. log' = log /\ history' = history /\ t' = t /\ phase' = phase
    BY <1>3 DEF HandleRequest, ManualBan, ManualBanFails, Unban, List, Status, OnlyAnswer, Request,
       events
  <2> QED
    BY <1>0, <2>1, LaterCounted
<1>4. CASE Wake \/ Clock \/ UNCHANGED vars \/ \E n \in Nets : ExternalRemove(n)
  <2>1. log' = log /\ history' = history /\ (t' = t \/ t' = now) /\ phase' = phase
    BY <1>4 DEF Wake, Clock, ExternalRemove, vars, Read, memory, events
  <2> QED
    BY <1>0, <2>1, LaterCounted
<1> QED
  BY <1>1, <1>2, <1>3, <1>4, BanCounted, StartedCounted, TickCounted
     DEF Next, HandleLine, Tick, EndLineTick

\* Every logged ban inside the memory lengthens the next one, whatever restarts, crashes
\* and sweeps lie between, for any networks, policies and factor, if the history has room.
THEOREM AllCount == Spec => EveryBanCounts
<1>1. Init => IInv /\ CountOK
  <2> SUFFICES ASSUME Init PROVE IInv /\ CountOK
    OBVIOUS
  <2>1. 1..Len(log) = {} /\ phase = "down"
    BY DEF Init
  <2> QED
    BY <2>1, EngineAssumption, InitIInv DEF CountOK, Sorted
<1>2. IInv /\ CountOK /\ [Next]_vars => IInv' /\ CountOK'
  BY EngineAssumption, NextKeeps, CountStep
<1>3. ASSUME IInv, CountOK, NEW f \in Filters, Escalates, AutoBan(f), log' # log, Roomy
      PROVE  LET ban == log'[Len(log')]
             IN  ban.escalation >= Cardinality({i \in 1..Len(log) :
                                     log[i].net = ban.net /\ ban.ts - log[i].ts <= Memory})
  <2> DEFINE b == Net(f)
             e == [net |-> b, filter |-> f, ts |-> t, ttl |-> EscalatedTtl(BanTime[f], b),
                   escalation |-> Escalation(b)]
  <2>1. log' = Append(log, e)
    BY <1>3 DEF AutoBan, AppendBan
  <2>2. e.net = b /\ e.ts = t /\ e.escalation = Escalation(b)
    OBVIOUS
  <2>3. b \in Nets /\ phase = "up"
    BY <1>3, EngineAssumption, TrackTyped DEF AutoBan, Track, Turn, Serving
  <2> HIDE DEF e, b
  <2>4. /\ LogOK /\ t \in Nat /\ Memory \in Nat /\ HistoryOK(history)
        /\ \A i \in 1..Len(log) : log[i].ts \in Nat
    BY <1>3, EngineAssumption, Parts, LogTimes DEF ClockOK, EngineAssumption
  <2>5. log'[Len(log')] = e
    BY <2>1, <2>4 DEF LogOK
  <2>6. Escalation(b) >= Cardinality(Recent(b))
    <3>1. Escalation(b) \in Nat /\ Counted(b)
      BY <1>3, <2>3, <2>4, EscalationTyped DEF CountOK
    <3>2. CASE Recent(b) = {}
      BY <3>1, <3>2, FS_EmptySet
    <3>3. CASE Recent(b) # {}
      <4>1. PICK i \in Recent(b) : TRUE
        BY <3>3
      <4>2. /\ b \in DOMAIN history /\ log[i].ts <= history[b].last
            /\ t - log[i].ts <= Memory /\ log[i].ts \in Nat
            /\ Cardinality(Recent(b)) <= history[b].count
        BY <2>4, <3>1, <3>3, <4>1 DEF Counted, Recent
      <4>3. history[b].last \in Nat /\ history[b].count \in Nat
        BY <2>4, <4>2 DEF HistoryOK
      <4>4. SW!Monus(t, history[b].last) <= Memory
        BY <2>4, <4>2, <4>3 DEF SW!Monus
      <4>5. Escalation(b) = history[b].count
        BY <1>3, <4>2, <4>4 DEF Escalation
      <4>6. Cardinality(Recent(b)) \in Nat
        BY <2>4, RecentFinite
      <4> QED
        BY <4>2, <4>3, <4>5, <4>6
    <3> QED
      BY <3>2, <3>3
  <2> QED
    BY <2>2, <2>5, <2>6 DEF Recent
<1>4. IInv /\ CountOK =>
        [\A f \in Filters : Escalates /\ AutoBan(f) /\ log' # log
                              /\ IsFiniteSet(Nets) /\ Cardinality(Nets) < MaxTracked =>
           LET ban == log'[Len(log')]
           IN  ban.escalation >= Cardinality({i \in 1..Len(log) :
                                   log[i].net = ban.net /\ ban.ts - log[i].ts <= Memory})]_vars
  BY <1>3 DEF Roomy
<1> QED
  BY <1>1, <1>2, <1>4, PTL DEF Spec, EveryBanCounts

-----------------------------------------------------------------------------
(* Bans of one network in one life of the daemon.                          *)

\* EscalatedTtl as a function of the bans that count.
TtlAt(base, count) ==
  LET steps == Least(count, MaxSteps)
      ttl   == base * Factor ^ steps
  IN  IF steps = 0 \/ ttl < base THEN base
      ELSE IF ttl >= MaxBan THEN IF MaxBan < base THEN base ELSE MaxBan
      ELSE ttl

\* No ban of the network was logged after the i-th entry.
LastOfNet(i) == \A j \in i+1..Len(log) : log[j].net # log[i].net

\* The history has the last ban that was logged in this life, and counts it.
Kept(i) ==
  log[i].net \in DOMAIN history =>
    /\ history[log[i].net].last = log[i].ts
    /\ history[log[i].net].count > log[i].escalation

EscalOK ==
  /\ \A i \in session+1..Len(log) : LastOfNet(i) => Kept(i)
  /\ \A i \in 1..Len(log) : log[i].ttl = TtlAt(BanTime[log[i].filter], log[i].escalation)

LEMMA FactorMonotone ==
  ASSUME EngineAssumption, Factor # 0
  PROVE  \A i, j \in 0..MaxSteps : i <= j => Factor ^ i <= Factor ^ j
<1>0. /\ Factor \in Nat \ {0} /\ MaxSteps \in Nat /\ \A i \in 0..MaxSteps : Factor ^ i \in Nat
      /\ \A i \in 1..MaxSteps : Factor ^ i = Factor * Factor ^ (i - 1)
  BY DEF EngineAssumption
<1> SUFFICES ASSUME NEW i \in 0..MaxSteps, NEW j \in 0..MaxSteps, i <= j, Factor ^ j < Factor ^ i
             PROVE  FALSE
  BY <1>0
<1> DEFINE T == {k \in i..MaxSteps : Factor ^ k < Factor ^ i}
<1>1. PICK k \in T : \A l \in T : k <= l
  <2>1. T \in SUBSET Nat /\ j \in T
    BY <1>0
  <2> QED
    BY <2>1, NatMin
<1>2. k # i /\ k - 1 \in i..MaxSteps /\ k \in 1..MaxSteps /\ k - 1 \notin T
  BY <1>0, <1>1
<1>3. Factor ^ (k - 1) >= Factor ^ i /\ Factor ^ k = Factor * Factor ^ (k - 1)
  BY <1>0, <1>2
<1>4. \A a, b \in Nat : a > 0 => a * b >= b
  OBVIOUS
<1>5. Factor ^ (k - 1) \in Nat /\ Factor ^ k \in Nat /\ Factor ^ i \in Nat
  BY <1>0, <1>2
<1>6. Factor ^ k >= Factor ^ (k - 1)
  BY <1>0, <1>3, <1>4, <1>5
<1> QED
  BY <1>1, <1>3, <1>5, <1>6

\* More bans that count make no ban shorter.
LEMMA TtlMonotone ==
  ASSUME EngineAssumption, NEW base \in Nat \ {0}, NEW a \in Nat, NEW b \in Nat, a <= b
  PROVE  TtlAt(base, a) <= TtlAt(base, b)
<1> DEFINE k == Least(a, MaxSteps)
           l == Least(b, MaxSteps)
           x == base * Factor ^ k
           y == base * Factor ^ l
<1>1. /\ MaxSteps \in Nat /\ MaxBan \in Nat /\ Factor \in Nat
      /\ \A i \in 0..MaxSteps : Factor ^ i \in Nat
  BY DEF EngineAssumption
<1>2. k \in 0..MaxSteps /\ l \in 0..MaxSteps /\ k <= l
  BY <1>1 DEF Least
<1>3. /\ TtlAt(base, a) = IF k = 0 \/ x < base THEN base
                          ELSE IF x >= MaxBan THEN IF MaxBan < base THEN base ELSE MaxBan ELSE x
      /\ TtlAt(base, b) = IF l = 0 \/ y < base THEN base
                          ELSE IF y >= MaxBan THEN IF MaxBan < base THEN base ELSE MaxBan ELSE y
  BY DEF TtlAt
<1> HIDE DEF k, l
<1>4. Factor ^ k \in Nat /\ Factor ^ l \in Nat
  BY <1>1, <1>2
<1>5. \A c \in Nat : base * c \in Nat
  OBVIOUS
<1>6. x \in Nat /\ y \in Nat
  BY <1>4, <1>5
<1>7. k = 0 \/ x <= y
  <2>1. CASE Factor = 0 /\ k # 0
    <3>1. k \in 1..MaxSteps /\ l \in 1..MaxSteps
      BY <1>1, <1>2, <2>1
    <3>2. Factor ^ k = Factor * Factor ^ (k - 1) /\ Factor ^ l = Factor * Factor ^ (l - 1)
      BY <3>1 DEF EngineAssumption
    <3>3. Factor ^ (k - 1) \in Nat /\ Factor ^ (l - 1) \in Nat
      BY <1>1, <3>1
    <3>4. Factor ^ k = 0 /\ Factor ^ l = 0
      BY <2>1, <3>2, <3>3
    <3> QED
      BY <3>4
  <2>2. CASE Factor # 0
    <3>1. Factor ^ k <= Factor ^ l
      BY <1>2, <2>2, FactorMonotone
    <3>2. \A c, d \in Nat : c <= d => base * c <= base * d
      OBVIOUS
    <3> QED
      BY <1>4, <3>1, <3>2
  <2> QED
    BY <2>1, <2>2
<1>8. k = 0 \/ l # 0
  BY <1>1, <1>2
<1> HIDE DEF x, y
<1> QED
  BY <1>1, <1>3, <1>6, <1>7, <1>8

\* A step that logs nothing and keeps what is left of the history.
LEMMA SteadyEscal ==
  ASSUME IInv, EscalOK, log' = log, session' = session \/ session' = Len(log),
         \A n \in DOMAIN history' : n \in DOMAIN history /\ history'[n] = history[n]
  PROVE  EscalOK'
<1>1. LogOK /\ Len(log) \in Nat
  BY Parts DEF LogOK
<1>2. ASSUME NEW i \in session'+1..Len(log'), LastOfNet(i)'
      PROVE  Kept(i)'
  <2>1. i \in session+1..Len(log)
    BY <1>1, <1>2 DEF LogOK
  <2>2. LastOfNet(i)
    BY <1>2 DEF LastOfNet
  <2> QED
    BY <2>1, <2>2 DEF EscalOK, Kept
<1> QED
  BY <1>2 DEF EscalOK, TtlAt

LEMMA TrimKeeps ==
  ASSUME NEW h, NEW g \in TrimHistory(h)
  PROVE  DOMAIN g \subseteq DOMAIN h /\ \A n \in DOMAIN g : g[n] = h[n]
BY DEF TrimHistory, Without

LEMMA TickEscal ==
  ASSUME IInv, EscalOK, Housekeep
  PROVE  EscalOK'
<1>1. /\ log' = log /\ session' = session
      /\ history' \in TrimHistory(
           Without(history, {n \in DOMAIN history : SW!Monus(t, history[n].last) > Memory}))
  BY DEF Housekeep, events
<1>2. \A n \in DOMAIN history' : n \in DOMAIN history /\ history'[n] = history[n]
  BY <1>1, TrimKeeps DEF Without
<1> QED
  BY <1>1, <1>2, SteadyEscal

\* A start begins a new life, and what it counts is of the earlier ones.
LEMMA StartedEscal ==
  ASSUME IInv, EscalOK, Started
  PROVE  EscalOK'
<1>1. log' = log /\ session' = Len(log) /\ Len(log) \in Nat
  BY Parts DEF Started, LogOK
<1>2. session'+1..Len(log') = {}
  BY <1>1
<1> QED
  BY <1>1, <1>2 DEF EscalOK, TtlAt

LEMMA BanEscal ==
  ASSUME EngineAssumption, IInv, EscalOK, NEW f \in Filters, AutoBan(f)
  PROVE  EscalOK'
<1> DEFINE b == Net(f)
           e == [net |-> b, filter |-> f, ts |-> t, ttl |-> EscalatedTtl(BanTime[f], b),
                 escalation |-> Escalation(b)]
<1>1. HistoryOK(history) /\ LogOK /\ Len(log) \in Nat /\ session \in 0..Len(log)
  BY Parts DEF LogOK
<1>2. \/ log' = log /\ session' = Len(log)
      \/ log' = Append(log, e) /\ session' = session
  BY DEF AutoBan, AppendBan, events
<1>3. /\ e.net = b /\ e.ts = t /\ e.escalation = Escalation(b) /\ e.filter = f
      /\ e.ttl = TtlAt(BanTime[f], Escalation(b))
  BY DEF EscalatedTtl, TtlAt
<1>4. PICK h \in IF b \in DOMAIN history THEN {history} ELSE TrimHistory(history) :
        history' = Put(h, b, [count |-> IF b \in DOMAIN h THEN h[b].count + 1 ELSE 1, last |-> t])
  BY DEF AutoBan, Recorded
<1>5. Escalation(b) \in Nat /\ (b \in DOMAIN history => Escalation(b) <= history[b].count)
      /\ (b \notin DOMAIN history => Escalation(b) = 0)
  BY <1>1 DEF HistoryOK, Escalation
<1> HIDE DEF e, b
<1>6. /\ b \in DOMAIN history' /\ history'[b].last = t /\ history'[b].count > Escalation(b)
      /\ \A n \in DOMAIN history' : n # b => n \in DOMAIN history /\ history'[n] = history[n]
  <2>1. /\ DOMAIN history' = DOMAIN h \cup {b}
        /\ history'[b] = [count |-> IF b \in DOMAIN h THEN h[b].count + 1 ELSE 1, last |-> t]
        /\ \A m \in DOMAIN h : m # b => history'[m] = h[m]
    BY <1>4 DEF Put
  <2>2. DOMAIN h \subseteq DOMAIN history /\ \A m \in DOMAIN h : h[m] = history[m]
    BY <1>4, TrimKeeps
  <2>3. b \in DOMAIN history => b \in DOMAIN h /\ history[b].count \in Nat
    BY <1>1, <1>4 DEF HistoryOK
  <2> QED
    BY <1>5, <2>1, <2>2, <2>3
<1>7. CASE log' = log /\ session' = Len(log)
  <2>1. session'+1..Len(log') = {}
    BY <1>1, <1>7
  <2> QED
    BY <1>7, <2>1 DEF EscalOK, TtlAt
<1>8. CASE log' = Append(log, e) /\ session' = session
  <2>1. /\ Len(log') = Len(log) + 1 /\ log'[Len(log) + 1] = e
        /\ \A i \in 1..Len(log) : log'[i] = log[i]
    <3>1. \E R : log \in Seq(R)
      BY <1>1 DEF LogOK
    <3> QED
      BY <1>1, <1>8, <3>1
  <2>2. ASSUME NEW i \in session'+1..Len(log'), LastOfNet(i)'
        PROVE  Kept(i)'
    <3>1. CASE i = Len(log) + 1
      BY <1>3, <1>6, <2>1, <3>1 DEF Kept
    <3>2. CASE i \in session+1..Len(log)
      <4>1. log'[i] = log[i] /\ Len(log) + 1 \in i+1..Len(log')
        BY <1>1, <2>1, <3>2
      <4>2. log[i].net # b
        BY <1>3, <2>1, <2>2, <4>1 DEF LastOfNet
      <4>3. LastOfNet(i)
        <5> SUFFICES ASSUME NEW j \in i+1..Len(log) PROVE log[j].net # log[i].net
          BY DEF LastOfNet
        <5>1. j \in i+1..Len(log') /\ log'[j] = log[j]
          BY <1>1, <2>1, <3>2
        <5> QED
          BY <2>2, <4>1, <5>1 DEF LastOfNet
      <4>4. Kept(i)
        BY <3>2, <4>3 DEF EscalOK
      <4> QED
        BY <1>6, <4>1, <4>2, <4>4 DEF Kept
    <3> QED
      BY <1>1, <1>8, <2>1, <3>1, <3>2
  <2>3. ASSUME NEW i \in 1..Len(log')
        PROVE  log'[i].ttl = TtlAt(BanTime[log'[i].filter], log'[i].escalation)
    <3>1. CASE i = Len(log) + 1
      BY <1>3, <2>1, <3>1
    <3>2. CASE i \in 1..Len(log)
      BY <2>1, <3>2 DEF EscalOK
    <3> QED
      BY <1>1, <2>1, <3>1, <3>2
  <2> QED
    BY <2>2, <2>3 DEF EscalOK, TtlAt
<1> QED
  BY <1>2, <1>7, <1>8

LEMMA EscalStep ==
  ASSUME EngineAssumption, IInv, EscalOK, [Next]_vars
  PROVE  EscalOK'
<1>1. CASE Lifecycle /\ ~Started
  <2>1. log' = log /\ history' = history /\ session' = session
    BY <1>1 DEF Lifecycle, Start, StartFails, Stop, Crash, Reboot, Halt, memory, events
  <2> QED
    BY <2>1, SteadyEscal
<1>2. CASE HandleLine /\ ~(\E f \in Filters : AutoBan(f)) /\ ~EndLineTick
  <2>1. log' = log /\ history' = history /\ session' = session
    BY <1>2 DEF HandleLine, ReceiveLine, QueueEmpty, IgnoreAllowed, AlreadyBanned, Below, Track,
       AutoBanFails, CrashInBan, EndLine, Halt, Read, memory, events
  <2> QED
    BY <2>1, SteadyEscal
<1>3. CASE HandleRequest
  <2>1. log' = log /\ history' = history /\ session' = session
    BY <1>3 DEF HandleRequest, ManualBan, ManualBanFails, Unban, List, Status, OnlyAnswer, Request,
       events
  <2> QED
    BY <2>1, SteadyEscal
<1>4. CASE Wake \/ Clock \/ UNCHANGED vars \/ \E n \in Nets : ExternalRemove(n)
  <2>1. log' = log /\ history' = history /\ session' = session
    BY <1>4 DEF Wake, Clock, ExternalRemove, vars, Read, memory, events
  <2> QED
    BY <2>1, SteadyEscal
<1> QED
  BY <1>1, <1>2, <1>3, <1>4, BanEscal, StartedEscal, TickEscal
     DEF Next, HandleLine, Tick, EndLineTick

\* A network that comes back inside the memory is banned at a higher escalation than the
\* time before and by the same filter for no shorter a time, for any policies, factor,
\* limits and number of networks, as long as trim_history has kept it.
THEOREM Escalate == Spec => BansEscalate
<1>1. Init => IInv /\ EscalOK
  <2> SUFFICES ASSUME Init PROVE IInv /\ EscalOK
    OBVIOUS
  <2>1. 1..Len(log) = {} /\ session+1..Len(log) = {}
    BY DEF Init
  <2> QED
    BY <2>1, EngineAssumption, InitIInv DEF EscalOK
<1>2. IInv /\ EscalOK /\ [Next]_vars => IInv' /\ EscalOK'
  BY EngineAssumption, NextKeeps, EscalStep
<1>3. ASSUME IInv, EscalOK, NEW f \in Filters, Escalates, AutoBan(f), log' # log,
             NEW i \in session+1..Len(log)
      PROVE  LET before == log[i]
                 ban    == log'[Len(log')]
             IN  /\ before.net = ban.net
                 /\ \A j \in i+1..Len(log) : log[j].net # ban.net
                 /\ ban.net \in DOMAIN history
                 /\ ban.ts - before.ts <= Memory
                 => /\ ban.escalation > before.escalation
                    /\ ban.filter = before.filter => ban.ttl >= before.ttl
  <2> DEFINE b == Net(f)
             e == [net |-> b, filter |-> f, ts |-> t, ttl |-> EscalatedTtl(BanTime[f], b),
                   escalation |-> Escalation(b)]
  <2>1. log' = Append(log, e)
    BY <1>3 DEF AutoBan, AppendBan
  <2>2. /\ e.net = b /\ e.ts = t /\ e.escalation = Escalation(b) /\ e.filter = f
        /\ e.ttl = TtlAt(BanTime[f], Escalation(b))
    BY DEF EscalatedTtl, TtlAt
  <2>3. Escalation(b) \in Nat
    BY <1>3, Parts, EscalationTyped
  <2> HIDE DEF e, b
  <2>4. /\ LogOK /\ t \in Nat /\ Memory \in Nat /\ HistoryOK(history) /\ Len(log) \in Nat
        /\ session \in 0..Len(log)
        /\ \A k \in 1..Len(log) : log[k].ts \in Nat
    BY <1>3, EngineAssumption, Parts, LogTimes DEF ClockOK, EngineAssumption, LogOK
  <2>5. log'[Len(log')] = e
    BY <2>1, <2>4 DEF LogOK
  <2>6. i \in 1..Len(log)
    BY <1>3, <2>4
  <2>7. ASSUME log[i].net = b, \A j \in i+1..Len(log) : log[j].net # b, b \in DOMAIN history,
               t - log[i].ts <= Memory
        PROVE  /\ Escalation(b) > log[i].escalation
               /\ f = log[i].filter => TtlAt(BanTime[f], Escalation(b)) >= log[i].ttl
    <3>1. Kept(i)
      BY <1>3, <2>7 DEF EscalOK, LastOfNet
    <3>2. history[b].last = log[i].ts /\ history[b].count > log[i].escalation
      BY <2>7, <3>1 DEF Kept
    <3>3. SW!Monus(t, history[b].last) <= Memory
      BY <2>4, <2>6, <2>7, <3>2 DEF SW!Monus
    <3>4. Escalation(b) = history[b].count
      BY <1>3, <2>7, <3>3 DEF Escalation
    <3>5. log[i].escalation \in Nat
      <4>1. log[i] \in Entry
        BY <2>4, <2>6 DEF LogOK
      <4> QED
        BY <4>1 DEF Entry
    <3>6. log[i].ttl = TtlAt(BanTime[log[i].filter], log[i].escalation)
      BY <1>3, <2>6 DEF EscalOK
    <3>7. BanTime[f] \in Nat \ {0}
      BY <1>3, EngineAssumption DEF EngineAssumption
    <3>8. log[i].escalation <= Escalation(b)
      BY <2>3, <3>2, <3>4, <3>5
    <3>9. TtlAt(BanTime[f], log[i].escalation) <= TtlAt(BanTime[f], Escalation(b))
      BY <2>3, <3>5, <3>7, <3>8, EngineAssumption, TtlMonotone
    <3> QED
      BY <3>2, <3>4, <3>6, <3>9
  <2> QED
    BY <2>2, <2>5, <2>7
<1>4. IInv /\ EscalOK =>
        [\A f \in Filters : Escalates /\ AutoBan(f) /\ log' # log =>
           \A i \in session+1..Len(log) :
             LET before == log[i]
                 ban    == log'[Len(log')]
             IN  /\ before.net = ban.net
                 /\ \A j \in i+1..Len(log) : log[j].net # ban.net
                 /\ ban.net \in DOMAIN history
                 /\ ban.ts - before.ts <= Memory
                 => /\ ban.escalation > before.escalation
                    /\ ban.filter = before.filter => ban.ttl >= before.ttl]_vars
  BY <1>3
<1> QED
  BY <1>1, <1>2, <1>4, PTL DEF Spec, BansEscalate
=============================================================================
