---------------------------- MODULE DaemonProofs ----------------------------
(***************************************************************************)
(* Proofs about Daemon, for any sources, callers and capacities: types     *)
(* and AnswersAreTrue.                                                     *)
(***************************************************************************)
EXTENDS Daemon, TLAPS

\* The requests in the channel are those whose tasks wait for the engine, each once.
QueueOK ==
    /\ \A i, j \in DOMAIN ctl : ctl[i] = ctl[j] => i = j
    /\ \A c \in Calls : (\E i \in DOMAIN ctl : ctl[i] = c) <=> conn[c] = "waiting"

\* What a connection has had done so far, by how far its task is.
Owed(c) ==
    /\ conn[c] \in {"backlog", "open", "sending", "waiting"} => served[c] = 0
    /\ conn[c] \in {"sending", "waiting"} => valid[c]
    /\ conn[c] = "answering" => served[c] = IF valid[c] THEN 1 ELSE 0
    /\ served[c] \in {0, 1}
    /\ ~valid[c] => served[c] = 0
    /\ client[c] = "answered" => conn[c] = "none" /\ served[c] = IF valid[c] THEN 1 ELSE 0

IInv == TypeOK /\ QueueOK /\ \A c \in Calls : Owed(c)

-----------------------------------------------------------------------------
LEMMA InitIInv == Init => IInv
<1> SUFFICES ASSUME Init PROVE IInv
  OBVIOUS
<1> USE DaemonAssumption DEF Init
<1>1. TypeOK
  <2>1. /\ ctl \in Seq(Calls) /\ Len(ctl) <= CtlCap
        /\ lines \in 0 .. LineCap /\ due \in 0 .. MaxDue
    OBVIOUS
  <2>2. valid \in [Calls -> BOOLEAN]
    BY Zenon
  <2>3. conn \in [Calls -> Conns] /\ client \in [Calls -> Clients] /\ served \in [Calls -> Nat]
    BY DEF Conns, Clients
  <2> QED
    BY <2>1, <2>2, <2>3 DEF TypeOK
<1>2. QueueOK /\ \A c \in Calls : Owed(c)
  BY DEF QueueOK, Owed
<1> QED
  BY <1>1, <1>2 DEF IInv

\* Ends of the process keep it.
LEMMA DownIInv == ASSUME IInv, Down PROVE IInv'
<1> USE DaemonAssumption DEF Down
<1>1. TypeOK'
  <2>1. ctl' \in Seq(Calls) /\ Len(ctl') <= CtlCap /\ lines' \in 0 .. LineCap /\ due' \in 0 .. MaxDue
    OBVIOUS
  <2>2. conn' \in [Calls -> Conns] /\ client' \in [Calls -> Clients]
    BY DEF IInv, TypeOK, Conns, Clients
  <2>3. valid' \in [Calls -> BOOLEAN] /\ served' \in [Calls -> Nat]
    BY DEF IInv, TypeOK
  <2> QED
    BY <2>1, <2>2, <2>3 DEF TypeOK
<1>2. QueueOK'
  BY DEF QueueOK
<1>3. ASSUME NEW c \in Calls PROVE Owed(c)'
  BY DEF IInv, Owed, TypeOK
<1> QED
  BY <1>1, <1>2, <1>3 DEF IInv

\* Steps that touch neither requests nor callers.
LEMMA LoopIInv ==
    ASSUME IInv, Start \/ HandleLines \/ Tick \/ Yield \/ Wake \/ Signal \/ TimerFires
                   \/ \E s \in Sources : SendLine(s) \/ SourceEnds(s)
    PROVE  IInv'
<1> USE DaemonAssumption DEF Looping, TasksRun, sched, calls
<1>0. UNCHANGED <<ctl, calls>>
  BY DEF Start, HandleLines, Tick, Yield, Wake, Signal, TimerFires, SendLine, SourceEnds
<1>1. TypeOK'
  <2> USE DEF IInv, TypeOK
  <2>1. CASE Start
    BY <2>1 DEF Start
  <2>2. CASE HandleLines \/ Tick \/ Yield
    BY <2>2 DEF HandleLines, Tick, Yield
  <2>3. CASE Wake \/ Signal
    BY <2>3 DEF Wake, Signal
  <2>5. CASE TimerFires
    BY <2>5 DEF TimerFires
  <2>4. CASE \E s \in Sources : SendLine(s) \/ SourceEnds(s)
    BY <2>4 DEF SendLine, SourceEnds
  <2> QED
    BY <2>1, <2>2, <2>3, <2>4, <2>5
<1>2. QueueOK' /\ \A c \in Calls : Owed(c)'
  BY <1>0 DEF IInv, QueueOK, Owed
<1> QED
  BY <1>1, <1>2 DEF IInv

LEMMA ServeIInv == ASSUME IInv, Serve PROVE IInv'
<1> DEFINE h == Head(ctl)
<1> USE DaemonAssumption DEF Looping, sched
<1>0. /\ ctl \in Seq(Calls) /\ ctl # <<>> /\ h \in Calls /\ h = ctl[1]
      /\ ctl' = Tail(ctl) /\ Len(ctl') = Len(ctl) - 1 /\ ctl' \in Seq(Calls)
      /\ \A i \in DOMAIN ctl' : i + 1 \in DOMAIN ctl /\ ctl'[i] = ctl[i + 1]
  BY DEF Serve, IInv, TypeOK
<1>1. conn[h] = "waiting" /\ served[h] = 0 /\ valid[h]
  <2>1. 1 \in DOMAIN ctl
    BY <1>0
  <2> QED
    BY <1>0, <2>1 DEF IInv, QueueOK, Owed
<1>2. TypeOK'
  BY <1>0 DEF Serve, IInv, TypeOK, Conns
<1>3. QueueOK'
  <2>1. \A i, j \in DOMAIN ctl' : ctl'[i] = ctl'[j] => i = j
    BY <1>0 DEF IInv, QueueOK
  <2>2. ASSUME NEW c \in Calls
        PROVE  (\E i \in DOMAIN ctl' : ctl'[i] = c) <=> conn'[c] = "waiting"
    <3>1. CASE c = h
      <4>1. ~\E i \in DOMAIN ctl' : ctl'[i] = c
        BY <1>0, <3>1 DEF IInv, QueueOK
      <4> QED
        BY <4>1, <3>1 DEF Serve, IInv, TypeOK
    <3>2. CASE c # h
      <4>1. conn'[c] = conn[c]
        BY <3>2 DEF Serve, IInv, TypeOK
      <4>2. ASSUME NEW i \in DOMAIN ctl, ctl[i] = c PROVE \E j \in DOMAIN ctl' : ctl'[j] = c
        <5>1. i # 1 /\ i - 1 \in DOMAIN ctl' /\ ctl'[i - 1] = ctl[i]
          BY <1>0, <3>2, <4>2
        <5> QED
          BY <5>1, <4>2
      <4>3. ASSUME NEW j \in DOMAIN ctl', ctl'[j] = c PROVE \E i \in DOMAIN ctl : ctl[i] = c
        BY <1>0, <4>3
      <4> QED
        BY <4>1, <4>2, <4>3 DEF IInv, QueueOK
    <3> QED
      BY <3>1, <3>2
  <2> QED
    BY <2>1, <2>2 DEF QueueOK
<1>4. ASSUME NEW c \in Calls PROVE Owed(c)'
  BY <1>0, <1>1 DEF Serve, IInv, Owed, TypeOK
<1> QED
  BY <1>2, <1>3, <1>4 DEF IInv

\* A task that gets on without the channel, and a caller.
LEMMA CallIInv ==
    ASSUME IInv, NEW d \in Calls, Accept(d) \/ Parse(d) \/ Answer(d) \/ Call(d) \/ GiveUp(d)
    PROVE  IInv'
<1> USE DaemonAssumption DEF ConnStep, TasksRun, sched
<1>1. TypeOK'
  <2> USE DEF IInv, TypeOK, Conns, Clients
  <2>1. CASE Accept(d) \/ Answer(d) \/ GiveUp(d)
    BY <2>1 DEF Accept, Answer, GiveUp
  <2>2. CASE Parse(d)
    BY <2>2 DEF Parse
  <2>3. CASE Call(d)
    <3>1. valid' \in [Calls -> BOOLEAN]
      BY <2>3, Zenon DEF Call
    <3> QED
      BY <2>3, <3>1 DEF Call
  <2> QED
    BY <2>1, <2>2, <2>3
<1>2. QueueOK'
  <2>1. ctl' = ctl
    BY DEF Accept, Parse, Answer, Call, GiveUp
  <2>2. \A c \in Calls : conn'[c] = "waiting" <=> conn[c] = "waiting"
    BY DEF IInv, TypeOK, Accept, Parse, Answer, Call, GiveUp
  <2> QED
    BY <2>1, <2>2 DEF IInv, QueueOK
<1>3. ASSUME NEW c \in Calls PROVE Owed(c)'
  <2> USE DEF IInv, Owed, TypeOK
  <2>1. CASE Accept(d) \/ Parse(d)
    BY <2>1 DEF Accept, Parse
  <2>2. CASE Answer(d) \/ GiveUp(d)
    BY <2>2 DEF Answer, GiveUp
  <2>3. CASE Call(d)
    BY <2>3 DEF Call
  <2> QED
    BY <2>1, <2>2, <2>3
<1> QED
  BY <1>1, <1>2, <1>3 DEF IInv

LEMMA SendIInv == ASSUME IInv, NEW d \in Calls, SendRequest(d) PROVE IInv'
<1> USE DaemonAssumption DEF ConnStep, TasksRun, CtlRoom, sched
<1>0. /\ ctl \in Seq(Calls) /\ ctl' = Append(ctl, d) /\ ctl' \in Seq(Calls)
      /\ Len(ctl') = Len(ctl) + 1 /\ ctl'[Len(ctl) + 1] = d
      /\ \A i \in DOMAIN ctl : i \in DOMAIN ctl' /\ ctl'[i] = ctl[i]
      /\ \A i \in DOMAIN ctl' : i \in DOMAIN ctl \/ i = Len(ctl) + 1
  BY DEF SendRequest, IInv, TypeOK
<1>1. conn[d] = "sending" /\ \A i \in DOMAIN ctl : ctl[i] # d
  BY DEF SendRequest, IInv, QueueOK
<1>2. TypeOK'
  BY <1>0 DEF SendRequest, IInv, TypeOK, Conns
<1>3. QueueOK'
  <2>1. \A i, j \in DOMAIN ctl' : ctl'[i] = ctl'[j] => i = j
    BY <1>0, <1>1 DEF IInv, QueueOK
  <2>2. ASSUME NEW c \in Calls
        PROVE  (\E i \in DOMAIN ctl' : ctl'[i] = c) <=> conn'[c] = "waiting"
    <3>1. CASE c = d
      <4>1. Len(ctl) + 1 \in DOMAIN ctl'
        BY <1>0
      <4> QED
        BY <1>0, <3>1, <4>1 DEF SendRequest, IInv, TypeOK
    <3>2. CASE c # d
      <4>1. conn'[c] = conn[c]
        BY <3>2 DEF SendRequest, IInv, TypeOK
      <4> QED
        BY <4>1, <1>0, <3>2 DEF IInv, QueueOK
    <3> QED
      BY <3>1, <3>2
  <2> QED
    BY <2>1, <2>2 DEF QueueOK
<1>4. ASSUME NEW c \in Calls PROVE Owed(c)'
  BY DEF SendRequest, IInv, Owed, TypeOK
<1> QED
  BY <1>2, <1>3, <1>4 DEF IInv

LEMMA StepIInv == IInv /\ [Next]_vars => IInv'
<1> SUFFICES ASSUME IInv, [Next]_vars PROVE IInv'
  OBVIOUS
<1>1. CASE Kill \/ Told \/ LinesEnd
  BY <1>1, DownIInv DEF Kill, Told, LinesEnd
<1>2. CASE Start \/ HandleLines \/ Tick \/ Yield \/ Wake \/ Signal \/ TimerFires
             \/ \E s \in Sources : SendLine(s) \/ SourceEnds(s)
  BY <1>2, LoopIInv
<1>3. CASE Serve
  BY <1>3, ServeIInv
<1>4. CASE \E c \in Calls : Accept(c) \/ Parse(c) \/ Answer(c) \/ Call(c) \/ GiveUp(c)
  BY <1>4, CallIInv
<1>5. CASE \E c \in Calls : SendRequest(c)
  BY <1>5, SendIInv
<1>6. CASE UNCHANGED vars
  BY <1>6 DEF vars, IInv, TypeOK, QueueOK, Owed
<1> QED
  BY <1>1, <1>2, <1>3, <1>4, <1>5, <1>6 DEF Next, Loop, Connection

LEMMA IInvariant == Spec => []IInv
<1> QED
  BY InitIInv, StepIInv, PTL DEF Spec

-----------------------------------------------------------------------------
\* The loop, its channels, connections and callers keep their types, the channel of
\* requests its bound, and only sources of this start send lines (daemon.rs:21-126).
THEOREM TypeCorrect == Spec => []TypeOK
<1>1. IInv => TypeOK
  BY DEF IInv
<1> QED
  BY <1>1, IInvariant, PTL

\* Whoever is answered had its request done, and no request is done twice, for any
\* number of callers, capacities and orders of giving up (daemon.rs:73-90, 105-108).
THEOREM Answers == Spec => []AnswersAreTrue
<1>1. IInv => AnswersAreTrue
  BY DEF IInv, Owed, AnswersAreTrue
<1> QED
  BY <1>1, IInvariant, PTL
=============================================================================
