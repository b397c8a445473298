-------------------------------- MODULE Engine --------------------------------
(***************************************************************************)
(* The ban engine (minsec-core/src/engine.rs) with the firewall it drives  *)
(* and the event log it rebuilds its memory from, in the order the daemon  *)
(* (minsec/src/daemon.rs) calls it.  One thread serves lines, requests and *)
(* the timer; it reads the clock once per call, and once for a whole run   *)
(* of queued lines, so the time it works with may lag the clock.  Between  *)
(* its steps only the clock, the firewall's administrator and a crash move.*)
(*                                                                         *)
(* A network is the set of its hosts.  The failure tracker is taken as     *)
(* SlidingWindow, which Tracker implements.                                *)
(***************************************************************************)
EXTENDS Integers, FiniteSets, Sequences, Tables

CONSTANTS
  Hosts,        \* the addresses
  Nets,         \* the networks that can be banned, sets of hosts
  ToKey,        \* [Hosts -> Nets]: to_key, the network an address is tracked and banned as
  Filters,      \* their numbers, in the order they are enabled
  Lines,        \* what a line says: the host each of its origin's matching filters extracts
  Ttls,         \* the durations a manual ban may ask for, in seconds
  AllowLists,   \* the allow lists a (re)start may find
  MaxRetry,     \* [Filters -> Nat]: policy.maxretry
  FindTime,     \* [Filters -> Nat]: policy.findtime
  BanTime,      \* [Filters -> Nat]: policy.bantime
  Escalates,    \* defaults.escalate_enabled
  Factor,       \* escalate.factor
  MaxBan,       \* escalate.max
  MaxSteps,     \* 32: the bans that lengthen a ban, at most
  Memory,       \* escalate.memory
  MaxTracked,   \* max_tracked (the code takes at least 16)
  TrimDivisor,  \* 32: trim_history drops this fraction
  SweepEvery,   \* 60: a line ticks when the last tick is this old
  Backends,     \* "nft", which can list its bans, "exec", which cannot, or both
  Faults,       \* the failures that may happen, see AllFaults
  Epoch,        \* the clock's reading at the start: unix time
  MaxTime,      \* bound of the model: the clock stops here
  MaxLag,       \* bound of the model: how far the clock may run ahead of a call
  MaxBans,      \* bound of the model: no more lines once this many bans are on record
  Enough        \* bound of the model: fresh counts no further

AllFaults ==
  {"backend",   \* a firewall command fails
   "log",       \* the event log cannot be written
   "crash",     \* the daemon dies, the firewall keeps its bans
   "reboot",    \* the host restarts, the firewall starts empty
   "external"}  \* someone removes a ban from the firewall directly

ASSUME EngineAssumption ==
  /\ Nets \subseteq SUBSET Hosts
  /\ ToKey \in [Hosts -> Nets]
  /\ \A h \in Hosts : h \in ToKey[h]
  /\ Filters \subseteq Nat /\ IsFiniteSet(Filters)
  /\ Lines \subseteq UNION {[F -> Hosts] : F \in SUBSET Filters}
  /\ Ttls \subseteq Nat
  /\ AllowLists \subseteq SUBSET SUBSET Hosts
  /\ MaxRetry \in [Filters -> Nat \ {0}]
  /\ FindTime \in [Filters -> Nat]
  /\ BanTime \in [Filters -> Nat \ {0}]
  /\ Escalates \in BOOLEAN
  /\ Factor \in Nat /\ MaxBan \in Nat /\ Memory \in Nat
  /\ MaxSteps \in Nat /\ \A i \in 0..MaxSteps : Factor ^ i \in Nat
  /\ \A i \in 1..MaxSteps : Factor ^ i = Factor * Factor ^ (i - 1)
  /\ MaxTracked \in Nat \ {0} /\ TrimDivisor \in Nat \ {0} /\ SweepEvery \in Nat
  /\ Backends \subseteq {"nft", "exec"} /\ Faults \subseteq AllFaults
  /\ Epoch \in Nat /\ SweepEvery <= Epoch
  /\ MaxTime \in Nat /\ MaxLag \in Nat /\ MaxBans \in Nat
  /\ Enough \in Nat /\ \A f \in Filters : MaxRetry[f] <= Enough

VARIABLES
  phase,      \* "down", "starting" or "up"
  backend,    \* one of Backends
  now,        \* the wall clock, in seconds
  t,          \* the time the engine read for the call it is serving
  task,       \* the call being served
  hits,       \* the tracker's logs
  verdict,    \* the tracker's answer
  active,     \* the mirror of the firewall: when each ban runs out
  history,    \* per banned network: how many bans, and when the last one was
  lastSweep,  \* when the last tick was, 0 before the first
  allow,      \* the allow list
  kernel,     \* [Nets -> Nat]: when the firewall's ban runs out, 0 if there is none
  log,        \* the automatic bans in the event log
  session,    \* auxiliary: how long the log was at the last start, or unlogged ban since
  promised,   \* auxiliary: when the ban last asked for runs out, from a start on by what
              \* the firewall holds, 0 once it was undone
  fresh       \* auxiliary: hits counted since the network was last unbanned, up to Enough

tracker == <<hits, verdict>>
memory == <<active, history, lastSweep>>
firewall == <<kernel, promised>>
events == <<log, session>>
vars == <<phase, backend, now, t, task, tracker, memory, allow, firewall, events, fresh>>

LongestFindTime ==
  CHOOSE d \in {FindTime[f] : f \in Filters} : \A f \in Filters : FindTime[f] <= d

SW == INSTANCE SlidingWindow WITH
        now <- t,
        Keys <- Filters \X Nets,
        MaxRetry <- [k \in Filters \X Nets |-> MaxRetry[k[1]]],
        FindTime <- [k \in Filters \X Nets |-> FindTime[k[1]]],
        Idle <- LongestFindTime,
        MaxEntries <- MaxTracked

Least(a, b) == IF a <= b THEN a ELSE b

-----------------------------------------------------------------------------
(* The calls. *)

Idle == [do |-> "idle"]     \* waiting in select!
Ready == [do |-> "ready"]   \* something is ready and the clock has been read
Drain == [do |-> "drain"]   \* between two queued lines: the clock is not read again

LineTask(line) == [do |-> "line", line |-> line, todo |-> DOMAIN line]

Serving(do) == phase = "up" /\ task.do = do

Done == task' = Idle

\* The tracker is not called.
TrackerIdle == hits' = hits /\ verdict' = SW!NoVerdict

Read == UNCHANGED <<phase, backend, now, memory, allow, firewall, events, fresh>>

\* A line, a request or the 30 s timer is ready.
Wake ==
  /\ Serving("idle")
  /\ t' = now
  /\ task' = Ready
  /\ TrackerIdle
  /\ Read

\* A line is received, or one that is queued behind it, with the time of the first.
ReceiveLine(line) ==
  /\ Serving("ready") \/ Serving("drain")
  /\ Len(log) < MaxBans /\ \A n \in DOMAIN history : history[n].count < MaxBans
  /\ task' = LineTask(line)
  /\ TrackerIdle
  /\ UNCHANGED t
  /\ Read

QueueEmpty ==
  /\ Serving("drain")
  /\ Done
  /\ TrackerIdle
  /\ UNCHANGED t
  /\ Read

-----------------------------------------------------------------------------
(* The firewall. *)

\* Mutant: only an allowed network that covers the other counts.
Covers(a, b) == b \subseteq a

\* The two networks share an address.
Overlaps(a, b) == a \cap b # {}

\* Mutant: the element is added without being deleted first and keeps its timeout.
FirewallBanOnce(n, ttl) ==
  /\ kernel' = [kernel EXCEPT ![n] = IF @ = 0 THEN now + ttl ELSE @]
  /\ promised' = [promised EXCEPT ![n] = t + ttl]

\* The ban's timeout runs from the command, not from the time the engine read.
FirewallBan(n, ttl) ==
  /\ kernel' = [kernel EXCEPT ![n] = now + ttl]
  /\ promised' = [promised EXCEPT ![n] = t + ttl]

\* nft deletes the element before it adds it, in two commands: when the second
\* fails the ban that was there may be gone.
FirewallBanFails(n) ==
  /\ "backend" \in Faults
  /\ \/ UNCHANGED kernel
     \/ backend = "nft" /\ kernel' = [kernel EXCEPT ![n] = 0]
  /\ promised' = [promised EXCEPT ![n] = 0]

\* The bans the firewall lists.
Listed == {n \in Nets : kernel[n] # 0}

-----------------------------------------------------------------------------
(* Ban history and the event log. *)

\* The tables that trim_history may leave, ties in any order.
TrimHistory(h) ==
  LET keep  == MaxTracked - (IF MaxTracked < TrimDivisor THEN 1 ELSE MaxTracked \div TrimDivisor)
      count == Cardinality(DOMAIN h)
  IN  IF count < MaxTracked THEN {h}
      ELSE {Without(h, D) : D \in {D \in SUBSET DOMAIN h :
              /\ Cardinality(D) = count - keep
              /\ \A d \in D : \A n \in DOMAIN h \ D : h[d].last <= h[n].last}}

\* Mutant: a ban exactly as old as the memory no longer counts.
EscalationExclusive(n) ==
  IF Escalates /\ n \in DOMAIN history /\ SW!Monus(t, history[n].last) < Memory
  THEN history[n].count
  ELSE 0

\* The bans of a network that count for its next one.
Escalation(n) ==
  IF Escalates /\ n \in DOMAIN history /\ SW!Monus(t, history[n].last) <= Memory
  THEN history[n].count
  ELSE 0

EscalatedTtl(base, n) ==
  LET count == Least(Escalation(n), MaxSteps)
      ttl   == base * Factor ^ count
  IN  IF count = 0 \/ ttl < base THEN base
      ELSE IF ttl >= MaxBan THEN IF MaxBan < base THEN base ELSE MaxBan
      ELSE ttl

\* Mutant: the first ban is not counted.
RecordedLate(n) ==
  {Put(h, n, [count |-> IF n \in DOMAIN h THEN h[n].count + 1 ELSE 0, last |-> t]) :
     h \in IF n \in DOMAIN history THEN {history} ELSE TrimHistory(history)}

\* Mutant: no room is made.
RecordedUntrimmed(n) ==
  {Put(history, n, [count |-> IF n \in DOMAIN history THEN history[n].count + 1 ELSE 1,
                    last |-> t])}

\* The history with one more ban of n, which makes room for a new network.
Recorded(n) ==
  {Put(h, n, [count |-> IF n \in DOMAIN h THEN h[n].count + 1 ELSE 1, last |-> t]) :
     h \in IF n \in DOMAIN history THEN {history} ELSE TrimHistory(history)}

AppendBan(n, f, ttl) ==
  \/ /\ log' = Append(log, [net |-> n, filter |-> f, ts |-> t, ttl |-> ttl,
                            escalation |-> Escalation(n)])
     /\ UNCHANGED session
  \/ /\ "log" \in Faults
     /\ log' = log /\ session' = Len(log)

\* Mutant: a ban as old as the memory does not count.
RebuiltExclusive ==
  LET recent(n) == {i \in 1..Len(log) : log[i].net = n /\ log[i].ts > SW!Monus(t, Memory)}
  IN  [n \in {n \in Nets : recent(n) # {}} |->
         [count |-> Cardinality(recent(n)),
          last  |-> log[CHOOSE i \in recent(n) : \A j \in recent(n) : j <= i].ts]]

\* What start makes of the log: every ban inside the memory counts.
Rebuilt ==
  LET recent(n) == {i \in 1..Len(log) : log[i].net = n /\ log[i].ts >= SW!Monus(t, Memory)}
  IN  [n \in {n \in Nets : recent(n) # {}} |->
         [count |-> Cardinality(recent(n)),
          last  |-> log[CHOOSE i \in recent(n) : \A j \in recent(n) : j <= i].ts]]

-----------------------------------------------------------------------------
(* handle_line: record_hit for every matching filter in turn, then a tick   *)
(* if the last one is a minute old.                                         *)

Host(f) == task.line[f]
Net(f) == ToKey[Host(f)]

Turn(f) == Serving("line") /\ f \in task.todo /\ \A g \in task.todo : f <= g
NextFilter(f) == task' = [task EXCEPT !.todo = @ \ {f}]

IsAllowed(h) == \E a \in allow : h \in a
Spared(f) == IsAllowed(Host(f)) \/ \E a \in allow : Overlaps(a, Net(f))

\* Mutant: a ban in its last second no longer counts.
BannedLonger(n) == n \in DOMAIN active /\ active[n] > t + 1

\* The network is banned as far as the mirror knows.
Banned(n) == n \in DOMAIN active /\ active[n] > t

\* The address, or the network it is banned as, is on the allow list.
IgnoreAllowed(f) ==
  /\ Turn(f)
  /\ Spared(f)
  /\ NextFilter(f)
  /\ TrackerIdle
  /\ UNCHANGED t
  /\ Read

AlreadyBanned(f) ==
  /\ Turn(f)
  /\ ~Spared(f)
  /\ Banned(Net(f))
  /\ NextFilter(f)
  /\ TrackerIdle
  /\ UNCHANGED t
  /\ Read

\* The tracker counts the hit and asks for a ban or not.
Track(f, ban) ==
  /\ Turn(f)
  /\ ~Spared(f)
  /\ ~Banned(Net(f))
  /\ \E lost \in SW!Evictable(<<f, Net(f)>>) : SW!Hit(<<f, Net(f)>>, lost)
  /\ verdict'.ban = ban
  /\ fresh' = [fresh EXCEPT ![Net(f)] = Least(@ + 1, Enough)]
  /\ UNCHANGED <<phase, backend, now, lastSweep, allow>>

Below(f) ==
  /\ Track(f, FALSE)
  /\ NextFilter(f)
  /\ UNCHANGED <<active, history, firewall, events>>

\* apply_ban
AutoBan(f) ==
  LET n   == Net(f)
      ttl == EscalatedTtl(BanTime[f], n)
  IN  /\ Track(f, TRUE)
      /\ FirewallBan(n, ttl)
      /\ active' = Put(active, n, t + ttl)
      /\ history' \in Recorded(n)
      /\ AppendBan(n, f, ttl)
      /\ NextFilter(f)

\* The firewall refuses: nothing is recorded, but the tracker has started afresh.
AutoBanFails(f) ==
  /\ Track(f, TRUE)
  /\ FirewallBanFails(Net(f))
  /\ NextFilter(f)
  /\ UNCHANGED <<active, history, events>>

\* tick
Housekeep ==
  /\ lastSweep' = t
  /\ active' = Without(active, {n \in DOMAIN active : active[n] <= t})
  /\ \E lost \in SUBSET SW!Tracked : SW!Sweep(lost)
  /\ history' \in TrimHistory(
       Without(history, {n \in DOMAIN history : SW!Monus(t, history[n].last) > Memory}))
  /\ UNCHANGED <<phase, backend, now, allow, firewall, events, fresh>>

EndLine ==
  /\ Serving("line")
  /\ task.todo = {}
  /\ SW!Monus(t, lastSweep) < SweepEvery
  /\ task' = Drain
  /\ TrackerIdle
  /\ UNCHANGED t
  /\ Read

EndLineTick ==
  /\ Serving("line")
  /\ task.todo = {}
  /\ SW!Monus(t, lastSweep) >= SweepEvery
  /\ task' = Drain
  /\ Housekeep

\* The timer.
Tick ==
  /\ Serving("ready")
  /\ Done
  /\ Housekeep

-----------------------------------------------------------------------------
(* Requests on the control socket. *)

Request ==
  /\ Serving("ready")
  /\ Done
  /\ UNCHANGED <<phase, backend, now, t, history, lastSweep, allow, events>>

MayBan(n) == ~\E a \in allow : Overlaps(a, n)

ManualBan(n, ttl) ==
  /\ Request
  /\ MayBan(n)
  /\ FirewallBan(n, ttl)
  /\ active' = Put(active, n, t + ttl)
  /\ TrackerIdle
  /\ UNCHANGED fresh

ManualBanFails(n) ==
  /\ Request
  /\ MayBan(n)
  /\ FirewallBanFails(n)
  /\ TrackerIdle
  /\ UNCHANGED <<active, fresh>>

\* Mutant: the loop over the filters starts one too late.
ForgottenButFirst(n) == {f \in Filters : \E g \in Filters : g < f} \X {n}

\* The tracker's keys of a network.
Forgotten(n) == Filters \X {n}

\* Unbanning forgets the network's hits under every filter, but not its history.
\* nft's failures are ignored.
Unban(n) ==
  /\ Request
  /\ \/ kernel' = [kernel EXCEPT ![n] = 0]
     \/ "backend" \in Faults /\ backend = "nft" /\ UNCHANGED kernel
  /\ promised' = [promised EXCEPT ![n] = 0]
  /\ active' = Without(active, {n})
  /\ SW!Drop(Forgotten(n))
  /\ fresh' = [fresh EXCEPT ![n] = 0]

\* Listing drops from the mirror what the firewall no longer has.
List ==
  /\ Request
  /\ active' = Without(active, IF backend = "nft" THEN DOMAIN active \ Listed
                               ELSE {n \in DOMAIN active : active[n] <= t})
  /\ TrackerIdle
  /\ UNCHANGED <<firewall, fresh>>

Status ==
  /\ Request
  /\ active' = Without(active, {n \in DOMAIN active : active[n] <= t})
  /\ TrackerIdle
  /\ UNCHANGED <<firewall, fresh>>

\* A ban of an allowed network, an unban or a listing the firewall fails, and a
\* request for nothing but names: only an answer.
OnlyAnswer ==
  /\ Request
  /\ TrackerIdle
  /\ UNCHANGED <<active, firewall, fresh>>

-----------------------------------------------------------------------------
(* Start, stop and the world. *)

\* The daemon starts with the configuration it finds, and reads the clock.
Start(list) ==
  /\ phase = "down"
  /\ phase' = "starting"
  /\ allow' = list
  /\ t' = now
  /\ TrackerIdle
  /\ UNCHANGED <<backend, now, task, memory, firewall, events, fresh>>

\* Mutant: start does not ask the firewall.
Unreconciled == EmptyTable

\* What start makes of the bans the firewall lists, counted from the time it was called.
Reconciled == [n \in IF backend = "nft" THEN Listed ELSE {} |-> t + kernel[n] - now]

\* start: the mirror is reconciled with the firewall, the history with the log.
Started ==
  /\ phase = "starting"
  /\ phase' = "up"
  /\ active' = Reconciled
  /\ history' = Rebuilt
  /\ lastSweep' = 0
  /\ session' = Len(log)
  /\ promised' = [n \in Nets |-> IF backend = "nft" /\ kernel[n] # 0
                                THEN t + kernel[n] - now ELSE 0]
  /\ fresh' = [n \in Nets |-> 0]
  /\ TrackerIdle
  /\ UNCHANGED <<backend, now, t, task, allow, kernel, log>>

\* The end of the process: its memory is gone, of which the history's last value stands
\* here until start writes it, before anything reads it.
Halt ==
  /\ phase' = "down"
  /\ Done
  /\ SW!Drop(SW!Tracked)
  /\ active' = EmptyTable /\ lastSweep' = 0
  /\ UNCHANGED <<backend, now, history, allow>>

StartFails ==
  /\ phase = "starting"
  /\ "backend" \in Faults
  /\ Halt
  /\ UNCHANGED <<firewall, events, fresh>>

\* SIGTERM, between two calls.
Stop ==
  /\ Serving("idle")
  /\ Halt
  /\ UNCHANGED <<firewall, events, fresh>>

Crash ==
  /\ "crash" \in Faults
  /\ phase # "down"
  /\ Halt
  /\ UNCHANGED <<firewall, events, fresh>>

\* The daemon dies in apply_ban, after the firewall's command and before the log's write.
CrashInBan(f) ==
  /\ "crash" \in Faults
  /\ Turn(f)
  /\ ~Spared(f)
  /\ ~Banned(Net(f))
  /\ SW!InWindow(Append(hits[<<f, Net(f)>>], t), SW!Monus(t, FindTime[f])) >= MaxRetry[f]
  /\ FirewallBan(Net(f), EscalatedTtl(BanTime[f], Net(f)))
  /\ Halt
  /\ UNCHANGED <<events, fresh>>

Reboot ==
  /\ "reboot" \in Faults
  /\ phase # "down"
  /\ Halt
  /\ kernel' = [n \in Nets |-> 0]
  /\ promised' = [n \in Nets |-> 0]
  /\ UNCHANGED <<events, fresh>>

\* nft delete element, flush, by hand.
ExternalRemove(n) ==
  /\ "external" \in Faults
  /\ n \in Listed
  /\ kernel' = [kernel EXCEPT ![n] = 0]
  /\ promised' = [promised EXCEPT ![n] = 0]
  /\ UNCHANGED <<phase, backend, now, t, task, tracker, memory, allow, events, fresh>>

\* Time passes, and the firewall drops the bans that have run out.
Clock ==
  /\ now < MaxTime
  /\ task # Idle \/ phase = "starting" => now < t + MaxLag
  /\ now' = now + 1
  /\ kernel' = [n \in Nets |-> IF kernel[n] <= now' THEN 0 ELSE kernel[n]]
  /\ UNCHANGED <<phase, backend, t, task, tracker, memory, allow, promised, events, fresh>>

Init ==
  /\ phase = "down"
  /\ backend \in Backends
  /\ now = Epoch /\ t = Epoch
  /\ task = Idle
  /\ hits = [k \in Filters \X Nets |-> <<>>] /\ verdict = SW!NoVerdict
  /\ active = EmptyTable /\ history = EmptyTable /\ lastSweep = 0
  /\ allow = {}
  /\ kernel = [n \in Nets |-> 0]
  /\ log = <<>> /\ session = 0
  /\ promised = [n \in Nets |-> 0]
  /\ fresh = [n \in Nets |-> 0]

Lifecycle ==
  \/ \E list \in AllowLists : Start(list)
  \/ Started
  \/ StartFails
  \/ Stop
  \/ Crash
  \/ Reboot

HandleLine ==
  \/ \E line \in Lines : ReceiveLine(line)
  \/ QueueEmpty
  \/ \E f \in Filters : \/ IgnoreAllowed(f) \/ AlreadyBanned(f) \/ Below(f)
                        \/ AutoBan(f) \/ AutoBanFails(f) \/ CrashInBan(f)
  \/ EndLine
  \/ EndLineTick

HandleRequest ==
  \/ \E n \in Nets, ttl \in Ttls : ManualBan(n, ttl)
  \/ \E n \in Nets : ManualBanFails(n) \/ Unban(n)
  \/ List
  \/ Status
  \/ OnlyAnswer

Next ==
  \/ Wake
  \/ Lifecycle
  \/ HandleLine
  \/ HandleRequest
  \/ Tick
  \/ \E n \in Nets : ExternalRemove(n)
  \/ Clock

Spec == Init /\ [][Next]_vars

-----------------------------------------------------------------------------
(* Properties. *)

Entry == [net : Nets, filter : Filters, ts : Nat, ttl : Nat, escalation : Nat]

TypeOK ==
  /\ phase \in {"down", "starting", "up"}
  /\ backend \in Backends
  /\ now \in Nat /\ t \in Nat /\ t <= now
  /\ task \in {Idle, Ready, Drain} \cup [do : {"line"}, line : Lines, todo : SUBSET Filters]
  /\ task.do = "line" => task.todo \subseteq DOMAIN task.line
  /\ hits \in [Filters \X Nets -> Seq(Nat)]
  /\ verdict \in [ban : BOOLEAN, hits : Nat]
  /\ DOMAIN active \subseteq Nets /\ \A n \in DOMAIN active : active[n] \in Nat
  /\ DOMAIN history \subseteq Nets
  /\ \A n \in DOMAIN history : history[n] \in [count : Nat \ {0}, last : Nat]
  /\ lastSweep \in Nat
  /\ allow \in AllowLists \cup {{}}
  /\ kernel \in [Nets -> Nat]
  /\ log \in Seq(Entry)
  /\ session \in 0..Len(log)
  /\ promised \in [Nets -> Nat]
  /\ fresh \in [Nets -> 0..Enough]

\* A network the mirror takes for banned, so that its hits are ignored, is banned by
\* the firewall for at least as long, however late the command came and whatever
\* restarts there were; only a ban the firewall lost or refused to renew is not.
MirrorBacked ==
  \A n \in DOMAIN active : active[n] > now /\ promised[n] # 0 => kernel[n] >= active[n]

\* The history stays within max_tracked from the first tick on ("so a long
\* escalate.memory window cannot turn high-cardinality bans into unbounded daemon
\* memory", engine.rs:426).
HistoryBounded ==
  phase = "up" /\ lastSweep # 0 => Cardinality(DOMAIN history) <= MaxTracked

\* The engine never asks the firewall for a ban that covers an allowed address, not
\* even through the other hosts of its network, nor after the list has changed.
NeverBansAllowed ==
  [][\A n \in Nets : kernel'[n] > kernel[n] => \A a \in allow : a \cap n = {}]_vars

\* No automatic ban before the one in force has run out, for the engine and, but for the
\* lag of a command, in the firewall: two filters that match one line and queued lines of
\* a banned host do not ban twice, nor does a restart while nftables holds the ban.  The
\* exec backend cannot list its bans and may.
NoEarlyReban ==
  [][\A f \in Filters : AutoBan(f) /\ promised[Net(f)] # 0 =>
       promised[Net(f)] <= t /\ kernel[Net(f)] <= t + MaxLag]_vars

\* After an unban or a restart a network is banned only for maxretry hits that came
\* since, under whichever filter.
StartsAfresh ==
  [][\A f \in Filters : AutoBan(f) => fresh'[Net(f)] >= MaxRetry[f]]_vars

\* A network banned again inside the memory, in one life of the daemon and with every
\* ban between logged, is banned at a higher escalation than the time before, and by
\* the same filter for no shorter a time, unless trim_history dropped it in between.
BansEscalate ==
  [][\A f \in Filters : Escalates /\ AutoBan(f) /\ log' # log =>
       \A i \in session+1..Len(log) :
         LET before == log[i]
             ban    == log'[Len(log')]
         IN  /\ before.net = ban.net
             /\ \A j \in i+1..Len(log) : log[j].net # ban.net
             /\ ban.net \in DOMAIN history
             /\ ban.ts - before.ts <= Memory
             => /\ ban.escalation > before.escalation
                /\ ban.filter = before.filter => ban.ttl >= before.ttl]_vars

\* Every logged ban of a network inside the memory counts for its next one, those
\* before a restart or a crash as well, if the table never fills.
EveryBanCounts ==
  [][\A f \in Filters : Escalates /\ AutoBan(f) /\ log' # log
                        /\ IsFiniteSet(Nets) /\ Cardinality(Nets) < MaxTracked =>
       LET ban == log'[Len(log')]
       IN  ban.escalation >= Cardinality({i \in 1..Len(log) :
                               log[i].net = ban.net /\ ban.ts - log[i].ts <= Memory})]_vars
=============================================================================
