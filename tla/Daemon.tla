------------------------------- MODULE Daemon -------------------------------
(***************************************************************************)
(* The daemon's event loop (minsec/src/daemon.rs) and its callers          *)
(* (minsec-core/src/control.rs).  Everything runs on one thread: the loop  *)
(* keeps it until none of the branches of its select! is ready, and only   *)
(* then the sources and the tasks of the control socket get on.            *)
(***************************************************************************)
EXTENDS Naturals, Sequences

CONSTANTS Sources,     \* what may send lines: the file tailer, the journal
          Calls,       \* callers of the control socket, each with one request at a time
          LineCap,     \* capacity of the channel of lines (4096 in the code)
          CtlCap,      \* capacity of the channel of requests (64)
          MaxDue       \* bound: ticks of the timer that may be overdue

ASSUME DaemonAssumption ==
    /\ LineCap \in Nat \ {0}
    /\ CtlCap \in Nat \ {0}
    /\ MaxDue \in Nat \ {0}

VARIABLES
    up,       \* the daemon runs
    on,       \* the sources it was started with
    live,     \* those whose task has not ended: the senders of the channel of lines
    turn,     \* who has the thread: the "loop" or the "tasks"
    lines,    \* how many lines are in their channel
    ctl,      \* the calls whose requests are in the channel of requests
    due,      \* ticks of the timer the loop has yet to serve
    told,     \* a signal to end has arrived
    valid,    \* per call, whether what it sends is a request
    conn,     \* per call, the task that serves its connection
    client,   \* per call, the caller: idle after an error, too
    served    \* auxiliary: how often the engine was asked what the call asks

sched == <<up, on, turn>>
calls == <<valid, conn, client, served>>
vars  == <<up, on, live, turn, lines, ctl, due, told, valid, conn, client, served>>

Conns   == {"none", "backlog", "open", "sending", "waiting", "answering"}
Clients == {"idle", "waiting", "answered"}

Init ==
    /\ up = FALSE
    /\ on = {}
    /\ live = {}
    /\ turn = "loop"
    /\ lines = 0
    /\ ctl = <<>>
    /\ due = 0
    /\ told = FALSE
    /\ valid = [c \in Calls |-> TRUE]
    /\ conn = [c \in Calls |-> "none"]
    /\ client = [c \in Calls |-> "idle"]
    /\ served = [c \in Calls |-> 0]

-----------------------------------------------------------------------------
(* Start and end.                                                          *)

\* Each source with something to read gets a sender; the loop keeps none (52).
\* The first tick of the interval is due at once.  A start that fails changes
\* nothing here.
Start ==
    /\ ~up
    /\ up' = TRUE
    /\ \E s \in SUBSET Sources : on' = s /\ live' = s
    /\ turn' = "loop"
    /\ due' = 1
    /\ UNCHANGED <<lines, ctl, told, calls>>

\* What the end of the process does: channels and tasks are dropped, and the
\* callers still waiting find their connection closed.
Down ==
    /\ up
    /\ up' = FALSE
    /\ on' = {}
    /\ live' = {}
    /\ turn' = "loop"
    /\ lines' = 0
    /\ ctl' = <<>>
    /\ due' = 0
    /\ told' = FALSE
    /\ conn' = [c \in Calls |-> "none"]
    /\ client' = [c \in Calls |-> IF client[c] = "waiting" THEN "idle" ELSE client[c]]
    /\ UNCHANGED <<valid, served>>

Kill == Down

-----------------------------------------------------------------------------
(* The loop.  The select! is biased: a branch is taken only if none before *)
(* it is ready.                                                            *)

Looping == up /\ turn = "loop"

\* recv() gives None: the channel is empty and every sender is gone.
NoMoreLines == lines = 0 /\ live = {}

Told ==
    /\ Looping
    /\ told
    /\ Down

Serve ==
    /\ Looping
    /\ ~told
    /\ ctl # <<>>
    /\ ctl' = Tail(ctl)
    /\ served' = [served EXCEPT ![Head(ctl)] = @ + 1]
    /\ conn' = [conn EXCEPT ![Head(ctl)] = "answering"]
    /\ UNCHANGED <<sched, live, lines, due, told, valid, client>>

\* One line, and with it all that are queued.
HandleLines ==
    /\ Looping
    /\ ~told
    /\ ctl = <<>>
    /\ lines > 0
    /\ lines' = 0
    /\ UNCHANGED <<sched, live, ctl, due, told, calls>>

LinesEnd ==
    /\ Looping
    /\ ~told
    /\ ctl = <<>>
    /\ NoMoreLines
    /\ Down

Tick ==
    /\ Looping
    /\ ~told
    /\ ctl = <<>>
    /\ lines = 0
    /\ live # {}
    /\ due > 0
    /\ due' = due - 1
    /\ UNCHANGED <<sched, live, lines, ctl, told, calls>>

\* Mutant: a request does not wake the loop.
ReadyOtherwise == told \/ lines > 0 \/ NoMoreLines \/ due > 0

\* Some branch of the select! can be taken.
Ready == told \/ ctl # <<>> \/ lines > 0 \/ NoMoreLines \/ due > 0

Yield ==
    /\ Looping
    /\ ~Ready
    /\ turn' = "tasks"
    /\ UNCHANGED <<up, on, live, lines, ctl, due, told, calls>>

-----------------------------------------------------------------------------
(* What happens while the loop waits: the runtime sees signals and timers, *)
(* and the tasks run, each until it waits itself, in any order.            *)

\* Mutant: a runtime with more threads than one.
TasksAlwaysRun == up

TasksRun == up /\ turn = "tasks"

Wake ==
    /\ TasksRun
    /\ Ready
    /\ turn' = "loop"
    /\ UNCHANGED <<up, on, live, lines, ctl, due, told, calls>>

Signal ==
    /\ TasksRun
    /\ told' = TRUE
    /\ UNCHANGED <<sched, live, lines, ctl, due, calls>>

\* Missed ticks are made up for, one by one.
TimerFires ==
    /\ TasksRun
    /\ due < MaxDue
    /\ due' = due + 1
    /\ UNCHANGED <<sched, live, lines, ctl, told, calls>>

\* A source waits while the channel is full.
SendLine(s) ==
    /\ TasksRun
    /\ s \in live
    /\ lines < LineCap
    /\ lines' = lines + 1
    /\ UNCHANGED <<sched, live, ctl, due, told, calls>>

\* An error ends a source; it is logged, and its sender is dropped.
SourceEnds(s) ==
    /\ TasksRun
    /\ s \in live
    /\ live' = live \ {s}
    /\ UNCHANGED <<sched, lines, ctl, due, told, calls>>

-----------------------------------------------------------------------------
(* A connection.                                                           *)

ConnStep(c, from, to) ==
    /\ TasksRun
    /\ conn[c] = from
    /\ conn' = [conn EXCEPT ![c] = to]

Accept(c) ==
    /\ ConnStep(c, "backlog", "open")
    /\ UNCHANGED <<sched, live, lines, ctl, due, told, valid, client, served>>

Parse(c) ==
    /\ ConnStep(c, "open", IF valid[c] THEN "sending" ELSE "answering")
    /\ UNCHANGED <<sched, live, lines, ctl, due, told, valid, client, served>>

\* The channel takes a request.
CtlRoom == Len(ctl) < CtlCap

\* Mutant: the answer does not wait for the engine.
SendAndForget(c) ==
    /\ CtlRoom
    /\ ConnStep(c, "sending", "answering")
    /\ ctl' = Append(ctl, c)
    /\ UNCHANGED <<sched, live, lines, due, told, valid, client, served>>

SendRequest(c) ==
    /\ CtlRoom
    /\ ConnStep(c, "sending", "waiting")
    /\ ctl' = Append(ctl, c)
    /\ UNCHANGED <<sched, live, lines, due, told, valid, client, served>>

\* The answer reaches a caller who still waits; it makes no difference to the
\* task, which ends because a caller sends one line and closes.
Answer(c) ==
    /\ ConnStep(c, "answering", "none")
    /\ client' = [client EXCEPT ![c] = IF @ = "waiting" THEN "answered" ELSE @]
    /\ UNCHANGED <<sched, live, lines, ctl, due, told, valid, served>>

-----------------------------------------------------------------------------
(* A caller, who has a process of its own.                                 *)

\* Connecting and writing the request need the kernel only.
Call(c) ==
    /\ up
    /\ client[c] # "waiting"
    /\ conn[c] = "none"
    /\ client' = [client EXCEPT ![c] = "waiting"]
    /\ \E v \in BOOLEAN : valid' = [valid EXCEPT ![c] = v]
    /\ conn' = [conn EXCEPT ![c] = "backlog"]
    /\ served' = [served EXCEPT ![c] = 0]
    /\ UNCHANGED <<sched, live, lines, ctl, due, told>>

\* Five seconds without an answer.  The daemon is not told.
GiveUp(c) ==
    /\ client[c] = "waiting"
    /\ client' = [client EXCEPT ![c] = "idle"]
    /\ UNCHANGED <<sched, live, lines, ctl, due, told, valid, conn, served>>

-----------------------------------------------------------------------------
Loop == Told \/ Serve \/ HandleLines \/ LinesEnd \/ Tick \/ Yield

Connection(c) == Accept(c) \/ Parse(c) \/ SendRequest(c) \/ Answer(c)

Next ==
    \/ Start \/ Kill
    \/ Loop
    \/ Wake \/ Signal \/ TimerFires
    \/ \E s \in Sources : SendLine(s) \/ SourceEnds(s)
    \/ \E c \in Calls : Connection(c) \/ Call(c) \/ GiveUp(c)

\* The loop's own steps take finite time, and the runtime polls it when it is
\* woken.  A task that is ready gets on in some turn, since tasks queue for the
\* thread, and for room in the channel of requests, first come first served.
\* Every turn of the loop disables the tasks' steps: strong fairness.  Nothing is
\* assumed of sources, signals, callers and the timer.
Fairness ==
    /\ WF_vars(Loop)
    /\ WF_vars(Wake)
    /\ \A c \in Calls : SF_vars(Connection(c))

Spec == Init /\ [][Next]_vars /\ Fairness

-----------------------------------------------------------------------------
TypeOK ==
    /\ up \in BOOLEAN
    /\ on \subseteq Sources
    /\ live \subseteq on
    /\ turn \in {"loop", "tasks"}
    /\ lines \in 0 .. LineCap
    /\ ctl \in Seq(Calls) /\ Len(ctl) <= CtlCap
    /\ due \in 0 .. MaxDue
    /\ told \in BOOLEAN
    /\ conn \in [Calls -> Conns]
    /\ valid \in [Calls -> BOOLEAN]
    /\ client \in [Calls -> Clients]
    /\ served \in [Calls -> Nat]

\* A caller who is answered had the request done, once, and nobody's request is
\* done twice, whoever gave up meanwhile (daemon.rs:76-88, 105-108).
AnswersAreTrue ==
    \A c \in Calls :
        /\ served[c] <= 1
        /\ ~valid[c] => served[c] = 0
        /\ client[c] = "answered" /\ valid[c] => served[c] = 1

\* Every request that reaches the daemon is done, also when its caller has long
\* given up, and every caller is answered or finds the connection closed, without
\* any help of the time limit (control.rs:106-117 against daemon.rs:70-90).
CallsGetDone ==
    \A c \in Calls :
        /\ conn[c] = "backlog" /\ valid[c] ~> served[c] = 1 \/ ~up
        /\ client[c] = "waiting" ~> client[c] # "waiting"

\* However many lines and requests come, the ticks get served, and a source that
\* waits for room goes on: the select! is biased, but nothing can come in while
\* the loop has the thread (daemon.rs:100-121).
NothingStarves ==
    /\ due > 0 ~> due = 0
    /\ lines = LineCap ~> lines = 0

=============================================================================
