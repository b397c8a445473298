----------------------------- MODULE ReportProofs -----------------------------
(***************************************************************************)
(* Proofs about the event log while it is rotated and read, for any        *)
(* numbers of bans, files, failures and runners.                           *)
(***************************************************************************)
EXTENDS Report, TLAPS

\* The daemon's file is the current one, or its predecessor while there is none; a
\* rotation goes on only in a daemon that runs.
FileOK ==
  /\ fd # None => fd = IF current = None THEN old ELSE current
  /\ rotating \in {"rename", "open"} => fd # None
  /\ rotating = "open" => current = None

LEMMA FileInit ==
  ASSUME Init
  PROVE  FileOK
BY DEF Init, LogInit, FileOK

LEMMA FileKept ==
  ASSUME LogAssumption, FileOK, LogNext
  PROVE  FileOK'
<1>1. \A i \in Free : i # None
  BY DEF Free, LogAssumption
<1>2. CASE AppendBan \/ AppendCut
  BY <1>2 DEF AppendBan, AppendCut, FileOK
<1>3. CASE Rename
  BY <1>3 DEF Rename, FileOK
<1>4. CASE RenameFails \/ ReopenFails
  BY <1>4 DEF RenameFails, ReopenFails, FileOK
<1>5. CASE Reopen
  BY <1>1, <1>5 DEF Reopen, FileOK
<1>6. CASE Halt
  BY <1>6 DEF Halt, FileOK
<1>7. CASE Open
  <2>1. current' # None /\ fd' = current' /\ rotating' = rotating
    BY <1>1, <1>7 DEF Open
  <2>2. rotating \notin {"rename", "open"}
    BY <1>7 DEF Open, FileOK
  <2>3. QED
    BY <2>1, <2>2 DEF FileOK
<1>8. QED
  BY <1>2, <1>3, <1>4, <1>5, <1>6, <1>7 DEF LogNext

\* What a run of minsec-sync does changes nothing of the log.
LEMMA RunnersLeaveLog ==
  ASSUME NEW r \in Runners, Step(r) \/ SubmitFails(r) \/ Crash(r)
  PROVE  UNCHANGED log
BY DEF Step, SubmitFails, Crash, Begin, Look, LookOld, ReadOld, Measure, Read, Submit,
   SubmitAgain, GiveUp, Save, Finish

\* Whichever of the steps of a rotation fails, or is the daemon's last, the daemon never
\* appends to a file that has lost its name.
THEOREM WritesNamed == Spec => []WritesNamedFile
<1>1. Init => FileOK
  BY FileInit
<1>2. FileOK /\ [Next]_vars => FileOK'
  <2>1. ASSUME FileOK, UNCHANGED log
        PROVE  FileOK'
    BY <2>1 DEF log, FileOK
  <2>2. ASSUME FileOK, Next
        PROVE  FileOK'
    BY <2>1, <2>2, LogAssumption, FileKept, RunnersLeaveLog DEF Next, Daemon
  <2>3. QED
    BY <2>1, <2>2 DEF vars
<1>3. FileOK => WritesNamedFile
  BY DEF FileOK, WritesNamedFile
<1>4. QED
  BY <1>1, <1>2, <1>3, PTL DEF Spec

-----------------------------------------------------------------------------
(* Types. *)

SideOK ==
  /\ last \in Nat /\ accepted \subseteq Bans
  /\ saved \in State
  /\ skipped \subseteq Bans /\ missed \in BOOLEAN /\ astray \in BOOLEAN

RunOK == run \in [Runners -> Run]

LEMMA TypeParts == TypeOK <=> LogTypeOK /\ SideOK /\ RunOK
BY DEF TypeOK, SideOK, RunOK

LEMMA TypePartsPrime == TypeOK' <=> LogTypeOK' /\ SideOK' /\ RunOK'
BY TypeParts, PTL

LEMMA Constants ==
  ASSUME LogAssumption, ReportAssumption
  PROVE  /\ None \notin Inodes /\ Inodes \subseteq Nat /\ None = 0 /\ Other = 0
         /\ MaxBans \in Nat /\ RotateAt \in Nat \ {0} /\ MaxFaults \in Nat
         /\ MaxClock \in Nat \ {0} /\ MaxSeq \in Nat /\ SeqJump \in Nat /\ MaxClock <= SeqJump
         /\ BatchSize \in Nat \ {0}
BY DEF LogAssumption, ReportAssumption, None, Other

LEMMA AppendedTyped ==
  ASSUME NEW lines \in Seq(Line), NEW l \in Line
  PROVE  Appended(lines, l) \in Seq(Line)
<1>1. CASE Cut(lines)
  <2>1. Len(lines) \in 1..Len(lines)
    BY <1>1 DEF Cut
  <2>2. [ban |-> Other, cut |-> l.cut] \in Line
    BY DEF Line
  <2>3. QED
    BY <1>1, <2>1, <2>2 DEF Appended
<1>2. CASE ~Cut(lines)
  BY <1>2 DEF Appended
<1>3. QED
  BY <1>1, <1>2

LEMMA LogTyped ==
  ASSUME LogAssumption, ReportAssumption, LogTypeOK, LogNext
  PROVE  LogTypeOK'
<1> USE Constants
<1>1. CASE AppendBan \/ AppendCut
  <2>1. PICK c \in BOOLEAN :
          /\ bans' = bans + 1 /\ bans < MaxBans /\ fd # None
          /\ text' = [text EXCEPT ![fd] = Appended(text[fd], [ban |-> bans', cut |-> c])]
          /\ UNCHANGED <<current, old, fd>>
          /\ faults' \in {faults, faults + 1} /\ (faults' # faults => faults < MaxFaults)
    BY <1>1 DEF AppendBan, AppendCut, Fails
  <2>2. [ban |-> bans', cut |-> c] \in Line /\ bans' \in 0..MaxBans
    BY <2>1 DEF LogTypeOK, Line, Bans
  <2>3. fd \in Inodes /\ text[fd] \in Seq(Line)
    BY <2>1 DEF LogTypeOK
  <2>4. text' \in [Inodes -> Seq(Line)]
    BY <2>1, <2>2, <2>3, AppendedTyped DEF LogTypeOK
  <2>5. written' \in Nat /\ rotating' \in {"no", "rename", "open"}
    BY <1>1 DEF AppendBan, AppendCut, LogTypeOK
  <2>6. QED
    BY <2>1, <2>2, <2>4, <2>5 DEF LogTypeOK
<1>2. CASE Rename
  <2>1. <<>> \in Seq(Line)
    OBVIOUS
  <2>2. text' \in [Inodes -> Seq(Line)]
    BY <1>2, <2>1 DEF Rename, LogTypeOK
  <2>3. QED
    BY <1>2, <2>2 DEF Rename, LogTypeOK
<1>3. CASE RenameFails
  BY <1>3 DEF RenameFails, LogTypeOK
<1>4. CASE Reopen
  BY <1>4 DEF Reopen, Free, LogTypeOK
<1>5. CASE ReopenFails \/ Halt
  BY <1>5 DEF ReopenFails, Halt, Fails, LogTypeOK
<1>6. CASE Open
  <2>1. current' \in Inodes /\ current' # old
    BY <1>6 DEF Open, Free, LogTypeOK
  <2>2. written' \in Nat
    BY <1>6, <2>1 DEF Open, LogTypeOK
  <2>3. QED
    BY <1>6, <2>1, <2>2 DEF Open, LogTypeOK
<1>7. QED
  BY <1>1, <1>2, <1>3, <1>4, <1>5, <1>6 DEF LogNext

\* The lines an offset may refer to.
LEMMA CompleteTyped ==
  ASSUME LogAssumption, ReportAssumption, LogTypeOK, NEW i \in Inodes \cup {None}, NEW n \in Nat
  PROVE  /\ Complete(i, n) \in Nat /\ Complete(i, n) >= n
         /\ i # None => Len(text[i]) \in Nat /\ (n <= Len(text[i]) => Complete(i, n) <= Len(text[i]))
<1>1. CASE i = None
  BY <1>1 DEF Complete
<1>2. CASE i # None
  <2>1. text[i] \in Seq(Line) /\ Len(text[i]) \in Nat
    BY <1>2 DEF LogTypeOK
  <2>2. QED
    BY <1>2, <2>1 DEF Complete, Greater
<1>3. QED
  BY <1>1, <1>2

LEMMA InFileTyped ==
  ASSUME LogTypeOK, NEW i \in Inodes \cup {None}
  PROVE  InFile(i) \subseteq Bans
<1>1. CASE i = None
  BY <1>1 DEF InFile
<1>2. CASE i # None
  <2>1. text[i] \in Seq(Line)
    BY <1>2 DEF LogTypeOK
  <2>2. \A k \in DOMAIN text[i] : text[i][k].ban \in {Other} \cup Bans
    <3>1. \A k \in DOMAIN text[i] : text[i][k] \in Line
      BY <2>1
    <3>2. QED
      BY <3>1 DEF Line
  <2>3. QED
    BY <1>2, <2>2 DEF InFile
<1>3. QED
  BY <1>1, <1>2

LEMMA BansFromTyped ==
  ASSUME LogAssumption, ReportAssumption, LogTypeOK, NEW i \in Inodes \cup {None}, NEW n \in Nat
  PROVE  BansFrom(i, n) \subseteq Bans
<1>1. CASE i = None
  BY <1>1 DEF BansFrom
<1>2. CASE i # None
  <2>1. text[i] \in Seq(Line) /\ Len(text[i]) \in Nat
    BY <1>2 DEF LogTypeOK
  <2>2. \A k \in n+1..Complete(i, n) : k \in 1..Len(text[i])
    BY <1>2, <2>1 DEF Complete, Greater
  <2>3. \A k \in 1..Len(text[i]) : text[i][k] \in Line
    BY <2>1
  <2>4. \A k \in n+1..Complete(i, n) : text[i][k].ban \in {Other} \cup Bans
    BY <2>2, <2>3 DEF Line
  <2>5. QED
    BY <1>2, <2>4 DEF BansFrom
<1>3. QED
  BY <1>1, <1>2

\* What a step does to the run that takes it.
LEMMA RunTyped ==
  ASSUME LogAssumption, ReportAssumption, TypeOK, NEW r \in Runners,
         Step(r) \/ SubmitFails(r) \/ Crash(r)
  PROVE  RunOK' /\ SideOK'
<1> USE Constants
<1> DEFINE q == run[r]
<1>1. /\ q \in Run /\ q.state \in State /\ q.cursor \in Cursor /\ q.state.cursor \in Cursor
      /\ q.found \subseteq Bans /\ q.seq \in Nat /\ q.state.next_seq \in Nat
      /\ q.cursor.offset \in Nat /\ q.state.cursor.offset \in Nat
      /\ q.cursor.ino \in Inodes \cup {None} /\ q.state.cursor.ino \in Inodes \cup {None}
      /\ SideOK /\ RunOK /\ LogTypeOK
  BY TypeParts DEF RunOK, Run, State, Cursor
<1>2. NoCursor \in Cursor /\ Idle \in Run
  BY DEF NoCursor, Idle, Run, State, Cursor
<1>3. {current, old} \subseteq Inodes \cup {None}
  BY <1>1 DEF LogTypeOK
<1>4. CASE Begin(r)
  <2>1. [Idle EXCEPT !.step = "look", !.state = saved] \in Run
    BY <1>1, <1>2 DEF Run, SideOK
  <2>2. QED
    BY <1>1, <1>4, <2>1 DEF Begin, server, RunOK, SideOK
<1>5. CASE Look(r)
  BY <1>1, <1>3, <1>5 DEF Look, server, RunOK, SideOK, Run, Cursor
<1>6. CASE LookOld(r)
  BY <1>1, <1>3, <1>6, InFileTyped DEF LookOld, server, RunOK, SideOK, Run
<1>7. CASE ReadOld(r)
  <2>1. BansFrom(old, q.state.cursor.offset) \subseteq Bans
    BY <1>1, <1>3, BansFromTyped
  <2>2. QED
    BY <1>1, <1>7, <2>1 DEF ReadOld, server, RunOK, SideOK, Run
<1>8. CASE Measure(r)
  BY <1>1, <1>8 DEF Measure, server, RunOK, SideOK, Run, Cursor
<1>9. CASE Read(r)
  <2>1. BansFrom(current, q.cursor.offset) \subseteq Bans /\ Complete(current, q.cursor.offset) \in Nat
    BY <1>1, <1>3, BansFromTyped, CompleteTyped
  <2> DEFINE found == q.found \cup BansFrom(current, q.cursor.offset)
             end == Complete(current, q.cursor.offset)
  <2>2. PICK out \in SUBSET found :
          /\ run' = [run EXCEPT ![r].step = IF out = found THEN "finish" ELSE "submit",
                                ![r].found = found \ out, ![r].cursor.offset = end]
          /\ skipped' = skipped \cup out
    BY <1>9 DEF Read
  <2>3. found \subseteq Bans /\ end \in Nat
    BY <1>1, <2>1
  <2> HIDE DEF found, end
  <2>4. RunOK'
    BY <1>1, <2>2, <2>3 DEF RunOK, Run, Cursor
  <2>5. SideOK'
    BY <1>1, <1>9, <2>2, <2>3 DEF Read, server, SideOK
  <2>6. QED
    BY <2>4, <2>5
<1>10. Chunk(r) \subseteq q.found
  BY DEF Chunk
<1>11. ASSUME NEW seq \in Nat, Serve(seq, Chunk(r))
       PROVE  last' \in Nat /\ accepted' \subseteq Bans
  BY <1>1, <1>10, <1>11 DEF Serve, server, SideOK
<1>12. ASSUME NEW seq \in Nat, Taken(r, seq)
       PROVE  RunOK'
  <2> DEFINE rest == q.found \ Chunk(r)
  <2>1. rest \subseteq Bans
    BY <1>1
  <2>2. run' = [run EXCEPT ![r].step = "save", ![r].found = rest, ![r].state.next_seq = seq + 1]
    BY <1>12 DEF Taken
  <2> HIDE DEF rest
  <2> DEFINE st == [q.state EXCEPT !.next_seq = seq + 1]
             new == [q EXCEPT !.step = "save", !.found = rest, !.state = st]
  <2>3. st \in State
    BY <1>1 DEF State
  <2>4. run' = [run EXCEPT ![r] = new]
    BY <1>1, <2>2 DEF RunOK, Run, State
  <2> HIDE DEF st
  <2>5. new \in Run
    BY <1>1, <2>1, <2>3 DEF Run
  <2>6. QED
    BY <1>1, <2>4, <2>5 DEF RunOK
<1>13. \A now \in 1..MaxClock : Number(r, now) \in Nat
  BY <1>1 DEF Number, Greater
<1>14. CASE Submit(r)
  <2>1. PICK now \in 1..MaxClock :
          /\ Serve(Number(r, now), Chunk(r))
          /\ IF New(Number(r, now)) THEN Taken(r, Number(r, now))
             ELSE run' = [run EXCEPT ![r].step = "again", ![r].seq = Number(r, now) + SeqJump]
    BY <1>14 DEF Submit
  <2> DEFINE n == Number(r, now)
  <2>2. n \in Nat
    BY <1>13
  <2> HIDE DEF n
  <2>3. RunOK'
    BY <1>1, <1>12, <2>1, <2>2 DEF n, RunOK, Run
  <2>4. QED
    BY <1>1, <1>11, <1>14, <2>1, <2>2, <2>3 DEF n, Submit, SideOK
<1>15. CASE SubmitAgain(r)
  BY <1>1, <1>11, <1>12, <1>15 DEF SubmitAgain, SideOK
<1>16. ASSUME Exit(r)
       PROVE  RunOK'
  BY <1>1, <1>2, <1>16 DEF Exit, RunOK
<1>17. CASE GiveUp(r) \/ Crash(r)
  BY <1>1, <1>16, <1>17 DEF GiveUp, Crash, server, SideOK, AcceptedAhead
<1>18. CASE SubmitFails(r)
  <2>1. last' \in Nat /\ accepted' \subseteq Bans
    BY <1>1, <1>11, <1>13, <1>18 DEF SubmitFails, server, SideOK
  <2>2. QED
    BY <1>1, <1>16, <1>18, <2>1 DEF SubmitFails, SideOK
<1>19. CASE Save(r)
  BY <1>1, <1>19 DEF Save, server, RunOK, SideOK, Run
<1>20. CASE Finish(r)
  <2>1. saved' \in State
    BY <1>1, <1>20 DEF Finish, State
  <2>2. QED
    BY <1>1, <1>16, <1>20, <2>1 DEF Finish, server, SideOK
<1>21. QED
  BY <1>4, <1>5, <1>6, <1>7, <1>8, <1>9, <1>14, <1>15, <1>17, <1>18, <1>19, <1>20 DEF Step

LEMMA InitTyped ==
  ASSUME LogAssumption, ReportAssumption, Init
  PROVE  TypeOK
<1> USE Constants
<1>1. <<>> \in Seq(Line)
  OBVIOUS
<1>2. LogTypeOK
  BY <1>1 DEF Init, LogInit, LogTypeOK
<1>3. NoCursor \in Cursor /\ Idle \in Run
  BY DEF NoCursor, Idle, Run, State, Cursor
<1>4. SideOK /\ RunOK
  BY <1>3 DEF Init, SideOK, RunOK, State
<1>5. QED
  BY <1>2, <1>4, TypeParts

LEMMA DaemonTyped ==
  ASSUME LogAssumption, ReportAssumption, TypeOK, Daemon
  PROVE  TypeOK'
<1>1. LogTypeOK /\ SideOK /\ RunOK
  BY TypeParts
<1>2. SideOK' /\ RunOK'
  BY <1>1 DEF Daemon, server, SideOK, RunOK
<1>3. QED
  BY <1>1, <1>2, LogTyped, TypePartsPrime DEF Daemon

\* A failure that is a runner's is counted like one of the daemon's.
LEMMA RunnerTyped ==
  ASSUME LogAssumption, ReportAssumption, TypeOK, NEW r \in Runners,
         Step(r) \/ SubmitFails(r) \/ Crash(r)
  PROVE  TypeOK'
<1>1. LogTypeOK
  BY TypeParts
<1>2. faults' \in 0..MaxFaults
  <2>1. CASE Step(r)
    <3>1. faults' = faults
      BY <2>1 DEF Step, Begin, Look, LookOld, ReadOld, Measure, Read, Submit, SubmitAgain, GiveUp,
         Save, Finish
    <3>2. QED
      BY <1>1, <3>1 DEF LogTypeOK
  <2>2. CASE SubmitFails(r) \/ Crash(r)
    <3>1. Fails
      BY <2>2 DEF SubmitFails, Crash
    <3>2. QED
      BY <1>1, <3>1, Constants DEF LogTypeOK, Fails
  <2>3. QED
    BY <2>1, <2>2
<1>3. LogTypeOK'
  BY <1>1, <1>2, RunnersLeaveLog DEF LogTypeOK, log
<1>4. QED
  BY <1>3, RunTyped, TypePartsPrime

LEMMA StutterTyped ==
  ASSUME TypeOK, UNCHANGED vars
  PROVE  TypeOK'
BY DEF vars, log, server, TypeOK, LogTypeOK

\* The log, the server and what each run has in memory stay well formed, for any number of
\* runs at the same time.
THEOREM TypeCorrect == Spec => []TypeOK
<1>1. Init => TypeOK
  BY LogAssumption, ReportAssumption, InitTyped
<1>2. TypeOK /\ [Next]_vars => TypeOK'
  BY LogAssumption, ReportAssumption, DaemonTyped, RunnerTyped, StutterTyped DEF Next
<1>3. QED
  BY <1>1, <1>2, PTL DEF Spec

-----------------------------------------------------------------------------
(* Sequence numbers. *)

Active(r) == run[r].step # "idle"

\* As long as nothing went astray there is one run at a time; the server is never further
\* than the saved number or the clock, but while an accepted number from a day ahead is
\* about to be saved; and a second attempt is always ahead of the server.
SeqInv == ~astray =>
  /\ \A r, s \in Runners : Active(r) /\ Active(s) => r = s
  /\ (\A r \in Runners : ~AcceptedAhead(r)) => last <= saved.next_seq \/ last <= MaxClock
  /\ \A r \in Runners :
       /\ run[r].step \notin {"idle", "save"} => run[r].state.next_seq = saved.next_seq
       /\ run[r].step = "again" => run[r].seq > last
       /\ run[r].step = "save" => run[r].state.next_seq > last

LEMMA SeqInit ==
  ASSUME LogAssumption, ReportAssumption, Init
  PROVE  SeqInv
BY Constants DEF Init, SeqInv, Idle, Active, AcceptedAhead

LEMMA OthersKept ==
  ASSUME NEW r \in Runners, TypeOK, Step(r) \/ SubmitFails(r) \/ Crash(r)
  PROVE  \A s \in Runners \ {r} : run'[s] = run[s]
BY DEF TypeOK, Step, SubmitFails, Crash, Begin, Look, LookOld, ReadOld,
   Measure, Read, Submit, SubmitAgain, GiveUp, Save, Finish, Exit, Taken

LEMMA SeqKept ==
  ASSUME LogAssumption, ReportAssumption, TypeOK, SeqInv, NEW r \in Runners,
         Step(r) \/ SubmitFails(r) \/ Crash(r), ~astray'
  PROVE  SeqInv'
<1> USE Constants
<1> DEFINE q == run[r]
           n == saved.next_seq
<1>1. /\ q \in Run /\ run \in [Runners -> Run] /\ q.seq \in Nat /\ q.state.next_seq \in Nat
      /\ q.state \in State /\ last \in Nat /\ saved \in State /\ n \in Nat
  BY DEF TypeOK, Run, State
<1>2. ~astray
  BY DEF Step, SubmitFails, Crash, Begin, Look, LookOld, ReadOld, Measure, Read, Submit,
     SubmitAgain, GiveUp, Save, Finish
<1>3. \A s \in Runners \ {r} : run'[s] = run[s]
  BY OthersKept
<1>4. \A s \in Runners \ {r} : ~Active(s)
  <2>1. CASE Begin(r)
    BY <1>2, <2>1 DEF Begin, Others, Active
  <2>2. CASE ~Begin(r)
    <3>1. Active(r)
      BY <2>2 DEF Step, SubmitFails, Crash, Begin, Look, LookOld, ReadOld, Measure, Read, Submit,
         SubmitAgain, GiveUp, Save, Finish, Active
    <3>2. QED
      BY <1>2, <3>1 DEF SeqInv
  <2>3. QED
    BY <2>1, <2>2
\* It is enough to look at the run that takes the step.
<1>5. SUFFICES
        /\ ~AcceptedAhead(r)' => last' <= saved'.next_seq \/ last' <= MaxClock
        /\ run'[r].step \notin {"idle", "save"} => run'[r].state.next_seq = saved'.next_seq
        /\ run'[r].step = "again" => run'[r].seq > last'
        /\ run'[r].step = "save" => run'[r].state.next_seq > last'
  <2>1. \A s \in Runners \ {r} : run'[s].step = "idle"
    BY <1>3, <1>4 DEF Active
  <2>2. \A s, u \in Runners : Active(s)' /\ Active(u)' => s = u
    BY <2>1 DEF Active
  <2>3. QED
    BY <1>5, <2>1, <2>2 DEF SeqInv
<1>6. /\ q.step # "save" => last <= n \/ last <= MaxClock
      /\ ~AcceptedAhead(r) => last <= n \/ last <= MaxClock
      /\ q.step \notin {"idle", "save"} => q.state.next_seq = n
      /\ q.step = "again" => q.seq > last
      /\ q.step = "save" => q.state.next_seq > last
  BY <1>2, <1>4 DEF SeqInv, AcceptedAhead, Active
<1>7. CASE Begin(r)
  <2>1. run'[r].step = "look" /\ run'[r].state = saved /\ last' = last /\ saved' = saved /\ q.step = "idle"
    BY <1>1, <1>7 DEF Begin, server, Idle
  <2>2. QED
    BY <1>1, <1>6, <2>1 DEF AcceptedAhead
<1>8. CASE Look(r) \/ LookOld(r) \/ ReadOld(r) \/ Measure(r) \/ Read(r)
  <2>1. /\ run'[r].step \in {"old", "readold", "measure", "read", "submit", "finish"}
        /\ run'[r].state = q.state /\ last' = last /\ saved' = saved
        /\ q.step \notin {"idle", "save"}
    <3>1. CASE Look(r)
      BY <1>1, <3>1 DEF Look, server, Run
    <3>2. CASE LookOld(r)
      BY <1>1, <3>2 DEF LookOld, server, Run
    <3>3. CASE ReadOld(r)
      <4> DEFINE found == BansFrom(old, run[r].state.cursor.offset)
      <4>1. run' = [run EXCEPT ![r].step = "measure", ![r].found = found]
        BY <3>3 DEF ReadOld
      <4> HIDE DEF found
      <4>2. QED
        BY <1>1, <3>3, <4>1 DEF ReadOld, server, Run
    <3>4. CASE Measure(r)
      BY <1>1, <3>4 DEF Measure, server, Run
    <3>5. CASE Read(r)
      <4> DEFINE all == q.found \cup BansFrom(current, q.cursor.offset)
                 end == Complete(current, q.cursor.offset)
      <4>1. PICK out \in SUBSET all :
              run' = [run EXCEPT ![r].step = IF out = all THEN "finish" ELSE "submit",
                                 ![r].found = all \ out, ![r].cursor.offset = end]
        BY <3>5 DEF Read
      <4> HIDE DEF all, end
      <4>2. QED
        BY <1>1, <3>5, <4>1 DEF Read, server, Run
    <3>6. QED
      BY <1>8, <3>1, <3>2, <3>3, <3>4, <3>5
  <2>2. QED
    BY <1>1, <1>6, <2>1
<1>9. \A now \in 1..MaxClock :
        /\ Number(r, now) \in Nat /\ Number(r, now) >= q.state.next_seq /\ Number(r, now) >= 1
        /\ Number(r, now) <= q.state.next_seq \/ Number(r, now) <= MaxClock
  BY <1>1 DEF Number, Greater
<1>10. ASSUME NEW seq \in Nat, Taken(r, seq)
       PROVE  run'[r].step = "save" /\ run'[r].state.next_seq = seq + 1 /\ run'[r].seq = q.seq
  BY <1>1, <1>10 DEF Taken, Run, State
<1>11. CASE Submit(r)
  <2>1. PICK now \in 1..MaxClock :
          /\ Serve(Number(r, now), Chunk(r))
          /\ IF New(Number(r, now)) THEN Taken(r, Number(r, now))
             ELSE run' = [run EXCEPT ![r].step = "again", ![r].seq = Number(r, now) + SeqJump]
    BY <1>11 DEF Submit
  <2> DEFINE seq == Number(r, now)
  <2>2. /\ seq \in Nat /\ seq >= n /\ seq >= 1 /\ (seq <= n \/ seq <= MaxClock)
        /\ saved' = saved /\ q.step = "submit" /\ q.state.next_seq = n
    BY <1>6, <1>9, <1>11 DEF Submit
  <2>3. CASE New(seq)
    <3>1. last' = seq
      BY <2>1, <2>3 DEF New, Serve
    <3>2. run'[r].step = "save" /\ run'[r].state.next_seq = seq + 1
      BY <1>10, <2>1, <2>2, <2>3
    <3>3. QED
      BY <2>2, <3>1, <3>2
  <2>4. CASE ~New(seq)
    <3>1. last' = last /\ seq <= last
      BY <1>1, <2>1, <2>2, <2>4 DEF New, Serve, server
    <3>2. run'[r].step = "again" /\ run'[r].seq = seq + SeqJump /\ run'[r].state = q.state
      BY <1>1, <2>1, <2>4 DEF Run
    <3>3. seq + SeqJump > last
      BY <1>1, <1>6, <2>2
    <3> HIDE DEF seq
    <3>4. QED
      BY <1>1, <1>6, <2>2, <3>1, <3>2, <3>3
  <2>5. QED
    BY <2>3, <2>4
<1>12. CASE SubmitAgain(r)
  <2>1. last' = q.seq /\ saved' = saved
    BY <1>12 DEF SubmitAgain, New, Serve
  <2>2. run'[r].step = "save" /\ run'[r].state.next_seq = q.seq + 1 /\ run'[r].seq = q.seq
    BY <1>1, <1>10, <1>12 DEF SubmitAgain
  <2>3. QED
    BY <1>1, <2>1, <2>2 DEF AcceptedAhead
<1>13. ASSUME Exit(r)
       PROVE  run'[r].step = "idle"
  BY <1>1, <1>13 DEF Exit, Idle
<1>14. CASE GiveUp(r)
  BY <1>6, <1>13, <1>14 DEF GiveUp, New, server
<1>15. CASE SubmitFails(r)
  <2>1. saved' = saved
    BY <1>15 DEF SubmitFails
  <2>2. last' <= n \/ last' <= MaxClock
    <3>1. CASE UNCHANGED server
      BY <1>6, <1>15, <3>1 DEF SubmitFails, server
    <3>2. CASE ~UNCHANGED server
      <4>1. q.step # "again" /\ q.step = "submit"
        BY <1>2, <1>15, <3>2 DEF SubmitFails
      <4>2. PICK now \in 1..MaxClock : Serve(Number(r, now), Chunk(r))
        BY <1>15, <3>2, <4>1 DEF SubmitFails
      <4>3. QED
        BY <1>6, <1>9, <3>2, <4>1, <4>2 DEF Serve
    <3>3. QED
      BY <3>1, <3>2
  <2>3. QED
    BY <1>13, <1>15, <2>1, <2>2 DEF SubmitFails
<1>16. CASE Save(r)
  <2>1. /\ run'[r].step \in {"finish", "submit"} /\ run'[r].state = q.state /\ saved' = q.state
        /\ last' = last /\ q.step = "save"
    BY <1>1, <1>16 DEF Save, server, Run
  <2>2. QED
    BY <1>1, <1>6, <2>1
<1>17. CASE Finish(r)
  <2>1. saved'.next_seq = n /\ last' = last
    BY <1>1, <1>6, <1>17 DEF Finish, server, State
  <2>2. QED
    BY <1>6, <1>13, <1>17, <2>1 DEF Finish
<1>18. CASE Crash(r)
  <2>1. ~AcceptedAhead(r) /\ saved' = saved /\ last' = last
    BY <1>18 DEF Crash, server
  <2>2. QED
    BY <1>6, <1>13, <1>18, <2>1 DEF Crash
<1>19. QED
  BY <1>7, <1>8, <1>11, <1>12, <1>14, <1>15, <1>16, <1>17, <1>18 DEF Step

LEMMA SeqUntouched ==
  ASSUME SeqInv, UNCHANGED <<last, saved, run, astray>>
  PROVE  SeqInv'
BY DEF SeqInv, Active, AcceptedAhead

\* A run that meets a duplicate gets through with its second number, whatever single
\* failures came before, unless something went astray.
THEOREM RunsGetThrough == Spec => GetsThrough
<1>1. Init => SeqInv
  BY LogAssumption, ReportAssumption, SeqInit
<1>2. TypeOK /\ SeqInv /\ [Next]_vars => SeqInv'
  <2>1. ASSUME SeqInv, astray'
        PROVE  SeqInv'
    BY <2>1 DEF SeqInv
  <2>2. ASSUME TypeOK, SeqInv, Next
        PROVE  SeqInv'
    BY <2>1, <2>2, LogAssumption, ReportAssumption, SeqKept, SeqUntouched DEF Next, Daemon, server
  <2>3. QED
    BY <2>2, SeqUntouched DEF vars, server
<1>3. TypeOK /\ SeqInv /\ [Next]_vars => [\A r \in Runners : GiveUp(r) => astray]_vars
  <2>1. ASSUME TypeOK, SeqInv, NEW r \in Runners, GiveUp(r), ~astray
        PROVE  FALSE
    BY <2>1 DEF GiveUp, New, SeqInv, TypeOK, Run
  <2>2. QED
    BY <2>1
<1>4. QED
  BY <1>1, <1>2, <1>3, TypeCorrect, PTL DEF Spec, GetsThrough
-----------------------------------------------------------------------------
(* No ban is passed over. *)

\* InFile and BansFrom, of a file's lines.
Known(lines) == {lines[k].ban : k \in {n \in DOMAIN lines : ~lines[n].cut}} \ {Other}
End(lines, n) == Greater(n, IF Cut(lines) THEN Len(lines) - 1 ELSE Len(lines))
Rest(lines, n) == {lines[k].ban : k \in n+1..End(lines, n)} \ {Other}

\* What is said of the log is said of these three, so that a step can be followed for any
\* cursor: the files' lines T, the current file u and the old one o.
KnownIn(T, i) == IF i = None THEN {} ELSE Known(T[i])

AheadIn(T, u, o, c) ==
  IF c.ino = None THEN KnownIn(T, u) \cup KnownIn(T, o)
  ELSE IF c.ino = u THEN Rest(T[u], c.offset)
  ELSE Rest(T[o], c.offset) \cup KnownIn(T, u)

\* The cursor stands inside a file that has a name, and every ban of the log is among
\* those done with, those found, or those still to be read.
Reach(T, u, o, done, found, c) ==
  /\ c.ino # None => c.ino \in {u, o} /\ c.offset <= Len(T[c.ino])
  /\ KnownIn(T, u) \cup KnownIn(T, o) \subseteq done \cup found \cup AheadIn(T, u, o, c)

Done == accepted \cup skipped

Sound(r) ==
  LET q == run[r] IN
  /\ Reach(text, current, old, Done, {}, q.state.cursor)
  /\ q.step \in {"look", "old", "readold", "finish"} => q.found = {}
  /\ q.step \in {"old", "readold", "measure", "read"} => q.cursor.ino = current /\ current # None
  /\ q.step \in {"old", "readold"} => q.cursor.offset = 0 /\ q.state.cursor.ino # current
  /\ q.step = "readold" => old = q.state.cursor.ino /\ old # None
  /\ q.step \in {"measure", "read", "submit", "again", "save", "finish"} =>
       Reach(text, current, old, Done, q.found, q.cursor)

\* A file without a name is empty, so its number can be given to a new one.
Unnamed == \A i \in Inodes \ {current, old} : text[i] = <<>>

LossInv ==
  ~missed => Reach(text, current, old, Done, {}, saved.cursor) /\ \A r \in Runners : Sound(r)

LEMMA Numbers ==
  /\ \A a, b \in Nat : 1..a = 1..b => a = b
  /\ \A a \in Nat : \A k \in 1..a : a > 0 /\ (k = a \/ k \in 1..a - 1)
  /\ \A a \in Nat : \A k \in 1..a - 1 : k \in 1..a /\ k # a
  /\ \A a, b \in Nat : a <= b => Greater(a, b) = b /\ Greater(a, b + 1) = b + 1 /\ b + 1 - 1 = b
BY DEF Greater

LEMMA AppendedKnown ==
  ASSUME NEW s \in Seq(Line), NEW l \in Line, NEW n \in Nat, n <= Len(s)
  PROVE  /\ Len(s) <= Len(Appended(s, l))
         /\ Known(s) \subseteq Known(Appended(s, l))
         /\ Rest(s, n) \subseteq Rest(Appended(s, l), n)
         /\ Known(Appended(s, l)) \subseteq Known(s) \cup Rest(Appended(s, l), n)
<1> DEFINE t == Appended(s, l)
<1>1. t \in Seq(Line) /\ Len(s) \in Nat /\ Len(t) \in Nat /\ DOMAIN s = 1..Len(s) /\ DOMAIN t = 1..Len(t)
  BY AppendedTyped
<1>2. CASE Cut(s)
  <2>1. /\ Len(t) = Len(s) /\ Len(s) > 0 /\ s[Len(s)].cut
        /\ \A k \in 1..Len(s) - 1 : t[k] = s[k]
        /\ t[Len(s)].ban = Other
    <3>1. t = [s EXCEPT ![Len(s)] = [ban |-> Other, cut |-> l.cut]]
      BY <1>2 DEF Appended
    <3> HIDE DEF t
    <3>2. s[Len(s)].cut /\ Len(s) \in DOMAIN s
      BY <1>1, <1>2 DEF Cut
    <3>3. DOMAIN t = DOMAIN s
      BY <3>1
    <3>4. Len(t) = Len(s) /\ Len(s) > 0
      BY <1>1, <3>2, <3>3, Numbers
    <3>5. t[Len(s)].ban = Other
      BY <3>1, <3>2
    <3>6. \A k \in 1..Len(s) - 1 : k \in DOMAIN s /\ k # Len(s)
      BY <1>1, Numbers
    <3>7. QED
      BY <3>1, <3>2, <3>4, <3>5, <3>6
  <2> HIDE DEF t
  <2>2. End(s, n) = Greater(n, Len(s) - 1) /\ End(t, n) \in {Greater(n, Len(s)), Greater(n, Len(s) - 1)}
    BY <1>2, <2>1 DEF End
  <2>3. \A k \in n+1..End(s, n) : k \in n+1..End(t, n) /\ k \in 1..Len(s) - 1
    BY <1>1, <2>1, <2>2 DEF Greater
  <2>4. Rest(s, n) \subseteq Rest(t, n)
    BY <2>1, <2>3 DEF Rest
  <2>5. \A k \in 1..Len(s) : k = Len(s) \/ k \in 1..Len(s) - 1
    BY <1>1, Numbers
  <2>6. Known(s) \subseteq Known(t) /\ Known(t) \subseteq Known(s)
    BY <1>1, <2>1, <2>5 DEF Known
  <2>7. QED
    BY <1>1, <2>1, <2>4, <2>6 DEF t
<1>3. CASE ~Cut(s)
  <2>1. /\ Len(t) = Len(s) + 1 /\ t[Len(s) + 1] = l
        /\ \A k \in 1..Len(s) : t[k] = s[k]
    BY <1>1, <1>3 DEF Appended
  <2>2. Cut(t) <=> l.cut
    BY <1>1, <2>1 DEF Cut
  <2> HIDE DEF t
  <2>3. End(s, n) = Len(s) /\ End(t, n) = IF l.cut THEN Len(s) ELSE Len(s) + 1
    <3>1. End(s, n) = Len(s)
      BY <1>1, <1>3, Numbers DEF End
    <3>2. CASE l.cut
      <4>1. End(t, n) = Greater(n, Len(s) + 1 - 1)
        BY <2>1, <2>2, <3>2 DEF End
      <4>2. QED
        BY <1>1, <3>1, <3>2, <4>1, Numbers
    <3>3. CASE ~l.cut
      <4>1. End(t, n) = Greater(n, Len(s) + 1)
        BY <2>1, <2>2, <3>3 DEF End
      <4>2. QED
        BY <1>1, <3>1, <3>3, <4>1, Numbers
    <3>4. QED
      BY <3>2, <3>3
  <2>4. \A k \in n+1..End(s, n) : k \in n+1..End(t, n) /\ k \in 1..Len(s)
    BY <1>1, <2>3
  <2>5. Rest(s, n) \subseteq Rest(t, n)
    BY <2>1, <2>4 DEF Rest
  <2>6. \A k \in 1..Len(t) : k = Len(s) + 1 \/ k \in 1..Len(s)
    BY <1>1, <2>1
  <2>7. Known(s) \subseteq Known(t)
    BY <1>1, <2>1 DEF Known
  <2>8. ~l.cut => Len(s) + 1 \in n+1..End(t, n)
    BY <1>1, <2>3
  <2>9. Known(t) \subseteq Known(s) \cup Rest(t, n)
    BY <1>1, <2>1, <2>6, <2>8 DEF Known, Rest
  <2>10. QED
    BY <1>1, <2>1, <2>5, <2>7, <2>9 DEF t
<1>4. QED
  BY <1>2, <1>3

LEMMA KnownFromStart ==
  ASSUME NEW s \in Seq(Line)
  PROVE  Known(s) \subseteq Rest(s, 0)
<1>1. Len(s) \in Nat /\ DOMAIN s = 1..Len(s)
  OBVIOUS
<1>2. \A k \in DOMAIN s : ~s[k].cut => k \in 1..End(s, 0)
  BY <1>1 DEF End, Greater, Cut
<1>3. QED
  BY <1>2 DEF Known, Rest

LEMMA KnownOfNone ==
  ASSUME NEW T, NEW i, T[i] = <<>>
  PROVE  KnownIn(T, i) = {}
BY DEF KnownIn, Known

\* The daemon takes no ban out of a cursor's reach, unless it removes the cursor's file.
LEMMA LogKeepsReach ==
  ASSUME LogAssumption, ReportAssumption, LogTypeOK, FileOK, Unnamed, LogNext,
         NEW done, NEW found, NEW c \in Cursor,
         Reach(text, current, old, done, found, c),
         Rename => c.ino = None \/ c.ino # old
  PROVE  Reach(text', current', old', done, found, c)
<1> USE Constants
<1>1. /\ text \in [Inodes -> Seq(Line)] /\ c.offset \in Nat
      /\ {current, old, fd} \subseteq Inodes \cup {None} /\ (current # None => current # old)
  BY DEF LogTypeOK, Cursor
<1>2. /\ c.ino # None => c.ino \in {current, old} /\ c.offset <= Len(text[c.ino])
      /\ KnownIn(text, current) \cup KnownIn(text, old) \subseteq
           done \cup found \cup AheadIn(text, current, old, c)
  BY DEF Reach
<1>3. CASE AppendBan \/ AppendCut
  <2>1. PICK l \in Line :
          /\ text' = [text EXCEPT ![fd] = Appended(text[fd], l)]
          /\ UNCHANGED <<current, old>>
    <3>1. bans' \in Bans /\ fd # None
      BY <1>3 DEF AppendBan, AppendCut, LogTypeOK, Bans
    <3>2. \A b \in BOOLEAN : [ban |-> bans', cut |-> b] \in Line
      BY <3>1 DEF Line
    <3>3. QED
      BY <1>3, <3>2 DEF AppendBan, AppendCut
  <2>2. fd \in Inodes /\ text[fd] \in Seq(Line) /\ fd = IF current = None THEN old ELSE current
    BY <1>1, <1>3 DEF AppendBan, AppendCut, FileOK
  <2>3. /\ text'[fd] = Appended(text[fd], l)
        /\ \A i \in Inodes \ {fd} : text'[i] = text[i]
    BY <1>1, <2>1, <2>2
  <2>4. /\ Known(text[fd]) \subseteq Known(text'[fd])
        /\ Len(text[fd]) \in Nat /\ Len(text[fd]) <= Len(text'[fd]) /\ Len(text'[fd]) \in Nat
    BY <2>2, <2>3, AppendedKnown, AppendedTyped
  <2>5. CASE c.ino = None
    BY <2>5 DEF Reach, AheadIn
  <2>6. CASE c.ino = fd
    <3>1. /\ Rest(text[fd], c.offset) \subseteq Rest(text'[fd], c.offset)
          /\ Known(text'[fd]) \subseteq Known(text[fd]) \cup Rest(text'[fd], c.offset)
      BY <1>1, <1>2, <2>2, <2>3, <2>6, AppendedKnown
    <3>2. c.offset <= Len(text'[c.ino])
      BY <1>1, <1>2, <2>2, <2>4, <2>6
    <3>3. CASE current = None
      BY <1>1, <1>2, <2>1, <2>2, <2>6, <3>1, <3>2, <3>3 DEF Reach, AheadIn, KnownIn
    <3>4. CASE current # None
      <4>1. old # None => text'[old] = text[old]
        BY <1>1, <2>2, <2>3, <3>4
      <4>2. QED
        BY <1>1, <1>2, <2>1, <2>2, <2>6, <3>1, <3>2, <3>4, <4>1 DEF Reach, AheadIn, KnownIn
    <3>5. QED
      BY <3>3, <3>4
  <2>7. CASE c.ino # None /\ c.ino # fd
    <3>1. c.ino = old /\ fd = current /\ old # current
      BY <1>1, <1>2, <2>2, <2>7
    <3>2. text'[old] = text[old]
      BY <1>1, <2>3, <2>7, <3>1
    <3>3. QED
      BY <1>1, <1>2, <2>1, <2>2, <2>4, <2>7, <3>1, <3>2 DEF Reach, AheadIn, KnownIn
  <2>8. QED
    BY <2>5, <2>6, <2>7
<1>4. CASE Rename
  <2>1. /\ old' = current /\ current' = None /\ current # None
        /\ text'[current] = text[current]
    BY <1>1, <1>4 DEF Rename
  <2>2. c.ino = None \/ c.ino = current
    BY <1>1, <1>2, <1>4
  <2>3. QED
    BY <1>2, <2>1, <2>2 DEF Reach, AheadIn, KnownIn
<1>5. CASE UNCHANGED <<text, current, old>>
  BY <1>5
\* A new file is empty.
<1>6. CASE current = None /\ current' \in Free /\ UNCHANGED <<text, old>>
  <2>1. current' \in Inodes /\ current' # old /\ text[current'] = <<>>
    BY <1>1, <1>6 DEF Free, Unnamed
  <2>2. KnownIn(text', current') = {} /\ KnownIn(text, current) = {}
    BY <1>6, <2>1, KnownOfNone DEF KnownIn
  <2>3. c.ino # None => c.ino = old /\ c.ino # current'
    BY <1>2, <1>6, <2>1
  <2>4. QED
    BY <1>2, <1>6, <2>2, <2>3 DEF Reach, AheadIn
<1>7. QED
  <2>1. CASE RenameFails \/ ReopenFails \/ Halt
    BY <1>5, <2>1 DEF RenameFails, ReopenFails, Halt
  <2>2. CASE Reopen
    BY <1>6, <2>2 DEF Reopen, FileOK
  <2>3. CASE Open
    BY <1>5, <1>6, <2>3 DEF Open
  <2>4. QED
    BY <1>3, <1>4, <2>1, <2>2, <2>3 DEF LogNext

LEMMA UnnamedKept ==
  ASSUME LogAssumption, LogTypeOK, FileOK, Unnamed, LogNext
  PROVE  Unnamed'
<1>1. /\ text \in [Inodes -> Seq(Line)] /\ (fd # None => fd \in {current, old})
      /\ (current # None => current # old)
  BY DEF LogTypeOK, FileOK
<1>2. CASE AppendBan \/ AppendCut
  BY <1>1, <1>2 DEF AppendBan, AppendCut, Unnamed
<1>3. CASE Rename
  <2>1. \A i \in Inodes \ {current, old} : text'[i] = text[i]
    BY <1>1, <1>3 DEF Rename
  <2>2. old # None => old \in Inodes /\ text'[old] = <<>>
    BY <1>1, <1>3 DEF Rename, LogTypeOK
  <2>3. None \notin Inodes
    BY DEF LogAssumption
  <2>4. QED
    BY <1>3, <2>1, <2>2, <2>3 DEF Rename, Unnamed
<1>4. CASE RenameFails \/ ReopenFails \/ Halt
  BY <1>4 DEF RenameFails, ReopenFails, Halt, Unnamed
<1>5. CASE Reopen
  BY <1>5, LogAssumption DEF Reopen, FileOK, Unnamed, LogAssumption
<1>6. CASE Open
  BY <1>6 DEF Open, Unnamed, LogAssumption
<1>7. QED
  BY <1>2, <1>3, <1>4, <1>5, <1>6 DEF LogNext

LEMMA ReachFromNone ==
  ASSUME NEW T, NEW u, NEW o, NEW done, NEW found
  PROVE  Reach(T, u, o, done, found, NoCursor)
BY DEF Reach, AheadIn, NoCursor

LEMMA ReachMore ==
  ASSUME NEW T, NEW u, NEW o, NEW done, NEW found, NEW done2, NEW found2, NEW c,
         Reach(T, u, o, done, found, c), done \cup found \subseteq done2 \cup found2
  PROVE  Reach(T, u, o, done2, found2, c)
BY DEF Reach

LEMMA SameAsKnown ==
  /\ \A i : InFile(i) = KnownIn(text, i)
  /\ \A i, n : i # None => BansFrom(i, n) = Rest(text[i], n) /\ Complete(i, n) = End(text[i], n)
BY DEF InFile, KnownIn, Known, BansFrom, Complete, Rest, End

LEMMA LossRunner ==
  ASSUME LogAssumption, ReportAssumption, TypeOK, LossInv, NEW r \in Runners,
         Step(r) \/ SubmitFails(r) \/ Crash(r), ~missed'
  PROVE  LossInv'
<1> USE Constants
<1> DEFINE q == run[r]
           p == run'[r]
           Stands(done, found, c) == Reach(text, current, old, done, found, c)
<1>1. /\ run \in [Runners -> Run] /\ q \in Run /\ q.state \in State /\ q.cursor \in Cursor
      /\ q.state.cursor \in Cursor /\ q.cursor.offset \in Nat
      /\ text \in [Inodes -> Seq(Line)] /\ {current, old} \subseteq Inodes \cup {None}
  BY DEF TypeOK, LogTypeOK, Run, State, Cursor
<1>2. ~missed /\ UNCHANGED <<text, current, old>>
  <2>1. missed' = missed
    BY DEF Step, SubmitFails, Crash, Begin, Look, LookOld, ReadOld, Measure, Read, Submit,
       SubmitAgain, GiveUp, Save, Finish
  <2>2. QED
    BY <2>1, RunnersLeaveLog DEF log
<1>3. \A s \in Runners \ {r} : run'[s] = run[s]
  BY OthersKept
<1>4. \A seq : Serve(seq, Chunk(r)) => accepted \subseteq accepted'
  BY DEF Serve, server
<1>5. Done \subseteq Done'
  <2>1. skipped \subseteq skipped'
    BY DEF Step, SubmitFails, Crash, Begin, Look, LookOld, ReadOld, Measure, Read, Submit,
       SubmitAgain, GiveUp, Save, Finish
  <2>2. accepted \subseteq accepted'
    BY <1>4 DEF server, Step, SubmitFails, Crash, Begin, Look, LookOld, ReadOld, Measure, Read, Submit,
       SubmitAgain, GiveUp, Save, Finish
  <2>3. QED
    BY <2>1, <2>2 DEF Done
<1>6. Stands(Done, {}, saved.cursor) /\ Sound(r)
  BY <1>2 DEF LossInv
<1>7. \A found, c : Stands(Done, found, c) => Stands(Done', found, c)
  BY <1>5, ReachMore
\* It is enough to look at the run that takes the step.
<1>8. SUFFICES Stands(Done', {}, saved'.cursor) /\ Sound(r)'
  <2>1. ASSUME NEW s \in Runners \ {r}
        PROVE  Sound(s)'
    <3>1. Sound(s)
      BY <1>2 DEF LossInv
    <3>2. QED
      BY <1>2, <1>3, <1>7, <3>1 DEF Sound
  <2>2. QED
    BY <1>2, <1>8, <2>1 DEF LossInv
<1>9. /\ Stands(Done, {}, q.state.cursor)
      /\ q.step \in {"look", "old", "readold", "finish"} => q.found = {}
      /\ q.step \in {"old", "readold", "measure", "read"} => q.cursor.ino = current /\ current # None
      /\ q.step \in {"old", "readold"} => q.cursor.offset = 0 /\ q.state.cursor.ino # current
      /\ q.step = "readold" => old = q.state.cursor.ino /\ old # None
      /\ q.step \in {"measure", "read", "submit", "again", "save", "finish"} =>
           Stands(Done, q.found, q.cursor)
  BY <1>6 DEF Sound
\* What is shown of a run that is sending or about to.
<1>10. ASSUME p.state.cursor = q.state.cursor, p.step \in {"submit", "again", "save", "finish"},
              p.step = "finish" => p.found = {}, Stands(Done', p.found, p.cursor)
       PROVE  Sound(r)'
  BY <1>2, <1>7, <1>9, <1>10 DEF Sound
<1>11. ASSUME Exit(r)
       PROVE  Sound(r)'
  <2>1. p = Idle
    BY <1>1, <1>11 DEF Exit
  <2>2. QED
    BY <2>1, ReachFromNone DEF Sound, Idle
<1>12. CASE Begin(r)
  <2>1. p = [Idle EXCEPT !.step = "look", !.state = saved] /\ saved' = saved
    BY <1>1, <1>12 DEF Begin
  <2>2. p.step = "look" /\ p.found = {} /\ p.state = saved
    BY <2>1 DEF Idle
  <2>3. QED
    BY <1>2, <1>6, <1>7, <2>1, <2>2 DEF Sound
<1>13. CASE Look(r)
  <2>1. /\ q.step = "look" /\ q.found = {} /\ saved' = saved
        /\ p.step = IF current = None THEN "finish" ELSE IF q.state.cursor.ino = current THEN "measure" ELSE "old"
        /\ p.cursor = IF current = None \/ q.state.cursor.ino = current THEN q.state.cursor
                      ELSE [ino |-> current, offset |-> 0]
        /\ p.state = q.state /\ p.found = {}
    BY <1>1, <1>9, <1>13 DEF Look, Run
  <2>2. Stands(Done', {}, q.state.cursor) /\ Stands(Done', {}, saved.cursor)
    BY <1>6, <1>7, <1>9
  <2>3. QED
    BY <1>2, <2>1, <2>2 DEF Sound
\* From the beginning of the current file, everything in it is still to be read.
<1>14. ASSUME current # None, NEW c \in Cursor, c.ino = current, c.offset = 0, NEW done, NEW found,
              KnownIn(text, old) \subseteq done \cup found
       PROVE  Stands(done, found, c)
  <2>1. text[current] \in Seq(Line) /\ Len(text[current]) \in Nat
    <3>1. current \in Inodes
      BY <1>1, <1>14
    <3>2. text[current] \in Seq(Line)
      BY <1>1, <3>1
    <3>3. QED
      BY <3>2
  <2>2. Known(text[current]) \subseteq Rest(text[current], 0)
    BY <2>1, KnownFromStart
  <2>3. QED
    BY <1>14, <2>1, <2>2 DEF Reach, AheadIn, KnownIn
<1>15. CASE LookOld(r)
  <2>1. /\ q.step = "old" /\ q.found = {} /\ saved' = saved /\ accepted' = accepted
        /\ p.step = IF q.state.cursor.ino # None /\ old = q.state.cursor.ino THEN "readold" ELSE "measure"
        /\ p.cursor = q.cursor /\ p.state = q.state /\ p.found = {}
        /\ q.state.cursor.ino = None => InFile(old) \subseteq skipped'
    BY <1>1, <1>9, <1>15 DEF LookOld, Run, server
  <2>2. q.cursor.ino = current /\ current # None /\ q.cursor.offset = 0 /\ q.state.cursor.ino # current
    BY <1>9, <2>1
  <2>3. ASSUME p.step = "measure"
        PROVE  Stands(Done', {}, q.cursor)
    <3>1. q.state.cursor.ino = None
      BY <1>9, <2>1, <2>2, <2>3 DEF Reach
    <3>2. KnownIn(text, old) \subseteq Done' \cup {}
      BY <2>1, <3>1, SameAsKnown DEF Done
    <3>3. QED
      BY <1>1, <1>14, <2>2, <3>2
  <2>4. Stands(Done', {}, q.state.cursor) /\ Stands(Done', {}, saved.cursor)
    BY <1>6, <1>7, <1>9
  <2>5. QED
    BY <1>2, <2>1, <2>2, <2>3, <2>4 DEF Sound
<1>16. CASE ReadOld(r)
  <2> DEFINE left == BansFrom(old, q.state.cursor.offset)
  <2>1. run' = [run EXCEPT ![r].step = "measure", ![r].found = left] /\ q.step = "readold" /\ saved' = saved
    BY <1>16 DEF ReadOld
  <2>2. /\ q.cursor.ino = current /\ current # None /\ q.cursor.offset = 0
        /\ q.state.cursor.ino # current /\ old = q.state.cursor.ino /\ old # None
    BY <1>9, <2>1
  <2>3. left = Rest(text[old], q.state.cursor.offset)
    BY <2>2, SameAsKnown
  <2>4. KnownIn(text, old) \subseteq Done \cup left \cup KnownIn(text, current)
    BY <1>9, <2>2, <2>3 DEF Reach, AheadIn
  <2> HIDE DEF left
  <2>5. p.step = "measure" /\ p.found = left /\ p.cursor = q.cursor /\ p.state = q.state
    BY <1>1, <2>1 DEF Run
  <2>6. Stands(Done', left, q.cursor)
    <3>1. Known(text[current]) \subseteq Rest(text[current], 0) /\ Len(text[current]) \in Nat
      BY <1>1, <2>2, KnownFromStart
    <3>2. KnownIn(text, current) \subseteq Rest(text[current], 0)
      BY <2>2, <3>1 DEF KnownIn
    <3>3. QED
      BY <1>5, <2>2, <2>4, <3>1, <3>2 DEF Reach, AheadIn
  <2>7. Stands(Done', {}, q.state.cursor) /\ Stands(Done', {}, saved.cursor)
    BY <1>6, <1>7, <1>9
  <2>8. QED
    BY <1>2, <2>1, <2>2, <2>5, <2>6, <2>7 DEF Sound
<1>17. CASE Measure(r)
  <2>1. q.step = "measure" /\ q.cursor.ino = current /\ current # None /\ saved' = saved
    BY <1>9, <1>17 DEF Measure
  <2>2. q.cursor.offset <= Size(current)
    BY <1>9, <2>1 DEF Reach, Size
  <2>3. Size(current) \in Nat
    BY <1>1, <2>1 DEF Size
  <2>4. p.step = "read" /\ p.found = q.found /\ p.state = q.state /\ p.cursor = q.cursor
    BY <1>1, <1>17, <2>2, <2>3 DEF Measure, Run, Cursor
  <2>5. Stands(Done', q.found, q.cursor) /\ Stands(Done', {}, q.state.cursor) /\ Stands(Done', {}, saved.cursor)
    BY <1>6, <1>7, <1>9, <2>1
  <2>6. QED
    BY <1>2, <2>1, <2>4, <2>5 DEF Sound
<1>18. CASE Read(r)
  <2> DEFINE all == q.found \cup BansFrom(current, q.cursor.offset)
             end == Complete(current, q.cursor.offset)
  <2>1. PICK out \in SUBSET all :
          /\ run' = [run EXCEPT ![r].step = IF out = all THEN "finish" ELSE "submit",
                                ![r].found = all \ out, ![r].cursor.offset = end]
          /\ skipped' = skipped \cup out
    BY <1>18 DEF Read
  <2>2. /\ q.step = "read" /\ saved' = saved /\ accepted' = accepted
        /\ q.cursor.ino = current /\ current # None
    BY <1>9, <1>18 DEF Read, server
  <2>3. /\ q.cursor.offset <= Len(text[current])
        /\ KnownIn(text, current) \cup KnownIn(text, old) \subseteq Done \cup all
    BY <1>9, <2>2, SameAsKnown DEF Reach, AheadIn
  <2>4. end \in Nat /\ end <= Len(text[current])
    BY <1>1, <2>2, <2>3, CompleteTyped DEF TypeOK
  <2> HIDE DEF all, end
  <2>5. /\ p.step \in {"finish", "submit"} /\ (p.step = "finish" => p.found = {})
        /\ p.found = all \ out /\ p.state = q.state
        /\ p.cursor.ino = current /\ p.cursor.offset = end
    BY <1>1, <2>1, <2>2 DEF Run, Cursor
  <2>6. Stands(Done', p.found, p.cursor)
    BY <2>1, <2>2, <2>3, <2>4, <2>5 DEF Reach, Done
  <2>7. Stands(Done', {}, saved.cursor)
    BY <1>6, <1>7
  <2>8. QED
    BY <1>10, <2>2, <2>5, <2>6, <2>7
\* What the server accepts need not be found any more.
<1>19. ASSUME NEW seq, Serve(seq, Chunk(r)), New(seq), Taken(r, seq), q.step \in {"submit", "again"},
              skipped' = skipped, saved' = saved
       PROVE  Stands(Done', {}, saved'.cursor) /\ Sound(r)'
  <2> DEFINE rest == q.found \ Chunk(r)
  <2>1. run' = [run EXCEPT ![r].step = "save", ![r].found = rest, ![r].state.next_seq = seq + 1]
    BY <1>19 DEF Taken
  <2>2. Done' = Done \cup Chunk(r)
    BY <1>19 DEF Serve, New, Done
  <2>3. Done \cup q.found \subseteq Done' \cup rest
    BY <2>2
  <2> HIDE DEF rest
  <2>4. p.step = "save" /\ p.found = rest /\ p.cursor = q.cursor /\ p.state.cursor = q.state.cursor
    BY <1>1, <2>1 DEF Run, State
  <2>5. Stands(Done', rest, q.cursor)
    BY <1>9, <1>19, <2>3, ReachMore
  <2>6. QED
    BY <1>6, <1>7, <1>10, <1>19, <2>4, <2>5
<1>20. CASE Submit(r)
  <2>1. PICK now \in 1..MaxClock :
          /\ Serve(Number(r, now), Chunk(r))
          /\ IF New(Number(r, now)) THEN Taken(r, Number(r, now))
             ELSE run' = [run EXCEPT ![r].step = "again", ![r].seq = Number(r, now) + SeqJump]
    BY <1>20 DEF Submit
  <2>2. q.step = "submit" /\ saved' = saved /\ skipped' = skipped
    BY <1>20 DEF Submit
  <2>3. CASE New(Number(r, now))
    BY <1>19, <2>1, <2>2, <2>3
  <2>4. CASE ~New(Number(r, now))
    <3>1. p.step = "again" /\ p.found = q.found /\ p.cursor = q.cursor /\ p.state = q.state
      BY <1>1, <2>1, <2>4 DEF Run
    <3>2. QED
      BY <1>6, <1>7, <1>9, <1>10, <2>2, <3>1
  <2>5. QED
    BY <2>3, <2>4
<1>21. CASE SubmitAgain(r)
  BY <1>19, <1>21 DEF SubmitAgain
<1>22. CASE GiveUp(r) \/ SubmitFails(r) \/ Crash(r)
  <2>1. Exit(r) /\ saved' = saved
    BY <1>22 DEF GiveUp, SubmitFails, Crash
  <2>2. QED
    BY <1>6, <1>7, <1>11, <2>1
<1>23. CASE Save(r)
  <2>1. /\ q.step = "save" /\ saved' = q.state /\ p.step \in {"finish", "submit"}
        /\ (p.step = "finish" => p.found = {})
        /\ p.found = q.found /\ p.cursor = q.cursor /\ p.state = q.state
    BY <1>1, <1>23 DEF Save, Run
  <2>2. QED
    BY <1>7, <1>9, <1>10, <2>1
<1>24. CASE Finish(r)
  <2>1. saved'.cursor = q.cursor /\ q.step = "finish" /\ Exit(r)
    BY <1>1, <1>24 DEF Finish, State
  <2>2. QED
    BY <1>7, <1>9, <1>11, <2>1
<1>25. QED
  BY <1>12, <1>13, <1>15, <1>16, <1>17, <1>18, <1>20, <1>21, <1>22, <1>23, <1>24 DEF Step

LEMMA LossDaemon ==
  ASSUME LogAssumption, ReportAssumption, TypeOK, FileOK, Unnamed, LossInv, Daemon, ~missed'
  PROVE  LossInv'
<1>1. /\ ~missed /\ UNCHANGED <<accepted, skipped, saved, run>> /\ LogTypeOK /\ LogNext
      /\ Rename => (\A r \in Runners : ~Reading(r)) /\ old \notin Followed \ {None}
  BY DEF Daemon, server, TypeOK
<1>2. /\ saved.cursor \in Cursor
      /\ \A r \in Runners : run[r].cursor \in Cursor /\ run[r].state.cursor \in Cursor
  BY DEF TypeOK, Run, State
<1>3. Done' = Done
  BY <1>1 DEF Done
<1>4. ASSUME NEW found, NEW c \in Cursor, Reach(text, current, old, Done, found, c), c.ino \in Followed
      PROVE  Reach(text', current', old', Done, found, c)
  BY <1>1, <1>4, LogKeepsReach
<1>5. Reach(text', current', old', Done, {}, saved.cursor)
  <2>1. saved.cursor.ino \in Followed
    BY DEF Followed
  <2>2. QED
    BY <1>1, <1>2, <1>4, <2>1 DEF LossInv
<1>6. ASSUME NEW r \in Runners
      PROVE  Sound(r)'
  <2> DEFINE q == run[r]
  <2>1. q.cursor.ino \in Followed /\ q.state.cursor.ino \in Followed
    BY DEF Followed
  <2>2. Sound(r)
    BY <1>1 DEF LossInv
  <2>3. Reach(text', current', old', Done, {}, q.state.cursor)
    BY <1>2, <1>4, <2>1, <2>2 DEF Sound
  <2>4. q.step \in {"measure", "read", "submit", "again", "save", "finish"} =>
          Reach(text', current', old', Done, q.found, q.cursor)
    BY <1>2, <1>4, <2>1, <2>2 DEF Sound
  <2>5. ASSUME q.step \in {"old", "readold", "measure", "read"}
        PROVE  current' = current /\ old' = old
    <3>1. current # None
      BY <2>2, <2>5 DEF Sound
    <3>2. ~Rename
      BY <1>1, <2>5 DEF Reading
    <3>3. QED
      BY <1>1, <3>1, <3>2 DEF LogNext, AppendBan, AppendCut, RenameFails, Reopen, ReopenFails, Halt,
         Open, FileOK
  <2>6. QED
    BY <1>1, <1>3, <2>2, <2>3, <2>4, <2>5 DEF Sound
<1>7. QED
  BY <1>1, <1>3, <1>5, <1>6 DEF LossInv

\* The cursor that is saved never passes a ban that the server does not have, for any
\* number of runs that overlap and any failures, unless the log was rotated while it was
\* read or the file of a cursor removed.
THEOREM NeverPassed == Spec => []NothingLost
<1> DEFINE Inv == FileOK /\ Unnamed /\ LossInv
<1>1. Init => Inv
  <2>1. ASSUME Init
        PROVE  Unnamed /\ LossInv
    <3>1. saved.cursor = NoCursor /\ \A r \in Runners : run[r] = Idle
      BY <2>1 DEF Init
    <3>2. \A r \in Runners : Sound(r)
      BY <3>1, ReachFromNone DEF Sound, Idle
    <3>3. QED
      BY <2>1, <3>1, <3>2, ReachFromNone DEF Init, LogInit, Unnamed, LossInv
  <2>2. QED
    BY <2>1, FileInit
<1>2. TypeOK /\ Inv /\ [Next]_vars => Inv'
  <2>1. ASSUME TypeOK, Inv, UNCHANGED vars
        PROVE  Inv'
    BY <2>1 DEF vars, log, server, FileOK, Unnamed, LossInv, Sound, Done
  <2>2. ASSUME TypeOK, Inv, NEW r \in Runners, Step(r) \/ SubmitFails(r) \/ Crash(r)
        PROVE  Inv'
    <3>1. FileOK' /\ Unnamed'
      BY <2>2, RunnersLeaveLog DEF log, FileOK, Unnamed
    <3>2. LossInv'
      <4>1. CASE missed'
        BY <4>1 DEF LossInv
      <4>2. CASE ~missed'
        BY <2>2, <4>2, LogAssumption, ReportAssumption, LossRunner
      <4>3. QED
        BY <4>1, <4>2
    <3>3. QED
      BY <3>1, <3>2
  <2>3. ASSUME TypeOK, Inv, Daemon
        PROVE  Inv'
    <3>1. FileOK' /\ Unnamed'
      BY <2>3, LogAssumption, FileKept, UnnamedKept DEF Daemon, TypeOK
    <3>2. LossInv'
      <4>1. CASE missed'
        BY <4>1 DEF LossInv
      <4>2. CASE ~missed'
        BY <2>3, <4>2, LogAssumption, ReportAssumption, LossDaemon
      <4>3. QED
        BY <4>1, <4>2
    <3>3. QED
      BY <3>1, <3>2
  <2>4. QED
    BY <2>1, <2>2, <2>3 DEF Next
<1>3. TypeOK /\ Inv => NothingLost
  <2>1. ASSUME TypeOK, LossInv, ~missed
        PROVE  Logged \subseteq accepted \cup skipped \cup Ahead(saved.cursor)
    <3> DEFINE c == saved.cursor
    <3>1. Reach(text, current, old, Done, {}, c)
      BY <2>1 DEF LossInv
    <3>2. c.ino # None => c.ino \in {current, old}
      BY <3>1 DEF Reach
    <3>3. AheadIn(text, current, old, c) = Ahead(c)
      BY <3>2, SameAsKnown DEF AheadIn, Ahead, Logged
    <3>4. QED
      BY <3>1, <3>3, SameAsKnown DEF Reach, Done, Logged
  <2>2. QED
    BY <2>1 DEF NothingLost
<1>4. QED
  BY <1>1, <1>2, <1>3, TypeCorrect, PTL DEF Spec
=============================================================================
