---------------------------- MODULE EnrollProofs ----------------------------
(***************************************************************************)
(* Proofs about Enroll for any number of processes, keys, failures and     *)
(* changes of the token: types, and, of the behaviours in which no two     *)
(* processes run at the same time, WrittenAtomically, KeyIsOurs,           *)
(* NeverInALoop and FewGhosts.                                             *)
(***************************************************************************)
EXTENDS Enroll, TLAPS, FiniteSetTheorems

RunType ==
    [pc : {"idle", "key", "challenge", "rotate", "create", "write", "rename",
           "enroll", "sign", "submit"},
     id : 0 .. MaxKeys, joined : BOOLEAN, key : 0 .. MaxKeys,
     token : {"none", "good", "bad"}, joining : BOOLEAN, attempt : {0, 1},
     file : Targets, next : {"idle", "challenge", "enroll", "sign", "submit"}]

LEMMA FileTypes ==
    /\ Absent \in File /\ Empty \in File /\ Mixed \in File
    /\ \A id \in 0 .. MaxKeys, j \in BOOLEAN : Whole(id, j) \in File
<1> QED
  BY EnrollAssumption DEF Absent, Empty, Mixed, Whole, File

LEMMA TmpNames == \A f \in Targets : f \in Names /\ Tmp(f) \in Names
<1> QED
  BY DEF Targets, Names, Tmp

LEMMA InitTypes == Init => TypeOK
<1> SUFFICES ASSUME Init PROVE TypeOK
  OBVIOUS
<1> USE EnrollAssumption DEF Init, StoreInit
<1>1. disk \in [Names -> File]
  BY FileTypes
<1>2. run \in [Runners -> RunType]
  BY DEF Idle, RunType, Targets
<1> QED
  BY <1>1, <1>2 DEF TypeOK, RunType, Names

\* A process that loads the state begins with a record of the right type.
LEMMA BeginType ==
    ASSUME NEW pc \in {"key", "sign", "create"}, NEW id \in 0 .. MaxKeys, NEW jd \in BOOLEAN,
           NEW t \in {"none", "good", "bad"}, NEW jg \in BOOLEAN
    PROVE  /\ [Idle EXCEPT !.pc = pc, !.id = id, !.joined = jd, !.token = t, !.joining = jg]
                \in RunType
           /\ [Idle EXCEPT !.pc = pc, !.id = id, !.joined = jd, !.token = t] \in RunType
<1>1. Idle \in RunType
  BY EnrollAssumption DEF Idle, RunType, Targets
<1> QED
  BY <1>1 DEF RunType

LEMMA LoadTypes ==
    ASSUME TypeOK, NEW r \in Runners, NEW pc \in {"key", "sign"}, Load(r, pc)
    PROVE  TypeOK'
<1>1. /\ Saved.id \in 0 .. MaxKeys /\ Saved.joined \in BOOLEAN /\ Joining \in BOOLEAN
      /\ token \in {"none", "good", "bad"}
  BY DEF TypeOK, Saved, Names, Joining, File
<1>2. [Idle EXCEPT !.pc = pc, !.id = Saved.id, !.joined = Saved.joined, !.token = token,
                   !.joining = Joining] \in RunType
  BY <1>1, BeginType
<1>3. run' \in [Runners -> RunType]
  BY <1>2 DEF Load, TypeOK, RunType
<1> QED
  BY <1>3 DEF Load, TypeOK, RunType, env

LEMMA PullTypes == ASSUME TypeOK, NEW r \in Runners, BeginPull(r) PROVE TypeOK'
<1>1. /\ Saved.id \in 0 .. MaxKeys /\ Saved.joined \in BOOLEAN
      /\ token \in {"none", "good", "bad"}
  BY DEF TypeOK, Saved, Names, File
<1>2. [Idle EXCEPT !.pc = "create", !.id = Saved.id, !.joined = Saved.joined, !.token = token]
        \in RunType
  BY <1>1, BeginType
<1>3. run' \in [Runners -> RunType]
  BY <1>2 DEF BeginPull, TypeOK, RunType
<1> QED
  BY <1>3 DEF BeginPull, TypeOK, RunType, env

LEMMA KeyTypes ==
    ASSUME TypeOK, NEW r \in Runners, LoadEnrollKey(r) \/ LoadReportKey(r)
    PROVE  TypeOK'
<1>1. Key.id \in 0 .. MaxKeys
  BY DEF TypeOK, Key, Names, File
<1>2. run' \in [Runners -> RunType]
  BY <1>1 DEF LoadEnrollKey, LoadReportKey, LoadKey, Writes, Goes, TypeOK, RunType, Targets
<1> QED
  BY <1>2 DEF LoadEnrollKey, LoadReportKey, LoadKey, TypeOK, RunType, env

LEMMA CreateTypes == ASSUME TypeOK, NEW r \in Runners, Create(r) PROVE TypeOK'
<1>1. run[r].file \in Targets
  BY DEF TypeOK
<1>2. disk' \in [Names -> File] /\ fd' \in [Runners -> Names \cup {"none"}]
  BY <1>1, FileTypes, TmpNames DEF Create, CreateTmp, TypeOK
<1>3. run' \in [Runners -> RunType] /\ made' \in 0 .. MaxKeys
  BY <1>1, EnrollAssumption DEF Create, Goes, TypeOK, RunType
<1> QED
  BY <1>2, <1>3 DEF Create, TypeOK, RunType

LEMMA WriteTypes == ASSUME TypeOK, NEW r \in Runners, Write(r) PROVE TypeOK'
<1>1. Content(r) \in File
  BY FileTypes, EnrollAssumption DEF TypeOK, Content
<1>2. disk' \in [Names -> File]
  BY <1>1, FileTypes DEF Write, WriteTmp, Overwritten, TypeOK
<1>3. run' \in [Runners -> RunType]
  BY DEF Write, Goes, TypeOK, RunType
<1> QED
  BY <1>2, <1>3 DEF Write, WriteTmp, TypeOK, RunType, env

LEMMA RenameTypes == ASSUME TypeOK, NEW r \in Runners, Rename(r) PROVE TypeOK'
<1>1. run[r].file \in Targets /\ run[r].next \in {"idle", "challenge", "enroll", "sign", "submit"}
  BY DEF TypeOK
<1>2. disk' \in [Names -> File] /\ fd' \in [Runners -> Names \cup {"none"}]
  BY <1>1, FileTypes, TmpNames DEF Rename, RenameTmp, Close, TypeOK
<1>3. run' \in [Runners -> RunType]
  BY <1>1 DEF Rename, Goes, TypeOK, RunType
<1>4. joins' \in 0 .. 2
  BY DEF Rename, TypeOK
<1> QED
  BY <1>2, <1>3, <1>4 DEF Rename, TypeOK, RunType

LEMMA EnrollTypes ==
    ASSUME TypeOK, NEW r \in Runners,
           Challenge(r) \/ TokenRefused(r) \/ Enrolled(r) \/ AlreadyEnrolled(r) \/ Submit(r)
    PROVE  TypeOK'
<1>0. run[r].key \in 0 .. MaxKeys /\ run \in [Runners -> RunType]
  BY DEF TypeOK, RunType
<1>1. CASE Challenge(r)
  <2>1. run' \in [Runners -> RunType]
    BY <1>0, <1>1, EnrollAssumption DEF Challenge, Goes, RunType
  <2>2. joins' \in 0 .. 2
    BY <1>1 DEF Challenge, TypeOK
  <2> QED
    BY <1>1, <2>1, <2>2 DEF Challenge, TypeOK, RunType
<1>2. CASE TokenRefused(r)
  <2>1. run' \in [Runners -> RunType]
    BY <1>0, <1>2 DEF TokenRefused, Goes, RunType
  <2> QED
    BY <1>2, <2>1 DEF TokenRefused, TypeOK, RunType, env
<1>3. CASE Enrolled(r)
  <2>0. (run[r].token # "none") \in BOOLEAN
    BY Zenon
  <2>1. run' \in [Runners -> RunType]
    <3>1. run[r] \in RunType
      BY <1>0
    <3>2. [run[r] EXCEPT !.pc = "create", !.file = "state", !.next = "sign",
                         !.id = run[r].key, !.joined = run[r].token # "none"] \in RunType
      BY <1>0, <2>0, <3>1 DEF RunType, Targets
    <3> QED
      BY <1>0, <1>3, <3>2 DEF Enrolled
  <2>2. known' \subseteq 0 .. MaxKeys
    BY <1>0, <1>3 DEF Enrolled, ServerTakes, TypeOK
  <2> QED
    BY <1>3, <2>1, <2>2 DEF Enrolled, TypeOK, RunType
<1>4. CASE AlreadyEnrolled(r) \/ Submit(r)
  <2>1. run' \in [Runners -> RunType]
    BY <1>0, <1>4 DEF AlreadyEnrolled, Submit, Writes, Goes, RunType, Targets
  <2> QED
    BY <1>4, <2>1 DEF AlreadyEnrolled, Submit, TypeOK, RunType, env
<1> QED
  BY <1>1, <1>2, <1>3, <1>4

LEMMA RotateTypes == ASSUME TypeOK, NEW r \in Runners, Rotate(r) PROVE TypeOK'
<1>1. disk' \in [Names -> File] /\ fd' \in [Runners -> Names \cup {"none"}]
  BY FileTypes DEF Rotate, Moved, TypeOK, Names
<1>2. run' \in [Runners -> RunType]
  <2>1. /\ run \in [Runners -> RunType]
        /\ run[r].next \in {"idle", "challenge", "enroll", "sign", "submit"}
    BY DEF TypeOK, RunType
  <2>2. run[r] \in RunType
    BY <2>1
  <2>3. [run[r] EXCEPT !.pc = "create", !.file = "key", !.next = run[r].next] \in RunType
    BY <2>2 DEF RunType, Targets
  <2> QED
    BY <2>1, <2>3 DEF Rotate, Writes
<1> QED
  BY <1>1, <1>2 DEF Rotate, TypeOK, RunType, env

LEMMA FaultTypes ==
    ASSUME TypeOK, (\E r \in Runners : Dies(r) \/ AnswerLost(r)) \/ StateLost \/ Edit
    PROVE  TypeOK'
<1> USE EnrollAssumption
<1>1. ASSUME NEW r \in Runners, Dies(r) PROVE TypeOK'
  <2>1. run' \in [Runners -> RunType] /\ fd' \in [Runners -> Names \cup {"none"}]
    BY <1>1 DEF Dies, Goes, Close, TypeOK, RunType
  <2> QED
    BY <1>1, <2>1 DEF Dies, Fault, TypeOK, RunType
<1>2. ASSUME NEW r \in Runners, AnswerLost(r) PROVE TypeOK'
  <2>1. run' \in [Runners -> RunType]
    BY <1>2 DEF AnswerLost, Goes, TypeOK, RunType
  <2>3. run[r].key \in 0 .. MaxKeys
    BY DEF TypeOK
  <2>2. known' \subseteq 0 .. MaxKeys
    BY <1>2, <2>3 DEF AnswerLost, ServerTakes, TypeOK
  <2> QED
    BY <1>2, <2>1, <2>2 DEF AnswerLost, Fault, TypeOK, RunType
<1>3. CASE StateLost
  <2>1. disk' \in [Names -> File] /\ fd' \in [Runners -> Names \cup {"none"}]
    BY <1>3, FileTypes DEF StateLost, TypeOK
  <2> QED
    BY <1>3, <2>1 DEF StateLost, Fault, TypeOK
<1>4. CASE Edit
  BY <1>4 DEF Edit, TypeOK
<1> QED
  BY <1>1, <1>2, <1>3, <1>4

LEMMA StepTypes == TypeOK /\ [Next]_vars => TypeOK'
<1> SUFFICES ASSUME TypeOK, [Next]_vars PROVE TypeOK'
  OBVIOUS
<1>1. CASE \E r \in Runners : BeginRun(r) \/ BeginReport(r)
  BY <1>1, LoadTypes DEF BeginRun, BeginReport
<1>2. CASE \E r \in Runners : BeginPull(r)
  BY <1>2, PullTypes
<1>3. CASE \E r \in Runners : Step(r)
  BY <1>3, KeyTypes, CreateTypes, WriteTypes, RenameTypes, EnrollTypes, RotateTypes DEF Step
<1>4. CASE (\E r \in Runners : Dies(r) \/ AnswerLost(r)) \/ StateLost \/ Edit
  BY <1>4, FaultTypes
<1>5. CASE UNCHANGED vars
  BY <1>5 DEF vars, TypeOK
<1> QED
  BY <1>1, <1>2, <1>3, <1>4, <1>5 DEF Next

\* Files, processes and the server keep their types, for any number of processes
\* that share the files (main.rs:30-223, state.rs:82-98, key.rs:14-59).
THEOREM TypeCorrect == Spec => []TypeOK
<1> QED
  BY InitTypes, StepTypes, PTL DEF Spec

-----------------------------------------------------------------------------
(* One process at a time.  The invariant speaks of the files and of what   *)
(* each process has in memory; one that does not run has nothing there     *)
(* that it will use.                                                       *)

\* The process is writing `f`.
Writing(r, f) == run[r].pc \in {"create", "write", "rename"} /\ run[r].file = f
\* It is making a key.
Making(r) == Writing(r, "key")
\* It has not heard from the server whether it is enrolled.
Enrolling(r) ==
    \/ run[r].pc \in {"key", "challenge", "rotate", "enroll"}
    \/ Making(r) /\ run[r].next \in {"challenge", "enroll"}
\* It has given up the host id it had in memory.
Given(r) ==
    \/ run[r].pc \in {"rotate", "enroll"}
    \/ Making(r) /\ (run[r].next = "enroll" \/ (run[r].next = "challenge" /\ run[r].attempt = 1))
\* What KeyIsOurs says of a host id, saved or in memory.
Ours(x) == x # 0 => \/ x = Key.id
                    \/ joins = 1 /\ x = disk["key.old"].id
                    \/ joins = 2
\* The files are whole, and the server knows no key that was not made here.
FilesOK ==
    /\ Readable("state") /\ Readable("key")
    /\ \A f \in {"state", "key", "key.old"} :
          /\ disk[f].id <= made
          /\ disk[f].is = "absent" => disk[f] = Absent
    /\ Present("key") => Key.id # 0
    /\ Saved.joined => Saved.id # 0
    /\ known \subseteq 1 .. made
    /\ Ours(Saved.id)
\* The process writes the temporary file, under its own name, and nobody else does.
FdOK(r) ==
    IF run[r].pc \in {"write", "rename"}
    THEN /\ fd[r] = Tmp(run[r].file)
         /\ disk[Tmp(run[r].file)] = IF At(r, "write") THEN Empty ELSE Content(r)
    ELSE fd[r] = "none"
\* The host id and the key in memory, and what they have to do with those on disk.
MemOK(r) ==
    /\ run[r].id <= made /\ run[r].key <= made
    /\ run[r].joined => run[r].id # 0
    /\ run[r].joining /\ Enrolling(r) => ~run[r].joined /\ run[r].attempt = 0
    /\ ~At(r, "idle") => Ours(run[r].id)
    /\ Enrolling(r) => /\ ~Saved.joined
                       /\ Saved.id # 0 \/ run[r].id # 0 => run[r].joining
    /\ Given(r) => run[r].id = 0
    /\ At(r, "rotate") /\ Saved.id # 0 => joins = 2 \/ (joins = 1 /\ Saved.id = Key.id)
    /\ At(r, "rotate") => run[r].next \in {"challenge", "enroll"}
    /\ run[r].pc \in {"challenge", "enroll"} => run[r].key = Key.id /\ Present("key")
    /\ At(r, "enroll") /\ run[r].joining => run[r].key \notin known
    /\ Making(r) => Key = Absent /\ run[r].next \in {"challenge", "enroll", "submit"}
    /\ Making(r) /\ ~At(r, "create") =>
          /\ run[r].key = made /\ made \notin known /\ made # 0
          /\ made \notin {Saved.id, run[r].id, disk["key.old"].id}
    /\ ~At(r, "idle") /\ ~Enrolling(r) =>
          \/ Saved.joined => Saved.id = run[r].id
          \/ Writing(r, "state") /\ run[r].next = "sign" /\ ~Saved.joined
    /\ Writing(r, "state") => run[r].next \in {"sign", "idle"}
    /\ Writing(r, "state") /\ run[r].next = "sign" => run[r].id = Key.id /\ ~Saved.joined
EInv == FilesOK /\ \A r \in Runners : FdOK(r) /\ MemOK(r)

\* No two processes run at the same time.
OneAtATime == \A q, r \in Runners : q = r \/ At(q, "idle") \/ At(r, "idle")

Alone(r) == \A q \in Runners \ {r} : At(q, "idle")

\* What the lemmas on the actions show of the process that takes one.
RunInv(r) == FilesOK /\ FdOK(r) /\ MemOK(r)

Acts(r) ==
    BeginRun(r) \/ BeginReport(r) \/ BeginPull(r) \/ Step(r) \/ Dies(r) \/ AnswerLost(r)

\* An action of one process leaves alone what the others have in memory.
LEMMA OthersKeep ==
    ASSUME TypeOK, NEW r \in Runners, Acts(r)
    PROVE  \A q \in Runners \ {r} : run'[q] = run[q] /\ (fd[q] = "none" => fd'[q] = "none")
<1> SUFFICES ASSUME NEW q \in Runners \ {r}
             PROVE  run'[q] = run[q] /\ (fd[q] = "none" => fd'[q] = "none")
  OBVIOUS
<1>1. CASE BeginRun(r) \/ BeginReport(r) \/ BeginPull(r)
  BY <1>1 DEF BeginRun, BeginReport, BeginPull, Load, TypeOK
<1>2. CASE LoadEnrollKey(r) \/ LoadReportKey(r) \/ Challenge(r) \/ TokenRefused(r)
           \/ Enrolled(r) \/ AlreadyEnrolled(r) \/ Submit(r) \/ AnswerLost(r)
  BY <1>2 DEF LoadEnrollKey, LoadReportKey, LoadKey, Challenge, TokenRefused, Enrolled,
              AlreadyEnrolled, Submit, AnswerLost, ServerTakes, Writes, Goes, TypeOK
<1>3. CASE Create(r) \/ Write(r) \/ Dies(r)
  BY <1>3 DEF Create, CreateTmp, Write, WriteTmp, Dies, Close, Goes, TypeOK
<1>4. CASE Rename(r)
  <2>1. run[r].file \in Targets
    BY DEF TypeOK
  <2> QED
    BY <1>4, <2>1 DEF Rename, RenameTmp, Close, Goes, TypeOK, Targets, Tmp
<1>5. CASE Rotate(r)
  BY <1>5 DEF Rotate, Moved, Writes, TypeOK
<1> QED
  BY <1>1, <1>2, <1>3, <1>4, <1>5 DEF Acts, Step

\* Who takes a step that is not its first is alone before it, and who takes its
\* first one is alone after it.
LEMMA ActsAlone ==
    ASSUME TypeOK, OneAtATime, OneAtATime', NEW r \in Runners, Acts(r)
    PROVE  Alone(r) /\ Alone(r)'
<1>1. \A q \in Runners \ {r} : run'[q] = run[q]
  BY OthersKeep
<1>2. CASE BeginRun(r) \/ BeginReport(r) \/ BeginPull(r)
  <2>1. ~At(r, "idle")'
    BY <1>2 DEF BeginRun, BeginReport, BeginPull, Load, Idle, At, TypeOK
  <2> QED
    BY <1>1, <2>1 DEF OneAtATime, Alone, At
<1>3. CASE Step(r) \/ Dies(r) \/ AnswerLost(r)
  <2>1. ~At(r, "idle")
    BY <1>3 DEF Step, LoadEnrollKey, LoadReportKey, LoadKey, Create, Write, Rename, Challenge,
                TokenRefused, Rotate, Enrolled, AlreadyEnrolled, Submit, Dies, AnswerLost,
                ServerTakes, At
  <2> QED
    BY <1>1, <2>1 DEF OneAtATime, Alone, At
<1> QED
  BY <1>2, <1>3 DEF Acts

\* Of a process that does not run the invariant says little, and so it holds after an
\* action of one that is alone, if it holds of that one.
LEMMA ActsEInv ==
    ASSUME TypeOK, EInv, NEW r \in Runners, Acts(r), Alone(r), RunInv(r)',
           made <= made', made' \in Nat
    PROVE  EInv'
<1> SUFFICES ASSUME NEW q \in Runners \ {r} PROVE FdOK(q)' /\ MemOK(q)'
  BY DEF EInv, RunInv
<1>1. At(q, "idle") /\ run'[q] = run[q]
  BY OthersKeep DEF Alone
<1>2. FdOK(q) /\ MemOK(q)
  BY DEF EInv
<1>3. /\ run[q].id <= made /\ run[q].key <= made
      /\ run[q].joined => run[q].id # 0
  BY <1>2 DEF MemOK
<1>4. fd[q] = "none"
  BY <1>1, <1>2 DEF FdOK, At
<1>5. run[q].id \in Nat /\ run[q].key \in Nat /\ made \in Nat
  BY EnrollAssumption DEF TypeOK
<1>6. /\ run'[q].id <= made' /\ run'[q].key <= made'
      /\ run'[q].joined => run'[q].id # 0
      /\ fd'[q] = "none"
  BY <1>1, <1>3, <1>4, <1>5, OthersKeep
<1>7. run'[q].pc = "idle"
  BY <1>1 DEF At
<1>8. ~Enrolling(q)' /\ ~Given(q)' /\ ~Making(q)' /\ ~Writing(q, "state")'
  BY <1>7 DEF Enrolling, Given, Making, Writing
<1> QED
  BY <1>6, <1>7, <1>8 DEF MemOK, FdOK, At

LEMMA MadeGrows == ASSUME TypeOK, NEW r \in Runners, Acts(r) PROVE made <= made' /\ made' \in Nat
<1>1. made \in Nat
  BY EnrollAssumption DEF TypeOK
<1>2. made' = made \/ made' = made + 1
  BY DEF Acts, BeginRun, BeginReport, BeginPull, Load, Step, LoadEnrollKey, LoadReportKey, LoadKey,
         Create, Write, Rename, Challenge, TokenRefused, Rotate, Enrolled, AlreadyEnrolled, Submit,
         Dies, AnswerLost, ServerTakes, env
<1> QED
  BY <1>1, <1>2

LEMMA InitEInv == Init => EInv
<1> SUFFICES ASSUME Init PROVE EInv
  OBVIOUS
<1> USE DEF Init, StoreInit, Absent, Saved, Key, Idle
<1>1. FilesOK
  BY DEF FilesOK, Readable, Present, Ours, Names
<1>2. ASSUME NEW r \in Runners PROVE FdOK(r) /\ MemOK(r)
  BY <1>2 DEF FdOK, MemOK, Enrolling, Given, Making, Writing, At, Ours
<1> QED
  BY <1>1, <1>2 DEF EInv

LEMMA BeginEInv ==
    ASSUME TypeOK, EInv, NEW r \in Runners, BeginRun(r) \/ BeginReport(r)
    PROVE  RunInv(r)'
<1>1. FilesOK /\ FdOK(r) /\ MemOK(r)
  BY DEF EInv
<1>2. PICK pc \in {"key", "sign"} : Load(r, pc) /\ (pc = "key" => Saved.id = 0 \/ Joining)
  BY DEF BeginRun, BeginReport
<1>3. /\ run[r].pc = "idle"
      /\ run'[r] = [Idle EXCEPT !.pc = pc, !.id = Saved.id, !.joined = Saved.joined,
                                !.token = token, !.joining = Joining]
      /\ UNCHANGED <<disk, fd, env>>
  BY <1>2 DEF Load, At, TypeOK
<1>4. /\ run'[r].pc = pc /\ run'[r].id = Saved.id /\ run'[r].key = 0 /\ run'[r].attempt = 0
      /\ run'[r].file = "state" /\ run'[r].next = "idle"
      /\ run'[r].joined = Saved.joined
  BY <1>3 DEF Idle
<1>5. run'[r].joining = Joining
  BY <1>3, Zenon DEF Idle
<1>6. FilesOK'
  BY <1>1, <1>3 DEF env, FilesOK, Readable, Present, Ours, Saved, Key
<1>7. FdOK(r)'
  BY <1>1, <1>3, <1>4 DEF FdOK
<1>8. MemOK(r)'
  <2>1. /\ run'[r].joined => run'[r].id # 0
        /\ run'[r].joining /\ pc = "key" => ~run'[r].joined
        /\ pc = "key" /\ Saved.id # 0 => run'[r].joining
        /\ pc = "key" => ~Saved.joined
    BY <1>1, <1>2, <1>4, <1>5 DEF Joining, FilesOK
  <2>2. /\ ~Given(r)' /\ ~Making(r)' /\ ~Writing(r, "state")'
        /\ Enrolling(r)' <=> pc = "key"
    BY <1>4 DEF Given, Making, Writing, Enrolling
  <2>3. UNCHANGED <<made, joins, disk, Saved, Key>>
    BY <1>3 DEF env, Saved, Key
  <2>4. (~At(r, "idle") => Ours(run[r].id))'
    BY <1>1, <1>4, <2>3 DEF FilesOK, Ours
  <2>5. run'[r].id <= made' /\ run'[r].key <= made'
    BY <1>1, <1>4, <2>3 DEF FilesOK, Saved, TypeOK
  <2> QED
    BY <1>4, <2>1, <2>2, <2>3, <2>4, <2>5 DEF MemOK, At
<1> QED
  BY <1>6, <1>7, <1>8 DEF RunInv

LEMMA PullEInv ==
    ASSUME TypeOK, EInv, NEW r \in Runners, BeginPull(r)
    PROVE  RunInv(r)'
<1>1. FilesOK /\ FdOK(r) /\ MemOK(r)
  BY DEF EInv
<1>2. FilesOK'
  BY <1>1 DEF BeginPull, env, Idle, FilesOK, Readable, Present, Ours, Saved, Key, TypeOK
<1>3. FdOK(r)'
  BY <1>1 DEF BeginPull, env, Idle, FdOK, Tmp, Content, At, TypeOK
<1>4. MemOK(r)'
  BY <1>1 DEF BeginPull, env, Idle, FilesOK, MemOK, Enrolling, Given, Making, Writing, At, Ours,
              Saved, Key, TypeOK, Present
<1> QED
  BY <1>2, <1>3, <1>4 DEF RunInv

LEMMA GoesFields ==
    ASSUME TypeOK, NEW r \in Runners, NEW pc, Goes(r, pc)
    PROVE  /\ run'[r].pc = pc /\ run'[r].id = run[r].id /\ run'[r].key = run[r].key
           /\ run'[r].joined = run[r].joined /\ run'[r].joining = run[r].joining
           /\ run'[r].attempt = run[r].attempt /\ run'[r].token = run[r].token
           /\ run'[r].file = run[r].file /\ run'[r].next = run[r].next
<1> QED
  BY DEF Goes, TypeOK

LEMMA WritesFields ==
    ASSUME TypeOK, NEW r \in Runners, NEW f, NEW next, Writes(r, f, next)
    PROVE  /\ run'[r].pc = "create" /\ run'[r].id = run[r].id /\ run'[r].key = run[r].key
           /\ run'[r].joined = run[r].joined /\ run'[r].joining = run[r].joining
           /\ run'[r].attempt = run[r].attempt /\ run'[r].token = run[r].token
           /\ run'[r].file = f /\ run'[r].next = next
<1> QED
  BY DEF Writes, TypeOK

LEMMA KeyEInv ==
    ASSUME TypeOK, EInv, NEW r \in Runners, LoadEnrollKey(r) \/ LoadReportKey(r)
    PROVE  RunInv(r)'
<1>1. FilesOK /\ FdOK(r) /\ MemOK(r)
  BY DEF EInv
<1>2. PICK pc \in {"key", "sign"}, next \in {"challenge", "submit"} :
        LoadKey(r, pc, next) /\ (pc = "key" <=> next = "challenge")
  BY DEF LoadEnrollKey, LoadReportKey
<1>3. /\ run[r].pc = pc
      /\ UNCHANGED <<disk, fd, made, joins, known, Saved, Key>>
  BY <1>2 DEF LoadKey, env, Saved, Key, At
<1>4. FilesOK'
  BY <1>1, <1>3 DEF FilesOK, Readable, Present, Ours
<1>5. CASE Present("key") /\ run' = [run EXCEPT ![r].pc = next, ![r].key = Key.id]
  <2>1. /\ run'[r].pc = next /\ run'[r].id = run[r].id /\ run'[r].key = Key.id
        /\ run'[r].joined = run[r].joined /\ run'[r].joining = run[r].joining
        /\ run'[r].attempt = run[r].attempt /\ run'[r].file = run[r].file
        /\ run'[r].next = run[r].next
    BY <1>5 DEF TypeOK
  <2>2. FdOK(r)'
    BY <1>1, <1>2, <1>3, <2>1 DEF FdOK
  <2>3. MemOK(r)'
    BY <1>1, <1>2, <1>3, <1>5, <2>1
    DEF FilesOK, MemOK, Enrolling, Given, Making, Writing, At, Ours, Key, Present
  <2> QED
    BY <1>4, <2>2, <2>3 DEF RunInv
<1>6. CASE Key.is = "absent" /\ Writes(r, "key", next)
  <2>1. /\ run'[r].pc = "create" /\ run'[r].id = run[r].id /\ run'[r].key = run[r].key
        /\ run'[r].joined = run[r].joined /\ run'[r].joining = run[r].joining
        /\ run'[r].attempt = run[r].attempt /\ run'[r].file = "key"
        /\ run'[r].next = next
    BY <1>6, WritesFields
  <2>2. FdOK(r)'
    BY <1>1, <1>2, <1>3, <2>1 DEF FdOK
  <2>4. Key = Absent
    BY <1>1, <1>6 DEF FilesOK, Key
  <2>5. /\ Making(r)' /\ At(r, "create")' /\ ~Writing(r, "state")' /\ ~Writing(r, "state")
        /\ Enrolling(r)' <=> Enrolling(r)
        /\ Given(r)' => run[r].attempt = 1 /\ Enrolling(r)
        /\ run[r].attempt \in {0, 1}
    BY <1>2, <1>3, <2>1 DEF Making, Writing, Enrolling, Given, At, TypeOK
  <2>6. run[r].attempt = 1 /\ Enrolling(r) => run[r].id = 0
    BY <1>1 DEF MemOK
  <2>3. MemOK(r)'
    BY <1>1, <1>2, <1>3, <2>1, <2>4, <2>5, <2>6 DEF MemOK, At, Ours
  <2> QED
    BY <1>4, <2>2, <2>3 DEF RunInv
<1> QED
  BY <1>1, <1>2, <1>5, <1>6 DEF LoadKey, FilesOK

LEMMA ChallengeEInv ==
    ASSUME TypeOK, EInv, NEW r \in Runners, Challenge(r)
    PROVE  RunInv(r)'
<1>1. FilesOK /\ FdOK(r) /\ MemOK(r)
  BY DEF EInv
<1>2. FilesOK'
  BY <1>1 DEF Challenge, Goes, FilesOK, Readable, Present, Ours, Saved, Key, TypeOK
<1>3. FdOK(r)'
  BY <1>1 DEF Challenge, Goes, FdOK, Tmp, Content, At, TypeOK
<1>4. MemOK(r)'
  BY <1>1 DEF Challenge, Goes, FilesOK, MemOK, Enrolling, Given, Making, Writing, At, Ours,
              Saved, Key, TypeOK, Present
<1> QED
  BY <1>2, <1>3, <1>4 DEF RunInv

LEMMA RefusedEInv ==
    ASSUME TypeOK, EInv, NEW r \in Runners, TokenRefused(r) \/ Submit(r)
    PROVE  RunInv(r)'
<1>1. FilesOK /\ FdOK(r) /\ MemOK(r)
  BY DEF EInv
<1>2. /\ run[r].pc \in {"challenge", "enroll", "submit"}
      /\ UNCHANGED <<disk, fd, made, joins, known, Saved, Key>>
  BY DEF TokenRefused, Submit, env, Saved, Key, At
<1>3. FilesOK'
  BY <1>1, <1>2 DEF FilesOK, Readable, Present, Ours
<1>4. CASE Goes(r, "idle")
  <2>1. FdOK(r)'
    BY <1>1, <1>2, <1>4, GoesFields DEF FdOK
  <2>2. MemOK(r)'
    BY <1>1, <1>2, <1>4, GoesFields
    DEF FilesOK, MemOK, Enrolling, Given, Making, Writing, At, Ours, Present
  <2> QED
    BY <1>3, <2>1, <2>2 DEF RunInv
<1>5. CASE Writes(r, "state", "idle") /\ run[r].pc = "submit"
  <2>1. FdOK(r)'
    BY <1>1, <1>2, <1>5, WritesFields DEF FdOK
  <2>2. MemOK(r)'
    BY <1>1, <1>2, <1>5, WritesFields
    DEF FilesOK, MemOK, Enrolling, Given, Making, Writing, At, Ours, Present
  <2> QED
    BY <1>3, <2>1, <2>2 DEF RunInv
<1> QED
  BY <1>4, <1>5 DEF TokenRefused, Submit, At

LEMMA EnrolledEInv ==
    ASSUME TypeOK, EInv, NEW r \in Runners, Enrolled(r)
    PROVE  RunInv(r)'
<1>1. FilesOK /\ FdOK(r) /\ MemOK(r)
  BY DEF EInv
<1>2. /\ run[r].pc = "enroll" /\ known' = known \cup {run[r].key}
      /\ UNCHANGED <<disk, fd, made, joins, Saved, Key>>
  BY DEF Enrolled, ServerTakes, Saved, Key, At
<1>3. /\ run'[r].pc = "create" /\ run'[r].id = run[r].key /\ run'[r].key = run[r].key
      /\ run'[r].joining = run[r].joining /\ run'[r].attempt = run[r].attempt
      /\ run'[r].file = "state" /\ run'[r].next = "sign"
  BY DEF Enrolled, TypeOK
<1>4. /\ run[r].key = Key.id /\ Key.id # 0 /\ Key.id <= made /\ Key.id \in Nat
      /\ made \in Nat /\ ~Saved.joined
  BY <1>1, <1>2, EnrollAssumption DEF MemOK, FilesOK, At, TypeOK, Key, Names, File, Enrolling
<1>5. FilesOK'
  <2>0. run[r].key \in 1 .. made
    BY <1>4
  <2>1. known' \subseteq 1 .. made'
    <3> HIDE DEF Key
    <3> QED
      BY <1>1, <1>2, <2>0, Zenon DEF FilesOK
  <2> QED
    BY <1>1, <1>2, <2>1 DEF FilesOK, Readable, Present, Ours
<1>6. FdOK(r)'
  BY <1>1, <1>2, <1>3 DEF FdOK
<1>7. MemOK(r)'
  <2>1. ~Enrolling(r)' /\ ~Making(r)' /\ ~Given(r)' /\ Writing(r, "state")'
    BY <1>3 DEF Enrolling, Making, Given, Writing
  <2> QED
    BY <1>1, <1>2, <1>3, <1>4, <2>1 DEF MemOK, At, Ours
<1> QED
  BY <1>5, <1>6, <1>7 DEF RunInv

LEMMA AlreadyEInv ==
    ASSUME TypeOK, EInv, NEW r \in Runners, AlreadyEnrolled(r)
    PROVE  RunInv(r)'
<1>1. FilesOK /\ FdOK(r) /\ MemOK(r)
  BY DEF EInv
<1>2. FilesOK'
  BY <1>1 DEF AlreadyEnrolled, Goes, env, FilesOK, Readable, Present, Ours, Saved, Key, TypeOK
<1>3. FdOK(r)'
  BY <1>1 DEF AlreadyEnrolled, Goes, env, FdOK, Tmp, Content, At, TypeOK
<1>4. MemOK(r)'
  BY <1>1 DEF AlreadyEnrolled, Goes, env, FilesOK, MemOK, Enrolling, Given, Making, Writing, At, Ours,
              Saved, Key, TypeOK, Present
<1> QED
  BY <1>2, <1>3, <1>4 DEF RunInv

LEMMA TmpApart ==
    ASSUME TypeOK, NEW f \in Targets, NEW x, disk' = [disk EXCEPT ![Tmp(f)] = x]
    PROVE  /\ disk'[Tmp(f)] = x
           /\ \A g \in {"state", "key", "key.old"} : disk'[g] = disk[g]
           /\ UNCHANGED <<Saved, Key>>
<1> QED
  BY DEF TypeOK, Targets, Names, Tmp, Saved, Key

LEMMA CreateEInv ==
    ASSUME TypeOK, EInv, NEW r \in Runners, Create(r)
    PROVE  RunInv(r)'
<1>1. FilesOK /\ FdOK(r) /\ MemOK(r)
  BY DEF EInv
<1>2. /\ run[r].pc = "create" /\ run[r].file \in Targets
      /\ UNCHANGED <<known, joins>>
      /\ disk' = [disk EXCEPT ![Tmp(run[r].file)] = Empty]
      /\ fd'[r] = Tmp(run[r].file)
  BY DEF Create, CreateTmp, At, TypeOK
<1>3. /\ disk'[Tmp(run[r].file)] = Empty
      /\ \A g \in {"state", "key", "key.old"} : disk'[g] = disk[g]
      /\ UNCHANGED <<Saved, Key>>
  BY <1>2, TmpApart
<1>4. /\ run'[r].pc = "write" /\ run'[r].id = run[r].id /\ run'[r].joined = run[r].joined
      /\ run'[r].joining = run[r].joining /\ run'[r].attempt = run[r].attempt
      /\ run'[r].file = run[r].file /\ run'[r].next = run[r].next
      /\ IF run[r].file = "key" THEN made' = made + 1 /\ run'[r].key = made + 1
                               ELSE made' = made /\ run'[r].key = run[r].key
  BY DEF Create, Goes, TypeOK
<1>5. /\ made \in Nat /\ made' \in Nat /\ made <= made' /\ run[r].id \in Nat /\ run[r].key \in Nat
      /\ \A g \in {"state", "key", "key.old"} : disk[g].id \in Nat
      /\ Saved.id \in Nat
  BY <1>4, EnrollAssumption DEF TypeOK, Names, File, Saved
<1>6. FilesOK'
  <2>1. known' \subseteq 1 .. made'
    BY <1>1, <1>2, <1>5 DEF FilesOK
  <2>2. \A g \in {"state", "key", "key.old"} :
          disk'[g].id <= made' /\ (disk'[g].is = "absent" => disk'[g] = Absent)
    BY <1>1, <1>3, <1>5 DEF FilesOK
  <2> QED
    BY <1>1, <1>2, <1>3, <2>1, <2>2 DEF FilesOK, Readable, Present, Ours
<1>7. FdOK(r)'
  BY <1>2, <1>3, <1>4 DEF FdOK, At
<1>8. MemOK(r)'
  <2>1. /\ Enrolling(r)' <=> Enrolling(r)
        /\ Given(r)' <=> Given(r)
        /\ Making(r)' <=> Making(r)
        /\ Writing(r, "state")' <=> Writing(r, "state")
        /\ Making(r) <=> run[r].file = "key"
    BY <1>2, <1>4 DEF Enrolling, Given, Making, Writing
  <2>2. /\ run'[r].id <= made' /\ run'[r].key <= made'
    BY <1>1, <1>4, <1>5 DEF MemOK
  <2>3. Making(r) => /\ run'[r].key = made' /\ made' \notin known' /\ made' # 0
                     /\ made' \notin {Saved'.id, run'[r].id, disk'["key.old"].id}
    <3> SUFFICES ASSUME Making(r) PROVE made' = made + 1 /\ run'[r].key = made'
                                        /\ made' \notin known'
                                        /\ made' # 0 /\ Saved'.id < made' /\ run'[r].id < made'
                                        /\ disk'["key.old"].id < made'
      BY <1>3, <1>4, <1>5
    <3>1. made' = made + 1 /\ run'[r].key = made'
      BY <1>4, <2>1
    <3>2. made' \notin known'
      BY <1>1, <1>2, <1>5, <3>1 DEF FilesOK
    <3>3. Saved'.id < made' /\ disk'["key.old"].id < made' /\ run'[r].id < made'
      BY <1>1, <1>3, <1>4, <1>5, <3>1 DEF FilesOK, Saved, MemOK
    <3> QED
      BY <1>5, <3>1, <3>2, <3>3
  <2> QED
    BY <1>1, <1>2, <1>3, <1>4, <2>1, <2>2, <2>3 DEF MemOK, At, Ours
<1> QED
  BY <1>6, <1>7, <1>8 DEF RunInv

LEMMA WriteEInv ==
    ASSUME TypeOK, EInv, NEW r \in Runners, Write(r)
    PROVE  RunInv(r)'
<1>1. FilesOK /\ FdOK(r) /\ MemOK(r)
  BY DEF EInv
<1>2. /\ run[r].pc = "write" /\ run[r].file \in Targets /\ Goes(r, "rename")
      /\ UNCHANGED <<fd, known, made, joins>>
  BY DEF Write, WriteTmp, At, TypeOK, env
<1>3. fd[r] = Tmp(run[r].file) /\ disk[fd[r]] = Empty /\ fd[r] \in Names
  BY <1>1, <1>2, TmpNames DEF FdOK, At
<1>4. disk' = [disk EXCEPT ![Tmp(run[r].file)] = Content(r)]
  BY <1>3 DEF Write, WriteTmp, Overwritten, Empty
<1>5. /\ disk'[Tmp(run[r].file)] = Content(r)
      /\ \A g \in {"state", "key", "key.old"} : disk'[g] = disk[g]
      /\ UNCHANGED <<Saved, Key>>
  BY <1>2, <1>4, TmpApart
<1>9. /\ run'[r].pc = "rename" /\ run'[r].id = run[r].id /\ run'[r].key = run[r].key
      /\ run'[r].joined = run[r].joined /\ run'[r].joining = run[r].joining
      /\ run'[r].attempt = run[r].attempt /\ run'[r].file = run[r].file
      /\ run'[r].next = run[r].next
  BY <1>2, GoesFields
<1>6. FilesOK'
  BY <1>1, <1>2, <1>5 DEF FilesOK, Readable, Present, Ours
<1>7. FdOK(r)'
  BY <1>2, <1>3, <1>5, <1>9 DEF FdOK, At, Content
<1>8. MemOK(r)'
  <2>1. /\ Enrolling(r)' <=> Enrolling(r)
        /\ Given(r)' <=> Given(r)
        /\ Making(r)' <=> Making(r)
        /\ Writing(r, "state")' <=> Writing(r, "state")
    BY <1>2, <1>9 DEF Enrolling, Given, Making, Writing
  <2> QED
    BY <1>1, <1>2, <1>5, <1>9, <2>1 DEF MemOK, At, Ours
<1> QED
  BY <1>6, <1>7, <1>8 DEF RunInv

LEMMA RenameEInv ==
    ASSUME TypeOK, EInv, NEW r \in Runners, Rename(r)
    PROVE  RunInv(r)'
<1>1. FilesOK /\ FdOK(r) /\ MemOK(r)
  BY DEF EInv
<1>2. /\ run[r].pc = "rename" /\ run[r].file \in Targets /\ UNCHANGED <<known, made>>
      /\ joins' = IF Saved'.id = Key'.id THEN 0 ELSE joins
  BY DEF Rename, At, TypeOK, Saved, Key
<1>3. disk[Tmp(run[r].file)] = Content(r) /\ Content(r).is = "whole"
  BY <1>1, <1>2 DEF FdOK, At, Content, Whole
<1>4. RenameTmp(r, run[r].file) /\ Goes(r, run[r].next)
  BY <1>3 DEF Rename, CanRename
<1>5. /\ disk' = [disk EXCEPT ![run[r].file] = Content(r), ![Tmp(run[r].file)] = Absent]
      /\ fd'[r] = "none"
  BY <1>3, <1>4 DEF RenameTmp
<1>6. /\ run'[r].pc = run[r].next /\ run'[r].id = run[r].id /\ run'[r].key = run[r].key
      /\ run'[r].joined = run[r].joined /\ run'[r].joining = run[r].joining
      /\ run'[r].attempt = run[r].attempt /\ run'[r].file = run[r].file
      /\ run'[r].next = run[r].next
  BY <1>4, GoesFields
<1>7. disk'["key.old"] = disk["key.old"]
  BY <1>2, <1>5 DEF TypeOK, Names, Targets, Tmp
<1>8. CASE run[r].file = "key"
  <2>1. Key' = Whole(run[r].key, FALSE) /\ disk'["state"] = disk["state"] /\ Saved' = Saved
    BY <1>5, <1>8 DEF TypeOK, Names, Tmp, Saved, Key, Content
  <2>2. /\ Making(r) /\ Key.id = 0 /\ run[r].key = made /\ made \notin known /\ made # 0
        /\ Saved.id # made /\ run[r].id # made
        /\ run[r].next \in {"challenge", "enroll", "submit"}
    BY <1>1, <1>2, <1>8 DEF Making, Writing, MemOK, At, Absent
  <2>3. Key'.id = made /\ Key'.is = "whole" /\ joins' = joins
    BY <1>2, <2>1, <2>2 DEF Whole
  <2>4. FilesOK'
    <3>1. made <= made
      BY EnrollAssumption DEF TypeOK
    <3>2. \A g \in {"state", "key", "key.old"} :
             disk'[g].id <= made' /\ (disk'[g].is = "absent" => disk'[g] = Absent)
      BY <1>1, <1>2, <1>7, <2>1, <2>3, <3>1 DEF FilesOK, Key
    <3> QED
      BY <1>1, <1>2, <1>7, <2>1, <2>2, <2>3, <3>2 DEF FilesOK, Readable, Present, Ours, Key
  <2>5. FdOK(r)'
    BY <1>5, <1>6, <2>2 DEF FdOK
  <2>6. MemOK(r)'
    <3>1. /\ Enrolling(r)' => Enrolling(r)
          /\ Enrolling(r) => Enrolling(r)'
          /\ Given(r)' => Given(r)
          /\ ~Making(r)' /\ ~Writing(r, "state")' /\ ~Writing(r, "state")
          /\ run'[r].pc \in {"challenge", "enroll", "submit"}
          /\ run'[r].pc = "enroll" => Given(r)
      <4> run'[r].pc \in {"challenge", "enroll", "submit"} /\ run'[r].pc = run[r].next
        BY <1>6, <2>2
      <4>1. ~Making(r)' /\ ~Writing(r, "state")' /\ ~Writing(r, "state")
        BY <1>8 DEF Making, Writing
      <4>2. Enrolling(r)' <=> run[r].next \in {"challenge", "enroll"}
        BY <4>1 DEF Enrolling
      <4>3. Enrolling(r) <=> run[r].next \in {"challenge", "enroll"}
        BY <1>2, <2>2 DEF Enrolling
      <4>4. Given(r)' <=> run[r].next = "enroll"
        BY <4>1 DEF Given
      <4>5. run[r].next = "enroll" => Given(r)
        BY <2>2 DEF Given
      <4> QED
        BY <4>1, <4>2, <4>3, <4>4, <4>5
    <3>2. Present("key")'
      BY <2>3 DEF Present, Key
    <3> QED
      BY <1>1, <1>2, <1>6, <1>7, <2>1, <2>2, <2>3, <3>1, <3>2 DEF MemOK, At, Ours
  <2> QED
    BY <2>4, <2>5, <2>6 DEF RunInv
<1>9. CASE run[r].file = "state"
  <2>1. /\ Saved' = Whole(run[r].id, run[r].joined) /\ disk'["key"] = disk["key"]
        /\ Key' = Key
    BY <1>5, <1>9 DEF TypeOK, Names, Tmp, Saved, Key, Content
  <2>2. /\ Saved'.is = "whole" /\ Saved'.id = run[r].id /\ Saved'.joined = run[r].joined
        /\ run[r].next \in {"sign", "idle"}
    BY <1>1, <1>2, <1>9, <2>1 DEF Whole, MemOK, Writing
  <2>3. Ours(run[r].id) /\ (run[r].joined => run[r].id # 0) /\ run[r].id <= made
    BY <1>1, <1>2 DEF MemOK, At
  <2>4. Ours(run[r].id)'
    BY <1>2, <1>6, <1>7, <2>1, <2>2, <2>3 DEF Ours
  <2>5. FilesOK'
    <3>2. \A g \in {"state", "key", "key.old"} :
             disk'[g].id <= made' /\ (disk'[g].is = "absent" => disk'[g] = Absent)
      BY <1>1, <1>2, <1>7, <2>1, <2>2, <2>3 DEF FilesOK, Saved
    <3>3. Readable("state")' /\ Readable("key")' /\ Present("key")' = Present("key")
      BY <1>1, <2>1, <2>2 DEF FilesOK, Readable, Present, Saved
    <3>4. Ours(Saved.id)'
      BY <1>6, <2>2, <2>4 DEF Ours
    <3> QED
      BY <1>1, <1>2, <2>1, <2>2, <2>3, <3>2, <3>3, <3>4 DEF FilesOK
  <2>6. FdOK(r)'
    BY <1>5, <1>6, <2>2 DEF FdOK
  <2>7. MemOK(r)'
    <3>1. ~Enrolling(r)' /\ ~Given(r)' /\ ~Making(r)' /\ ~Writing(r, "state")'
      BY <1>6, <2>2 DEF Enrolling, Given, Making, Writing
    <3> QED
      BY <1>1, <1>2, <1>6, <2>2, <2>3, <2>4, <3>1 DEF MemOK, At
  <2> QED
    BY <2>5, <2>6, <2>7 DEF RunInv
<1> QED
  BY <1>2, <1>8, <1>9 DEF Targets

LEMMA RotateEInv ==
    ASSUME TypeOK, EInv, NEW r \in Runners, Rotate(r)
    PROVE  RunInv(r)'
<1>1. FilesOK /\ FdOK(r) /\ MemOK(r)
  BY DEF EInv
<1>2. run[r].pc = "rotate" /\ UNCHANGED <<known, made, joins>> /\ Writes(r, "key", run[r].next)
  BY DEF Rotate, At, env
<1>3. /\ run'[r].pc = "create" /\ run'[r].id = run[r].id /\ run'[r].key = run[r].key
      /\ run'[r].joined = run[r].joined /\ run'[r].joining = run[r].joining
      /\ run'[r].attempt = run[r].attempt /\ run'[r].file = "key"
      /\ run'[r].next = run[r].next
  BY <1>2, WritesFields
<1>4. /\ run[r].id = 0 /\ run[r].next \in {"challenge", "enroll"}
      /\ Saved.id # 0 => joins = 2 \/ (joins = 1 /\ Saved.id = Key.id)
      /\ fd[r] = "none"
  BY <1>1, <1>2 DEF MemOK, FdOK, At, Given
<1>5. /\ Key' = Absent /\ disk'["state"] = disk["state"] /\ Saved' = Saved
      /\ disk'["key.old"] = IF Key.is = "absent" THEN disk["key.old"] ELSE Key
  BY <1>1 DEF Rotate, Moved, FilesOK, TypeOK, Names, Saved, Key
<1>6. fd'[r] = "none"
  BY <1>4 DEF Rotate, Moved
<1>7. Key.is = "absent" => Key.id = 0
  BY <1>1 DEF FilesOK, Key, Absent
<1>8. Ours(Saved.id)'
  BY <1>2, <1>4, <1>5, <1>7 DEF Ours
<1>9. FilesOK'
  <2>1. 0 <= made
    BY EnrollAssumption DEF TypeOK
  <2>2. \A g \in {"state", "key", "key.old"} :
           disk'[g].id <= made' /\ (disk'[g].is = "absent" => disk'[g] = Absent)
    BY <1>1, <1>2, <1>5, <2>1 DEF FilesOK, Key, Absent
  <2>3. Readable("state")' /\ Readable("key")' /\ ~Present("key")'
    BY <1>1, <1>5 DEF FilesOK, Readable, Present, Key, Absent
  <2> QED
    BY <1>1, <1>2, <1>5, <1>8, <2>2, <2>3 DEF FilesOK
<1>10. FdOK(r)'
  BY <1>3, <1>6 DEF FdOK
<1>11. MemOK(r)'
  <2>1. /\ Enrolling(r) /\ Making(r)' /\ ~Writing(r, "state")' /\ At(r, "create")'
    BY <1>2, <1>3 DEF Enrolling, Making, Writing, At
  <2>2. Enrolling(r)'
    BY <1>3, <1>4 DEF Enrolling, Making, Writing
  <2> QED
    BY <1>1, <1>2, <1>3, <1>4, <1>5, <2>1, <2>2 DEF MemOK, At, Ours
<1> QED
  BY <1>9, <1>10, <1>11 DEF RunInv

LEMMA DiesEInv ==
    ASSUME TypeOK, EInv, NEW r \in Runners, Dies(r) \/ AnswerLost(r)
    PROVE  RunInv(r)'
<1>1. FilesOK /\ FdOK(r) /\ MemOK(r)
  BY DEF EInv
<1>2. /\ Goes(r, "idle") /\ UNCHANGED <<disk, made, joins, Saved, Key>>
      /\ fd'[r] = "none"
  <2>1. CASE Dies(r)
    BY <2>1 DEF Dies, Close, TypeOK, Saved, Key
  <2>2. CASE AnswerLost(r)
    BY <1>1, <2>2 DEF AnswerLost, ServerTakes, FdOK, At, Saved, Key
  <2> QED
    BY <2>1, <2>2
<1>3. known' \subseteq 1 .. made
  <2>1. CASE Dies(r)
    BY <1>1, <2>1 DEF Dies, FilesOK
  <2>2. CASE AnswerLost(r)
    <3>1. /\ run[r].key = Key.id /\ Key.id # 0 /\ Key.id <= made /\ Key.id \in Nat
          /\ made \in Nat
      BY <1>1, <2>2, EnrollAssumption
      DEF AnswerLost, ServerTakes, MemOK, FilesOK, At, TypeOK, Key, Names, File
    <3>2. run[r].key \in 1 .. made
      BY <3>1
    <3> QED
      BY <1>1, <2>2, <3>2, Zenon DEF FilesOK, AnswerLost, ServerTakes
  <2> QED
    BY <2>1, <2>2
<1>4. FilesOK'
  BY <1>1, <1>2, <1>3 DEF FilesOK, Readable, Present, Ours
<1>5. FdOK(r)'
  BY <1>2, GoesFields DEF FdOK
<1>6. MemOK(r)'
  <2>1. ~Enrolling(r)' /\ ~Given(r)' /\ ~Making(r)' /\ ~Writing(r, "state")' /\ At(r, "idle")'
    BY <1>2, GoesFields DEF Enrolling, Given, Making, Writing, At
  <2> QED
    BY <1>1, <1>2, <2>1, GoesFields DEF MemOK, At
<1> QED
  BY <1>4, <1>5, <1>6 DEF RunInv

LEMMA SameEInv == ASSUME EInv, UNCHANGED <<disk, fd, run, known, made, joins>> PROVE EInv'
<1>1. FilesOK'
  BY DEF EInv, FilesOK, Readable, Present, Ours, Saved, Key
<1>2. ASSUME NEW r \in Runners PROVE FdOK(r)' /\ MemOK(r)'
  <2>1. FdOK(r) /\ MemOK(r)
    BY DEF EInv
  <2>2. FdOK(r)'
    BY <2>1 DEF FdOK, Content, At
  <2>3. UNCHANGED <<Saved, Key>> /\ Enrolling(r)' = Enrolling(r) /\ Given(r)' = Given(r)
        /\ Making(r)' = Making(r) /\ Writing(r, "state")' = Writing(r, "state")
    BY DEF Enrolling, Given, Making, Writing, Saved, Key
  <2>4. MemOK(r)'
    BY <2>1, <2>3 DEF MemOK, At, Ours, Present
  <2> QED
    BY <2>2, <2>4
<1> QED
  BY <1>1, <1>2 DEF EInv

LEMMA LostEInv == ASSUME TypeOK, EInv, StateLost \/ Edit PROVE EInv'
<1>1. FilesOK
  BY DEF EInv
<1>2. CASE Edit
  <2>1. UNCHANGED <<disk, fd, run, known, made, joins>>
    BY <1>2 DEF Edit
  <2> QED
    BY <2>1, SameEInv
<1>3. CASE StateLost
  <2>1. /\ Saved' = Absent /\ Key' = Key
        /\ \A n \in Names \ {"state"} : disk'[n] = disk[n]
        /\ UNCHANGED <<run, known, made, joins>>
    BY <1>3 DEF StateLost, TypeOK, Names, Saved, Key
  <2>2. FilesOK'
    <3>1. 0 <= made
      BY EnrollAssumption DEF TypeOK
    <3>2. \A g \in {"state", "key", "key.old"} :
             disk'[g].id <= made' /\ (disk'[g].is = "absent" => disk'[g] = Absent)
      BY <1>1, <2>1, <3>1 DEF FilesOK, Saved, Absent, Names
    <3> QED
      BY <1>1, <2>1, <3>2 DEF FilesOK, Readable, Present, Ours, Saved, Key, Absent, Names
  <2>3. ASSUME NEW r \in Runners PROVE FdOK(r)' /\ MemOK(r)'
    <3>0. FdOK(r) /\ MemOK(r)
      BY DEF EInv
    <3>1. Tmp(run[r].file) \in Names \ {"state"}
      BY DEF Tmp, Names
    <3>2. fd'[r] = fd[r]
      BY <3>0, <1>3, <3>1 DEF StateLost, FdOK
    <3>3. FdOK(r)'
      BY <3>0, <2>1, <3>1, <3>2 DEF FdOK, Content, At
    <3>4. disk'["key"] = disk["key"] /\ disk'["key.old"] = disk["key.old"]
      BY <2>1 DEF Names
    <3>5. ~Saved'.joined /\ Saved'.id = 0
      BY <2>1 DEF Absent
    <3>6. MemOK(r)'
      BY <3>0, <2>1, <3>4, <3>5
      DEF MemOK, Ours, At, Enrolling, Given, Making, Writing, Present
    <3> QED
      BY <3>3, <3>6
  <2> QED
    BY <2>2, <2>3 DEF EInv
<1> QED
  BY <1>2, <1>3

LEMMA StepEInv ==
    ASSUME TypeOK, EInv, [Next]_vars, OneAtATime, OneAtATime'
    PROVE  EInv'
<1>1. ASSUME NEW r \in Runners, Acts(r) PROVE EInv'
  <2>1. RunInv(r)'
    BY <1>1, BeginEInv, PullEInv, KeyEInv, CreateEInv, WriteEInv, RenameEInv, ChallengeEInv,
       RefusedEInv, RotateEInv, EnrolledEInv, AlreadyEInv, DiesEInv DEF Acts, Step
  <2> QED
    BY <1>1, <2>1, ActsAlone, MadeGrows, ActsEInv
<1>2. CASE UNCHANGED vars
  BY <1>2, SameEInv DEF vars
<1>3. CASE StateLost \/ Edit
  BY <1>3, LostEInv
<1> QED
  BY <1>1, <1>2, <1>3 DEF Next, Acts

\* Only a rename puts another host id into the state file.
LEMMA StepLoop ==
    ASSUME TypeOK, EInv, [Next]_vars, Saved.joined, disk'["state"].id # Saved.id
    PROVE  disk'["state"].is = "absent"
<1>1. ASSUME NEW r \in Runners, Create(r) \/ Write(r) \/ Rename(r) \/ Rotate(r) PROVE FALSE
  <2>1. FilesOK /\ FdOK(r) /\ MemOK(r) /\ run[r].file \in Targets
    BY <1>1 DEF EInv, TypeOK
  <2>2. CASE Create(r)
    BY <2>1, <2>2, TmpApart DEF Create, CreateTmp, Saved
  <2>3. CASE Write(r)
    <3>1. fd[r] # "state"
      BY <2>1, <2>3 DEF FdOK, Write, At, Tmp
    <3> QED
      BY <2>1, <2>3, <3>1 DEF Write, WriteTmp, TypeOK, Names, Saved
  <2>4. CASE Rename(r)
    <3>0. run[r].pc = "rename" /\ disk[Tmp(run[r].file)] = Content(r)
      BY <2>1, <2>4 DEF Rename, FdOK, At
    <3>1. disk' = [disk EXCEPT ![run[r].file] = Content(r), ![Tmp(run[r].file)] = Absent]
      BY <2>4, <3>0 DEF Rename, CanRename, RenameTmp, Content, Whole
    <3>2. run[r].file = "state" /\ disk'["state"].id = run[r].id
      BY <2>1, <3>1 DEF TypeOK, Names, Targets, Tmp, Content, Whole, Saved
    <3>3. ~Enrolling(r) /\ Writing(r, "state")
      BY <3>0, <3>2 DEF Enrolling, Making, Writing
    <3>4. Saved.id = run[r].id
      BY <2>1, <3>0, <3>3 DEF MemOK, At
    <3> QED
      BY <3>2, <3>4
  <2>5. CASE Rotate(r)
    BY <2>5 DEF Rotate, Moved, TypeOK, Names, Saved
  <2> QED
    BY <1>1, <2>2, <2>3, <2>4, <2>5
<1>2. ASSUME NEW r \in Runners,
             \/ BeginRun(r) \/ BeginReport(r) \/ BeginPull(r)
             \/ LoadEnrollKey(r) \/ LoadReportKey(r)
             \/ Challenge(r) \/ TokenRefused(r) \/ Enrolled(r) \/ AlreadyEnrolled(r) \/ Submit(r)
             \/ Dies(r) \/ AnswerLost(r)
      PROVE  FALSE
  <2>1. UNCHANGED disk
    BY <1>2
    DEF BeginRun, BeginReport, BeginPull, Load, LoadEnrollKey, LoadReportKey, LoadKey,
        Challenge, TokenRefused, Enrolled, AlreadyEnrolled, Submit, Dies, AnswerLost
  <2> QED
    BY <2>1 DEF Saved
<1>3. CASE Edit \/ UNCHANGED vars
  BY <1>3 DEF Edit, vars, Saved
<1>4. CASE StateLost
  BY <1>4 DEF StateLost, TypeOK, Names, Absent
<1> QED
  BY <1>1, <1>2, <1>3, <1>4 DEF Next, Step

-----------------------------------------------------------------------------
(* Identities left behind at the server.  Whoever may still enroll without *)
(* a failure or a token to blame for it has one identity in hand:          *)
(* 1 + faults + edits covers those the server knows, one for a host with   *)
(* no host id, and one for an anonymous host that now has a token.         *)

\* The server's answer is on its way to the state file.
Finishing(r) == Writing(r, "state") /\ run[r].next = "sign"
\* The host has no host id, saved or about to be.
Unnamed(r) == Saved.id = 0 /\ ~Finishing(r)
\* Its host id is one without a token, or is about to be.
Anonymous(r) ==
    IF Finishing(r) THEN ~run[r].joined
    ELSE \/ Saved.id # 0 /\ ~Saved.joined
         \/ Enrolling(r) /\ run[r].token = "none"
MayJoin(r) == token # "none" /\ Anonymous(r)
One(p) == IF p THEN 1 ELSE 0
Paid(r) == Cardinality(known) + One(Unnamed(r)) + One(MayJoin(r)) <= 1 + faults + edits
\* What the process writes to the state file, and when it joins.
LoadedOK(r) ==
    /\ run[r].joining => run[r].token # "none"
    /\ Writing(r, "state") /\ run[r].id = 0 => Saved.id = 0 /\ ~Finishing(r)
    /\ Saved.id # 0 /\ ~At(r, "idle") /\ ~Enrolling(r) /\ ~Finishing(r)
          => Saved.joined = run[r].joined
GhostsPaid ==
    /\ Runners = {} => known = {}
    /\ \A r \in Runners : LoadedOK(r) /\ (Alone(r) => Paid(r))

LEMMA KnownFinite == ASSUME TypeOK, EInv PROVE IsFiniteSet(known) /\ Cardinality(known) \in Nat
<1>1. known \subseteq 0 .. MaxKeys /\ IsFiniteSet(0 .. MaxKeys)
  BY FS_Interval, EnrollAssumption DEF TypeOK
<1> QED
  BY <1>1, FS_Subset, FS_CardinalityType

LEMMA OneMore ==
    ASSUME TypeOK, EInv, NEW r, ServerTakes(r)
    PROVE  Cardinality(known') = Cardinality(known) + 1
<1> QED
  BY KnownFinite, FS_AddElement DEF ServerTakes

\* A step that gives neither name nor anonymity away leaves the account as it is,
\* and one that does it by failing pays for one of them.
LEMMA StaysPaid ==
    ASSUME TypeOK, EInv, NEW r, Paid(r), UNCHANGED <<known, faults, edits>>,
           Unnamed(r)' => Unnamed(r), MayJoin(r)' => MayJoin(r)
    PROVE  Paid(r)'
<1> QED
  BY KnownFinite DEF Paid, One, TypeOK

LEMMA FailSum ==
    ASSUME NEW c \in Nat, NEW f \in Nat, NEW e \in Nat, NEW n \in Nat,
           NEW a \in {0, 1}, NEW b \in {0, 1}, NEW x \in {0, 1}, NEW y \in {0, 1},
           c + a + b <= 1 + f + e, n = f + e + 1, x <= a \/ y <= b
    PROVE  c + x + y <= 1 + n
<1> QED
  OBVIOUS

LEMMA FailPaid ==
    ASSUME TypeOK, EInv, NEW r, Paid(r), UNCHANGED known,
           \/ faults' = faults + 1 /\ edits' = edits
           \/ faults' = faults /\ edits' = edits + 1,
           (Unnamed(r)' => Unnamed(r)) \/ (MayJoin(r)' => MayJoin(r))
    PROVE  Paid(r)'
<1> DEFINE a == One(Unnamed(r))
           b == One(MayJoin(r))
           c == Cardinality(known)
<1>1. /\ a \in {0, 1} /\ b \in {0, 1} /\ a' \in {0, 1} /\ b' \in {0, 1}
      /\ a' <= a \/ b' <= b
  BY DEF One
<1>2. c \in Nat /\ c' = c /\ c + a + b <= 1 + faults + edits
  BY KnownFinite DEF Paid
<1>3. faults \in Nat /\ edits \in Nat
  BY EnrollAssumption DEF TypeOK
<1> HIDE DEF a, b, c
<1>4. c' + a' + b' <= 1 + faults' + edits'
  BY <1>1, <1>2, <1>3
<1> QED
  BY <1>4 DEF Paid, a, b, c

\* In the actions below the account of the process that takes one stays right.
LEMMA BeginPaid ==
    ASSUME TypeOK, EInv, NEW r \in Runners, LoadedOK(r), Paid(r),
           BeginRun(r) \/ BeginReport(r) \/ BeginPull(r)
    PROVE  LoadedOK(r)' /\ Paid(r)'
<1>1. /\ LoadedOK(r) /\ Paid(r) /\ run[r].pc = "idle" /\ Saved' = Saved
      /\ UNCHANGED <<token, known, faults, edits>>
  BY DEF BeginRun, BeginReport, BeginPull, Load, At, env, Saved
<1>2. /\ run'[r].id = Saved.id /\ run'[r].joined = Saved.joined /\ run'[r].token = token
      /\ run'[r].file = "state" /\ run'[r].next = "idle"
      /\ run'[r].pc \in {"key", "sign", "create"}
      /\ run'[r].joining \in {FALSE, Joining}
  <2>1. CASE BeginPull(r)
    BY <2>1 DEF BeginPull, Idle, TypeOK
  <2>2. CASE BeginRun(r) \/ BeginReport(r)
    <3>1. PICK pc \in {"key", "sign"} : Load(r, pc)
      BY <2>2 DEF BeginRun, BeginReport
    <3>2. run'[r] = [Idle EXCEPT !.pc = pc, !.id = Saved.id, !.joined = Saved.joined,
                                 !.token = token, !.joining = Joining]
      BY <3>1 DEF Load, TypeOK
    <3>3. run'[r].joining = Joining
      BY <3>2, Zenon DEF Idle
    <3> QED
      BY <3>2, <3>3 DEF Idle
  <2> QED
    BY <2>1, <2>2
<1>3. run'[r].joining => token # "none"
  BY <1>2 DEF Joining
<1>4. ~Finishing(r) /\ ~Finishing(r)' /\ ~Enrolling(r)
  BY <1>1, <1>2 DEF Finishing, Writing, Enrolling, Making
<1>5. (Unnamed(r)' => Unnamed(r)) /\ (MayJoin(r)' => MayJoin(r))
  BY <1>1, <1>2, <1>4 DEF Unnamed, MayJoin, Anonymous
<1>6. Paid(r)'
  BY <1>1, <1>5, StaysPaid
<1>7. LoadedOK(r)'
  BY <1>1, <1>2, <1>3, <1>4 DEF LoadedOK
<1> QED
  BY <1>6, <1>7

LEMMA GoesPaid ==
    ASSUME TypeOK, EInv, NEW r \in Runners, LoadedOK(r), Paid(r),
           \/ LoadEnrollKey(r) \/ LoadReportKey(r) \/ Challenge(r) \/ TokenRefused(r)
           \/ AlreadyEnrolled(r) \/ Rotate(r) \/ Submit(r)
    PROVE  LoadedOK(r)' /\ Paid(r)'
<1>1. /\ LoadedOK(r) /\ Paid(r) /\ MemOK(r) /\ r \in Runners
      /\ run[r].pc \in {"key", "sign", "challenge", "enroll", "rotate", "submit"}
      /\ UNCHANGED <<token, known, faults, edits>>
  BY DEF EInv, LoadEnrollKey, LoadReportKey, LoadKey, Challenge, TokenRefused,
         AlreadyEnrolled, Rotate, Submit, At, env
<1>2. Saved' = Saved
  BY DEF LoadEnrollKey, LoadReportKey, LoadKey, Challenge, TokenRefused, AlreadyEnrolled, Rotate,
         Submit, Moved, Saved, env, TypeOK, Names
<1>3. /\ run'[r].joining = run[r].joining /\ run'[r].joined = run[r].joined
      /\ run'[r].token = run[r].token
  BY <1>1 DEF LoadEnrollKey, LoadReportKey, LoadKey, Challenge, TokenRefused,
         AlreadyEnrolled, Rotate, Submit, Writes, Goes, TypeOK
<1>4. /\ ~Finishing(r) /\ ~Finishing(r)'
      /\ Enrolling(r)' => Enrolling(r)
      /\ ~At(r, "idle")' /\ ~Enrolling(r)' => ~Enrolling(r)
      /\ Writing(r, "state")' => run[r].id # 0 /\ run'[r].id = run[r].id
  <2>1. CASE LoadEnrollKey(r) \/ LoadReportKey(r)
    BY <1>1, <2>1 DEF LoadEnrollKey, LoadReportKey, LoadKey, Writes, Goes, TypeOK, Finishing,
         Writing, Enrolling, Making, At
  <2>2. CASE Challenge(r) \/ TokenRefused(r) \/ AlreadyEnrolled(r)
    BY <1>1, <2>2 DEF Challenge, TokenRefused, AlreadyEnrolled, Goes, TypeOK, Finishing,
         Writing, Enrolling, Making, At
  <2>3. CASE Rotate(r) \/ Submit(r)
    BY <1>1, <2>3 DEF Rotate, Submit, Writes, Goes, TypeOK, Finishing,
         Writing, Enrolling, Making, At, MemOK
  <2> QED
    BY <2>1, <2>2, <2>3
<1>5. (Unnamed(r)' => Unnamed(r)) /\ (MayJoin(r)' => MayJoin(r))
  BY <1>1, <1>2, <1>3, <1>4 DEF Unnamed, MayJoin, Anonymous
<1>6. Paid(r)'
  BY <1>1, <1>5, StaysPaid
<1>7. LoadedOK(r)'
  BY <1>1, <1>2, <1>3, <1>4 DEF LoadedOK, At
<1> QED
  BY <1>6, <1>7

LEMMA WritePaid ==
    ASSUME TypeOK, EInv, NEW r \in Runners, LoadedOK(r), Paid(r), Create(r) \/ Write(r)
    PROVE  LoadedOK(r)' /\ Paid(r)'
<1>1. /\ LoadedOK(r) /\ Paid(r) /\ FdOK(r) /\ r \in Runners /\ run[r].file \in Targets
      /\ run[r].pc \in {"create", "write"} /\ run'[r].pc \in {"write", "rename"}
      /\ UNCHANGED <<token, known, faults, edits>>
  BY DEF EInv, Create, Write, Goes, At, env, TypeOK
<1>2. /\ run'[r].joining = run[r].joining /\ run'[r].joined = run[r].joined
      /\ run'[r].token = run[r].token /\ run'[r].id = run[r].id
      /\ run'[r].file = run[r].file /\ run'[r].next = run[r].next
  BY <1>1 DEF Create, Write, Goes, TypeOK
<1>3. Saved' = Saved
  <2>1. CASE Create(r)
    BY <1>1, <2>1, TmpApart DEF Create, CreateTmp
  <2>2. CASE Write(r)
    BY <1>1, <2>2 DEF Write, WriteTmp, FdOK, At, Tmp, TypeOK, Names, Saved
  <2> QED
    BY <2>1, <2>2
<1>4. /\ Finishing(r)' = Finishing(r) /\ Enrolling(r)' = Enrolling(r)
      /\ Writing(r, "state")' = Writing(r, "state")
  BY <1>1, <1>2 DEF Finishing, Writing, Enrolling, Making
<1>5. (Unnamed(r)' => Unnamed(r)) /\ (MayJoin(r)' => MayJoin(r))
  BY <1>1, <1>2, <1>3, <1>4 DEF Unnamed, MayJoin, Anonymous
<1>6. Paid(r)'
  BY <1>1, <1>5, StaysPaid
<1>7. LoadedOK(r)'
  BY <1>1, <1>2, <1>3, <1>4 DEF LoadedOK, At
<1> QED
  BY <1>6, <1>7

LEMMA RenamePaid ==
    ASSUME TypeOK, EInv, NEW r \in Runners, LoadedOK(r), Paid(r), Rename(r)
    PROVE  LoadedOK(r)' /\ Paid(r)'
<1>1. /\ LoadedOK(r) /\ Paid(r) /\ MemOK(r) /\ FdOK(r) /\ FilesOK /\ r \in Runners
      /\ run[r].pc = "rename" /\ run[r].file \in Targets
      /\ UNCHANGED <<token, known, faults, edits>>
  BY DEF EInv, Rename, At, TypeOK
<1>2. disk[Tmp(run[r].file)] = Content(r) /\ CanRename(run[r].file)
  BY <1>1 DEF FdOK, At, CanRename, Content, Whole
<1>3. /\ disk' = [disk EXCEPT ![run[r].file] = Content(r), ![Tmp(run[r].file)] = Absent]
      /\ Goes(r, run[r].next)
  BY <1>2 DEF Rename, RenameTmp
<1>4. /\ run'[r].pc = run[r].next
      /\ run'[r].joining = run[r].joining /\ run'[r].joined = run[r].joined
      /\ run'[r].token = run[r].token /\ run'[r].id = run[r].id
  BY <1>1, <1>3, GoesFields
<1>5. run[r].next \in {"idle", "challenge", "enroll", "sign", "submit"}
  BY <1>1 DEF TypeOK
<1>6. ~Finishing(r)' /\ ~Writing(r, "state")'
  BY <1>4, <1>5 DEF Finishing, Writing
<1>7. CASE run[r].file = "key"
  <2>1. Saved' = Saved
    BY <1>3, <1>7 DEF TypeOK, Names, Tmp, Saved
  <2>2. ~Finishing(r) /\ ~Writing(r, "state") /\ Making(r)
    BY <1>1, <1>7 DEF Finishing, Writing, Making
  <2>3. run[r].next \in {"challenge", "enroll", "submit"}
    BY <1>1, <2>2 DEF MemOK
  <2>4. Enrolling(r)' = Enrolling(r)
    BY <1>1, <1>4, <1>7, <2>2, <2>3 DEF Enrolling, Making, Writing
  <2>5. (Unnamed(r)' => Unnamed(r)) /\ (MayJoin(r)' => MayJoin(r))
    BY <1>1, <1>4, <1>6, <2>1, <2>2, <2>4 DEF Unnamed, MayJoin, Anonymous
  <2>6. LoadedOK(r)'
    BY <1>1, <1>4, <1>6, <2>1, <2>2, <2>4 DEF LoadedOK, At
  <2> QED
    BY <1>1, <2>5, <2>6, StaysPaid
<1>8. CASE run[r].file = "state"
  <2>1. Saved'.id = run[r].id /\ Saved'.joined = run[r].joined
    BY <1>3, <1>8 DEF TypeOK, Names, Tmp, Saved, Content, Whole
  <2>2. /\ Writing(r, "state") /\ run[r].next \in {"sign", "idle"}
        /\ ~Enrolling(r) /\ ~Enrolling(r)'
    <3>1. Writing(r, "state") /\ ~Enrolling(r)
      BY <1>1, <1>8 DEF Writing, Enrolling, Making
    <3>2. run[r].next \in {"sign", "idle"}
      BY <1>1, <3>1 DEF MemOK
    <3> QED
      BY <1>4, <3>1, <3>2 DEF Writing, Enrolling, Making
  <2>3. LoadedOK(r)'
    BY <1>1, <1>4, <1>6, <2>1, <2>2 DEF LoadedOK
  <2>4. CASE Unnamed(r) /\ ~Unnamed(r)'
    <3>1. One(Unnamed(r)) = 1 /\ One(Unnamed(r)') = 0
          /\ One(MayJoin(r)) \in {0, 1} /\ One(MayJoin(r)') \in {0, 1}
      BY <2>4 DEF One
    <3>2. Cardinality(known) \in Nat /\ faults \in Nat /\ edits \in Nat
      BY KnownFinite, EnrollAssumption DEF TypeOK
    <3>3. Paid(r)'
      BY <1>1, <3>1, <3>2 DEF Paid
    <3> QED
      BY <2>3, <3>3
  <2>5. CASE ~Unnamed(r) \/ Unnamed(r)'
    <3>1. Unnamed(r)' => Unnamed(r)
      BY <1>1, <2>1, <2>2 DEF Unnamed, LoadedOK
    <3>2. MayJoin(r)' => MayJoin(r)
      BY <1>1, <1>4, <1>6, <1>8, <2>1, <2>2, <2>5
      DEF MayJoin, Anonymous, Unnamed, LoadedOK, Finishing, At
    <3> QED
      BY <1>1, <2>3, <3>1, <3>2, StaysPaid
  <2> QED
    BY <2>3, <2>4, <2>5
<1> QED
  BY <1>1, <1>7, <1>8 DEF Targets

LEMMA EnrolledPaid ==
    ASSUME TypeOK, EInv, NEW r \in Runners, LoadedOK(r), Paid(r), Enrolled(r)
    PROVE  LoadedOK(r)' /\ Paid(r)'
<1>1. /\ LoadedOK(r) /\ Paid(r) /\ MemOK(r) /\ FilesOK /\ r \in Runners /\ run[r].pc = "enroll"
      /\ UNCHANGED <<token, faults, edits, Saved>>
      /\ Cardinality(known') = Cardinality(known) + 1
  BY OneMore DEF EInv, Enrolled, ServerTakes, At, Saved
<1>2. /\ run'[r].pc = "create" /\ run'[r].id = run[r].key /\ run'[r].token = run[r].token
      /\ run'[r].joining = run[r].joining /\ run'[r].file = "state" /\ run'[r].next = "sign"
  BY DEF Enrolled, TypeOK
<1>3. run'[r].joined <=> run[r].token # "none"
  BY Zenon DEF Enrolled, TypeOK
<1>4. ~Finishing(r) /\ Finishing(r)' /\ Enrolling(r) /\ ~Enrolling(r)'
  BY <1>1, <1>2 DEF Finishing, Writing, Enrolling, Making
<1>5. run[r].key # 0
  BY <1>1 DEF MemOK, FilesOK, At
<1>6. LoadedOK(r)'
  BY <1>1, <1>2, <1>4, <1>5 DEF LoadedOK
<1>7. ~Unnamed(r)'
  BY <1>4 DEF Unnamed
<1>8. /\ MayJoin(r)' => MayJoin(r)
      /\ Unnamed(r) \/ (MayJoin(r) /\ ~MayJoin(r)')
  <2>1. MayJoin(r)' => token # "none" /\ run[r].token = "none"
    BY <1>1, <1>3, <1>4 DEF MayJoin, Anonymous
  <2>2. CASE Saved.id = 0
    BY <1>4, <2>1, <2>2 DEF Unnamed, MayJoin, Anonymous
  <2>3. CASE Saved.id # 0
    <3>1. run[r].joining /\ ~Saved.joined
      BY <1>1, <1>4, <2>3 DEF MemOK
    <3>2. run[r].token # "none" /\ token # "none"
      BY <1>1, <3>1 DEF LoadedOK, Enrolled, ServerTakes
    <3> QED
      BY <1>4, <2>1, <2>3, <3>1, <3>2 DEF MayJoin, Anonymous
  <2> QED
    BY <2>2, <2>3
<1>9. Paid(r)'
  <2>1. Cardinality(known) \in Nat /\ faults \in Nat /\ edits \in Nat
    BY KnownFinite, EnrollAssumption DEF TypeOK
  <2> QED
    BY <1>1, <1>7, <1>8, <2>1 DEF Paid, One
<1> QED
  BY <1>6, <1>9

LEMMA DiesPaid ==
    ASSUME TypeOK, EInv, NEW r \in Runners, LoadedOK(r), Paid(r), Dies(r) \/ AnswerLost(r)
    PROVE  LoadedOK(r)' /\ Paid(r)'
<1>1. /\ LoadedOK(r) /\ Paid(r) /\ r \in Runners /\ Goes(r, "idle") /\ Saved' = Saved
      /\ token' = token /\ edits' = edits /\ faults' = faults + 1
  BY DEF Dies, AnswerLost, Fault, Saved
<1>2. /\ run'[r].pc = "idle" /\ run'[r].joining = run[r].joining /\ run'[r].token = run[r].token
  BY <1>1, GoesFields
<1>3. ~Finishing(r)' /\ ~Enrolling(r)' /\ ~Writing(r, "state")'
  BY <1>2 DEF Finishing, Writing, Enrolling, Making
<1>4. LoadedOK(r)'
  BY <1>1, <1>2, <1>3 DEF LoadedOK, At
<1>5. CASE Dies(r)
  <2>1. (Unnamed(r)' => Unnamed(r)) \/ (MayJoin(r)' => MayJoin(r))
    BY <1>1, <1>3 DEF Unnamed, MayJoin, Anonymous
  <2>2. UNCHANGED known
    BY <1>5 DEF Dies
  <2> QED
    BY <1>1, <1>4, <2>1, <2>2, FailPaid
<1>6. CASE AnswerLost(r)
  <2>1. ~Finishing(r) /\ Cardinality(known') = Cardinality(known) + 1
    BY <1>6, OneMore DEF AnswerLost, ServerTakes, Finishing, Writing, At
  <2>2. (Unnamed(r)' => Unnamed(r)) /\ (MayJoin(r)' => MayJoin(r))
    BY <1>1, <1>3, <2>1 DEF Unnamed, MayJoin, Anonymous
  <2>3. Cardinality(known) \in Nat /\ faults \in Nat /\ edits \in Nat
    BY KnownFinite, EnrollAssumption DEF TypeOK
  <2> QED
    BY <1>1, <1>4, <2>1, <2>2, <2>3 DEF Paid, One
<1> QED
  BY <1>5, <1>6

LEMMA LostPaid ==
    ASSUME TypeOK, EInv, NEW r \in Runners, LoadedOK(r), StateLost \/ Edit
    PROVE  LoadedOK(r)' /\ (Paid(r) => Paid(r)')
<1>1. /\ LoadedOK(r) /\ UNCHANGED <<run, known>>
      /\ \/ faults' = faults + 1 /\ edits' = edits
         \/ faults' = faults /\ edits' = edits + 1
  BY DEF StateLost, Edit, Fault
<1>2. /\ Finishing(r)' = Finishing(r) /\ Enrolling(r)' = Enrolling(r)
      /\ Writing(r, "state")' = Writing(r, "state")
  BY <1>1 DEF Finishing, Writing, Enrolling, Making
<1>3. CASE Edit
  <2>1. Saved' = Saved
    BY <1>3 DEF Edit, Saved
  <2>2. LoadedOK(r)'
    BY <1>1, <1>2, <2>1 DEF LoadedOK, At
  <2>3. Unnamed(r)' => Unnamed(r)
    BY <1>2, <2>1 DEF Unnamed
  <2> QED
    BY <1>1, <2>2, <2>3, FailPaid
<1>4. CASE StateLost
  <2>1. Saved'.id = 0 /\ ~Saved'.joined /\ token' = token
    BY <1>4 DEF StateLost, TypeOK, Names, Saved, Absent
  <2>2. LoadedOK(r)'
    BY <1>1, <1>2, <2>1 DEF LoadedOK
  <2>3. MayJoin(r)' => MayJoin(r)
    BY <1>1, <1>2, <2>1 DEF MayJoin, Anonymous
  <2> QED
    BY <1>1, <2>2, <2>3, FailPaid
<1> QED
  BY <1>3, <1>4

LEMMA InitPaid == Init => GhostsPaid
<1> SUFFICES ASSUME Init PROVE GhostsPaid
  OBVIOUS
<1>1. ASSUME NEW r \in Runners PROVE LoadedOK(r) /\ Paid(r)
  <2>1. /\ ~Finishing(r) /\ ~Enrolling(r) /\ ~Writing(r, "state")
        /\ Saved.id = 0 /\ token = "none" /\ known = {} /\ faults = 0 /\ edits = 0
        /\ ~run[r].joining
    BY <1>1 DEF Init, StoreInit, Idle, Finishing, Writing, Enrolling, Making, Saved, Absent, Names
  <2>2. Cardinality(known) = 0
    BY <2>1, FS_EmptySet
  <2> QED
    BY <2>1, <2>2 DEF LoadedOK, Paid, One, Unnamed, MayJoin
<1> QED
  BY <1>1 DEF GhostsPaid, Init

LEMMA ActsPaid ==
    ASSUME TypeOK, EInv, GhostsPaid, NEW r \in Runners, Acts(r), Alone(r), Alone(r)'
    PROVE  GhostsPaid'
<1>1. LoadedOK(r) /\ Paid(r)
  BY DEF GhostsPaid
<1>2. LoadedOK(r)' /\ Paid(r)'
  BY <1>1, BeginPaid, GoesPaid, WritePaid, RenamePaid, EnrolledPaid, DiesPaid DEF Acts, Step
<1>3. ASSUME NEW q \in Runners \ {r} PROVE LoadedOK(q)' /\ (Alone(q)' => Paid(q)')
  <2>1. At(q, "idle") /\ At(q, "idle")' /\ run'[q] = run[q]
    BY OthersKeep DEF Alone, At
  <2>2. LoadedOK(q)'
    <3>1. run[q].joining => run[q].token # "none"
      BY DEF GhostsPaid, LoadedOK
    <3>2. ~Finishing(q)' /\ ~Enrolling(q)' /\ ~Writing(q, "state")'
      BY <2>1 DEF At, Finishing, Enrolling, Making, Writing
    <3> QED
      BY <2>1, <3>1, <3>2 DEF LoadedOK
  <2>3. ASSUME Alone(q)' PROVE Paid(q)'
    <3>1. At(r, "idle")'
      BY <2>3 DEF Alone
    <3>2. /\ ~Finishing(q)' /\ ~Enrolling(q)' /\ ~Finishing(r)' /\ ~Enrolling(r)'
      BY <2>1, <3>1 DEF At, Finishing, Enrolling, Making, Writing
    <3>3. Unnamed(q)' = Unnamed(r)' /\ MayJoin(q)' = MayJoin(r)'
      BY <3>2 DEF Unnamed, MayJoin, Anonymous
    <3> QED
      BY <1>2, <3>3 DEF Paid, One
  <2> QED
    BY <2>2, <2>3
<1> QED
  BY <1>2, <1>3 DEF GhostsPaid

LEMMA StepPaid ==
    ASSUME TypeOK, EInv, GhostsPaid, [Next]_vars, OneAtATime, OneAtATime'
    PROVE  GhostsPaid'
<1>1. ASSUME NEW r \in Runners, Acts(r) PROVE GhostsPaid'
  BY <1>1, ActsAlone, ActsPaid
<1>2. CASE StateLost \/ Edit
  <2>1. UNCHANGED <<run, known>>
    BY <1>2 DEF StateLost, Edit
  <2>2. ASSUME NEW r \in Runners PROVE LoadedOK(r)' /\ (Alone(r)' => Paid(r)')
    <3>1. Alone(r)' = Alone(r)
      BY <2>1 DEF Alone, At
    <3> QED
      BY <1>2, <3>1, LostPaid DEF GhostsPaid
  <2> QED
    BY <2>1, <2>2 DEF GhostsPaid
<1>3. CASE UNCHANGED vars
  <2>1. UNCHANGED <<run, token, known, faults, edits, Saved>>
    BY <1>3 DEF vars, Saved
  <2>2. ASSUME NEW r \in Runners PROVE LoadedOK(r)' /\ (Alone(r)' => Paid(r)')
    <3>1. /\ Finishing(r)' = Finishing(r) /\ Enrolling(r)' = Enrolling(r)
          /\ Writing(r, "state")' = Writing(r, "state") /\ Alone(r)' = Alone(r)
      BY <2>1 DEF Finishing, Writing, Enrolling, Making, Alone, At
    <3>2. (Unnamed(r)' => Unnamed(r)) /\ (MayJoin(r)' => MayJoin(r))
      BY <2>1, <3>1 DEF Unnamed, MayJoin, Anonymous
    <3>3. LoadedOK(r)'
      BY <2>1, <3>1 DEF GhostsPaid, LoadedOK, At
    <3> QED
      BY <2>1, <3>1, <3>2, <3>3, StaysPaid DEF GhostsPaid
  <2> QED
    BY <2>1, <2>2 DEF GhostsPaid
<1> QED
  BY <1>1, <1>2, <1>3 DEF Next, Acts

LEMMA PaidIsFew == ASSUME TypeOK, EInv, GhostsPaid, OneAtATime PROVE FewGhosts
<1>1. Cardinality(known) \in Nat /\ faults \in Nat /\ edits \in Nat
  BY KnownFinite, EnrollAssumption DEF TypeOK
<1>2. CASE Runners = {}
  <2>1. Cardinality(known) = 0
    BY <1>2, FS_EmptySet DEF GhostsPaid
  <2> QED
    BY <1>1, <2>1 DEF FewGhosts
<1>3. CASE Runners # {}
  <2>1. PICK r \in Runners : Alone(r)
    <3>1. CASE \E r \in Runners : ~At(r, "idle")
      BY <3>1 DEF OneAtATime, Alone
    <3>2. CASE \A r \in Runners : At(r, "idle")
      BY <1>3, <3>2 DEF Alone
    <3> QED
      BY <3>1, <3>2
  <2>2. Paid(r)
    BY <2>1 DEF GhostsPaid
  <2> QED
    BY <1>1, <2>2 DEF Paid, One, FewGhosts
<1> QED
  BY <1>2, <1>3

\* The files stay whole through every death of the program, for any number of keys,
\* failures and tokens, however many processes there are, as long as no two run at
\* the same time: of two that do, the run enroll_overlap shows otherwise
\* (state.rs:91-98, key.rs:14-35).
THEOREM Atomically == Spec /\ []OneAtATime => []WrittenAtomically
<1>1. Init => TypeOK /\ EInv
  BY InitTypes, InitEInv
<1>2. TypeOK /\ EInv /\ OneAtATime /\ OneAtATime' /\ [Next]_vars => (TypeOK /\ EInv)'
  BY StepTypes, StepEInv
<1>3. EInv => WrittenAtomically
  BY DEF EInv, FilesOK, WrittenAtomically
<1> QED
  BY <1>1, <1>2, <1>3, PTL DEF Spec

\* A host id that is saved has its key on disk, or aside while the host joins its
\* organization; a refused token costs nothing (main.rs:162-199).  One process after
\* the other may die anywhere.
THEOREM KeptKey == Spec /\ []OneAtATime => []KeyIsOurs
<1>1. Init => TypeOK /\ EInv
  BY InitTypes, InitEInv
<1>2. TypeOK /\ EInv /\ OneAtATime /\ OneAtATime' /\ [Next]_vars => (TypeOK /\ EInv)'
  BY StepTypes, StepEInv
<1>3. EInv => KeyIsOurs
  BY DEF EInv, FilesOK, Ours, KeyIsOurs
<1> QED
  BY <1>1, <1>2, <1>3, PTL DEF Spec

\* A host enrolled with a token keeps its host id until its state is lost, however
\* often it is run, one process at a time, and whatever fails (main.rs:162-171).
THEOREM EnrollsOnce == Spec /\ []OneAtATime => NeverInALoop
<1>1. Init => TypeOK /\ EInv
  BY InitTypes, InitEInv
<1>2. TypeOK /\ EInv /\ OneAtATime /\ OneAtATime' /\ [Next]_vars => (TypeOK /\ EInv)'
  BY StepTypes, StepEInv
<1>3. TypeOK /\ EInv /\ [Next]_vars
        => [Saved.joined /\ disk'["state"].id # Saved.id => disk'["state"].is = "absent"]_vars
  BY StepLoop
<1> QED
  BY <1>1, <1>2, <1>3, PTL DEF Spec, NeverInALoop

\* A host leaves behind at the server no more identities than there were failures and
\* changes of its token, and the one it has, if it runs one process at a time
\* (main.rs:162-223).
THEOREM FewLeftBehind == Spec /\ []OneAtATime => []FewGhosts
<1>1. Init => TypeOK /\ EInv /\ GhostsPaid
  BY InitTypes, InitEInv, InitPaid
<1>2. TypeOK /\ EInv /\ GhostsPaid /\ OneAtATime /\ OneAtATime' /\ [Next]_vars
        => (TypeOK /\ EInv /\ GhostsPaid)'
  BY StepTypes, StepEInv, StepPaid
<1>3. TypeOK /\ EInv /\ GhostsPaid /\ OneAtATime => FewGhosts
  BY PaidIsFew
<1> QED
  BY <1>1, <1>2, <1>3, PTL DEF Spec
=============================================================================
