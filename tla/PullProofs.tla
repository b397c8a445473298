------------------------------ MODULE PullProofs ------------------------------
(***************************************************************************)
(* Proofs about Pull, for any number of runs, entries, snapshots and       *)
(* faults and any times that fit together as PullAssumption says: what is  *)
(* in the kernel is what is on record, what went wrong is made good, and   *)
(* an entry taken from the feed drains.                                    *)
(***************************************************************************)
EXTENDS Pull, TLAPS

LEMMA IdleTyped == Idle \in Run /\ Never \in FeedCursor
<1> QED
  BY PullAssumption DEF Idle, Never, Run, FeedCursor

LEMMA ListedTyped == TypeOK => \A s \in 0..MaxVersion : Listed(s) \in SUBSET Entries
<1> QED
  BY DEF TypeOK, Listed

LEMMA DisturbedTyped ==
    ASSUME TypeOK
    PROVE  /\ Disturbed \in [Runners -> Run]
           /\ \A q \in Runners : run[q].step = "idle" => Disturbed[q] = run[q]
           /\ \A q \in Runners : run[q].step # "idle" =>
                 Disturbed[q] = [run[q] EXCEPT !.clean = FALSE]
<1>1. \A x \in Run : [x EXCEPT !.clean = FALSE] \in Run
  BY DEF Run
<1>2. \A q \in Runners : run[q] \in Run
  BY DEF TypeOK
<1> QED
  BY <1>1, <1>2 DEF Disturbed

LEMMA InitTypes == Init => TypeOK
<1> SUFFICES ASSUME Init PROVE TypeOK
  OBVIOUS
<1>1. feed \in [1..MaxVersion -> SUBSET Entries]
  BY DEF Init
<1>2. saved \in FeedCursor /\ saved.last_full <= now /\ run \in [Runners -> Run]
  BY PullAssumption, IdleTyped DEF Init, Never
<1>3. corrupt \in BOOLEAN
  BY Zenon DEF Init
<1>4. /\ now \in Nat /\ version \in 1..MaxVersion /\ faults \in 0..MaxFaults
      /\ ended \in Nat /\ upset \in Nat
      /\ crowd \in [Entries -> Nat] /\ gone \in [Entries -> Nat]
  BY PullAssumption DEF Init
<1> QED
  BY <1>1, <1>2, <1>3, <1>4 DEF TypeOK

LEMMA RunTypes ==
    ASSUME TypeOK, NEW r \in Runners,
           Decide(r) \/ NotModified(r) \/ Body(r) \/ FetchFull(r) \/ RemoveFails(r)
             \/ DeltaFails(r) \/ Checked(r) \/ Damaged(r)
    PROVE  TypeOK'
<1>1. run[r] \in Run /\ now \in Nat /\ version \in 0..MaxVersion
  BY DEF TypeOK
<1>2. run' \in [Runners -> Run]
  <2>1. CASE Decide(r)
    BY <1>1, <2>1 DEF Decide, TypeOK, Run
  <2>2. CASE NotModified(r) \/ DeltaFails(r) \/ Checked(r) \/ Damaged(r)
    <3>1. \A s \in {"finish", "full", "record"} : [run[r] EXCEPT !.step = s] \in Run
      BY <1>1 DEF Run
    <3>2. \E s \in {"finish", "full", "record"} : run' = [run EXCEPT ![r].step = s]
      BY <2>2 DEF NotModified, DeltaFails, Checked, Damaged
    <3> QED
      BY <3>1, <3>2 DEF TypeOK
  <2>3. CASE Body(r)
    <3>1. Listed(run[r].state.snapshot) \ Listed(version) \in SUBSET Entries
      BY <1>1, ListedTyped DEF Run, FeedCursor
    <3>2. [run[r] EXCEPT !.step = "remove", !.kind = "delta", !.to = version,
                         !.removed = Listed(run[r].state.snapshot) \ Listed(version)] \in Run
      BY <1>1, <3>1 DEF Run
    <3>3. [run[r] EXCEPT !.step = "replace", !.kind = "full", !.to = version] \in Run
      BY <1>1 DEF Run
    <3> QED
      BY <2>3, <3>2, <3>3 DEF Body, TypeOK
  <2>4. CASE FetchFull(r)
    BY <1>1, <2>4 DEF FetchFull, TypeOK, Run
  <2>5. CASE RemoveFails(r)
    <3>1. \A e : [run[r] EXCEPT !.removed = @ \ {e}, !.touched = TRUE, !.clean = FALSE] \in Run
      BY <1>1 DEF Run
    <3>2. \E e : run' = [run EXCEPT ![r].removed = @ \ {e}, ![r].touched = TRUE,
                                    ![r].clean = FALSE]
      BY <2>5 DEF RemoveFails
    <3>3. PICK e : run' = [run EXCEPT ![r] =
                             [run[r] EXCEPT !.removed = @ \ {e}, !.touched = TRUE, !.clean = FALSE]]
      BY <3>2
    <3> QED
      BY <3>1, <3>3 DEF TypeOK
  <2> QED
    BY <2>1, <2>2, <2>3, <2>4, <2>5
<1>3. faults' \in 0..MaxFaults
  <2>1. Fault \/ faults' = faults
    BY DEF Decide, NotModified, Body, FetchFull, RemoveFails, DeltaFails, Checked, Damaged
  <2>2. faults \in 0..MaxFaults
    BY DEF TypeOK
  <2> QED
    BY <2>1, <2>2, PullAssumption DEF Fault
<1> QED
  BY <1>2, <1>3
  DEF Decide, NotModified, Body, FetchFull, RemoveFails, DeltaFails, Checked, Damaged, TypeOK,
      server, kernel

LEMMA BeginTypes == ASSUME TypeOK, NEW r \in Runners, Begin(r) PROVE TypeOK'
<1>1. PICK dry \in BOOLEAN :
        run' = [Disturbed EXCEPT ![r] =
                  [Idle EXCEPT !.step = "load", !.began = now, !.dry = dry, !.state = saved,
                               !.clean = (Others(r) = {})]]
  BY DEF Begin
<1>2. (Others(r) = {}) \in BOOLEAN
  OBVIOUS
<1>3. [Idle EXCEPT !.step = "load", !.began = now, !.dry = dry, !.state = saved,
                   !.clean = (Others(r) = {})] \in Run
  <2> HIDE DEF Others
  <2> QED
    BY <1>2, IdleTyped DEF Run, TypeOK
<1>4. run' \in [Runners -> Run]
  BY <1>1, <1>3, DisturbedTyped
<1>5. faults' \in 0..MaxFaults
  <2>1. Fault \/ faults' = faults
    BY Zenon DEF Begin
  <2>2. faults \in 0..MaxFaults
    BY DEF TypeOK
  <2> QED
    BY <2>1, <2>2, PullAssumption DEF Fault
<1> QED
  BY <1>4, <1>5 DEF Begin, TypeOK, server, kernel

LEMMA SetTypes ==
    ASSUME TypeOK, NEW r \in Runners, RemoveOne(r) \/ Add(r) \/ Replace(r)
    PROVE  TypeOK'
<1>1. run[r] \in Run
  BY DEF TypeOK
<1>2. run' \in [Runners -> Run]
  <2>1. \A e : [run[r] EXCEPT !.removed = @ \ {e}, !.touched = TRUE] \in Run
    BY <1>1 DEF Run
  <2>2. [run[r] EXCEPT !.step = "check", !.touched = TRUE] \in Run
    BY <1>1 DEF Run
  <2>3. CASE RemoveOne(r)
    <3>1. PICK e \in run[r].removed :
            run' = [run EXCEPT ![r].removed = @ \ {e}, ![r].touched = TRUE]
      BY <2>3 DEF RemoveOne
    <3> QED
      BY <2>1, <3>1 DEF TypeOK
  <2>4. CASE Add(r) \/ Replace(r)
    BY <2>2, <2>4 DEF Add, Replace, TypeOK
  <2> QED
    BY <2>3, <2>4
<1>3. crowd' \in [Entries -> Nat]
  <2>1. \A e \in Entries : crowd[e] \in Nat /\ now + Timeout \in Nat
    BY PullAssumption DEF TypeOK
  <2>2. CASE RemoveOne(r)
    <3>1. PICK e \in run[r].removed :
            crowd' = IF run[r].dry THEN crowd ELSE [crowd EXCEPT ![e] = 0]
      BY <2>2 DEF RemoveOne
    <3> QED
      BY <3>1 DEF TypeOK
  <2>3. CASE Add(r)
    BY <2>1, <2>3 DEF Add, With, TypeOK
  <2>4. CASE Replace(r)
    BY <2>1, <2>4 DEF Replace, Refilled, kernel, TypeOK
  <2> QED
    BY <2>2, <2>3, <2>4
<1>4. corrupt' \in BOOLEAN
  BY DEF RemoveOne, Add, Replace, kernel, TypeOK
<1> QED
  BY <1>2, <1>3, <1>4 DEF RemoveOne, Add, Replace, TypeOK, server, kernel

LEMMA RecordTypes ==
    ASSUME TypeOK, NEW r \in Runners, run[r].state.last_full <= now, run[r].now <= now,
           Record(r) \/ Finish(r) \/ Fails(r) \/ StillDamaged(r)
    PROVE  TypeOK'
<1>1. run[r] \in Run /\ now \in Nat /\ upset \in Nat
  BY DEF TypeOK
<1>2. CASE Record(r)
  <2>1. Recorded(r) \in FeedCursor /\ Recorded(r).last_full <= now
    BY <1>1 DEF Recorded, LastFull, Run, FeedCursor
  <2>2. run' \in [Runners -> Run]
    BY <1>1, <1>2, <2>1 DEF Record, TypeOK, Run
  <2> QED
    BY <1>1, <1>2, <2>1, <2>2 DEF Record, TypeOK, server, kernel
<1>3. CASE Finish(r)
  BY <1>1, <1>3, IdleTyped DEF Finish, Pulled, TypeOK, Run, server, kernel
<1>4. CASE Fails(r)
  <2>1. faults' \in 0..MaxFaults /\ upset' \in Nat /\ run' \in [Runners -> Run]
    BY <1>1, <1>4, IdleTyped, PullAssumption DEF Fails, Fault, TypeOK
  <2> QED
    BY <1>4, <2>1 DEF Fails, TypeOK, server, kernel
<1>5. CASE StillDamaged(r)
  BY <1>1, <1>5, IdleTyped DEF StillDamaged, TypeOK, server, kernel
<1> QED
  BY <1>2, <1>3, <1>4, <1>5

LEMMA OtherTypes ==
    ASSUME TypeOK, Publish \/ Flush \/ Reboot \/ Corrupt \/ Clock
    PROVE  TypeOK'
<1>1. CASE Publish
  <2>1. version' \in 1..MaxVersion
    BY <1>1, PullAssumption DEF Publish, TypeOK
  <2>2. feed' \in [1..MaxVersion -> SUBSET Entries] /\ gone' \in [Entries -> Nat]
    BY <1>1, <2>1 DEF Publish, TypeOK
  <2> QED
    BY <1>1, <2>1, <2>2 DEF Publish, TypeOK, kernel
<1>2. CASE Flush \/ Corrupt
  <2>1. faults' \in 0..MaxFaults /\ upset' \in Nat
    BY <1>2, PullAssumption DEF Flush, Corrupt, Fault, TypeOK
  <2>3. run' \in [Runners -> Run]
    BY <1>2, DisturbedTyped DEF Flush, Corrupt
  <2>2. crowd' \in [Entries -> Nat]
    BY <1>2 DEF Flush, Corrupt, TypeOK
  <2>4. corrupt' \in BOOLEAN
    BY <1>2, Zenon DEF Flush, Corrupt
  <2> QED
    BY <1>2, <2>1, <2>2, <2>3, <2>4 DEF Flush, Corrupt, TypeOK, server
<1>3. CASE Reboot
  <2>1. faults' \in 0..MaxFaults /\ upset' \in Nat /\ run' \in [Runners -> Run]
    BY <1>3, IdleTyped, PullAssumption DEF Reboot, Fault, TypeOK
  <2> QED
    BY <1>3, <2>1 DEF Reboot, TypeOK, server
<1>4. CASE Clock
  BY <1>4 DEF Clock, TypeOK, FeedCursor, server, kernel
<1> QED
  BY <1>1, <1>2, <1>3, <1>4

-----------------------------------------------------------------------------
(* The invariant. *)

\* No time lies ahead.
Times ==
  /\ 0 < now /\ ended <= now /\ upset <= now
  /\ \A e \in Entries : gone[e] <= now
  /\ saved.snapshot <= version

\* Nor any in a run, which is not late; what it has received was the server's while it ran.
Timed(r) ==
  /\ run[r].began <= now /\ run[r].now <= now
  /\ run[r].state.last_full <= now /\ run[r].state.snapshot <= version
  /\ run[r].to <= version
  /\ run[r].step # "idle" => now <= run[r].began + MaxLag
  /\ run[r].step \notin {"idle", "load"} => run[r].began <= run[r].now
  /\ run[r].step \in {"remove", "replace", "check", "record"} => run[r].to # 0
  /\ \A e \in Listed(run[r].to) : e \in Listed(version) \/ run[r].began <= gone[e]

\* An element lasts until Timeout from now, or from when its entry left the feed.
Drains ==
  \A e \in Entries :
    /\ crowd[e] <= now + Timeout
    /\ e \in Listed(version) \/ crowd[e] <= gone[e] + Timeout + MaxLag

\* The set holds S, and holds it until well after the next full list is due.
Kept(S) ==
  \A e \in Entries : IF e \in S THEN saved.last_full + Timeout <= crowd[e] + MaxLag
                                ELSE crowd[e] <= now

\* The set holds S since the run filled it.
Filled(r, S) ==
  \A e \in Entries : IF e \in S THEN run[r].began + Timeout <= crowd[e] ELSE crowd[e] <= now

\* The run goes by the record and not by a full list.
ByRecord(r) ==
  \/ run[r].step \in {"ask", "remove", "finish"}
  \/ run[r].kind = "delta" /\ run[r].step \in {"check", "record"}

\* The set while a run brings it from one snapshot to the next and nothing else does.
Underway(r) ==
  /\ ~run[r].touched => Kept(Listed(saved.snapshot))
  /\ ~run[r].dry /\ run[r].step = "remove" =>
        Kept((Listed(saved.snapshot) \cap Listed(run[r].to)) \cup run[r].removed)
  /\ ~run[r].dry /\ run[r].kind = "delta" /\ run[r].step \in {"check", "record"} =>
        Kept(Listed(run[r].to))

CleanOK(r) ==
  /\ \A q \in Runners : q # r => run[q].step = "idle"
  /\ run[r].state = saved
  /\ run[r].step \in {"load", "ask", "finish"} => ~run[r].touched
  /\ ByRecord(r) => run[r].began < saved.last_full + Refresh
  /\ run[r].step = "remove" =>
        run[r].kind = "delta" /\ run[r].removed \cap Listed(run[r].to) = {}
  /\ run[r].step = "replace" => run[r].kind # "delta"
  /\ upset = 0 => Underway(r)
  /\ ~run[r].dry /\ run[r].kind # "delta" /\ run[r].step \in {"check", "record"} =>
        ~corrupt /\ Filled(r, Listed(run[r].to))

\* While nothing came between, the record and the set go together, and the last full list
\* is not too long ago; since something did, there was no other full list.
Quiet ==
  /\ upset = 0 =>
        /\ ~corrupt
        /\ saved.snapshot # 0 => /\ ended < saved.last_full + Refresh + MaxLag
                                 /\ now < saved.last_full + Refresh + MaxLag + Gap
        /\ Active = {} => Kept(Listed(saved.snapshot))
  /\ upset # 0 =>
        /\ saved.last_full <= upset
        /\ ended < upset + Refresh + MaxLag
        /\ Heals

PInv ==
  /\ Times
  /\ Drains
  /\ Quiet
  /\ \A r \in Runners : Timed(r)
  /\ \A r \in Runners : run[r].step # "idle" /\ run[r].clean => CleanOK(r)

\* Numbers are numbers.
LEMMA Numbers ==
    ASSUME TypeOK
    PROVE  /\ now \in Nat /\ version \in Nat /\ ended \in Nat /\ upset \in Nat
           /\ saved.last_full \in Nat /\ saved.snapshot \in Nat
           /\ Refresh \in Nat /\ 0 < Refresh /\ Gap \in Nat /\ 0 < Gap /\ MaxLag \in Nat
           /\ Timeout \in Nat /\ Refresh + Gap + MaxLag + MaxLag <= Timeout
           /\ \A e \in Entries : crowd[e] \in Nat /\ gone[e] \in Nat
           /\ \A r \in Runners :
                 /\ run[r].began \in Nat /\ run[r].now \in Nat
                 /\ run[r].state.last_full \in Nat /\ run[r].state.snapshot \in Nat
                 /\ run[r].to \in Nat
<1>1. Refresh + Gap + MaxLag + MaxLag <= Timeout
  BY PullAssumption
<1> QED
  BY <1>1, PullAssumption DEF TypeOK, FeedCursor, Run

LEMMA InitPInv == Init => PInv
<1> SUFFICES ASSUME Init PROVE PInv
  OBVIOUS
<1>1. Times
  BY PullAssumption DEF Init, Times, Never
<1>2. Drains
  BY PullAssumption DEF Init, Drains
<1>3. Active = {} /\ ~corrupt
  BY Zenon DEF Init, Active, Idle
<1>4. Kept(Listed(saved.snapshot))
  BY PullAssumption DEF Init, Kept, Listed, Never
<1>5. Quiet
  BY <1>3, <1>4 DEF Init, Quiet, Never
<1>6. \A r \in Runners : Timed(r) /\ run[r].step = "idle"
  BY PullAssumption DEF Init, Timed, Idle, Never, Listed
<1> QED
  BY <1>1, <1>2, <1>5, <1>6 DEF PInv

\* A step of a run leaves the others alone, and while there are others none of them is
\* clean.
LEMMA StepOf ==
    ASSUME PInv, NEW r \in Runners, run[r].step # "idle",
           \A q \in Runners : q # r => run'[q] = run[q],
           UNCHANGED <<now, server, gone>>,
           Times', Drains', Quiet', Timed(r)',
           (run[r].step # "idle" /\ run[r].clean => CleanOK(r))'
    PROVE  PInv'
<1>1. ASSUME NEW q \in Runners, q # r
      PROVE  Timed(q)' /\ ~(run'[q].step # "idle" /\ run'[q].clean)
  <2>1. Timed(q)
    BY DEF PInv
  <2>2. ~(run[q].step # "idle" /\ run[q].clean)
    BY <1>1 DEF PInv, CleanOK
  <2> QED
    BY <1>1, <2>1, <2>2 DEF Timed, server, Listed
<1> QED
  BY <1>1 DEF PInv

\* And one that only the run itself sees.
LEMMA StepWithin ==
    ASSUME PInv, NEW r \in Runners, run[r].step # "idle", run'[r].step # "idle",
           \A q \in Runners : q # r => run'[q] = run[q],
           UNCHANGED <<now, server, kernel, saved, gone, ended, upset>>,
           Timed(r)',
           (run[r].step # "idle" /\ run[r].clean => CleanOK(r))'
    PROVE  PInv'
<1>1. Times'
  BY DEF PInv, Times, server
<1>2. Drains'
  BY DEF PInv, Drains, kernel, server, Listed
<1>3. Quiet'
  <2>1. Active' # {}
    BY DEF Active
  <2>2. Quiet
    BY DEF PInv
  <2> QED
    BY <2>1, <2>2 DEF Quiet, Heals, kernel
<1> QED
  BY <1>1, <1>2, <1>3, StepOf

LEMMA DecidePInv == ASSUME TypeOK, PInv, NEW r \in Runners, Decide(r) PROVE PInv'
<1> USE Numbers
<1>1. /\ run'[r].step \in {"full", "ask"} /\ run'[r].began = run[r].began
      /\ run'[r].dry = run[r].dry /\ run'[r].state = run[r].state /\ run'[r].now = now
      /\ run'[r].kind = run[r].kind /\ run'[r].to = run[r].to
      /\ run'[r].touched = run[r].touched /\ run'[r].clean = run[r].clean
      /\ run'[r].step = "ask" => now < run[r].state.last_full + Refresh
      /\ run[r].step = "load"
      /\ \A q \in Runners : q # r => run'[q] = run[q]
  <2>1. run[r].step = "load"
    BY DEF Decide
  <2>2. CASE Due(run[r].state, now)
    BY <2>1, <2>2 DEF Decide, TypeOK
  <2>3. CASE ~Due(run[r].state, now)
    <3>1. now < run[r].state.last_full + Refresh
      BY <2>3 DEF Due
    <3> QED
      BY <2>1, <2>3, <3>1 DEF Decide, TypeOK
  <2> QED
    BY <2>2, <2>3
<1>2. UNCHANGED <<now, server, kernel, saved, gone, ended, upset>>
  BY DEF Decide
<1>3. Timed(r)'
  BY <1>1, <1>2 DEF PInv, Timed, server, Listed
<1>4. ASSUME run'[r].clean PROVE CleanOK(r)'
  <2>1. CleanOK(r) /\ Timed(r)
    BY <1>1, <1>4 DEF PInv
  <2>2. ByRecord(r)' => run[r].began < saved.last_full + Refresh
    BY <1>1, <2>1 DEF ByRecord, CleanOK, Timed
  <2>3. upset = 0 => Underway(r)'
    BY <1>1, <1>2, <2>1 DEF CleanOK, Underway, Kept, kernel, server, Listed
  <2> QED
    BY <1>1, <1>2, <2>1, <2>2, <2>3 DEF CleanOK
<1> QED
  BY <1>1, <1>2, <1>3, <1>4, StepWithin

LEMMA AnswerPInv ==
    ASSUME TypeOK, PInv, NEW r \in Runners, NotModified(r) \/ FetchFull(r)
    PROVE  PInv'
<1>1. /\ run'[r].began = run[r].began
      /\ run'[r].dry = run[r].dry /\ run'[r].state = run[r].state /\ run'[r].now = run[r].now
      /\ run'[r].touched = run[r].touched /\ run'[r].clean = run[r].clean
      /\ \/ run[r].step = "ask" /\ run'[r].step = "finish" /\ run'[r].to = run[r].to
         \/ /\ run[r].step = "full" /\ run'[r].step = "replace" /\ run'[r].to = version
            /\ run'[r].kind = "forced"
      /\ \A q \in Runners : q # r => run'[q] = run[q]
  <2>1. CASE NotModified(r)
    BY <2>1 DEF NotModified, TypeOK
  <2>2. CASE FetchFull(r)
    BY <2>2 DEF FetchFull, TypeOK
  <2> QED
    BY <2>1, <2>2
<1>2. UNCHANGED <<now, server, kernel, saved, gone, ended, upset>> /\ version # 0
  BY DEF NotModified, FetchFull, TypeOK
<1>3. Timed(r)'
  BY <1>1, <1>2, Numbers DEF PInv, Timed, server, Listed
<1>4. ASSUME run'[r].clean PROVE CleanOK(r)'
  <2>1. CleanOK(r) /\ Timed(r)
    BY <1>1, <1>4 DEF PInv
  <2>0. run'[r].step = "finish" => ~run[r].touched
    BY <1>1, <2>1 DEF CleanOK
  <2>2. ByRecord(r)' => run[r].began < saved.last_full + Refresh
    BY <1>1, <2>1 DEF ByRecord, CleanOK, Timed
  <2>3. upset = 0 => Underway(r)'
    BY <1>1, <1>2, <2>1 DEF CleanOK, Underway, Kept, kernel, server, Listed
  <2> QED
    BY <1>1, <1>2, <2>0, <2>1, <2>2, <2>3 DEF CleanOK
<1> QED
  BY <1>1, <1>2, <1>3, <1>4, StepWithin

LEMMA BodyPInv == ASSUME TypeOK, PInv, NEW r \in Runners, Body(r) PROVE PInv'
<1> USE Numbers
<1>1. /\ run'[r].began = run[r].began
      /\ run'[r].dry = run[r].dry /\ run'[r].state = run[r].state /\ run'[r].now = run[r].now
      /\ run'[r].touched = run[r].touched /\ run'[r].clean = run[r].clean
      /\ run[r].step = "ask" /\ run'[r].to = version
      /\ \/ /\ run'[r].step = "remove" /\ run'[r].kind = "delta"
            /\ run'[r].removed = Listed(run[r].state.snapshot) \ Listed(version)
         \/ run'[r].step = "replace" /\ run'[r].kind = "full"
      /\ \A q \in Runners : q # r => run'[q] = run[q]
  <2>1. run[r] \in Run
    BY DEF TypeOK
  <2>2. CASE run' = [run EXCEPT ![r].step = "remove", ![r].kind = "delta", ![r].to = version,
                       ![r].removed = Listed(run[r].state.snapshot) \ Listed(version)]
    BY <2>1, <2>2 DEF Body, TypeOK, Run
  <2>3. CASE run' = [run EXCEPT ![r].step = "replace", ![r].kind = "full", ![r].to = version]
    BY <2>1, <2>3 DEF Body, TypeOK, Run
  <2> QED
    BY <2>2, <2>3 DEF Body
<1>2. UNCHANGED <<now, server, kernel, saved, gone, ended, upset>> /\ version # 0
  BY DEF Body, TypeOK
<1>3. Timed(r)'
  BY <1>1, <1>2 DEF PInv, Timed, server, Listed
<1>4. ASSUME run'[r].clean PROVE CleanOK(r)'
  <2>1. CleanOK(r) /\ Timed(r)
    BY <1>1, <1>4 DEF PInv
  <2>2. ByRecord(r)' => run[r].began < saved.last_full + Refresh
    BY <1>1, <2>1 DEF ByRecord, CleanOK
  <2>3. upset = 0 => Underway(r)'
    <3> SUFFICES ASSUME upset = 0 PROVE Underway(r)'
      OBVIOUS
    <3>1. ~run[r].touched => Kept(Listed(saved.snapshot))
      BY <2>1 DEF CleanOK, Underway
    <3>2. /\ Kept(Listed(saved.snapshot))
          /\ (Listed(saved.snapshot) \cap Listed(version))
                \cup (Listed(saved.snapshot) \ Listed(version)) = Listed(saved.snapshot)
      BY <1>1, <2>1, <3>1 DEF CleanOK
    <3>3. \A S : Kept(S)' <=> Kept(S)
      BY <1>2 DEF Kept, kernel
    <3>4. \A s : Listed(s)' = Listed(s)
      BY <1>2 DEF Listed, server
    <3>5. run[r].state = saved
      BY <2>1 DEF CleanOK
    <3> QED
      BY <1>1, <1>2, <3>2, <3>3, <3>4, <3>5 DEF Underway
  <2> QED
    BY <1>1, <1>2, <2>1, <2>2, <2>3 DEF CleanOK, server, Listed
<1> QED
  BY <1>1, <1>2, <1>3, <1>4, StepWithin

LEMMA CheckPInv ==
    ASSUME TypeOK, PInv, NEW r \in Runners, DeltaFails(r) \/ Checked(r) \/ Damaged(r)
    PROVE  PInv'
<1>1. /\ run'[r].began = run[r].began
      /\ run'[r].dry = run[r].dry /\ run'[r].state = run[r].state /\ run'[r].now = run[r].now
      /\ run'[r].touched = run[r].touched /\ run'[r].clean = run[r].clean
      /\ run'[r].kind = run[r].kind /\ run'[r].to = run[r].to
      /\ run[r].step \in {"remove", "check"}
      /\ run'[r].step = "full" \/ (run[r].step = "check" /\ run'[r].step = "record")
      /\ \A q \in Runners : q # r => run'[q] = run[q]
  <2>1. CASE DeltaFails(r)
    BY <2>1 DEF DeltaFails, TypeOK
  <2>2. CASE Checked(r)
    BY <2>2 DEF Checked, TypeOK
  <2>3. CASE Damaged(r)
    BY <2>3 DEF Damaged, TypeOK
  <2> QED
    BY <2>1, <2>2, <2>3
<1>2. UNCHANGED <<now, server, kernel, saved, gone, ended, upset>>
  BY DEF DeltaFails, Checked, Damaged
<1>3. Timed(r)'
  BY <1>1, <1>2 DEF PInv, Timed, server, Listed
<1>4. ASSUME run'[r].clean PROVE CleanOK(r)'
  <2>1. CleanOK(r)
    BY <1>1, <1>4 DEF PInv
  <2>2. ByRecord(r)' => run[r].began < saved.last_full + Refresh
    BY <1>1, <2>1 DEF ByRecord, CleanOK
  <2>3. (\A S : Kept(S)' <=> Kept(S)) /\ (\A s : Listed(s)' = Listed(s))
    BY <1>2 DEF Kept, kernel, Listed, server
  <2>4. upset = 0 => Underway(r)'
    BY <1>1, <1>2, <2>1, <2>3 DEF CleanOK, Underway
  <2>5. \A S : Filled(r, S)' <=> Filled(r, S)
    BY <1>1, <1>2 DEF Filled, kernel
  <2> QED
    BY <1>1, <1>2, <2>1, <2>2, <2>3, <2>4, <2>5 DEF CleanOK, kernel
<1> QED
  BY <1>1, <1>2, <1>3, <1>4, StepWithin

\* A step that changes the set and nothing else.
LEMMA StepOnSet ==
    ASSUME PInv, NEW r \in Runners, run[r].step # "idle", run'[r].step # "idle",
           \A q \in Runners : q # r => run'[q] = run[q],
           UNCHANGED <<now, server, saved, gone, ended, upset>>,
           corrupt' => corrupt,
           Drains', Timed(r)',
           (run[r].step # "idle" /\ run[r].clean => CleanOK(r))'
    PROVE  PInv'
<1>1. Times'
  BY DEF PInv, Times, server
<1>2. Quiet'
  <2>1. Active' # {}
    BY DEF Active
  <2>2. Quiet
    BY DEF PInv
  <2> QED
    BY <2>1, <2>2 DEF Quiet, Heals
<1> QED
  BY <1>1, <1>2, StepOf

LEMMA RemovePInv == ASSUME TypeOK, PInv, NEW r \in Runners, RemoveOne(r) PROVE PInv'
<1>0. PICK e \in run[r].removed :
        /\ crowd' = IF run[r].dry THEN crowd ELSE [crowd EXCEPT ![e] = 0]
        /\ run' = [run EXCEPT ![r].removed = @ \ {e}, ![r].touched = TRUE]
  BY DEF RemoveOne
<1>1. /\ run'[r].began = run[r].began
      /\ run'[r].dry = run[r].dry /\ run'[r].state = run[r].state /\ run'[r].now = run[r].now
      /\ run'[r].touched /\ run'[r].clean = run[r].clean
      /\ run'[r].kind = run[r].kind /\ run'[r].to = run[r].to
      /\ run[r].step = "remove" /\ run'[r].step = "remove"
      /\ run'[r].removed = run[r].removed \ {e}
      /\ \A q \in Runners : q # r => run'[q] = run[q]
  <2>1. run[r].step = "remove"
    BY DEF RemoveOne
  <2>2. /\ run'[r] = [run[r] EXCEPT !.removed = run[r].removed \ {e}, !.touched = TRUE]
        /\ \A q \in Runners : q # r => run'[q] = run[q]
    BY <1>0 DEF TypeOK
  <2>3. run[r] \in Run
    BY DEF TypeOK
  <2> QED
    BY <2>1, <2>2, <2>3 DEF Run
<1>2. UNCHANGED <<now, server, corrupt, saved, gone, ended, upset>>
  BY DEF RemoveOne
<1>3. Timed(r)'
  BY <1>1, <1>2 DEF PInv, Timed, server, Listed
<1>4. /\ \A d \in Entries : crowd'[d] = IF ~run[r].dry /\ d = e THEN 0 ELSE crowd[d]
      /\ now \in Nat /\ Timeout \in Nat /\ MaxLag \in Nat /\ \A d \in Entries : gone[d] \in Nat
  BY <1>0, Numbers DEF TypeOK
<1>5. Drains'
  BY <1>2, <1>4 DEF PInv, Drains, server, Listed
<1>6. ASSUME run'[r].clean PROVE CleanOK(r)'
  <2>1. CleanOK(r)
    BY <1>1, <1>6 DEF PInv
  <2>2. ByRecord(r)' => run[r].began < saved.last_full + Refresh
    BY <1>1, <2>1 DEF ByRecord, CleanOK
  <2>3. \A s : Listed(s)' = Listed(s)
    BY <1>2 DEF Listed, server
  <2>4. ASSUME upset = 0, ~run[r].dry
        PROVE  Kept((Listed(saved.snapshot) \cap Listed(run[r].to)) \cup (run[r].removed \ {e}))'
    <3>1. Kept((Listed(saved.snapshot) \cap Listed(run[r].to)) \cup run[r].removed)
      BY <1>1, <2>1, <2>4 DEF CleanOK, Underway
    <3>2. e \notin Listed(run[r].to)
      BY <1>1, <2>1 DEF CleanOK
    <3> QED
      BY <1>1, <1>2, <1>4, <2>3, <2>4, <3>1, <3>2 DEF Kept
  <2>5. upset = 0 => Underway(r)'
    BY <1>1, <1>2, <2>3, <2>4 DEF Underway
  <2> QED
    BY <1>1, <1>2, <2>1, <2>2, <2>3, <2>5 DEF CleanOK
<1> QED
  BY <1>1, <1>2, <1>3, <1>5, <1>6, StepOnSet

\* A removal that fails leaves the set as it is.
LEMMA RemoveFailsPInv == ASSUME TypeOK, PInv, NEW r \in Runners, RemoveFails(r) PROVE PInv'
<1>1. /\ run[r].step = "remove" /\ run'[r].step = "remove" /\ ~run'[r].clean
      /\ run'[r].began = run[r].began /\ run'[r].now = run[r].now
      /\ run'[r].state = run[r].state /\ run'[r].to = run[r].to
      /\ \A q \in Runners : q # r => run'[q] = run[q]
  <2>1. PICK e : run' = [run EXCEPT ![r].removed = @ \ {e}, ![r].touched = TRUE,
                                    ![r].clean = FALSE]
    BY DEF RemoveFails
  <2>2. run[r].step = "remove"
    BY DEF RemoveFails
  <2> QED
    BY <2>1, <2>2 DEF TypeOK, Run
<1>2. UNCHANGED <<now, server, kernel, saved, gone, ended, upset>>
  BY DEF RemoveFails
<1>3. Timed(r)'
  BY <1>1, <1>2 DEF PInv, Timed, server, Listed
<1> QED
  BY <1>1, <1>2, <1>3, StepWithin

LEMMA AddPInv == ASSUME TypeOK, PInv, NEW r \in Runners, Add(r) PROVE PInv'
<1>1. /\ run'[r].began = run[r].began
      /\ run'[r].dry = run[r].dry /\ run'[r].state = run[r].state /\ run'[r].now = run[r].now
      /\ run'[r].touched /\ run'[r].clean = run[r].clean
      /\ run'[r].kind = run[r].kind /\ run'[r].to = run[r].to
      /\ run[r].step = "remove" /\ run'[r].step = "check" /\ run[r].removed = {}
      /\ \A q \in Runners : q # r => run'[q] = run[q]
  BY DEF Add, TypeOK
<1>2. UNCHANGED <<now, server, corrupt, saved, gone, ended, upset>>
  BY DEF Add
<1>3. /\ \A d \in Entries : crowd'[d] = IF ~run[r].dry /\ d \in Added(r) /\ d \notin Live
                                        THEN now + Timeout ELSE crowd[d]
      /\ now \in Nat /\ Timeout \in Nat /\ MaxLag \in Nat /\ run[r].began \in Nat
      /\ \A d \in Entries : gone[d] \in Nat /\ crowd[d] \in Nat
      /\ saved.last_full \in Nat /\ saved.last_full <= now
  BY Numbers DEF Add, With, TypeOK
<1>4. Timed(r)'
  BY <1>1, <1>2 DEF PInv, Timed, server, Listed
<1>5. Drains'
  <2>1. \A d \in Added(r) : d \in Listed(version) \/ run[r].began <= gone[d]
    BY DEF PInv, Timed, Added
  <2>2. now <= run[r].began + MaxLag
    BY <1>1 DEF PInv, Timed
  <2> QED
    BY <1>2, <1>3, <2>1, <2>2 DEF PInv, Drains, server, Listed
<1>6. ASSUME run'[r].clean PROVE CleanOK(r)'
  <2>1. CleanOK(r)
    BY <1>1, <1>6 DEF PInv
  <2>2. run[r].began < saved.last_full + Refresh /\ run[r].kind = "delta"
    BY <1>1, <2>1 DEF ByRecord, CleanOK
  <2>3. \A s : Listed(s)' = Listed(s)
    BY <1>2 DEF Listed, server
  <2>4. ASSUME upset = 0, ~run[r].dry
        PROVE  Kept(Listed(run[r].to))'
    <3>1. Kept(Listed(saved.snapshot) \cap Listed(run[r].to))
      BY <1>1, <2>1, <2>4 DEF CleanOK, Underway
    <3>2. Added(r) = Listed(run[r].to) \ Listed(saved.snapshot)
      BY <2>1 DEF CleanOK, Added
    <3>3. \A d \in Added(r) \cap Entries : d \notin Live
      BY <1>3, <3>1, <3>2 DEF Kept, Live
    <3> QED
      BY <1>1, <1>2, <1>3, <2>3, <2>4, <3>1, <3>2, <3>3 DEF Kept
  <2>5. upset = 0 => Underway(r)'
    BY <1>1, <1>2, <2>3, <2>4 DEF Underway
  <2> QED
    BY <1>1, <1>2, <2>1, <2>2, <2>3, <2>5 DEF CleanOK
<1> QED
  BY <1>1, <1>2, <1>4, <1>5, <1>6, StepOnSet

LEMMA ReplacePInv == ASSUME TypeOK, PInv, NEW r \in Runners, Replace(r) PROVE PInv'
<1>1. /\ run'[r].began = run[r].began
      /\ run'[r].dry = run[r].dry /\ run'[r].state = run[r].state /\ run'[r].now = run[r].now
      /\ run'[r].touched /\ run'[r].clean = run[r].clean
      /\ run'[r].kind = run[r].kind /\ run'[r].to = run[r].to
      /\ run[r].step = "replace" /\ run'[r].step = "check"
      /\ \A q \in Runners : q # r => run'[q] = run[q]
  BY DEF Replace, TypeOK
<1>2. /\ UNCHANGED <<now, server, saved, gone, ended, upset>>
      /\ corrupt' => corrupt
      /\ ~run[r].dry => ~corrupt'
  BY DEF Replace, kernel
<1>3. /\ \A d \in Entries : crowd'[d] = IF run[r].dry THEN crowd[d]
                                        ELSE IF d \in Listed(run[r].to) THEN now + Timeout ELSE 0
      /\ now \in Nat /\ Timeout \in Nat /\ MaxLag \in Nat /\ run[r].began \in Nat
      /\ \A d \in Entries : gone[d] \in Nat /\ crowd[d] \in Nat
  BY Numbers DEF Replace, Refilled, kernel, TypeOK
<1>4. Timed(r)'
  BY <1>1, <1>2 DEF PInv, Timed, server, Listed
<1>5. Drains'
  <2>1. \A d \in Listed(run[r].to) : d \in Listed(version) \/ run[r].began <= gone[d]
    BY DEF PInv, Timed
  <2>2. now <= run[r].began + MaxLag
    BY <1>1 DEF PInv, Timed
  <2> QED
    BY <1>2, <1>3, <2>1, <2>2 DEF PInv, Drains, server, Listed
<1>6. ASSUME run'[r].clean PROVE CleanOK(r)'
  <2>1. CleanOK(r) /\ run[r].began <= now
    BY <1>1, <1>6 DEF PInv, Timed
  <2>2. run[r].kind # "delta"
    BY <1>1, <2>1 DEF CleanOK
  <2>3. \A s : Listed(s)' = Listed(s)
    BY <1>2 DEF Listed, server
  <2>4. ~run[r].dry => Filled(r, Listed(run[r].to))'
    BY <1>1, <1>2, <1>3, <2>1, <2>3 DEF Filled
  <2>5. upset = 0 => Underway(r)'
    BY <1>1, <1>2, <2>2 DEF Underway
  <2> QED
    BY <1>1, <1>2, <2>1, <2>2, <2>4, <2>5 DEF CleanOK, ByRecord
<1> QED
  BY <1>1, <1>2, <1>4, <1>5, <1>6, StepOnSet

\* Now that something came between, all is to be made good from now on.
LEMMA UpsetNow ==
    ASSUME TypeOK, PInv, UNCHANGED now, upset' = now, ended' \in Nat, ended' <= now,
           saved'.last_full \in Nat, saved'.last_full <= now
    PROVE  Quiet'
<1>1. 0 < now /\ now \in Nat /\ Refresh \in Nat /\ 0 < Refresh /\ MaxLag \in Nat /\ Gap \in Nat
  BY Numbers DEF PInv, Times
<1> QED
  BY <1>1 DEF Quiet, Heals

LEMMA RecordPInv == ASSUME TypeOK, PInv, NEW r \in Runners, Record(r) PROVE PInv'
<1>1. /\ run'[r].began = run[r].began
      /\ run'[r].dry = run[r].dry /\ run'[r].state = Recorded(r) /\ run'[r].now = run[r].now
      /\ ~run'[r].touched /\ run'[r].clean = run[r].clean
      /\ run'[r].kind = run[r].kind /\ run'[r].to = run[r].to
      /\ run[r].step = "record" /\ run'[r].step = "finish"
      /\ \A q \in Runners : q # r => run'[q] = run[q]
  BY DEF Record, TypeOK
<1>2. /\ UNCHANGED <<now, server, kernel, gone, ended>>
      /\ saved' = Recorded(r)
      /\ upset' = IF Settled(r) THEN 0 ELSE IF run[r].dry \/ ~run[r].clean THEN now ELSE upset
  BY DEF Record
<1>3. /\ saved'.snapshot = run[r].to /\ saved'.last_full = LastFull(r)
      /\ LastFull(r) \in {run[r].state.last_full, run[r].now, now}
      /\ run[r].kind = "delta" => LastFull(r) = run[r].state.last_full
      /\ run[r].kind # "delta" => LastFull(r) \in {run[r].now, now}
  BY <1>2 DEF Recorded, LastFull
<1>4. /\ Times /\ Timed(r) /\ Quiet /\ Drains
      /\ run[r].began <= run[r].now /\ run[r].now <= now /\ now <= run[r].began + MaxLag
      /\ ended <= now /\ upset <= now /\ run[r].to <= version /\ run[r].state.last_full <= now
  BY <1>1 DEF PInv, Times, Timed
<1>5. /\ now \in Nat /\ run[r].now \in Nat /\ run[r].began \in Nat /\ LastFull(r) \in Nat
      /\ run[r].state.last_full \in Nat /\ saved.last_full \in Nat /\ ended \in Nat
      /\ upset \in Nat /\ Refresh \in Nat /\ 0 < Refresh /\ MaxLag \in Nat /\ Gap \in Nat
      /\ 0 < Gap /\ Timeout \in Nat /\ (\A e \in Entries : crowd[e] \in Nat)
  BY <1>3, Numbers
<1>6. LastFull(r) <= now /\ (run[r].kind # "delta" => run[r].began <= LastFull(r))
  BY <1>3, <1>4, <1>5
<1>7. Times'
  BY <1>2, <1>3, <1>4, <1>5 DEF Times, server
<1>8. Drains' /\ Timed(r)'
  BY <1>1, <1>2, <1>3, <1>4, <1>6 DEF Drains, Timed, Recorded, kernel, server, Listed
<1>9. ASSUME run[r].clean PROVE run[r].began < LastFull(r) + Refresh /\ run[r].state = saved
  <2>1. CleanOK(r)
    BY <1>1, <1>9 DEF PInv
  <2>2. run[r].kind = "delta" => run[r].began < saved.last_full + Refresh
    BY <1>1, <2>1 DEF CleanOK, ByRecord
  <2>3. run[r].state = saved
    BY <2>1 DEF CleanOK
  <2> QED
    BY <1>3, <1>5, <1>6, <2>2, <2>3
<1>10. Quiet'
  <2>1. CASE Settled(r)
    <3>1. run[r].clean /\ ~run[r].dry /\ run[r].kind # "delta" /\ upset' = 0
      BY <1>2, <2>1 DEF Settled
    <3>2. ~corrupt
      BY <1>1, <3>1 DEF PInv, CleanOK
    <3>3. Active' # {}
      BY <1>1 DEF Active
    <3>4. /\ ended < LastFull(r) + Refresh + MaxLag
          /\ now < LastFull(r) + Refresh + MaxLag + Gap
      BY <1>4, <1>5, <1>6, <3>1
    <3> QED
      BY <1>2, <1>3, <3>1, <3>2, <3>3, <3>4 DEF Quiet, kernel
  <2>2. CASE ~Settled(r) /\ (run[r].dry \/ ~run[r].clean)
    BY <1>2, <1>3, <1>4, <1>5, <1>6, <2>2, UpsetNow
  <2>3. CASE ~Settled(r) /\ ~(run[r].dry \/ ~run[r].clean)
    <3>1. upset' = upset /\ run[r].kind = "delta"
      BY <1>2, <2>3 DEF Settled
    <3>2. saved'.last_full = saved.last_full /\ run[r].began < saved.last_full + Refresh
      BY <1>3, <1>9, <2>3, <3>1
    <3>3. Active' # {}
      BY <1>1 DEF Active
    <3>4. /\ ended < saved.last_full + Refresh + MaxLag
          /\ now < saved.last_full + Refresh + MaxLag + Gap
      BY <1>4, <1>5, <3>2
    <3> QED
      BY <1>2, <1>4, <3>1, <3>2, <3>3, <3>4 DEF Quiet, Heals, kernel
  <2> QED
    BY <2>1, <2>2, <2>3
<1>11. ASSUME run'[r].clean PROVE CleanOK(r)'
  <2>1. CleanOK(r) /\ run[r].clean
    BY <1>1, <1>11 DEF PInv
  <2>2. run'[r].began < saved'.last_full + Refresh
    BY <1>1, <1>3, <1>9, <2>1
  <2>3. \A s : Listed(s)' = Listed(s)
    BY <1>2 DEF Listed, server
  <2>4. ASSUME upset' = 0 PROVE Kept(Listed(saved.snapshot))'
    <3>0. ~run[r].dry
      BY <1>2, <1>4, <2>4 DEF Settled, Times
    <3>1. CASE run[r].kind = "delta"
      <4>1. upset = 0 /\ saved'.last_full = saved.last_full
        BY <1>2, <1>3, <1>9, <2>1, <2>4, <3>0, <3>1 DEF Settled
      <4>2. Kept(Listed(run[r].to))
        BY <1>1, <2>1, <3>0, <3>1, <4>1 DEF CleanOK, Underway
      <4> QED
        BY <1>2, <1>3, <2>3, <4>1, <4>2 DEF Kept, kernel
    <3>2. CASE run[r].kind # "delta"
      <4>1. Filled(r, Listed(run[r].to))
        BY <1>1, <2>1, <3>0, <3>2 DEF CleanOK
      <4>2. \A e \in Entries : IF e \in Listed(run[r].to)
                               THEN LastFull(r) + Timeout <= crowd[e] + MaxLag
                               ELSE crowd[e] <= now
        BY <1>4, <1>5, <1>6, <4>1 DEF Filled
      <4> QED
        BY <1>2, <1>3, <2>3, <4>2 DEF Kept, kernel
    <3> QED
      BY <3>1, <3>2
  <2>5. upset' = 0 => Underway(r)'
    BY <1>1, <2>4 DEF Underway
  <2> QED
    BY <1>1, <1>2, <2>1, <2>2, <2>5 DEF CleanOK
<1> QED
  BY <1>1, <1>2, <1>7, <1>8, <1>10, <1>11, StepOf

LEMMA EndPInv ==
    ASSUME TypeOK, PInv, NEW r \in Runners, Finish(r) \/ Fails(r) \/ StillDamaged(r)
    PROVE  PInv'
<1>1. /\ run'[r] = Idle /\ run[r].step # "idle"
      /\ \A q \in Runners : q # r => run'[q] = run[q]
      /\ UNCHANGED <<now, server, kernel, gone>>
  <2>1. CASE Finish(r)
    BY <2>1 DEF Finish, TypeOK
  <2>2. CASE Fails(r)
    BY <2>2 DEF Fails, TypeOK
  <2>3. CASE StillDamaged(r)
    BY <2>3 DEF StillDamaged, TypeOK
  <2> QED
    BY <2>1, <2>2, <2>3
<1>2. /\ Times /\ Timed(r) /\ Quiet /\ Drains
      /\ now <= run[r].began + MaxLag /\ ended <= now /\ upset <= now
      /\ run[r].state.last_full <= now /\ saved.last_full <= now
  BY <1>1 DEF PInv, Times, Timed, TypeOK
<1>3. /\ now \in Nat /\ run[r].began \in Nat /\ version \in Nat
      /\ run[r].state.last_full \in Nat /\ saved.last_full \in Nat /\ ended \in Nat
      /\ upset \in Nat /\ Refresh \in Nat /\ MaxLag \in Nat
  BY Numbers
<1>4. Drains' /\ Timed(r)'
  <2>1. Drains'
    BY <1>1, <1>2 DEF Drains, kernel, server, Listed
  <2>2. Timed(r)'
    <3>1. /\ run'[r].step = "idle" /\ run'[r].began = 0 /\ run'[r].now = 0 /\ run'[r].to = 0
          /\ run'[r].state.last_full = 0 /\ run'[r].state.snapshot = 0
      BY <1>1 DEF Idle, Never
    <3>2. Listed(0)' = {}
      BY DEF Listed
    <3> QED
      BY <1>1, <1>3, <3>1, <3>2 DEF Timed, server
  <2> QED
    BY <2>1, <2>2
<1>5. Times' /\ Quiet'
  <2>1. CASE Finish(r) /\ run[r].clean
    <3>1. /\ CleanOK(r) /\ run[r].step = "finish"
      BY <1>1, <2>1 DEF PInv, Finish
    <3>2. /\ run[r].state = saved /\ ~run[r].touched
          /\ run[r].began < saved.last_full + Refresh
          /\ upset = 0 => Kept(Listed(saved.snapshot))
      BY <3>1 DEF CleanOK, ByRecord, Underway
    <3>3. UNCHANGED <<saved, upset>> /\ ended' \in {ended, now}
      BY <2>1, <3>2 DEF Finish, Pulled
    <3>4. upset = 0 => Kept(Listed(saved.snapshot))'
      BY <1>1, <3>2, <3>3 DEF Kept, kernel, server, Listed
    <3>5. now < saved.last_full + Refresh + MaxLag
      BY <1>2, <1>3, <3>2
    <3>6. Quiet'
      BY <1>1, <1>2, <1>3, <3>3, <3>4, <3>5 DEF Quiet, Heals, kernel
    <3> QED
      BY <1>1, <1>2, <1>3, <3>3, <3>6 DEF Times, server
  <2>2. CASE Finish(r) /\ ~run[r].clean
    <3>1. saved' = run[r].state /\ upset' = now /\ ended' \in {ended, now}
      BY <2>2 DEF Finish, Pulled
    <3>2. Quiet'
      BY <1>1, <1>2, <1>3, <3>1, UpsetNow
    <3> QED
      BY <1>1, <1>2, <1>3, <3>1, <3>2 DEF Times, Timed, server
  <2>3. CASE StillDamaged(r) \/ (Fails(r) /\ (run[r].touched \/ ~run[r].clean))
    <3>1. UNCHANGED <<saved, ended>> /\ upset' = now
      BY <2>3 DEF StillDamaged, Fails
    <3>2. Quiet'
      BY <1>1, <1>2, <1>3, <3>1, UpsetNow
    <3> QED
      BY <1>1, <1>2, <1>3, <3>1, <3>2 DEF Times, server
  <2>4. CASE Fails(r) /\ ~run[r].touched /\ run[r].clean
    <3>1. UNCHANGED <<saved, ended, upset>>
      BY <2>4 DEF Fails
    <3>2. upset = 0 => Kept(Listed(saved.snapshot))
      BY <1>1, <2>4 DEF PInv, CleanOK, Underway
    <3>3. upset = 0 => Kept(Listed(saved.snapshot))'
      BY <1>1, <3>1, <3>2 DEF Kept, kernel, server, Listed
    <3>4. Quiet'
      BY <1>1, <1>2, <3>1, <3>3 DEF Quiet, Heals, kernel
    <3> QED
      BY <1>1, <1>2, <3>1, <3>4 DEF Times, server
  <2> QED
    BY <2>1, <2>2, <2>3, <2>4
<1>6. run'[r].step = "idle"
  BY <1>1 DEF Idle
<1> QED
  BY <1>1, <1>4, <1>5, <1>6, StepOf

LEMMA BeginPInv == ASSUME TypeOK, PInv, NEW r \in Runners, Begin(r) PROVE PInv'
<1>1. PICK dry \in BOOLEAN :
        run' = [Disturbed EXCEPT ![r] =
                  [Idle EXCEPT !.step = "load", !.began = now, !.dry = dry, !.state = saved,
                               !.clean = (Others(r) = {})]]
  BY DEF Begin
<1>2. run[r].step = "idle" /\ UNCHANGED <<now, server, kernel, saved, gone, ended, upset>>
  BY DEF Begin
<1>3. run'[r] = [Idle EXCEPT !.step = "load", !.began = now, !.dry = dry, !.state = saved,
                             !.clean = (Others(r) = {})]
  BY <1>1, DisturbedTyped
<1>4. /\ run'[r].step = "load" /\ run'[r].began = now /\ run'[r].state = saved
      /\ run'[r].now = 0 /\ run'[r].to = 0 /\ ~run'[r].touched
  BY <1>3 DEF Idle
<1>5. run'[r].clean => Others(r) = {}
  BY <1>3, Zenon DEF Idle
<1>6. ASSUME NEW q \in Runners, q # r
      PROVE  /\ run[q].step = "idle" => run'[q] = run[q]
             /\ run[q].step # "idle" => run'[q] = [run[q] EXCEPT !.clean = FALSE]
  BY <1>1, <1>6, DisturbedTyped
<1>7. Times' /\ Drains'
  BY <1>2 DEF PInv, Times, Drains, server, kernel, Listed
<1>8. Quiet'
  <2>1. Active' # {}
    BY <1>4 DEF Active
  <2> QED
    BY <1>2, <2>1 DEF PInv, Quiet, Heals, kernel
<1>9. Timed(r)'
  <2>1. Listed(0)' = {}
    BY DEF Listed
  <2>2. now \in Nat /\ MaxLag \in Nat /\ version \in Nat /\ saved.last_full <= now
        /\ saved.snapshot <= version
    BY Numbers DEF TypeOK, PInv, Times
  <2> QED
    BY <1>2, <1>4, <2>1, <2>2 DEF Timed, server
<1>10. ASSUME NEW q \in Runners, q # r
       PROVE  Timed(q)' /\ ~(run'[q].step # "idle" /\ run'[q].clean)
  <2>0. Timed(q) /\ run[q] \in Run
    BY DEF PInv, TypeOK
  <2>1. CASE run[q].step = "idle"
    BY <1>2, <1>6, <1>10, <2>0, <2>1 DEF Timed, server, Listed
  <2>2. CASE run[q].step # "idle"
    <3>1. /\ run'[q].step = run[q].step /\ run'[q].began = run[q].began
          /\ run'[q].state = run[q].state /\ run'[q].now = run[q].now
          /\ run'[q].to = run[q].to /\ ~run'[q].clean
      BY <1>6, <1>10, <2>0, <2>2 DEF Run
    <3> QED
      BY <1>2, <2>0, <3>1 DEF Timed, server, Listed
  <2> QED
    BY <2>1, <2>2
<1>11. ASSUME run'[r].clean PROVE CleanOK(r)'
  <2>1. \A q \in Runners : q # r => run[q].step = "idle"
    BY <1>5, <1>11 DEF Others, Active
  <2>2. \A q \in Runners : q # r => run'[q].step = "idle"
    BY <1>6, <2>1
  <2>3. upset = 0 => Kept(Listed(saved.snapshot))
    BY <1>2, <2>1 DEF PInv, Quiet, Active
  <2>4. upset = 0 => Underway(r)'
    BY <1>2, <1>4, <2>3 DEF Underway, Kept, kernel, server, Listed
  <2> QED
    BY <1>2, <1>4, <2>2, <2>4 DEF CleanOK, ByRecord
<1> QED
  BY <1>7, <1>8, <1>9, <1>10, <1>11 DEF PInv

LEMMA PublishPInv == ASSUME TypeOK, PInv, Publish PROVE PInv'
<1>1. /\ version < MaxVersion /\ version' = version + 1
      /\ UNCHANGED <<now, kernel, saved, run, ended, upset>>
  BY DEF Publish
<1>2. /\ \A s \in 0..version : Listed(s)' = Listed(s)
      /\ \A e \in Entries : gone'[e] = IF e \in Listed(version) /\ e \notin Listed(version)'
                                       THEN now ELSE gone[e]
  <2>1. PICK S \in SUBSET Entries :
          /\ feed' = [feed EXCEPT ![version'] = S]
          /\ gone' = [e \in Entries |-> IF e \in Listed(version) \ S THEN now ELSE gone[e]]
    BY DEF Publish
  <2>2. version \in 1..MaxVersion /\ version + 1 \in 1..MaxVersion /\ version + 1 # 0
    BY <1>1, PullAssumption DEF TypeOK
  <2>3. feed'[version + 1] = S /\ \A s \in 1..version : feed'[s] = feed[s]
    BY <1>1, <2>1, <2>2 DEF TypeOK
  <2>4. \A s \in 0..version : Listed(s)' = Listed(s)
    BY <2>2, <2>3 DEF Listed
  <2>5. Listed(version)' = S
    BY <1>1, <2>2, <2>3 DEF Listed
  <2> QED
    BY <2>1, <2>4, <2>5
<1>3. /\ now \in Nat /\ version \in Nat /\ Timeout \in Nat /\ MaxLag \in Nat
      /\ \A e \in Entries : crowd[e] \in Nat /\ gone[e] \in Nat
      /\ saved.snapshot \in 0..version
  BY Numbers DEF PInv, Times
<1>4. Times'
  BY <1>1, <1>2, <1>3 DEF PInv, Times
<1>5. Drains'
  <2>1. Drains
    BY DEF PInv
  <2> QED
    BY <1>1, <1>2, <1>3, <2>1 DEF Drains, kernel
<1>6. \A s \in 0..version : Kept(Listed(s))' <=> Kept(Listed(s))
  BY <1>1, <1>2 DEF Kept, kernel
<1>7. Quiet'
  BY <1>1, <1>3, <1>6 DEF PInv, Quiet, Heals, Active, kernel
<1>8. ASSUME NEW r \in Runners PROVE Timed(r)'
  <2>1. Timed(r) /\ run[r].to \in 0..version /\ run[r].state.snapshot \in Nat
        /\ run[r].began \in Nat
    BY Numbers DEF PInv, Timed
  <2>2. Listed(run[r].to) \in SUBSET Entries
    BY <2>1, <1>1, PullAssumption, ListedTyped DEF TypeOK
  <2>3. \A e \in Listed(run[r].to) : e \in Listed(version)' \/ run[r].began <= gone'[e]
    BY <1>2, <2>1, <2>2 DEF Timed
  <2> QED
    BY <1>1, <1>2, <1>3, <2>1, <2>3 DEF Timed
<1>9. ASSUME NEW r \in Runners, run[r].step # "idle", run[r].clean PROVE CleanOK(r)'
  <2>1. CleanOK(r) /\ run[r].to \in 0..version
    BY <1>9, Numbers DEF PInv, Timed
  <2>2. Listed(run[r].to)' = Listed(run[r].to) /\ Listed(saved.snapshot)' = Listed(saved.snapshot)
    BY <1>1, <1>2, <1>3, <2>1
  <2>3. \A S : (Kept(S)' <=> Kept(S)) /\ (Filled(r, S)' <=> Filled(r, S))
    BY <1>1 DEF Kept, Filled, kernel
  <2>4. Underway(r) => Underway(r)'
    BY <1>1, <2>2, <2>3 DEF Underway
  <2> QED
    BY <1>1, <2>1, <2>2, <2>3, <2>4 DEF CleanOK, ByRecord, kernel
<1> QED
  BY <1>1, <1>4, <1>5, <1>7, <1>8, <1>9 DEF PInv

\* What is done behind the backs of the runs.
LEMMA OutsidePInv == ASSUME TypeOK, PInv, Flush \/ Reboot \/ Corrupt PROVE PInv'
<1>1. /\ UNCHANGED <<now, server, saved, gone, ended>> /\ upset' = now
      /\ \A e \in Entries : crowd'[e] \in {0, crowd[e]}
      /\ run' = Disturbed \/ run' = [r \in Runners |-> Idle]
  BY DEF Flush, Reboot, Corrupt
<1>2. /\ now \in Nat /\ Timeout \in Nat /\ MaxLag \in Nat /\ version \in Nat /\ ended \in Nat
      /\ \A e \in Entries : crowd[e] \in Nat /\ gone[e] \in Nat
      /\ saved.last_full \in Nat /\ saved.last_full <= now
  BY Numbers DEF TypeOK
<1>3. Times' /\ Drains'
  BY <1>1, <1>2 DEF PInv, Times, Drains, server, Listed
<1>4. Quiet'
  BY <1>1, <1>2, UpsetNow DEF PInv, Times
<1>5. ASSUME NEW r \in Runners PROVE Timed(r)' /\ ~(run'[r].step # "idle" /\ run'[r].clean)
  <2>1. Timed(r) /\ run[r] \in Run
    BY DEF PInv, TypeOK
  <2>2. CASE run'[r] = Idle
    <3>1. /\ run'[r].step = "idle" /\ run'[r].began = 0 /\ run'[r].now = 0 /\ run'[r].to = 0
          /\ run'[r].state.last_full = 0 /\ run'[r].state.snapshot = 0
      BY <2>2 DEF Idle, Never
    <3>2. Listed(0)' = {}
      BY DEF Listed
    <3> QED
      BY <1>1, <1>2, <3>1, <3>2 DEF Timed, server
  <2>3. CASE run'[r] = run[r] /\ run[r].step = "idle"
    BY <1>1, <2>1, <2>3 DEF Timed, server, Listed
  <2>4. CASE run'[r] = [run[r] EXCEPT !.clean = FALSE]
    <3>1. /\ run'[r].step = run[r].step /\ run'[r].began = run[r].began
          /\ run'[r].state = run[r].state /\ run'[r].now = run[r].now
          /\ run'[r].to = run[r].to /\ ~run'[r].clean
      BY <2>1, <2>4 DEF Run
    <3> QED
      BY <1>1, <2>1, <3>1 DEF Timed, server, Listed
  <2> QED
    BY <1>1, <2>2, <2>3, <2>4, DisturbedTyped
<1> QED
  BY <1>3, <1>4, <1>5 DEF PInv

LEMMA ClockPInv == ASSUME TypeOK, PInv, Clock PROVE PInv'
<1>1. /\ now' = now + 1 /\ UNCHANGED <<server, kernel, saved, run, gone, ended>>
      /\ upset' = IF now + 1 > ended + Gap THEN now + 1 ELSE upset
      /\ \A r \in Runners : run[r].step # "idle" => now < run[r].began + MaxLag
  BY DEF Clock, Active
<1>2. /\ now \in Nat /\ Timeout \in Nat /\ MaxLag \in Nat /\ version \in Nat /\ ended \in Nat
      /\ \A e \in Entries : crowd[e] \in Nat /\ gone[e] \in Nat
      /\ saved.last_full \in Nat /\ saved.last_full <= now /\ upset \in Nat
      /\ Refresh \in Nat /\ 0 < Refresh /\ Gap \in Nat /\ 0 < Gap
      /\ Times
  BY Numbers DEF TypeOK, PInv
<1>3. Times'
  BY <1>1, <1>2 DEF Times, server
<1>4. Drains'
  BY <1>1, <1>2 DEF PInv, Drains, server, kernel, Listed
<1>5. \A S : Kept(S) => Kept(S)'
  BY <1>1, <1>2 DEF Kept, kernel
<1>6. \A s : Listed(s)' = Listed(s)
  BY <1>1 DEF Listed, server
<1>7. Quiet'
  <2>1. CASE now + 1 > ended + Gap
    BY <1>1, <1>2, <2>1 DEF Quiet, Heals, Times
  <2>2. CASE ~(now + 1 > ended + Gap)
    <3>1. upset' = upset /\ now + 1 <= ended + Gap
      BY <1>1, <1>2, <2>2
    <3>2. Quiet /\ Active' = Active
      BY <1>1 DEF PInv, Active
    <3>3. ASSUME upset = 0
          PROVE  /\ ~corrupt'
                 /\ saved'.snapshot # 0 => /\ ended' < saved'.last_full + Refresh + MaxLag
                                           /\ now' < saved'.last_full + Refresh + MaxLag + Gap
                 /\ Active' = {} => Kept(Listed(saved.snapshot))'
      BY <1>1, <1>2, <1>5, <1>6, <3>1, <3>2, <3>3 DEF Quiet, kernel
    <3>4. ASSUME upset # 0
          PROVE  /\ saved'.last_full <= upset' /\ ended' < upset' + Refresh + MaxLag
                 /\ now' < upset' + Refresh + Gap + MaxLag
      BY <1>1, <1>2, <3>1, <3>2, <3>4 DEF Quiet
    <3> QED
      BY <3>1, <3>3, <3>4 DEF Quiet, Heals
  <2> QED
    BY <2>1, <2>2
<1>8. ASSUME NEW r \in Runners PROVE Timed(r)'
  <2>1. Timed(r) /\ run[r].began \in Nat /\ run[r].now \in Nat /\ run[r].state.last_full \in Nat
    BY Numbers DEF PInv
  <2> QED
    BY <1>1, <1>2, <1>6, <2>1 DEF Timed, server
<1>9. ASSUME NEW r \in Runners, run[r].step # "idle", run[r].clean PROVE CleanOK(r)'
  <2>1. CleanOK(r)
    BY <1>9 DEF PInv
  <2>2. upset' = 0 => upset = 0
    BY <1>1, <1>2
  <2>3. Underway(r) => Underway(r)'
    BY <1>1, <1>5, <1>6 DEF Underway
  <2>4. \A S : Filled(r, S) => Filled(r, S)'
    BY <1>1, <1>2 DEF Filled, kernel
  <2> QED
    BY <1>1, <1>6, <2>1, <2>2, <2>3, <2>4 DEF CleanOK, ByRecord, kernel
<1> QED
  BY <1>1, <1>3, <1>4, <1>7, <1>8, <1>9 DEF PInv

LEMMA StepPInv == TypeOK /\ PInv /\ [Next]_vars => (TypeOK /\ PInv)'
<1> SUFFICES ASSUME TypeOK, PInv, [Next]_vars PROVE (TypeOK /\ PInv)'
  OBVIOUS
<1>1. CASE \E r \in Runners : Step(r)
  <2>1. PICK r \in Runners : Step(r)
    BY <1>1
  <2>2. run[r].state.last_full <= now /\ run[r].now <= now
    BY DEF PInv, Timed
  <2>3. TypeOK'
    BY <2>1, <2>2, RunTypes, BeginTypes, SetTypes, RecordTypes DEF Step
  <2>4. PInv'
    BY <2>1, BeginPInv, DecidePInv, AnswerPInv, BodyPInv, CheckPInv, RemovePInv,
       RemoveFailsPInv, AddPInv, ReplacePInv, RecordPInv, EndPInv DEF Step
  <2> QED
    BY <2>3, <2>4
<1>2. CASE Publish \/ Flush \/ Reboot \/ Corrupt \/ Clock
  BY <1>2, OtherTypes, PublishPInv, OutsidePInv, ClockPInv
<1>3. CASE UNCHANGED vars
  <2>1. TypeOK'
    BY <1>3 DEF vars, server, kernel, TypeOK
  <2>2. PInv'
    BY <1>3
    DEF vars, server, kernel, PInv, Times, Drains, Quiet, Timed, CleanOK, ByRecord, Underway,
        Kept, Filled, Listed, Active, Heals
  <2> QED
    BY <2>1, <2>2
<1> QED
  BY <1>1, <1>2, <1>3 DEF Next

\* Types, for any number of overlapping runs (pull.rs:21-175).
THEOREM TypeCorrect == Spec => []TypeOK
<1> QED
  BY InitTypes, InitPInv, StepPInv, PTL DEF Spec

\* By whatever sequence of deltas and full lists, the kernel's set is the snapshot on record
\* while nothing came between (a failed removal comes between: the code ignores it), as long
\* as the element timeout outlasts the refresh by the gap between two runs and twice
\* the length of one (nft.rs:36-50, pull.rs:44-109).
THEOREM Matches == Spec => []HoldsRecord
<1>1. TypeOK /\ PInv => HoldsRecord
  <2> SUFFICES ASSUME TypeOK, PInv, Active = {}, upset = 0
               PROVE  ~corrupt /\ Live = Listed(saved.snapshot)
    BY DEF HoldsRecord
  <2>1. Quiet /\ Kept(Listed(saved.snapshot)) /\ ~corrupt
    BY DEF PInv, Quiet
  <2>2. saved.snapshot # 0 => now < saved.last_full + Refresh + MaxLag + Gap
    BY <2>1 DEF Quiet
  <2>3. Listed(saved.snapshot) \in SUBSET Entries
    BY ListedTyped DEF TypeOK, FeedCursor
  <2>4. ASSUME NEW e \in Listed(saved.snapshot) PROVE now < crowd[e]
    <3>1. saved.snapshot # 0
      BY <2>4 DEF Listed
    <3>2. saved.last_full + Timeout <= crowd[e] + MaxLag
      BY <2>1, <2>3, <2>4 DEF Kept
    <3>3. e \in Entries
      BY <2>3, <2>4
    <3> QED
      BY <2>2, <3>1, <3>2, <3>3, Numbers
  <2>5. ASSUME NEW e \in Entries, e \notin Listed(saved.snapshot) PROVE ~(crowd[e] > now)
    BY <2>1, <2>5, Numbers DEF Kept
  <2> QED
    BY <2>1, <2>3, <2>4, <2>5, Numbers DEF Live
<1> QED
  BY <1>1, InitTypes, InitPInv, StepPInv, PTL DEF Spec

\* Whatever happens to the set or to a run, a removal that fails unnoticed included, the next
\* full list makes it good, at most a refresh, a gap and a run later (pull.rs:48-58, 74-83).
THEOREM HealsInTime == Spec => []Heals
<1>1. TypeOK /\ PInv => Heals
  BY DEF PInv, Quiet, Heals
<1> QED
  BY <1>1, InitTypes, InitPInv, StepPInv, PTL DEF Spec

\* Even if the sync never works again, an entry that left the feed is out of the kernel a
\* timeout and a run later (pull.rs:48-53).
THEOREM DrainsInTime == Spec => []DrainsWithinADay
<1>1. TypeOK /\ PInv => DrainsWithinADay
  <2> SUFFICES ASSUME TypeOK, PInv, NEW e \in Live, e \notin Listed(version)
               PROVE  now < gone[e] + Timeout + MaxLag
    BY DEF DrainsWithinADay
  <2>1. e \in Entries /\ crowd[e] > now
    BY DEF Live
  <2>2. crowd[e] <= gone[e] + Timeout + MaxLag
    BY <2>1 DEF PInv, Drains
  <2> QED
    BY <2>1, <2>2, Numbers
<1> QED
  BY <1>1, InitTypes, InitPInv, StepPInv, PTL DEF Spec

===============================================================================
