--------------------------------- MODULE Pull ---------------------------------
(***************************************************************************)
(* minsec-sync pull (minsec-sync/src/pull.rs, nft.rs): a run brings the    *)
(* crowd set of a family in the kernel to the server's feed, by a full     *)
(* list or by what changed since the snapshot on record.  Elements time    *)
(* out in the kernel; a full list is due when the last is old enough.      *)
(* Runs come from a timer or by hand; they may overlap, fail at any step,  *)
(* or be dry, and the set may be changed behind their backs.               *)
(***************************************************************************)
EXTENDS Integers, FiniteSets

CONSTANTS
  Entries,     \* what a feed may list
  Runners,     \* what may run minsec-sync at the same time
  Refresh,     \* FULL_REFRESH_SECS
  Timeout,     \* CROWD_TIMEOUT
  Gap,         \* the longest time between the ends of two runs in a sync that works
  MaxLag,      \* bound of the model: how long a run may take
  MaxVersion,  \* bound of the model: how many snapshots there are
  MaxClock,    \* bound of the model
  MaxFaults    \* bound of the model: failures, dry runs, overlaps and changes from outside

ASSUME PullAssumption ==
  /\ Refresh \in Nat \ {0} /\ Gap \in Nat \ {0} /\ MaxLag \in Nat
  /\ Timeout \in Nat /\ Timeout >= Refresh + Gap + 2 * MaxLag
  /\ MaxVersion \in Nat \ {0} /\ MaxClock \in Nat /\ MaxFaults \in Nat

VARIABLES
  now,      \* the clock
  version,  \* the server: its latest snapshot
  feed,     \* the server: [1..MaxVersion -> SUBSET Entries]
  crowd,    \* the kernel: [Entries -> Nat], when the element times out, 0 if there is none
  corrupt,  \* the kernel: the set holds a range that nobody added
  saved,    \* state.json
  run,      \* [Runners -> Run], what each run of the program has in memory
  faults,   \* how many faults there have been
  gone,     \* auxiliary: [Entries -> Nat], when the entry was last taken from the feed
  ended,    \* auxiliary: when the last run ended well
  upset     \* auxiliary: when something last came between the record and the set, 0 if
            \* nothing did since the last full list

server == <<version, feed>>
kernel == <<crowd, corrupt>>
vars == <<now, server, kernel, saved, run, faults, gone, ended, upset>>

\* The record of a feed; the etag goes with the snapshot.
FeedCursor == [snapshot : 0..MaxVersion, last_full : Nat]

Run == [step : {"idle", "load", "ask", "full", "remove", "replace", "check", "record", "finish"},
        began : Nat,
        dry : BOOLEAN,
        state : FeedCursor,
        now : Nat,                 \* the time the run works with
        kind : {"delta", "full", "forced"},
        to : 0..MaxVersion,        \* the snapshot received
        removed : SUBSET Entries,  \* the entries still to be removed
        touched : BOOLEAN,         \* auxiliary: the set was changed and that is not on record
        clean : BOOLEAN]           \* auxiliary: nothing else touched record or set meanwhile,
                                   \* and no removal failed

Never == [snapshot |-> 0, last_full |-> 0]

Idle == [step |-> "idle", began |-> 0, dry |-> FALSE, state |-> Never, now |-> 0, kind |-> "full",
         to |-> 0, removed |-> {}, touched |-> FALSE, clean |-> TRUE]

Listed(s) == IF s = 0 THEN {} ELSE feed[s]

\* What the kernel's set matches.
Live == {e \in Entries : crowd[e] > now}

Active == {r \in Runners : run[r].step # "idle"}

\* Something comes between the runs there are and their record.
Disturbed == [r \in Runners |-> IF run[r].step = "idle" THEN run[r] ELSE [run[r] EXCEPT !.clean = FALSE]]

Fault == faults < MaxFaults /\ faults' = faults + 1

-----------------------------------------------------------------------------
(* A run. *)

Others(r) == Active \ {r}

\* A run begins with the saved state; it may be dry.
Begin(r) ==
  /\ run[r].step = "idle"
  /\ \E dry \in BOOLEAN :
       /\ IF dry \/ Others(r) # {} THEN Fault ELSE UNCHANGED faults
       /\ run' = [Disturbed EXCEPT ![r] =
            [Idle EXCEPT !.step = "load", !.began = now, !.dry = dry, !.state = saved,
                         !.clean = (Others(r) = {})]]
  /\ UNCHANGED <<now, server, kernel, saved, gone, ended, upset>>

\* A full list is due when the last is old.
Due(cur, t) == t - cur.last_full >= Refresh

Decide(r) ==
  /\ run[r].step = "load"
  /\ run' = [run EXCEPT ![r].step = IF Due(run[r].state, now) THEN "full" ELSE "ask", ![r].now = now]
  /\ UNCHANGED <<now, server, kernel, saved, faults, gone, ended, upset>>

\* The server has nothing new.
NotModified(r) ==
  /\ run[r].step = "ask"
  /\ run[r].state.snapshot = version
  /\ run' = [run EXCEPT ![r].step = "finish"]
  /\ UNCHANGED <<now, server, kernel, saved, faults, gone, ended, upset>>

\* It answers with the changes since the snapshot on record, or with its whole list.
Body(r) ==
  /\ run[r].step = "ask"
  /\ run[r].state.snapshot # version
  /\ \/ run' = [run EXCEPT ![r].step = "remove", ![r].kind = "delta", ![r].to = version,
                           ![r].removed = Listed(run[r].state.snapshot) \ Listed(version)]
     \/ run' = [run EXCEPT ![r].step = "replace", ![r].kind = "full", ![r].to = version]
  /\ UNCHANGED <<now, server, kernel, saved, faults, gone, ended, upset>>

\* fetch_full: the whole list, asked for without conditions.
FetchFull(r) ==
  /\ run[r].step = "full"
  /\ run' = [run EXCEPT ![r].step = "replace", ![r].kind = "forced", ![r].to = version]
  /\ UNCHANGED <<now, server, kernel, saved, faults, gone, ended, upset>>

-----------------------------------------------------------------------------
(* The kernel's set. *)

\* What adding leaves: an element that is there keeps its timeout.
With(S) == [e \in Entries |-> IF e \in S \ Live THEN now + Timeout ELSE crowd[e]]

\* Mutant: the set is not flushed.
RefilledOver(S) == With(S)

\* Mutant: nor that, and the elements that are there get a new timeout as well.
RefilledAll(S) == [e \in Entries |-> IF e \in S \cup Live THEN now + Timeout ELSE 0]

\* The set is flushed and filled.
Refilled(S) == [e \in Entries |-> IF e \in S THEN now + Timeout ELSE 0]

\* The removals of a delta, one at a time; what is not there is not missed.
RemoveOne(r) ==
  /\ run[r].step = "remove"
  /\ \E e \in run[r].removed :
       /\ crowd' = IF run[r].dry THEN crowd ELSE [crowd EXCEPT ![e] = 0]
       /\ run' = [run EXCEPT ![r].removed = @ \ {e}, ![r].touched = TRUE]
  /\ UNCHANGED <<now, server, corrupt, saved, faults, gone, ended, upset>>

\* A removal fails, and nobody notices: the element stays, and the delta goes on record.
RemoveFails(r) ==
  /\ run[r].step = "remove"
  /\ ~run[r].dry
  /\ Fault
  /\ \E e \in run[r].removed :
       run' = [run EXCEPT ![r].removed = @ \ {e}, ![r].touched = TRUE, ![r].clean = FALSE]
  /\ UNCHANGED <<now, server, kernel, saved, gone, ended, upset>>

\* What a delta adds.
Added(r) == Listed(run[r].to) \ Listed(run[r].state.snapshot)

Add(r) ==
  /\ run[r].step = "remove" /\ run[r].removed = {}
  /\ crowd' = IF run[r].dry THEN crowd ELSE With(Added(r))
  /\ run' = [run EXCEPT ![r].step = "check", ![r].touched = TRUE]
  /\ UNCHANGED <<now, server, corrupt, saved, faults, gone, ended, upset>>

\* The additions fail, or the look at the set after them: a full list is fetched instead.
DeltaFails(r) ==
  /\ \/ run[r].step = "remove" /\ run[r].removed = {}
     \/ run[r].step = "check" /\ run[r].kind = "delta"
  /\ ~run[r].dry
  /\ Fault
  /\ run' = [run EXCEPT ![r].step = "full"]
  /\ UNCHANGED <<now, server, kernel, saved, gone, ended, upset>>

Replace(r) ==
  /\ run[r].step = "replace"
  /\ IF run[r].dry THEN UNCHANGED kernel
     ELSE crowd' = Refilled(Listed(run[r].to)) /\ corrupt' = FALSE
  /\ run' = [run EXCEPT ![r].step = "check", ![r].touched = TRUE]
  /\ UNCHANGED <<now, server, saved, faults, gone, ended, upset>>

\* check_nets finds nothing wrong; a dry run does not look.
Checked(r) ==
  /\ run[r].step = "check"
  /\ corrupt => run[r].dry
  /\ run' = [run EXCEPT ![r].step = "record"]
  /\ UNCHANGED <<now, server, kernel, saved, faults, gone, ended, upset>>

\* It finds a range that nobody added.
Damaged(r) ==
  /\ run[r].step = "check" /\ run[r].kind = "delta"
  /\ corrupt /\ ~run[r].dry
  /\ run' = [run EXCEPT ![r].step = "full"]
  /\ UNCHANGED <<now, server, kernel, saved, faults, gone, ended, upset>>

-----------------------------------------------------------------------------
(* The record. *)

\* When the last full list was: before it was asked for, or after it was applied.
LastFull(r) ==
  IF run[r].kind = "delta" THEN run[r].state.last_full
  ELSE IF run[r].kind = "full" THEN run[r].now
  ELSE now

Recorded(r) == [snapshot |-> run[r].to, last_full |-> LastFull(r)]

\* Whether the record and the set go together again.
Settled(r) == run[r].kind # "delta" /\ run[r].clean /\ ~run[r].dry

Record(r) ==
  /\ run[r].step = "record"
  /\ saved' = Recorded(r)
  /\ run' = [run EXCEPT ![r].step = "finish", ![r].state = Recorded(r), ![r].touched = FALSE]
  /\ upset' = IF Settled(r) THEN 0 ELSE IF run[r].dry \/ ~run[r].clean THEN now ELSE upset
  /\ UNCHANGED <<now, server, kernel, faults, gone, ended>>

\* Mutant: a pull that reached the server counts as a full one.
PulledFull(r) == [run[r].state EXCEPT !.last_full = now]

\* What a run leaves on record in the end.
Pulled(r) == run[r].state

Finish(r) ==
  /\ run[r].step = "finish"
  /\ saved' = Pulled(r)
  /\ run' = [run EXCEPT ![r] = Idle]
  /\ ended' = IF run[r].dry THEN ended ELSE now
  /\ upset' = IF run[r].clean THEN upset ELSE now
  /\ UNCHANGED <<now, server, kernel, faults, gone>>

\* A run is stopped, or a request, a command or a save fails that it does not survive; so
\* does the look at a set that was just replaced.
Fails(r) ==
  /\ run[r].step # "idle"
  /\ Fault
  /\ run' = [run EXCEPT ![r] = Idle]
  /\ upset' = IF run[r].touched \/ ~run[r].clean THEN now ELSE upset
  /\ UNCHANGED <<now, server, kernel, saved, gone, ended>>

\* Damage that a full list did not clear.
StillDamaged(r) ==
  /\ run[r].step = "check" /\ run[r].kind # "delta"
  /\ corrupt /\ ~run[r].dry
  /\ run' = [run EXCEPT ![r] = Idle]
  /\ upset' = now
  /\ UNCHANGED <<now, server, kernel, saved, faults, gone, ended>>

-----------------------------------------------------------------------------
(* Everything else. *)

Publish ==
  /\ version < MaxVersion
  /\ version' = version + 1
  /\ \E S \in SUBSET Entries :
       /\ feed' = [feed EXCEPT ![version'] = S]
       /\ gone' = [e \in Entries |-> IF e \in Listed(version) \ S THEN now ELSE gone[e]]
  /\ UNCHANGED <<now, kernel, saved, run, faults, ended, upset>>

\* The set is emptied by hand.
Flush ==
  /\ Fault
  /\ crowd' = [e \in Entries |-> 0] /\ corrupt' = FALSE
  /\ run' = Disturbed /\ upset' = now
  /\ UNCHANGED <<now, server, saved, gone, ended>>

\* The host is started again: the set is empty and no run survives.
Reboot ==
  /\ Fault
  /\ crowd' = [e \in Entries |-> 0] /\ corrupt' = FALSE
  /\ run' = [r \in Runners |-> Idle]
  /\ upset' = now
  /\ UNCHANGED <<now, server, saved, gone, ended>>

\* An interval set is damaged by the kernel.
Corrupt ==
  /\ Fault
  /\ Live # {}
  /\ corrupt' = TRUE
  /\ run' = Disturbed /\ upset' = now
  /\ UNCHANGED <<now, server, crowd, saved, gone, ended>>

\* If no run ends well for longer than Gap, the sync does not work.
Clock ==
  /\ now < MaxClock
  /\ \A r \in Active : now < run[r].began + MaxLag
  /\ now' = now + 1
  /\ upset' = IF now' > ended + Gap THEN now' ELSE upset
  /\ UNCHANGED <<server, kernel, saved, run, faults, gone, ended>>

Init ==
  /\ now = Refresh
  /\ version = 1
  /\ feed \in {[v \in 1..MaxVersion |-> IF v = 1 THEN S ELSE {}] : S \in SUBSET Entries}
  /\ crowd = [e \in Entries |-> 0] /\ corrupt = FALSE
  /\ saved = Never
  /\ run = [r \in Runners |-> Idle]
  /\ faults = 0
  /\ gone = [e \in Entries |-> 0] /\ ended = Refresh
  /\ upset = 0

Step(r) ==
  \/ Begin(r)
  \/ Decide(r)
  \/ NotModified(r)
  \/ Body(r)
  \/ FetchFull(r)
  \/ RemoveOne(r)
  \/ RemoveFails(r)
  \/ Add(r)
  \/ DeltaFails(r)
  \/ Replace(r)
  \/ Checked(r)
  \/ Damaged(r)
  \/ StillDamaged(r)
  \/ Record(r)
  \/ Finish(r)
  \/ Fails(r)

Next ==
  \/ \E r \in Runners : Step(r)
  \/ Publish
  \/ Flush
  \/ Reboot
  \/ Corrupt
  \/ Clock

Spec == Init /\ [][Next]_vars

-----------------------------------------------------------------------------
(* Properties. *)

TypeOK ==
  /\ now \in Nat /\ version \in 1..MaxVersion /\ feed \in [1..MaxVersion -> SUBSET Entries]
  /\ crowd \in [Entries -> Nat] /\ corrupt \in BOOLEAN
  /\ saved \in FeedCursor /\ saved.last_full <= now
  /\ run \in [Runners -> Run]
  /\ faults \in 0..MaxFaults
  /\ gone \in [Entries -> Nat] /\ ended \in Nat /\ upset \in Nat

\* As long as runs end well in time and nothing comes between, the kernel matches exactly
\* the snapshot on record: no element times out, none is left over, by whatever sequence of
\* deltas and lists it got there.  A removal that fails counts as coming between: the code
\* ignores it and puts the delta on record with the element left over.
HoldsRecord == Active = {} /\ upset = 0 => ~corrupt /\ Live = Listed(saved.snapshot)

\* Whatever came between, flush, reboot, damage, a crash half way, a failed removal, a dry
\* run or an overlap, is made good by the next full list, and that is not long in coming.
Heals == upset # 0 => now < upset + Refresh + Gap + MaxLag

\* An entry that was taken from the feed is enforced for a day at most, whether or not the
\* sync works.
DrainsWithinADay ==
  \A e \in Live : e \in Listed(version) \/ now < gone[e] + Timeout + MaxLag

=============================================================================
