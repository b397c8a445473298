-------------------------------- MODULE Report --------------------------------
(***************************************************************************)
(* minsec-sync report (minsec-sync/src/report.rs, events.rs): a run reads  *)
(* what is new in the daemon's log, past the cursor that was saved, sends  *)
(* it in batches with rising sequence numbers, and saves the cursor when   *)
(* all are accepted.  Runs come from a timer or by hand; they may overlap, *)
(* and the log may be rotated meanwhile.                                   *)
(***************************************************************************)
EXTENDS EventLog, FiniteSets

CONSTANTS
  Runners,   \* what may run minsec-sync at the same time
  MaxClock,  \* bound of the model: the clock shows 1..MaxClock, and may be set back
  MaxSeq,    \* bound of the model: with the server beyond it, no run begins beside another
  SeqJump,   \* SEQ_JUMP
  BatchSize  \* MAX_BATCH_ITEMS

ASSUME ReportAssumption ==
  /\ MaxClock \in Nat \ {0} /\ MaxSeq \in Nat /\ SeqJump \in Nat
  /\ MaxClock <= SeqJump  \* the clock is not set back by a day
  /\ BatchSize \in Nat \ {0}

VARIABLES
  last,     \* the server: the greatest sequence number it accepted
  accepted, \* the server: the bans reported
  saved,    \* state.json
  run,      \* [Runners -> Run], what each run of the program has in memory
  skipped,  \* auxiliary: the bans passed over as unreportable or from before the first run
  missed,   \* auxiliary: the log was rotated while it was read, or a cursor's file removed
  astray    \* auxiliary: the answer to a second attempt was lost, or two runs overlapped

server == <<last, accepted>>
vars == <<log, faults, server, saved, run, skipped, missed, astray>>

Cursor == [ino : Inodes \cup {None}, offset : Nat]
NoCursor == [ino |-> None, offset |-> 0]

\* The saved state, as far as reports go.
State == [next_seq : Nat, cursor : Cursor]

Run == [step : {"idle", "look", "old", "readold", "measure", "read", "submit", "again", "save", "finish"},
        state : State,
        cursor : Cursor,    \* the cursor to save in the end
        found : SUBSET Bans,  \* the bans still to be sent
        seq : Nat]          \* the sequence number of the second attempt

Idle == [step |-> "idle", state |-> [next_seq |-> 0, cursor |-> NoCursor], cursor |-> NoCursor,
         found |-> {}, seq |-> 0]

Greater(a, b) == IF a >= b THEN a ELSE b

Size(i) == IF i = None THEN 0 ELSE Len(text[i])

-----------------------------------------------------------------------------
(* read_new *)

Others(r) == \E s \in Runners \ {r} : run[s].step # "idle"

\* A run begins with the saved state.
Begin(r) ==
  /\ run[r].step = "idle"
  /\ Others(r) => last <= MaxSeq
  /\ run' = [run EXCEPT ![r] = [Idle EXCEPT !.step = "look", !.state = saved]]
  /\ astray' = (astray \/ Others(r))
  /\ UNCHANGED <<log, faults, server, saved, skipped, missed>>

\* inode of events.jsonl: without one there is nothing to report.
Look(r) ==
  LET c == run[r].state.cursor IN
  /\ run[r].step = "look"
  /\ run' = [run EXCEPT
       ![r].step = IF current = None THEN "finish" ELSE IF c.ino = current THEN "measure" ELSE "old",
       ![r].cursor = IF current = None \/ c.ino = current THEN c ELSE [ino |-> current, offset |-> 0]]
  /\ UNCHANGED <<log, faults, server, saved, skipped, missed, astray>>

\* inode of events.jsonl.1: is it the file of the cursor?
LookOld(r) ==
  LET c == run[r].state.cursor IN
  /\ run[r].step = "old"
  /\ run' = [run EXCEPT ![r].step = IF c.ino # None /\ old = c.ino THEN "readold" ELSE "measure"]
  /\ skipped' = IF c.ino = None THEN skipped \cup InFile(old) ELSE skipped
  /\ UNCHANGED <<log, faults, server, saved, missed, astray>>

\* Where the complete lines end that follow the offset.
Complete(i, offset) ==
  IF i = None THEN offset
  ELSE Greater(offset, IF Cut(text[i]) THEN Len(text[i]) - 1 ELSE Len(text[i]))

\* read_bans_from: the bans in those lines, which are in the order of their numbers.
BansFrom(i, offset) ==
  IF i = None THEN {} ELSE {text[i][k].ban : k \in offset+1..Complete(i, offset)} \ {Other}

ReadOld(r) ==
  /\ run[r].step = "readold"
  /\ run' = [run EXCEPT ![r].step = "measure", ![r].found = BansFrom(old, run[r].state.cursor.offset)]
  /\ UNCHANGED <<log, faults, server, saved, skipped, missed, astray>>

\* An offset past the end: the file was replaced.
Measure(r) ==
  /\ run[r].step = "measure"
  /\ run' = [run EXCEPT ![r].step = "read",
                        ![r].cursor.offset = IF @ > Size(current) THEN 0 ELSE @]
  /\ UNCHANGED <<log, faults, server, saved, skipped, missed, astray>>

\* events.jsonl is opened and read, and the bans that cannot be reported are left out: by
\* their age, or the clock having been set back, that may be any of them.
Read(r) ==
  LET start == run[r].cursor.offset
      found == run[r].found \cup BansFrom(current, start)
  IN  /\ run[r].step = "read"
      /\ \E out \in SUBSET found :
           /\ run' = [run EXCEPT ![r].step = IF out = found THEN "finish" ELSE "submit",
                                 ![r].found = found \ out,
                                 ![r].cursor.offset = Complete(current, start)]
           /\ skipped' = skipped \cup out
      /\ UNCHANGED <<log, faults, server, saved, missed, astray>>

-----------------------------------------------------------------------------
(* Sending. *)

\* The batch: the first of what is to be sent.
Chunk(r) == {b \in run[r].found : Cardinality({a \in run[r].found : a < b}) < BatchSize}

Exit(r) == run' = [run EXCEPT ![r] = Idle]

Taken(r, seq) ==
  run' = [run EXCEPT ![r].step = "save", ![r].found = @ \ Chunk(r), ![r].state.next_seq = seq + 1]

\* Mutant: the stored number is not looked at.
NumberByClock(r, now) == now

Number(r, now) == Greater(run[r].state.next_seq, now)

\* Mutant: a duplicate counts as accepted.
NewAnyway(seq) == TRUE

New(seq) == seq > last

\* The server takes a batch with a greater number than all before.
Serve(seq, chunk) ==
  IF seq > last THEN last' = seq /\ accepted' = accepted \cup chunk
  ELSE UNCHANGED server

\* The first attempt, answered; the clock may show any time.
Submit(r) ==
  /\ run[r].step = "submit"
  /\ \E now \in 1..MaxClock :
       LET seq == Number(r, now) IN
       /\ Serve(seq, Chunk(r))
       /\ IF New(seq) THEN Taken(r, seq)
          ELSE run' = [run EXCEPT ![r].step = "again", ![r].seq = seq + SeqJump]
  /\ UNCHANGED <<log, faults, saved, skipped, missed, astray>>

\* The second attempt, with a number a day ahead.
SubmitAgain(r) ==
  /\ run[r].step = "again"
  /\ New(run[r].seq)
  /\ Serve(run[r].seq, Chunk(r))
  /\ Taken(r, run[r].seq)
  /\ UNCHANGED <<log, faults, saved, skipped, missed, astray>>

\* That is a duplicate as well: the run ends.
GiveUp(r) ==
  /\ run[r].step = "again"
  /\ ~New(run[r].seq)
  /\ Exit(r)
  /\ UNCHANGED <<log, faults, server, saved, skipped, missed, astray>>

\* An attempt fails; the server may have had it all the same.
SubmitFails(r) ==
  /\ run[r].step \in {"submit", "again"}
  /\ Fails
  /\ \/ UNCHANGED <<server, astray>>
     \/ /\ \E now \in 1..MaxClock :
             Serve(IF run[r].step = "submit" THEN Number(r, now) ELSE run[r].seq, Chunk(r))
        /\ astray' = (astray \/ run[r].step = "again")
  /\ Exit(r)
  /\ UNCHANGED <<log, saved, skipped, missed>>

\* Mutant: the cursor is saved with each batch.
SaveCursor(r) ==
  /\ run[r].step = "save"
  /\ saved' = [run[r].state EXCEPT !.cursor = run[r].cursor]
  /\ run' = [run EXCEPT ![r].step = IF run[r].found = {} THEN "finish" ELSE "submit"]
  /\ UNCHANGED <<log, faults, server, skipped, missed, astray>>

\* The progress of the sequence numbers is saved after each batch.
Save(r) ==
  /\ run[r].step = "save"
  /\ saved' = run[r].state
  /\ run' = [run EXCEPT ![r].step = IF run[r].found = {} THEN "finish" ELSE "submit"]
  /\ UNCHANGED <<log, faults, server, skipped, missed, astray>>

\* All is accepted: the cursor is saved.
Finish(r) ==
  /\ run[r].step = "finish"
  /\ saved' = [run[r].state EXCEPT !.cursor = run[r].cursor]
  /\ Exit(r)
  /\ UNCHANGED <<log, faults, server, skipped, missed, astray>>

\* A number from a day ahead is spent and not saved yet.
AcceptedAhead(r) == run[r].step = "save" /\ run[r].state.next_seq = run[r].seq + 1

\* The program is stopped, or cannot save its state.
Crash(r) ==
  /\ run[r].step # "idle"
  /\ Fails
  /\ Exit(r)
  /\ astray' = (astray \/ AcceptedAhead(r))
  /\ UNCHANGED <<log, server, saved, skipped, missed>>

-----------------------------------------------------------------------------

\* A run that is between its look at events.jsonl and the end of its reading.
Reading(r) == run[r].step \in {"old", "readold", "measure", "read"}

\* The files that cursors refer to, saved or to be saved.
Followed == {saved.cursor.ino} \cup {run[r].state.cursor.ino : r \in Runners} \cup {run[r].cursor.ino : r \in Runners}

Daemon ==
  /\ LogNext
  /\ missed' = (missed \/ (Rename /\ ((\E r \in Runners : Reading(r)) \/ old \in Followed \ {None})))
  /\ UNCHANGED <<server, saved, run, skipped, astray>>

Init ==
  /\ LogInit
  /\ last = 0 /\ accepted = {}
  /\ saved = [next_seq |-> 0, cursor |-> NoCursor]
  /\ run = [r \in Runners |-> Idle]
  /\ skipped = {} /\ missed = FALSE /\ astray = FALSE

Step(r) ==
  \/ Begin(r)
  \/ Look(r)
  \/ LookOld(r)
  \/ ReadOld(r)
  \/ Measure(r)
  \/ Read(r)
  \/ Submit(r)
  \/ SubmitAgain(r)
  \/ GiveUp(r)
  \/ Save(r)
  \/ Finish(r)

Next ==
  \/ Daemon
  \/ \E r \in Runners : Step(r) \/ SubmitFails(r) \/ Crash(r)

\* The timer starts run after run, and each gets on; a rotation that was begun is ended.
Spec ==
  /\ Init /\ [][Next]_vars
  /\ \A r \in Runners : WF_vars(Step(r))
  /\ WF_vars(Daemon /\ rotating # "no")

-----------------------------------------------------------------------------
(* Properties. *)

TypeOK ==
  /\ LogTypeOK
  /\ last \in Nat /\ accepted \subseteq Bans
  /\ saved \in State /\ run \in [Runners -> Run]
  /\ skipped \subseteq Bans /\ missed \in BOOLEAN /\ astray \in BOOLEAN

\* The bans that are still to be read with a cursor.
Ahead(c) ==
  IF c.ino = None THEN Logged
  ELSE IF c.ino = current THEN BansFrom(current, c.offset)
  ELSE IF c.ino = old THEN BansFrom(old, c.offset) \cup InFile(current)
  ELSE InFile(current)

\* The saved cursor never passes a ban that the server has not accepted, whatever fails
\* and however runs overlap: a ban in the log is accepted, left out, or still to be read.
\* Not so if the log was rotated while it was read, or twice between two runs.
NothingLost == missed \/ Logged \subseteq accepted \cup skipped \cup Ahead(saved.cursor)

\* A run gives up over its sequence numbers only if the answer to a number from a day
\* ahead was lost, or runs overlapped: one lost answer, a crash, or a clock set back by less than a
\* day never keeps the next run from getting through.
GetsThrough == [][\A r \in Runners : GiveUp(r) => astray]_vars

\* The log has no current file, and the daemon is not about to make one.
Headless == current = None /\ rotating # "open"

\* When there are no more bans, rotations and failures, every ban in the log comes to be
\* reported or left out.
BansArrive == <>[](Logged \subseteq accepted \cup skipped \/ missed \/ astray \/ Headless)

-----------------------------------------------------------------------------

\* "re-sending events is harmless (...), losing them is not" (report.rs:9-11): the same
\* of a log that is rotated whenever it is full.
NoneEverLost == Logged \subseteq accepted \cup skipped \cup Ahead(saved.cursor)
=============================================================================
