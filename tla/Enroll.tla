-------------------------------- MODULE Enroll --------------------------------
(***************************************************************************)
(* How minsec-sync gets its identity at the server and keeps it            *)
(* (minsec-sync/src/main.rs, client.rs): the runs of the program, the      *)
(* server's list of known keys, and the files of SyncStore.  What a report *)
(* and a pull do besides belongs to Report and Pull; here they load and    *)
(* save the state.                                                         *)
(***************************************************************************)
EXTENDS SyncStore, FiniteSets

CONSTANTS MaxKeys,     \* bound: keys ever made
          MaxFaults,   \* bound: crashes, lost messages, lost state files
          MaxEdits     \* bound: changes of the install token

ASSUME EnrollAssumption == MaxKeys \in Nat /\ MaxFaults \in Nat /\ MaxEdits \in Nat

VARIABLES
    run,        \* per process: where it is and what it has in memory
    token,      \* the configured install token: none, one the server takes, or not
    known,      \* the keys the server has enrolled
    made,       \* keys made so far
    faults, edits,
    joins       \* auxiliary: keys given up for a join since the saved host id had its key

vars == <<disk, fd, run, token, known, made, faults, edits, joins>>
env  == <<token, known, made, faults, edits, joins>>

Idle == [pc |-> "idle", id |-> 0, joined |-> FALSE, key |-> 0, token |-> "none",
         joining |-> FALSE, attempt |-> 0, file |-> "state", next |-> "idle"]

Init ==
    /\ StoreInit
    /\ run = [r \in Runners |-> Idle]
    /\ token = "none"
    /\ known = {}
    /\ made = 0
    /\ faults = 0
    /\ edits = 0
    /\ joins = 0

Saved == disk["state"]
Key   == disk["key"]

At(r, pc) == run[r].pc = pc

\* The process goes on at `pc`, with changes to what it has in memory.
Goes(r, pc) == run' = [run EXCEPT ![r].pc = pc]

\* It writes `file`, and goes on at `next`.
Writes(r, file, next) ==
    run' = [run EXCEPT ![r].pc = "create", ![r].file = file, ![r].next = next]

-----------------------------------------------------------------------------
(* A run of the program.                                                   *)

\* Mutant: or each time.
JoiningAgain == Saved.id # 0 /\ token # "none"

\* An anonymous enrollment is given up once there is a token to enroll with.
Joining == Saved.id # 0 /\ token # "none" /\ ~Saved.joined

\* An unreadable state file ends every command here.
Load(r, pc) ==
    /\ At(r, "idle")
    /\ Readable("state")
    /\ run' = [run EXCEPT ![r] = [Idle EXCEPT !.pc = pc, !.id = Saved.id,
                                  !.joined = Saved.joined, !.token = token,
                                  !.joining = Joining]]
    /\ UNCHANGED <<disk, fd, env>>

\* `run` enrolls unless that is done, then reports and pulls; the others do what
\* they are called.
BeginRun(r)    == Load(r, IF Saved.id # 0 /\ ~Joining THEN "sign" ELSE "key")
BeginReport(r) == Load(r, "sign")

\* A pull needs no identity.  What it saves is the state it has loaded.
BeginPull(r) ==
    /\ At(r, "idle")
    /\ Readable("state")
    /\ run' = [run EXCEPT ![r] = [Idle EXCEPT !.pc = "create", !.id = Saved.id,
                                  !.joined = Saved.joined, !.token = token]]
    /\ UNCHANGED <<disk, fd, env>>

\* load_or_create: an unreadable key file is an error.
LoadKey(r, pc, next) ==
    /\ At(r, pc)
    /\ \/ /\ Present("key")
          /\ run' = [run EXCEPT ![r].pc = next, ![r].key = Key.id]
       \/ /\ Key.is = "absent"
          /\ Writes(r, "key", next)
       \/ /\ ~Readable("key")
          /\ Goes(r, "idle")
    /\ UNCHANGED <<disk, fd, env>>

\* Mutant: a host that joins gives its key up before the server has seen the token.
LoadKeyAndRotate(r) == LoadKey(r, "key", IF run[r].joining THEN "rotate" ELSE "challenge")

LoadEnrollKey(r) == LoadKey(r, "key", "challenge")

LoadReportKey(r) == LoadKey(r, "sign", "submit")

-----------------------------------------------------------------------------
(* Writing a file, the same for both.                                      *)

Create(r) ==
    /\ At(r, "create")
    /\ run[r].file = "key" => made < MaxKeys
    /\ CreateTmp(r, run[r].file)
    /\ IF run[r].file = "key"
       THEN /\ made' = made + 1
            /\ run' = [run EXCEPT ![r].pc = "write", ![r].key = made + 1]
       ELSE /\ Goes(r, "write")
            /\ UNCHANGED made
    /\ UNCHANGED <<token, known, faults, edits, joins>>

\* Mutant: the host id is not saved.
ContentWithoutId(r) ==
    IF run[r].file = "key" THEN Whole(run[r].key, FALSE) ELSE Whole(0, run[r].joined)

\* The seed of the new key, or the state in memory.
Content(r) ==
    IF run[r].file = "key" THEN Whole(run[r].key, FALSE) ELSE Whole(run[r].id, run[r].joined)

Write(r) ==
    /\ At(r, "write")
    /\ WriteTmp(r, run[r].file, Content(r))
    /\ Goes(r, "rename")
    /\ UNCHANGED env

\* Another process may have renamed the file already; that is an error.
Rename(r) ==
    /\ At(r, "rename")
    /\ IF CanRename(run[r].file)
       THEN /\ RenameTmp(r, run[r].file)
            /\ Goes(r, run[r].next)
       ELSE /\ Close(r)
            /\ Goes(r, "idle")
            /\ UNCHANGED disk
    /\ joins' = IF disk'["state"].id = disk'["key"].id THEN 0 ELSE joins
    /\ UNCHANGED <<token, known, made, faults, edits>>

-----------------------------------------------------------------------------
(* Enrollment.                                                             *)

\* The challenge: the server takes the token, if there is one.  A host that joins
\* now gives up its host id, in memory.
Challenge(r) ==
    /\ At(r, "challenge")
    /\ run[r].token = "none" \/ token = "good"
    /\ IF run[r].joining /\ run[r].attempt = 0
       THEN /\ run' = [run EXCEPT ![r].pc = "rotate", ![r].id = 0, ![r].next = "enroll"]
            /\ joins' = IF joins < 2 THEN joins + 1 ELSE joins
       ELSE /\ Goes(r, "enroll")
            /\ UNCHANGED joins
    /\ UNCHANGED <<disk, fd, token, known, made, faults, edits>>

TokenRefused(r) ==
    /\ At(r, "challenge") \/ At(r, "enroll")
    /\ run[r].token # "none" /\ token # "good"
    /\ Goes(r, "idle")
    /\ UNCHANGED <<disk, fd, env>>

\* The key goes aside; that there is none is no error.
Rotate(r) ==
    /\ At(r, "rotate")
    /\ IF Key.is # "absent" THEN Moved("key", "key.old") ELSE UNCHANGED <<disk, fd>>
    /\ Writes(r, "key", run[r].next)
    /\ UNCHANGED env

ServerTakes(r) ==
    /\ At(r, "enroll")
    /\ run[r].token = "none" \/ token = "good"
    /\ run[r].key \notin known
    /\ known' = known \cup {run[r].key}

Enrolled(r) ==
    /\ ServerTakes(r)
    /\ run' = [run EXCEPT ![r].pc = "create", ![r].file = "state", ![r].next = "sign",
                          ![r].id = run[r].key, ![r].joined = run[r].token # "none"]
    /\ UNCHANGED <<disk, fd, token, made, faults, edits, joins>>

\* Mutant: that is an error like others.
AlreadyEnrolledFails(r) ==
    /\ At(r, "enroll")
    /\ run[r].key \in known
    /\ Goes(r, "idle")
    /\ UNCHANGED <<disk, fd, env>>

\* The key is known and the host id is not: a new key, once.
AlreadyEnrolled(r) ==
    /\ At(r, "enroll")
    /\ run[r].key \in known
    /\ IF run[r].attempt = 0
       THEN run' = [run EXCEPT ![r].pc = "rotate", ![r].attempt = 1, ![r].next = "challenge"]
       ELSE Goes(r, "idle")
    /\ UNCHANGED <<disk, fd, env>>

\* A report is signed with the key on disk, for the host id in memory.
Submit(r) ==
    /\ At(r, "submit")
    /\ IF run[r].id # 0 /\ run[r].key = run[r].id
       THEN Writes(r, "state", "idle")
       ELSE Goes(r, "idle")
    /\ UNCHANGED <<disk, fd, env>>

-----------------------------------------------------------------------------
(* What goes wrong.                                                        *)

Fault ==
    /\ faults < MaxFaults
    /\ faults' = faults + 1

\* The process dies, or a request is lost or refused.
Dies(r) ==
    /\ ~At(r, "idle")
    /\ Fault
    /\ Goes(r, "idle")
    /\ Close(r)
    /\ UNCHANGED <<disk, token, known, made, edits, joins>>

AnswerLost(r) ==
    /\ ServerTakes(r)
    /\ Fault
    /\ Goes(r, "idle")
    /\ UNCHANGED <<disk, fd, token, made, edits, joins>>

StateLost ==
    /\ Fault
    /\ Saved.is # "absent"
    /\ disk' = [disk EXCEPT !["state"] = Absent]
    /\ fd' = [r \in Runners |-> IF fd[r] = "state" THEN "none" ELSE fd[r]]
    /\ UNCHANGED <<run, token, known, made, edits, joins>>

\* The administrator sets or removes the token; the server stops taking it.
Edit ==
    /\ edits < MaxEdits
    /\ edits' = edits + 1
    /\ \E t \in {"none", "good", "bad"} \ {token} : token' = t
    /\ UNCHANGED <<disk, fd, run, known, made, faults, joins>>

-----------------------------------------------------------------------------
Step(r) ==
    \/ LoadEnrollKey(r) \/ LoadReportKey(r)
    \/ Create(r) \/ Write(r) \/ Rename(r)
    \/ Challenge(r) \/ TokenRefused(r) \/ Rotate(r) \/ Enrolled(r) \/ AlreadyEnrolled(r)
    \/ Submit(r)

Next ==
    \/ \E r \in Runners :
        \/ BeginRun(r) \/ BeginReport(r) \/ BeginPull(r)
        \/ Step(r)
        \/ Dies(r) \/ AnswerLost(r)
    \/ StateLost \/ Edit

\* The timer starts a run every hour, whatever else is started by hand, and a run
\* gets on.
Spec ==
    /\ Init
    /\ [][Next]_vars
    /\ \A r \in Runners : SF_vars(BeginRun(r)) /\ WF_vars(Step(r))

-----------------------------------------------------------------------------
File == [is : {"absent", "empty", "mixed", "whole"}, id : 0 .. MaxKeys, joined : BOOLEAN]

TypeOK ==
    /\ disk \in [Names -> File]
    /\ fd \in [Runners -> Names \cup {"none"}]
    /\ run \in [Runners ->
         [pc : {"idle", "key", "challenge", "rotate", "create", "write", "rename",
                "enroll", "sign", "submit"},
          id : 0 .. MaxKeys, joined : BOOLEAN, key : 0 .. MaxKeys,
          token : {"none", "good", "bad"}, joining : BOOLEAN, attempt : {0, 1},
          file : Targets, next : {"idle", "challenge", "enroll", "sign", "submit"}]]
    /\ token \in {"none", "good", "bad"}
    /\ known \subseteq 0 .. MaxKeys
    /\ made \in 0 .. MaxKeys
    /\ faults \in 0 .. MaxFaults
    /\ edits \in 0 .. MaxEdits
    /\ joins \in 0 .. 2

\* The saved host id belongs to the key on disk.  While a host joins an
\* organization its key is still there as key.old; only a second join that fails
\* loses it.  A token that is refused costs nothing (main.rs:162-181).
KeyIsOurs ==
    Present("state") /\ Saved.id # 0 =>
        \/ Saved.id = Key.id
        \/ joins = 1 /\ Saved.id = disk["key.old"].id
        \/ joins = 2

\* A host enrolled with a token is never enrolled again, unless its state is lost
\* (state.rs:40-43, main.rs:162-171).
NeverInALoop ==
    [][Saved.joined /\ disk'["state"].id # Saved.id => disk'["state"].is = "absent"]_vars

\* Each failure leaves at most one identity behind at the server, and so does each
\* token (main.rs:213-218).
FewGhosts == Cardinality(known) <= 1 + faults + edits

\* A join died after it had put the old key aside (main.rs:177-180), and the token was
\* then removed: the host id on disk has a key that is not its own, and enroll takes the
\* host for enrolled and returns early (main.rs:164-169), so nothing ever mends it.
Stranded == token = "none" /\ Saved.id # 0 /\ Saved.id # Key.id

\* It is enrolled with the key it has, and with the token if it has one.
Settled ==
    /\ Saved.id # 0
    /\ Saved.id = Key.id
    /\ token # "none" => Saved.joined

\* However the runs fail, the host ends up enrolled, with the key it has, and with
\* the token if it has one.  There are two exceptions: a token that the server refuses,
\* and a host that a join has left stranded.
EnrollsInTheEnd == <>[](Settled \/ token = "bad" \/ Stranded)

\* The state is written atomically, as state.rs:3 says, and so is the key (key.rs:2):
\* whenever a process looks or dies, it is whole or not there (state.rs:91-98).
WrittenAtomically == Readable("state") /\ Readable("key")
=============================================================================
