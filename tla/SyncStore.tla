------------------------------ MODULE SyncStore ------------------------------
(***************************************************************************)
(* The state directory of minsec-sync (minsec-sync/src/state.rs,           *)
(* minsec-proto/src/key.rs): a state file and a key file, each written to  *)
(* a temporary file of a fixed name that is then renamed.  Processes share *)
(* the names; a process that writes keeps its file whatever becomes of the *)
(* name.                                                                   *)
(***************************************************************************)
EXTENDS Naturals

CONSTANTS Runners     \* processes of minsec-sync

VARIABLES
    disk,     \* what the files of the directory hold, by name
    fd        \* per process, the name by which its open file goes now

Targets == {"state", "key"}

\* Mutant: none, the file is written in place.
TmpNone(f) == f

Tmp(f) == IF f = "state" THEN "state.tmp" ELSE "key.tmp"

Names == {"state", "state.tmp", "key", "key.tmp", "key.old"}

\* A key is a number; the host id a server gives for it is the same number, and
\* zero is no host id.  `joined` is token_enrolled of a state.
Absent == [is |-> "absent", id |-> 0, joined |-> FALSE]
Empty  == [is |-> "empty",  id |-> 0, joined |-> FALSE]
Mixed  == [is |-> "mixed",  id |-> 0, joined |-> FALSE]
Whole(id, joined) == [is |-> "whole", id |-> id, joined |-> joined]

\* Neither serde_json nor the test for 32 bytes accepts half a file.
Readable(f) == disk[f].is \in {"absent", "whole"}
Present(f)  == disk[f].is = "whole"

StoreInit ==
    /\ disk = [n \in Names |-> Absent]
    /\ fd = [r \in Runners |-> "none"]

\* File::create, or open with create and truncate.
CreateTmp(r, f) ==
    /\ disk' = [disk EXCEPT ![Tmp(f)] = Empty]
    /\ fd' = [fd EXCEPT ![r] = Tmp(f)]

\* What a file holds after `c` was written over it from its start.  Keys have one
\* length; a state shorter than what is there leaves some of that behind.
Overwritten(old, f, c) ==
    IF old.is \in {"absent", "empty"} \/ f = "key" THEN {c} ELSE {c, Mixed}

\* write_all and sync_all on the process's own file, wherever its name is by now.
WriteTmp(r, f, c) ==
    /\ IF fd[r] \in Names
       THEN \E new \in Overwritten(disk[fd[r]], f, c) : disk' = [disk EXCEPT ![fd[r]] = new]
       ELSE UNCHANGED disk
    /\ UNCHANGED fd

\* The open files follow the one that is renamed; the one it replaces has no name.
Moved(from, to) ==
    /\ disk' = [disk EXCEPT ![to] = disk[from], ![from] = Absent]
    /\ fd' = [r \in Runners |-> IF fd[r] = from THEN to
                                ELSE IF fd[r] = to THEN "none" ELSE fd[r]]

CanRename(f) == disk[Tmp(f)].is # "absent"

\* rename of the temporary file, whoever wrote it; the process closes its own.
RenameTmp(r, f) ==
    /\ disk' = [disk EXCEPT ![f] = disk[Tmp(f)], ![Tmp(f)] = Absent]
    /\ fd' = [q \in Runners |-> IF q = r THEN "none"
                                ELSE IF fd[q] = Tmp(f) THEN f
                                ELSE IF fd[q] = f THEN "none" ELSE fd[q]]

Close(r) == fd' = [fd EXCEPT ![r] = "none"]
=============================================================================
