------------------------------- MODULE EventLog -------------------------------
(***************************************************************************)
(* The daemon's log of events (minsec-core/src/events.rs): the file        *)
(* events.jsonl, which the daemon appends to, and its predecessor          *)
(* events.jsonl.1.  Renaming the one over the other and making the new one *)
(* are two steps, each of which can fail or be the daemon's last.          *)
(*                                                                         *)
(* A file is a sequence of lines; a line is the ban it reports, or Other.  *)
(* The last may be cut short.  Sizes and offsets count lines, a cut one    *)
(* included.                                                               *)
(***************************************************************************)
EXTENDS Integers, Sequences

CONSTANTS
  Inodes,     \* the numbers files may have; they are used again
  MaxBans,    \* bound of the model: bans are 1..MaxBans, in the order they are made
  RotateAt,   \* ROTATE_BYTES
  MaxFaults   \* bound of the model: failures, here and in the modules that extend this one

None == 0
Other == 0

ASSUME LogAssumption ==
  /\ Inodes \subseteq Nat \ {None}
  /\ MaxBans \in Nat /\ RotateAt \in Nat \ {0} /\ MaxFaults \in Nat

VARIABLES
  text,     \* [Inodes -> Seq(Line)]
  current,  \* the file named events.jsonl, or None
  old,      \* the file named events.jsonl.1, or None
  fd,       \* the file the daemon appends to, or None: it is not running
  written,  \* the size it counts for that
  rotating, \* where in rotate the daemon is: "no", "rename", "open"
  bans,     \* how many bans there have been
  faults    \* how many failures

log == <<text, current, old, fd, written, rotating, bans>>

Bans == 1..MaxBans
Line == [ban : {Other} \cup Bans, cut : BOOLEAN]

Cut(lines) == lines # <<>> /\ lines[Len(lines)].cut

\* What is appended to a line that was cut short becomes part of that line, which then
\* cannot be parsed.
Appended(lines, l) ==
  IF Cut(lines) THEN [lines EXCEPT ![Len(lines)] = [ban |-> Other, cut |-> l.cut]]
  ELSE Append(lines, l)

Fails == faults < MaxFaults /\ faults' = faults + 1

\* The daemon writes a ban to its log.
AppendBan ==
  /\ fd # None /\ rotating = "no"
  /\ bans < MaxBans
  /\ bans' = bans + 1
  /\ text' = [text EXCEPT ![fd] = Appended(@, [ban |-> bans', cut |-> FALSE])]
  /\ written' = written + 1
  /\ rotating' = IF written' >= RotateAt THEN "rename" ELSE "no"
  /\ UNCHANGED <<current, old, fd, faults>>

\* The write fails half way.
AppendCut ==
  /\ fd # None /\ rotating = "no"
  /\ bans < MaxBans
  /\ Fails
  /\ bans' = bans + 1
  /\ text' = [text EXCEPT ![fd] = Appended(@, [ban |-> bans', cut |-> TRUE])]
  /\ UNCHANGED <<current, old, fd, written, rotating>>

\* Mutant: the log keeps its name.
RenameCopy ==
  /\ rotating = "rename"
  /\ current # None
  /\ old' = current
  /\ text' = IF old = None THEN text ELSE [text EXCEPT ![old] = <<>>]
  /\ rotating' = "open"
  /\ UNCHANGED <<current, fd, written, bans, faults>>

\* Mutant: the predecessor is removed before it is known that there is a file to rename.
RenameAnyway ==
  /\ rotating = "rename"
  /\ old' = current /\ current' = None
  /\ text' = IF old = None THEN text ELSE [text EXCEPT ![old] = <<>>]
  /\ rotating' = "open"
  /\ UNCHANGED <<fd, written, bans, faults>>

\* rotate: what was events.jsonl.1 is gone.
Rename ==
  /\ rotating = "rename"
  /\ current # None
  /\ old' = current /\ current' = None
  /\ text' = IF old = None THEN text ELSE [text EXCEPT ![old] = <<>>]
  /\ rotating' = "open"
  /\ UNCHANGED <<fd, written, bans, faults>>

\* There is nothing to rename: an open has failed before.
RenameFails ==
  /\ rotating = "rename"
  /\ current = None
  /\ rotating' = "no"
  /\ UNCHANGED <<text, current, old, fd, written, bans, faults>>

Free == Inodes \ {current, old, fd}

Reopen ==
  /\ rotating = "open"
  /\ \E i \in Free : current' = i /\ fd' = i
  /\ written' = 0
  /\ rotating' = "no"
  /\ UNCHANGED <<text, old, bans, faults>>

\* The daemon goes on with the file that was renamed.
ReopenFails ==
  /\ rotating = "open"
  /\ Fails
  /\ rotating' = "no"
  /\ UNCHANGED <<text, current, old, fd, written, bans>>

\* The daemon stops, wherever it is.
Halt ==
  /\ fd # None
  /\ Fails
  /\ fd' = None /\ written' = 0 /\ rotating' = "no"
  /\ UNCHANGED <<text, current, old, bans>>

\* EventLog::open
Open ==
  /\ fd = None
  /\ IF current # None THEN current' = current
     ELSE \E i \in Free : current' = i
  /\ fd' = current'
  /\ written' = Len(text[current'])
  /\ UNCHANGED <<text, old, rotating, bans, faults>>

LogInit ==
  /\ text = [i \in Inodes |-> <<>>]
  /\ current = None /\ old = None
  /\ fd = None /\ written = 0 /\ rotating = "no"
  /\ bans = 0 /\ faults = 0

LogNext ==
  \/ AppendBan
  \/ AppendCut
  \/ Rename
  \/ RenameFails
  \/ Reopen
  \/ ReopenFails
  \/ Halt
  \/ Open

-----------------------------------------------------------------------------
(* Properties. *)

LogTypeOK ==
  /\ text \in [Inodes -> Seq(Line)]
  /\ {current, old, fd} \subseteq Inodes \cup {None}
  /\ written \in Nat /\ rotating \in {"no", "rename", "open"}
  /\ bans \in 0..MaxBans /\ faults \in 0..MaxFaults
  /\ current # None => current # old

\* Whatever fails while the log is rotated, the daemon appends to a file that has a name.
WritesNamedFile == fd # None => fd \in {current, old}

\* The bans in the log's two files.
InFile(i) ==
  IF i = None THEN {}
  ELSE {text[i][k].ban : k \in {n \in DOMAIN text[i] : ~text[i][n].cut}} \ {Other}

Logged == InFile(current) \cup InFile(old)
=============================================================================
