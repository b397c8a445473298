------------------------------ MODULE FileTailer ------------------------------
(***************************************************************************)
(* The follower of log files (minsec-core/src/source/file.rs), for one     *)
(* path, and what becomes of the path meanwhile: a program appends to the  *)
(* file it has open, the log is renamed and made anew, the program opens   *)
(* the new file, or the log is truncated in place.  All of this happens    *)
(* between the tailer's system calls.                                      *)
(*                                                                         *)
(* A file is a sequence of pieces, and sizes and offsets count pieces.  A  *)
(* line is one piece or more, the last of which ends with the newline, and *)
(* a piece is what one read takes of a line: written at once, or cut off   *)
(* where the read's buffer ended.                                          *)
(***************************************************************************)
EXTENDS Integers, Sequences

CONSTANTS
  MaxFiles,   \* bound of the model: inodes are 1..MaxFiles, used in this order
  MaxLines,   \* bound of the model: the lines written
  MaxPieces,  \* bound of the model, [1..MaxLines -> Nat]: the pieces of each line
  SeekEnd,    \* seek_end: follow from the end what is there at the start
  Batch,      \* MAX_BATCH_BYTES
  MaxLine,    \* MAX_LINE
  Rotations   \* how the log may be rotated: "rename", "truncate"

None == 0

ASSUME TailerAssumption ==
  /\ MaxFiles \in Nat \ {0} /\ MaxLines \in Nat
  /\ MaxPieces \in [1..MaxLines -> Nat \ {0}]
  /\ SeekEnd \in BOOLEAN
  /\ Batch \in Nat \ {0} /\ MaxLine \in Nat
  /\ Rotations \subseteq {"rename", "truncate"}

VARIABLES
  content,  \* [1..MaxFiles -> Seq(Piece)]
  made,     \* how many files there have been
  path,     \* the inode the path names, or None
  writer,   \* the inode the program appends to
  line,     \* its line: the number, and how many pieces of it are written
  step,     \* where the tailer is
  meta,     \* the inode it last saw at the path, or None
  rotated,  \* it took the log for rotated
  file,     \* the inode it has open, or None
  ino,      \* the inode number it keeps for that
  pos,      \* its offset
  budget,   \* how much it may still read before it hands over what it has
  partial,  \* the pieces of the line it has not seen the end of
  out,      \* the lines to send
  got,      \* auxiliary: the lines handed to the daemon's channel
  due,      \* auxiliary: what was in the file to be left when that was seen
  opened,   \* auxiliary: the offset at which the open file was opened
  torn,     \* auxiliary: the open file was truncated since
  raced     \* auxiliary: a file was opened other than the one seen at the path

disk == <<content, made, path, writer, line>>
look == <<meta, rotated, due>>
handle == <<file, ino, pos, opened, raced>>
lines == <<out, got>>
vars == <<disk, step, look, handle, budget, partial, lines, torn>>

Inodes == 1..MaxFiles
Piece == [line : 0..MaxLines, nr : Nat, end : BOOLEAN]

\* A delivered line; torn if it comes from a file that was truncated while open.
Text == [pieces : Seq(Piece), torn : BOOLEAN]

Least(a, b) == IF a <= b THEN a ELSE b

-----------------------------------------------------------------------------
(* The log and the program that writes it. *)

World == UNCHANGED <<step, look, handle, budget, partial, lines>>

\* The program appends a piece to its line, or begins the next.
Write(end) ==
  LET id == IF line.pieces = 0 THEN line.id + 1 ELSE line.id
      nr == line.pieces + 1
  IN  /\ id <= MaxLines
      /\ nr = MaxPieces[id] => end
      /\ content' = [content EXCEPT ![writer] = Append(@, [line |-> id, nr |-> nr, end |-> end])]
      /\ line' = [id |-> id, pieces |-> IF end THEN 0 ELSE nr]
      /\ UNCHANGED <<made, path, writer, torn>>
      /\ World

\* The log is renamed: who has it open keeps it.
Rename ==
  /\ "rename" \in Rotations
  /\ path # None
  /\ path' = None
  /\ UNCHANGED <<content, made, writer, line, torn>>
  /\ World

Create ==
  /\ path = None
  /\ made < MaxFiles
  /\ made' = made + 1
  /\ path' = made'
  /\ UNCHANGED <<content, writer, line, torn>>
  /\ World

\* The program opens the log anew, between two lines.
Reopen ==
  /\ line.pieces = 0
  /\ path # None
  /\ writer' = path
  /\ UNCHANGED <<content, made, path, line, torn>>
  /\ World

Truncate ==
  /\ "truncate" \in Rotations
  /\ path # None
  /\ content' = [content EXCEPT ![path] = <<>>]
  /\ torn' = (torn \/ file = path)
  /\ UNCHANGED <<made, path, writer, line>>
  /\ World

-----------------------------------------------------------------------------
(* The tailer: poll_file, then flush. *)

\* Mutant: only the size is compared.
Shrunk == file # None /\ path # None /\ Len(content[path]) < pos

\* Mutant: a file of exactly the size that was read counts as shrunk.
NotGrown == file # None /\ path # None /\ (path # ino \/ Len(content[path]) <= pos)

\* What poll_file makes of the metadata: the file's number changed or it shrank.
Rotated == file # None /\ path # None /\ (path # ino \/ Len(content[path]) < pos)

\* metadata: an event or the timer has come, or a backlog is left.
Poll ==
  /\ step = "wait"
  /\ meta' = path
  /\ rotated' = Rotated
  /\ step' = IF path = None THEN IF file = None THEN "flush" ELSE "drain"
             ELSE IF Rotated THEN "drain"
             ELSE IF file = None THEN "open" ELSE "read"
  /\ due' = IF step' = "drain" THEN Len(content[file]) ELSE 0
  /\ budget' = Batch
  /\ pos' = IF path = None /\ file = None THEN 0 ELSE pos
  /\ UNCHANGED <<disk, file, ino, opened, raced, partial, lines, torn>>

\* A read returns something.
More == pos < Len(content[file])

\* Mutant: a line that fills the buffer is dropped.
KeptShorter(rest) == IF Len(rest) >= MaxLine THEN <<>> ELSE rest

\* Mutant: nothing is dropped.
KeptAlways(rest) == rest

\* An unfinished line that grows too long is dropped, as far as it has been read.
Kept(rest) == IF Len(rest) > MaxLine THEN <<>> ELSE rest

\* Mutant: a line that came in several reads loses what came in the first ones.
LineSoFarFresh == <<content[file][pos+1]>>

LineSoFar == Append(partial, content[file][pos+1])

\* read_available: one read.
Consume ==
  /\ More
  /\ pos' = pos + 1
  /\ IF content[file][pos+1].end
     THEN out' = Append(out, [pieces |-> LineSoFar, torn |-> torn]) /\ partial' = <<>>
     ELSE out' = out /\ partial' = Kept(LineSoFar)
  /\ UNCHANGED <<disk, look, file, ino, opened, raced, got, torn>>

\* What is left of a file that is gone or rotated is read without a bound.
Drain ==
  /\ step = "drain"
  /\ Consume
  /\ UNCHANGED <<step, budget>>

\* Mutant: the old file is not read to its end.
Undrained == TRUE

\* A read returns nothing.
Drained == ~More

\* The last read of a file that is gone or rotated.
EndDrain ==
  /\ step = "drain"
  /\ Drained
  /\ step' = "close"
  /\ UNCHANGED <<disk, look, handle, budget, partial, lines, torn>>

\* Mutant: the unfinished line is kept.
LeaveFile ==
  /\ file' = None /\ opened' = 0 /\ torn' = FALSE
  /\ partial' = partial

Leave ==
  /\ file' = None /\ opened' = 0 /\ torn' = FALSE
  /\ partial' = <<>>

\* The old file is closed, whatever was written to it since the last read.
Close ==
  /\ step = "close"
  /\ Leave
  /\ pos' = IF rotated THEN pos ELSE 0
  /\ step' = IF rotated THEN "open" ELSE "flush"
  /\ UNCHANGED <<disk, look, ino, raced, budget, lines>>

\* open and seek: the inode number is the one that metadata showed.
Open ==
  /\ step = "open"
  /\ path # None
  /\ file' = path
  /\ ino' = meta
  /\ pos' = IF SeekEnd /\ ~rotated THEN Len(content[path]) ELSE 0
  /\ opened' = pos'
  /\ raced' = (raced \/ path # meta)
  /\ step' = "read"
  /\ UNCHANGED <<disk, look, budget, partial, lines, torn>>

\* The file has gone since.
OpenFails ==
  /\ step = "open"
  /\ path = None
  /\ step' = "flush"
  /\ UNCHANGED <<disk, look, handle, budget, partial, lines, torn>>

Read ==
  /\ step = "read"
  /\ budget > 0
  /\ Consume
  /\ budget' = budget - 1
  /\ UNCHANGED step

\* Nothing more to read, or enough for one poll.
EndRead ==
  /\ step = "read"
  /\ budget = 0 \/ ~More
  /\ step' = "flush"
  /\ UNCHANGED <<disk, look, handle, budget, partial, lines, torn>>

\* flush: the lines go to the channel, however long that takes.
Flush ==
  /\ step = "flush"
  /\ got' = got \o out
  /\ out' = <<>>
  /\ meta' = None /\ rotated' = FALSE /\ due' = 0 /\ budget' = 0
  /\ step' = "wait"
  /\ UNCHANGED <<disk, handle, partial, torn>>

Init ==
  /\ content = [i \in Inodes |-> <<>>]
  /\ made = 1
  /\ path \in {None, 1}
  /\ writer = 1
  /\ line = [id |-> 0, pieces |-> 0]
  /\ step = "wait"
  /\ meta = None /\ rotated = FALSE /\ due = 0
  /\ file = None /\ ino = None /\ pos = 0 /\ opened = 0 /\ raced = FALSE
  /\ budget = 0
  /\ partial = <<>>
  /\ out = <<>> /\ got = <<>>
  /\ torn = FALSE

Log ==
  \/ \E end \in BOOLEAN : Write(end)
  \/ Rename
  \/ Create
  \/ Reopen
  \/ Truncate

Tailer ==
  \/ Poll
  \/ Drain
  \/ EndDrain
  \/ Close
  \/ Open
  \/ OpenFails
  \/ Read
  \/ EndRead
  \/ Flush

Next == Log \/ Tailer

\* The tailer polls at least every two seconds; nothing makes the program write or the
\* log rotate.
Spec == Init /\ [][Next]_vars /\ WF_vars(Tailer)

-----------------------------------------------------------------------------
(* Properties. *)

TypeOK ==
  /\ content \in [Inodes -> Seq(Piece)]
  /\ made \in 1..MaxFiles /\ path \in {None, made} /\ writer \in 1..made
  /\ line \in [id : 0..MaxLines, pieces : Nat]
  /\ step \in {"wait", "drain", "close", "open", "read", "flush"}
  /\ meta \in 0..made /\ rotated \in BOOLEAN /\ due \in Nat
  /\ file \in 0..made /\ ino \in 0..made /\ pos \in Nat /\ opened \in Nat /\ raced \in BOOLEAN
  /\ budget \in 0..Batch
  /\ partial \in Seq(Piece) /\ Len(partial) <= MaxLine
  /\ out \in Seq(Text) /\ got \in Seq(Text)
  /\ torn \in BOOLEAN
  /\ step \in {"drain", "close", "read"} => file # None
  /\ step = "open" => file = None
  /\ file # None => opened <= pos

\* Every line on its way, in the order it was read.
Delivered == got \o out

\* No line is put together from two: the rest of a line in a file that was left is
\* never joined to the first line of the next, in whatever order the log was renamed,
\* made and written.  A file truncated in place and grown past the offset may do that.
NoMixedLines ==
  \A i \in DOMAIN Delivered : LET d == Delivered[i] IN
    ~d.torn => \A j, k \in DOMAIN d.pieces : d.pieces[j].line = d.pieces[k].line

\* No piece of a line is delivered twice, unless the log was replaced between the look
\* at the path and the opening, or truncated and grown again while it was open.
DeliveredOnce ==
  ~raced => \A i, j \in DOMAIN Delivered : i # j /\ ~Delivered[i].torn /\ ~Delivered[j].torn =>
    \A k \in DOMAIN Delivered[i].pieces, l \in DOMAIN Delivered[j].pieces :
      Delivered[i].pieces[k] # Delivered[j].pieces[l]

\* The pieces from first to last of the open file are a whole line, begun after the
\* file was opened, and what comes before its newline fits MAX_LINE.
WholeLine(first, last) ==
  LET c == content[file] IN
  /\ opened < first
  /\ first = 1 \/ c[first-1].end
  /\ c[last].end /\ \A i \in first..last-1 : ~c[i].end
  /\ last - first <= MaxLine

\* That line is delivered, whole and by itself.
Arrived(first, last) ==
  \E i \in DOMAIN Delivered : Delivered[i].pieces = SubSeq(content[file], first, last)

\* Every such line of an intact file that was read is delivered whole and by itself,
\* however the reads cut it.
NothingSkipped ==
  file # None /\ ~torn =>
    \A first \in 1..Len(content[file]), last \in 1..Least(pos, Len(content[file])) :
      first <= last /\ WholeLine(first, last) => Arrived(first, last)

\* When the tailer closes an intact file that was renamed or replaced, every such line
\* that was in it when the tailer saw that has been delivered, however much that was and
\* whatever was written meanwhile.  What the program writes later to the file it still
\* has open may be lost: what comes after the last read is.
LeavesNothingBehind ==
  [][file # None /\ file' # file /\ ~torn =>
       \A first \in 1..Len(content[file]), last \in 1..Least(due, Len(content[file])) :
         first <= last /\ WholeLine(first, last) => Arrived(first, last)]_vars

\* Line l is whole in the file that is followed, and the tailer has not read that file
\* for the last time.
Followed(l) ==
  /\ file # None /\ ~torn /\ step # "close"
  /\ \E first, last \in 1..Len(content[file]) :
       /\ first <= last /\ WholeLine(first, last)
       /\ content[file][first].line = l /\ content[file][first].nr = 1

OnDisk(l) == \E i \in Inodes : \E j \in DOMAIN content[i] : content[i][j].line = l

Received(l) ==
  \E i \in DOMAIN got : LET p == got[i].pieces IN p[1].line = l /\ p[1].nr = 1 /\ p[Len(p)].end

\* Every line in the file that is followed reaches the daemon, though the log is rotated
\* before it is read, unless it is truncated away or comes after the last read of a file
\* that was rotated.
LinesArrive == \A l \in 1..MaxLines : Followed(l) ~> (Received(l) \/ ~OnDisk(l))

\* The tailer comes to follow whatever file takes the name, if it keeps the name.
FollowsLog == \A i \in Inodes : path = i ~> (file = i \/ path # i)

-----------------------------------------------------------------------------

\* "Rename rotation: new file read from the start" (source/file.rs:400): the log that
\* takes the place of one that was followed is read from its start.
NewFilesFromStart ==
  [][Open /\ ino # None /\ path > ino => pos' = 0]_vars
=============================================================================
