--------------------------- MODULE FileTailerProofs ---------------------------
(***************************************************************************)
(* Proofs about FileTailer, for any number of files, lines and pieces, any *)
(* bounds of the tailer and either way to rotate: its types, that it never *)
(* joins parts of two lines, delivers nothing twice, leaves out no line,   *)
(* and leaves no file before what it saw there has been delivered.         *)
(*                                                                         *)
(* For the second, the files themselves are in order (Files): an unfinished *)
(* line is continued by the next piece in the same file, because the       *)
(* program changes files only between lines; and what the tailer keeps of  *)
(* an unfinished line is of the line its offset stands in (Pending).       *)
(***************************************************************************)
EXTENDS FileTailer, TLAPS

-----------------------------------------------------------------------------
(* Types, by parts. *)

DiskOK ==
  /\ content \in [Inodes -> Seq(Piece)]
  /\ made \in 1..MaxFiles /\ path \in {None, made} /\ writer \in 1..made
  /\ line \in [id : 0..MaxLines, pieces : Nat]

StepOK ==
  /\ step \in {"wait", "drain", "close", "open", "read", "flush"}
  /\ step \in {"drain", "close", "read"} => file # None
  /\ step = "open" => file = None

LookOK == meta \in 0..made /\ rotated \in BOOLEAN /\ due \in Nat /\ budget \in 0..Batch

HandleOK ==
  /\ file \in 0..made /\ ino \in 0..made /\ pos \in Nat /\ opened \in Nat /\ raced \in BOOLEAN
  /\ file # None => opened <= pos
  /\ torn \in BOOLEAN

LinesOK ==
  /\ partial \in Seq(Piece) /\ Len(partial) <= MaxLine
  /\ out \in Seq(Text) /\ got \in Seq(Text)

LEMMA TypeParts == TypeOK <=> DiskOK /\ StepOK /\ LookOK /\ HandleOK /\ LinesOK
BY DEF TypeOK, DiskOK, StepOK, LookOK, HandleOK, LinesOK

LEMMA TypePartsPrime == TypeOK' <=> DiskOK' /\ StepOK' /\ LookOK' /\ HandleOK' /\ LinesOK'
BY TypeParts, PTL

LEMMA Handled ==
  ASSUME TailerAssumption, TypeOK, file # None
  PROVE  file \in Inodes /\ content[file] \in Seq(Piece) /\ Len(content[file]) \in Nat
BY DEF TypeOK, TailerAssumption, Inodes, None

LEMMA InitTyped ==
  ASSUME TailerAssumption, Init
  PROVE  TypeOK
<1>1. /\ MaxFiles \in Nat \ {0} /\ MaxLines \in Nat /\ Batch \in Nat \ {0} /\ MaxLine \in Nat
  BY DEF TailerAssumption
<1>2. /\ <<>> \in Seq(Piece) /\ <<>> \in Seq(Text) /\ Len(<<>>) = 0
  OBVIOUS
<1>3. DiskOK
  BY <1>1, <1>2 DEF Init, DiskOK, None
<1>4. StepOK /\ LookOK /\ HandleOK
  <2>1. file = 0 /\ meta = 0 /\ ino = 0 /\ pos = 0 /\ opened = 0 /\ budget = 0 /\ made = 1 /\ due = 0
    BY DEF Init, None
  <2>2. rotated \in BOOLEAN /\ raced \in BOOLEAN /\ torn \in BOOLEAN
    BY DEF Init
  <2>3. StepOK
    BY DEF Init, StepOK
  <2>4. QED
    BY <1>1, <2>1, <2>2, <2>3 DEF LookOK, HandleOK
<1>5. LinesOK
  BY <1>1, <1>2 DEF Init, LinesOK
<1>6. QED
  BY <1>3, <1>4, <1>5, TypeParts

LEMMA LogTyped ==
  ASSUME TailerAssumption, TypeOK, Log
  PROVE  TypeOK'
<1>1. DiskOK /\ StepOK /\ LookOK /\ HandleOK /\ LinesOK
  BY TypeParts
<1>2. MaxFiles \in Nat \ {0} /\ MaxLines \in Nat
  BY DEF TailerAssumption
<1>3. World
  BY DEF Log, Write, Rename, Create, Reopen, Truncate
<1>4. DiskOK' /\ made' >= made
  <2>1. ASSUME NEW end \in BOOLEAN, Write(end)
        PROVE  DiskOK' /\ made' = made
    <3> DEFINE id == IF line.pieces = 0 THEN line.id + 1 ELSE line.id
               nr == line.pieces + 1
               p == [line |-> id, nr |-> nr, end |-> end]
    <3>1. id \in 0..MaxLines /\ nr \in Nat /\ p \in Piece
      BY <1>1, <1>2, <2>1 DEF DiskOK, Write, Piece
    <3>2. /\ content' = [content EXCEPT ![writer] = Append(content[writer], p)]
          /\ line' = [id |-> id, pieces |-> IF end THEN 0 ELSE nr]
          /\ made' = made /\ path' = path /\ writer' = writer
      BY <2>1 DEF Write
    <3> HIDE DEF id, nr, p
    <3>3. content' \in [Inodes -> Seq(Piece)]
      <4>1. writer \in Inodes /\ content[writer] \in Seq(Piece)
        BY <1>1, <1>2 DEF DiskOK, Inodes
      <4>2. Append(content[writer], p) \in Seq(Piece)
        BY <3>1, <4>1
      <4>3. QED
        BY <1>1, <3>2, <4>1, <4>2 DEF DiskOK
    <3>4. line' \in [id : 0..MaxLines, pieces : Nat]
      BY <3>1, <3>2
    <3>5. QED
      BY <1>1, <3>2, <3>3, <3>4 DEF DiskOK
  <2>2. CASE Truncate
    <3>1. <<>> \in Seq(Piece)
      OBVIOUS
    <3>2. content' \in [Inodes -> Seq(Piece)]
      BY <1>1, <2>2, <3>1 DEF DiskOK, Truncate
    <3>3. QED
      BY <1>1, <2>2, <3>2 DEF DiskOK, Truncate
  <2>3. CASE Rename \/ Create \/ Reopen
    BY <1>1, <1>2, <2>3 DEF DiskOK, Rename, Create, Reopen, None
  <2>4. QED
    BY <1>1, <1>2, <2>1, <2>2, <2>3 DEF Log, DiskOK
<1>5. torn' \in BOOLEAN
  BY <1>1 DEF HandleOK, Log, Write, Rename, Create, Reopen, Truncate
<1>6. made \in Nat /\ made' \in Nat
  BY <1>1, <1>4, <1>2 DEF DiskOK
<1>7. StepOK' /\ LookOK' /\ HandleOK' /\ LinesOK'
  BY <1>1, <1>3, <1>4, <1>5, <1>6 DEF World, look, handle, lines, StepOK, LookOK, HandleOK, LinesOK
<1>8. QED
  BY <1>4, <1>7, TypePartsPrime

LEMMA ConsumeTyped ==
  ASSUME TailerAssumption, TypeOK, file # None, Consume
  PROVE  DiskOK' /\ HandleOK' /\ LinesOK' /\ file' = file /\ made' = made
         /\ meta' = meta /\ rotated' = rotated /\ due' = due
<1>1. DiskOK /\ HandleOK /\ LinesOK /\ MaxLine \in Nat
  BY TypeParts DEF TailerAssumption
<1>2. content[file] \in Seq(Piece) /\ pos + 1 \in 1..Len(content[file])
  BY <1>1, Handled DEF Consume, More, HandleOK
<1>3. content[file][pos+1] \in Piece
  BY <1>2
<1>4. LineSoFar \in Seq(Piece)
  BY <1>1, <1>3 DEF LinesOK, LineSoFar
<1>5. [pieces |-> LineSoFar, torn |-> torn] \in Text
  BY <1>1, <1>4 DEF Text, HandleOK
<1>6. Kept(LineSoFar) \in Seq(Piece) /\ Len(Kept(LineSoFar)) <= MaxLine
  BY <1>1, <1>4 DEF Kept
<1>7. LinesOK'
  <2>1. Append(out, [pieces |-> LineSoFar, torn |-> torn]) \in Seq(Text)
    BY <1>1, <1>5 DEF LinesOK
  <2>2. <<>> \in Seq(Piece) /\ Len(<<>>) <= MaxLine
    BY <1>1
  <2>3. out' \in Seq(Text)
    BY <1>1, <2>1 DEF Consume, LinesOK
  <2>4. partial' \in Seq(Piece) /\ Len(partial') <= MaxLine
    BY <1>6, <2>2 DEF Consume
  <2>5. QED
    BY <1>1, <2>3, <2>4 DEF Consume, LinesOK
<1>8. DiskOK' /\ HandleOK' /\ file' = file /\ made' = made /\ meta' = meta /\ rotated' = rotated /\ due' = due
  BY <1>1 DEF Consume, disk, look, DiskOK, HandleOK
<1>9. QED
  BY <1>7, <1>8

LEMMA TailerTyped ==
  ASSUME TailerAssumption, TypeOK, Tailer
  PROVE  TypeOK'
<1>1. DiskOK /\ StepOK /\ LookOK /\ HandleOK /\ LinesOK
      /\ Batch \in Nat \ {0} /\ MaxLine \in Nat /\ made \in Nat
  BY TypeParts DEF TailerAssumption, DiskOK
<1>2. CASE Poll
  <2>1. DiskOK' /\ LookOK' /\ LinesOK' /\ rotated' \in BOOLEAN
    <3>1. step' = "drain" => file # None
      BY <1>2 DEF Poll, Rotated
    <3>2. due' \in Nat
      BY <1>2, <3>1, Handled DEF Poll
    <3>3. QED
      BY <1>1, <1>2, <3>2 DEF Poll, Rotated, disk, lines, DiskOK, LookOK, LinesOK, None
  <2>2. HandleOK'
    BY <1>1, <1>2 DEF Poll, disk, HandleOK
  <2>3. StepOK'
    BY <1>1, <1>2 DEF Poll, Rotated, StepOK
  <2>4. QED
    BY <2>1, <2>2, <2>3, TypePartsPrime
<1>3. CASE Drain
  <2>1. file # None
    BY <1>1, <1>3 DEF Drain, StepOK
  <2>2. DiskOK' /\ HandleOK' /\ LinesOK' /\ file' = file /\ made' = made
        /\ meta' = meta /\ rotated' = rotated /\ due' = due /\ step' = step /\ budget' = budget
    BY <1>3, <2>1, ConsumeTyped DEF Drain
  <2>3. QED
    BY <1>1, <2>2, TypePartsPrime DEF StepOK, LookOK
<1>4. CASE Close
  <2>1. DiskOK' /\ LookOK' /\ made' = made
    BY <1>1, <1>4 DEF Close, disk, look, DiskOK, LookOK
  <2>2. HandleOK'
    <3>1. raced' \in BOOLEAN /\ torn' \in BOOLEAN
      BY <1>1, <1>4 DEF Close, Leave, HandleOK
    <3>2. file' = 0 /\ opened' = 0 /\ ino' = ino /\ pos' \in {pos, 0}
      BY <1>4 DEF Close, Leave, None
    <3>3. QED
      BY <1>1, <2>1, <3>1, <3>2 DEF HandleOK
  <2>3. <<>> \in Seq(Piece) /\ Len(<<>>) <= MaxLine
    BY <1>1
  <2>4. LinesOK'
    BY <1>1, <1>4, <2>3 DEF Close, Leave, lines, LinesOK
  <2>5. StepOK'
    BY <1>1, <1>4 DEF Close, Leave, StepOK
  <2>6. QED
    BY <2>1, <2>2, <2>4, <2>5, TypePartsPrime
<1>5. CASE Open
  <2>1. DiskOK' /\ LookOK' /\ LinesOK' /\ made' = made
    BY <1>1, <1>5 DEF Open, disk, look, lines, DiskOK, LookOK, LinesOK
  <2>2. path \in Inodes /\ path \in 0..made /\ Len(content[path]) \in Nat
    BY <1>1, <1>5 DEF Open, DiskOK, Inodes, TailerAssumption
  <2>3. HandleOK'
    BY <1>1, <1>5, <2>1, <2>2 DEF Open, HandleOK, LookOK
  <2>4. StepOK'
    BY <1>5 DEF Open, StepOK
  <2>5. QED
    BY <2>1, <2>3, <2>4, TypePartsPrime
<1>6. CASE Read
  <2>1. file # None
    BY <1>1, <1>6 DEF Read, StepOK
  <2>2. DiskOK' /\ HandleOK' /\ LinesOK' /\ file' = file /\ made' = made
        /\ meta' = meta /\ rotated' = rotated /\ due' = due /\ step' = step /\ budget' = budget - 1 /\ budget > 0
    BY <1>6, <2>1, ConsumeTyped DEF Read
  <2>3. QED
    BY <1>1, <2>2, TypePartsPrime DEF StepOK, LookOK
<1>7. CASE OpenFails \/ EndRead \/ EndDrain
  BY <1>1, <1>7, TypePartsPrime DEF OpenFails, EndRead, EndDrain, disk, look, handle, lines, StepOK,
     DiskOK, LookOK, HandleOK, LinesOK
<1>8. CASE Flush
  <2>1. got' \in Seq(Text)
    BY <1>1, <1>8 DEF Flush, LinesOK
  <2>2. LinesOK'
    <3>1. <<>> \in Seq(Text)
      OBVIOUS
    <3>2. QED
      BY <1>1, <1>8, <2>1, <3>1 DEF Flush, LinesOK
  <2>3. DiskOK' /\ HandleOK' /\ made' = made
    BY <1>1, <1>8 DEF Flush, disk, handle, DiskOK, HandleOK
  <2>4. StepOK' /\ LookOK'
    <3>1. meta' = 0 /\ budget' = 0 /\ rotated' \in BOOLEAN /\ due' = 0
      BY <1>8 DEF Flush, None
    <3>2. StepOK'
      BY <1>8 DEF Flush, StepOK
    <3>3. QED
      BY <1>1, <2>3, <3>1, <3>2 DEF LookOK
  <2>5. QED
    BY <2>2, <2>3, <2>4, TypePartsPrime
<1>9. QED
  BY <1>2, <1>3, <1>4, <1>5, <1>6, <1>7, <1>8 DEF Tailer

LEMMA StutterTyped ==
  ASSUME TypeOK, UNCHANGED vars
  PROVE  TypeOK'
BY DEF vars, disk, look, handle, lines, TypeOK

\* The files, the tailer's place in them and the lines on their way stay well formed,
\* for any number of rotations and any interleaving of them with the tailer's calls.
THEOREM TypeCorrect == Spec => []TypeOK
<1>1. Init => TypeOK
  BY TailerAssumption, InitTyped
<1>2. TypeOK /\ [Next]_vars => TypeOK'
  BY TailerAssumption, LogTyped, TailerTyped, StutterTyped DEF Next
<1>3. QED
  BY <1>1, <1>2, PTL DEF Spec

-----------------------------------------------------------------------------
(* No line of two. *)

Finished(i) == content[i] = <<>> \/ content[i][Len(content[i])].end

\* What follows an unfinished piece is of the same line.
Continued(c) == \A j \in 1..Len(c) : j < Len(c) /\ ~c[j].end => c[j+1].line = c[j].line

\* The one file whose last line is unfinished is the one the program writes to.
Files ==
  /\ \A i \in Inodes : Continued(content[i])
  /\ \A i \in Inodes : ~Finished(i) =>
       i = writer /\ line.pieces > 0 /\ content[i][Len(content[i])].line = line.id

\* The pieces kept are of the line in which the offset stands.
Pending ==
  /\ torn => file # None
  /\ file # None /\ ~torn => pos <= Len(content[file])
  /\ ~torn /\ partial # <<>> =>
       /\ file # None /\ pos >= 1
       /\ ~content[file][pos].end
       /\ \A k \in 1..Len(partial) : partial[k].line = content[file][pos].line

OneLine(d) == ~d.torn => \A j, k \in DOMAIN d.pieces : d.pieces[j].line = d.pieces[k].line

Whole(ds) == \A i \in 1..Len(ds) : OneLine(ds[i])

MixInv == TypeOK /\ Files /\ Pending /\ Whole(out) /\ Whole(got)

LEMMA Appended ==
  ASSUME NEW S, NEW s \in Seq(S), NEW e \in S
  PROVE  /\ Append(s, e) \in Seq(S) /\ Len(Append(s, e)) = Len(s) + 1
         /\ \A i \in 1..Len(s) : Append(s, e)[i] = s[i]
         /\ Append(s, e)[Len(s) + 1] = e
OBVIOUS

LEMMA AppendedOn ==
  ASSUME NEW c \in Seq(Piece), NEW p \in Piece, Continued(c),
         c # <<>> => c[Len(c)].end \/ p.line = c[Len(c)].line
  PROVE  Continued(Append(c, p))
<1> DEFINE a == Append(c, p)
           n == Len(c)
<1>1. n \in Nat /\ Len(a) = n + 1 /\ (\A j \in 1..n : a[j] = c[j]) /\ a[n + 1] = p
  BY Appended
<1>2. n > 0 => c[n].end \/ p.line = c[n].line
  OBVIOUS
<1>3. \A j \in 1..n : j < n /\ ~c[j].end => c[j+1].line = c[j].line
  BY DEF Continued
<1>4. Continued(a) <=> \A j \in 1..Len(a) : j < Len(a) /\ ~a[j].end => a[j+1].line = a[j].line
  BY DEF Continued
<1> HIDE DEF a, n
<1>5. ASSUME NEW j \in 1..n, ~a[j].end
      PROVE  a[j+1].line = a[j].line
  <2>1. CASE j < n
    BY <1>1, <1>3, <1>5, <2>1
  <2>2. CASE j = n
    BY <1>1, <1>2, <1>5, <2>2
  <2> QED
    BY <1>1, <1>5, <2>1, <2>2
<1>6. Continued(a)
  BY <1>1, <1>4, <1>5
<1> QED
  BY <1>6 DEF a

LEMMA AppendedWhole ==
  ASSUME NEW ds \in Seq(Text), NEW d \in Text, Whole(ds), OneLine(d)
  PROVE  Whole(Append(ds, d))
<1>1. Len(ds) \in Nat
  OBVIOUS
<1>2. SUFFICES ASSUME NEW i \in 1..Len(Append(ds, d))
               PROVE  OneLine(Append(ds, d)[i])
  BY DEF Whole
<1>3. CASE i \in 1..Len(ds)
  BY <1>3, Appended DEF Whole
<1>4. CASE i = Len(ds) + 1
  BY <1>4, Appended
<1>5. QED
  BY <1>1, <1>2, <1>3, <1>4, Appended

LEMMA JoinedWhole ==
  ASSUME NEW ds \in Seq(Text), NEW es \in Seq(Text), Whole(ds), Whole(es)
  PROVE  Whole(ds \o es)
<1>1. Len(ds) \in Nat /\ Len(es) \in Nat /\ Len(ds \o es) = Len(ds) + Len(es)
  OBVIOUS
<1>2. SUFFICES ASSUME NEW i \in 1..Len(ds \o es)
               PROVE  OneLine((ds \o es)[i])
  BY DEF Whole
<1>3. CASE i <= Len(ds)
  <2>1. i \in 1..Len(ds) /\ (ds \o es)[i] = ds[i]
    BY <1>1, <1>3
  <2>2. QED
    BY <2>1 DEF Whole
<1>4. CASE i > Len(ds)
  <2>1. i - Len(ds) \in 1..Len(es) /\ (ds \o es)[i] = es[i - Len(ds)]
    BY <1>1, <1>4
  <2>2. QED
    BY <2>1 DEF Whole
<1>5. QED
  BY <1>1, <1>3, <1>4

LEMMA MixInit ==
  ASSUME TailerAssumption, Init
  PROVE  MixInv
<1>1. \A i \in Inodes : content[i] = <<>>
  BY DEF Init
<1>2. Files
  BY <1>1 DEF Files, Finished, Continued
<1>3. Pending
  BY DEF Init, Pending
<1>4. Whole(out) /\ Whole(got)
  BY DEF Init, Whole
<1>5. QED
  BY <1>2, <1>3, <1>4, InitTyped DEF MixInv

\* A file only grows, unless it is truncated.
LEMMA WriteMix ==
  ASSUME TailerAssumption, MixInv, NEW end \in BOOLEAN, Write(end)
  PROVE  Files' /\ Pending'
<1> DEFINE id == IF line.pieces = 0 THEN line.id + 1 ELSE line.id
           p == [line |-> id, nr |-> line.pieces + 1, end |-> end]
           c == content[writer]
<1>1. /\ content \in [Inodes -> Seq(Piece)] /\ writer \in Inodes /\ c \in Seq(Piece) /\ Len(c) \in Nat
      /\ line.id \in 0..MaxLines /\ line.pieces \in Nat /\ MaxLines \in Nat
  BY DEF MixInv, TypeOK, TailerAssumption, Inodes
<1>2. p \in Piece /\ p.line = id /\ p.end = end
  BY <1>1 DEF Write, Piece
<1>3. /\ content' = [content EXCEPT ![writer] = Append(c, p)]
      /\ line'.id = id /\ (~end => line'.pieces > 0)
      /\ writer' = writer
      /\ file' = file /\ pos' = pos /\ partial' = partial /\ torn' = torn
  BY <1>1 DEF Write, World, handle
<1>4. ~Finished(writer) => c[Len(c)].line = id
  BY <1>1 DEF MixInv, Files
<1> HIDE DEF p, id
<1>5. /\ content'[writer] = Append(c, p)
      /\ \A i \in Inodes : i # writer => content'[i] = content[i]
  BY <1>1, <1>3
<1>6. Continued(Append(c, p))
  <2>1. Continued(c)
    BY <1>1 DEF MixInv, Files
  <2>2. c # <<>> => c[Len(c)].end \/ p.line = c[Len(c)].line
    BY <1>2, <1>4 DEF Finished
  <2> QED
    BY <1>1, <1>2, <2>1, <2>2, AppendedOn
<1>7. Files'
  <2>1. ASSUME NEW i \in Inodes
        PROVE  Continued(content'[i])
    BY <1>5, <1>6 DEF MixInv, Files
  <2>2. ASSUME NEW i \in Inodes, ~Finished(i)'
        PROVE  i = writer' /\ line'.pieces > 0 /\ content'[i][Len(content'[i])].line = line'.id
    <3>1. CASE i = writer
      BY <1>1, <1>2, <1>3, <1>5, <2>2, <3>1, Appended DEF Finished
    <3>2. CASE i # writer
      BY <1>5, <2>2, <3>2 DEF Finished, MixInv, Files
    <3>3. QED
      BY <3>1, <3>2
  <2>3. QED
    BY <2>1, <2>2 DEF Files
<1>8. ASSUME file # None
      PROVE  /\ Len(content'[file]) >= Len(content[file])
             /\ \A j \in 1..Len(content[file]) : content'[file][j] = content[file][j]
  <2>1. file \in Inodes /\ content[file] \in Seq(Piece) /\ Len(content[file]) \in Nat
    BY <1>8, Handled DEF MixInv
  <2>2. CASE file = writer
    <3>1. /\ Len(Append(c, p)) = Len(c) + 1
          /\ \A j \in 1..Len(c) : Append(c, p)[j] = c[j]
      BY <1>1, <1>2, Appended
    <3>2. content'[file] = Append(c, p) /\ content[file] = c
      BY <1>5, <2>2
    <3>3. QED
      BY <1>1, <3>1, <3>2
  <2>3. CASE file # writer
    BY <1>5, <2>1, <2>3
  <2>4. QED
    BY <2>2, <2>3
<1>9. Pending'
  <2>1. pos \in Nat
    BY DEF MixInv, TypeOK
  <2>2. ASSUME file # None, ~torn
        PROVE  pos <= Len(content'[file])
    BY <1>5, <1>8, <2>1, <2>2, Handled, Appended, <1>1, <1>2 DEF MixInv, Pending
  <2>3. ASSUME ~torn, partial # <<>>
        PROVE  content'[file][pos] = content[file][pos]
    BY <1>8, <2>1, <2>3, Handled DEF MixInv, Pending
  <2>4. QED
    BY <1>3, <2>2, <2>3 DEF MixInv, Pending
<1>10. QED
  BY <1>7, <1>9

LEMMA TruncateMix ==
  ASSUME TailerAssumption, MixInv, Truncate
  PROVE  Files' /\ Pending'
<1>1. /\ content \in [Inodes -> Seq(Piece)] /\ path \in Inodes
      /\ content' = [content EXCEPT ![path] = <<>>]
      /\ writer' = writer /\ line' = line
      /\ file' = file /\ pos' = pos /\ partial' = partial /\ torn' = (torn \/ file = path)
  BY DEF MixInv, TypeOK, TailerAssumption, Truncate, World, handle, Inodes
<1>2. /\ content'[path] = <<>>
      /\ \A i \in Inodes : i # path => content'[i] = content[i]
  BY <1>1
<1>3. Files'
  <2>1. ASSUME NEW i \in Inodes
        PROVE  Continued(content'[i]) /\ (Finished(i)' \/ content'[i] = content[i])
    BY <1>2 DEF MixInv, Files, Continued, Finished
  <2>2. QED
    BY <1>1, <1>2, <2>1 DEF MixInv, Files, Finished
<1>4. Pending'
  <2>1. CASE file = path
    BY <1>1, <2>1 DEF Pending, Truncate
  <2>2. CASE file # path
    <3>1. file # None => content'[file] = content[file]
      BY <1>2, <2>2, Handled DEF MixInv
    <3>2. QED
      BY <1>1, <2>2, <3>1 DEF MixInv, Pending
  <2>3. QED
    BY <2>1, <2>2
<1>5. QED
  BY <1>3, <1>4

LEMMA LogMix ==
  ASSUME TailerAssumption, MixInv, Log
  PROVE  MixInv'
<1>1. out' = out /\ got' = got
  BY DEF Log, Write, Rename, Create, Reopen, Truncate, World, lines
<1>2. Files' /\ Pending'
  <2>1. CASE Rename \/ Create \/ Reopen
    <3>1. /\ content' = content /\ line' = line /\ file' = file /\ pos' = pos
          /\ partial' = partial /\ torn' = torn
          /\ writer' = writer \/ line.pieces = 0
      BY <2>1 DEF Rename, Create, Reopen, World, handle
    <3>2. Pending'
      BY <3>1 DEF MixInv, Pending
    <3>3. Files'
      BY <3>1 DEF MixInv, Files, Finished, Continued
    <3>4. QED
      BY <3>2, <3>3
  <2>2. QED
    BY <2>1, WriteMix, TruncateMix DEF Log
<1>3. QED
  BY <1>1, <1>2, LogTyped DEF MixInv, Whole

\* One read: the piece continues the line that was kept.
LEMMA ConsumeMix ==
  ASSUME TailerAssumption, MixInv, file # None, Consume
  PROVE  Files' /\ Pending' /\ Whole(out)' /\ Whole(got)'
<1> DEFINE c == content[file]
           e == c[pos+1]
           d == [pieces |-> LineSoFar, torn |-> torn]
<1>1. /\ file \in Inodes /\ c \in Seq(Piece) /\ pos \in Nat /\ pos + 1 \in 1..Len(c) /\ e \in Piece
      /\ partial \in Seq(Piece) /\ out \in Seq(Text) /\ torn \in BOOLEAN
  <2>1. /\ file \in Inodes /\ c \in Seq(Piece) /\ pos \in Nat
        /\ partial \in Seq(Piece) /\ out \in Seq(Text) /\ torn \in BOOLEAN
    BY Handled DEF MixInv, TypeOK
  <2>2. pos + 1 \in 1..Len(c)
    BY <2>1 DEF Consume, More
  <2>3. QED
    BY <2>1, <2>2
<1>2. ASSUME ~torn
      PROVE  \A k \in 1..Len(LineSoFar) : LineSoFar[k].line = e.line
  <2>1. ASSUME NEW k \in 1..Len(partial)
        PROVE  partial[k].line = e.line
    <3>1. partial # <<>>
      BY <1>1, <2>1
    <3>2. pos \in 1..Len(c) /\ pos < Len(c) /\ ~c[pos].end /\ partial[k].line = c[pos].line
      BY <1>1, <1>2, <2>1, <3>1 DEF MixInv, Pending
    <3>3. Continued(c)
      BY <1>1 DEF MixInv, Files
    <3>4. QED
      BY <3>2, <3>3 DEF Continued
  <2>2. QED
    BY <1>1, <2>1, Appended DEF LineSoFar
<1>3. LineSoFar \in Seq(Piece) /\ Len(LineSoFar) \in Nat /\ d \in Text
  BY <1>1, Appended DEF LineSoFar, Text
<1>4. OneLine(d)
  BY <1>2, <1>3 DEF OneLine
<1>5. Whole(out)'
  <2>1. out' \in {out, Append(out, d)}
    BY DEF Consume
  <2>2. Whole(Append(out, d))
    BY <1>1, <1>3, <1>4, AppendedWhole DEF MixInv
  <2>3. QED
    BY <2>1, <2>2 DEF MixInv, Whole
<1>6. Files' /\ Whole(got)'
  BY DEF MixInv, Consume, disk, Files, Finished, Continued, Whole
<1>7. Pending'
  <2>1. /\ content' = content /\ file' = file /\ torn' = torn /\ pos' = pos + 1
        /\ (e.end => partial' = <<>>)
        /\ (~e.end => partial' \in {<<>>, LineSoFar})
    BY DEF Consume, disk, Kept
  <2>2. CASE partial' = <<>>
    BY <1>1, <2>1, <2>2 DEF Pending
  <2>3. CASE ~e.end /\ partial' = LineSoFar
    BY <1>1, <1>2, <2>1, <2>3 DEF Pending
  <2>4. QED
    BY <2>1, <2>2, <2>3
<1>8. QED
  BY <1>5, <1>6, <1>7

LEMMA TailerMix ==
  ASSUME TailerAssumption, MixInv, Tailer
  PROVE  MixInv'
<1>1. Files' /\ Pending' /\ Whole(out)' /\ Whole(got)'
  <2>1. CASE Drain \/ Read
    <3>1. file # None /\ Consume
      BY <2>1 DEF Drain, Read, MixInv, TypeOK
    <3>2. QED
      BY <3>1, ConsumeMix
  <2>2. ASSUME UNCHANGED disk
        PROVE  Files'
    BY <2>2 DEF disk, MixInv, Files, Finished, Continued
  <2>3. CASE Poll
    <3>1. Pending'
      BY <2>3 DEF Poll, disk, MixInv, Pending
    <3>2. QED
      BY <2>2, <2>3, <3>1 DEF Poll, lines, MixInv, Whole
  <2>4. CASE Close
    <3>1. Pending'
      BY <2>4 DEF Close, Leave, Pending
    <3>2. QED
      BY <2>2, <2>4, <3>1 DEF Close, lines, MixInv, Whole
  <2>5. CASE Open
    <3>1. file = None
      BY <2>5 DEF Open, MixInv, TypeOK
    <3>2. partial' = <<>> /\ torn' = FALSE
      BY <2>5, <3>1 DEF Open, MixInv, TypeOK, Pending
    <3>3. path \in Inodes /\ content[path] \in Seq(Piece)
      BY <2>5 DEF Open, MixInv, TypeOK, TailerAssumption, Inodes
    <3>4. file' = path /\ content' = content /\ pos' <= Len(content[path])
      BY <2>5, <3>3 DEF Open, disk
    <3>5. Pending'
      BY <2>5, <3>2, <3>4 DEF Open, Pending
    <3>6. QED
      BY <2>2, <2>5, <3>5 DEF Open, lines, MixInv, Whole
  <2>6. CASE OpenFails \/ EndRead \/ EndDrain
    <3>1. Pending'
      BY <2>6 DEF OpenFails, EndRead, EndDrain, disk, handle, MixInv, Pending
    <3>2. QED
      BY <2>2, <2>6, <3>1 DEF OpenFails, EndRead, EndDrain, lines, MixInv, Whole
  <2>7. CASE Flush
    <3>1. Pending'
      BY <2>7 DEF Flush, disk, handle, MixInv, Pending
    <3>2. Whole(got)'
      BY <2>7, JoinedWhole DEF Flush, MixInv, TypeOK, Whole
    <3>3. Whole(out)'
      BY <2>7 DEF Flush, Whole
    <3>4. QED
      BY <2>2, <2>7, <3>1, <3>2, <3>3 DEF Flush
  <2>8. QED
    BY <2>1, <2>3, <2>4, <2>5, <2>6, <2>7 DEF Tailer
<1>2. QED
  BY <1>1, TailerTyped DEF MixInv

LEMMA StutterMix ==
  ASSUME MixInv, UNCHANGED vars
  PROVE  MixInv'
BY StutterTyped DEF vars, disk, handle, lines, MixInv, Files, Finished, Continued, Pending, Whole

LEMMA MixImplies ==
  ASSUME MixInv
  PROVE  NoMixedLines
<1>1. got \in Seq(Text) /\ out \in Seq(Text) /\ Delivered \in Seq(Text)
  BY DEF MixInv, TypeOK, Delivered
<1>2. Whole(Delivered)
  BY <1>1, JoinedWhole DEF MixInv, Delivered
<1>3. DOMAIN Delivered = 1..Len(Delivered)
  BY <1>1
<1>4. QED
  BY <1>2, <1>3 DEF NoMixedLines, Whole, OneLine

\* Whatever the program, the rotation and the tailer do in whatever order, no line is
\* delivered that is put together from two, unless its file was truncated while open.
THEOREM NoMixed == Spec => []NoMixedLines
<1>1. Init => MixInv
  BY TailerAssumption, MixInit
<1>2. MixInv /\ [Next]_vars => MixInv'
  BY TailerAssumption, LogMix, TailerMix, StutterMix DEF Next
<1>3. MixInv => NoMixedLines
  BY MixImplies
<1>4. QED
  BY <1>1, <1>2, <1>3, PTL DEF Spec
-----------------------------------------------------------------------------
(* No piece twice.  Pieces are written in the order of their lines and     *)
(* numbers, and files follow each other in that order too (Written).  What *)
(* has been read of intact files comes before whatever may yet be read     *)
(* (Once), and a line before the next.                                     *)

Lt(p, q) == p.line < q.line \/ (p.line = q.line /\ p.nr < q.nr)

\* A program at l is past the piece.
PastAt(p, l) == p.line < l.id \/ (p.line = l.id /\ (l.pieces = 0 \/ p.nr <= l.pieces))

Past(p) == PastAt(p, line)

Written ==
  /\ \A i \in Inodes : \A j \in 1..Len(content[i]) : Past(content[i][j])
  /\ \A i \in Inodes : \A j, k \in 1..Len(content[i]) : j < k => Lt(content[i][j], content[i][k])
  /\ \A i, m \in Inodes : i < m =>
       \A j \in 1..Len(content[i]), k \in 1..Len(content[m]) : Lt(content[i][j], content[m][k])
  /\ \A i \in Inodes : i > writer => content[i] = <<>>

\* A piece of an intact line that was delivered, or is kept for one.
Gone(p) ==
  \E i \in 1..Len(Delivered) : ~Delivered[i].torn /\
    \E k \in 1..Len(Delivered[i].pieces) : p = Delivered[i].pieces[k]

Held(p) == ~torn /\ \E k \in 1..Len(partial) : p = partial[k]

\* A place the tailer may yet read, in the open file or in the one at the path.
Unread(i, j) == IF i = file /\ ~torn THEN j > pos ELSE i = path

Rising(ds) ==
  \A i, j \in 1..Len(ds) : i < j /\ ~ds[i].torn /\ ~ds[j].torn =>
    \A k \in 1..Len(ds[i].pieces), l \in 1..Len(ds[j].pieces) :
      Lt(ds[i].pieces[k], ds[j].pieces[l])

Ahead ==
  \A p \in Piece : Gone(p) \/ Held(p) =>
    /\ Past(p)
    /\ \A i \in Inodes : \A j \in 1..Len(content[i]) : Unread(i, j) => Lt(p, content[i][j])

Handle ==
  /\ file # None => ino = file
  /\ step \in {"drain", "close"} => torn \/ path # file

Once ==
  /\ Handle
  /\ Ahead
  /\ \A p, q \in Piece : Gone(p) /\ Held(q) => Lt(p, q)
  /\ Rising(Delivered)

OnceInv == MixInv /\ Written /\ (~raced => Once)

LEMMA OnceInit ==
  ASSUME TailerAssumption, Init
  PROVE  OnceInv
<1>1. \A i \in Inodes : content[i] = <<>>
  BY DEF Init
<1>2. Written
  BY <1>1 DEF Written
<1>3. Delivered = <<>> /\ partial = <<>>
  BY DEF Init, Delivered
<1>4. Ahead /\ (\A p, q \in Piece : Gone(p) /\ Held(q) => Lt(p, q)) /\ Rising(Delivered)
  BY <1>3 DEF Ahead, Gone, Held, Rising
<1>5. Handle
  BY DEF Init, Handle, None
<1> QED
  BY <1>2, <1>4, <1>5, MixInit DEF OnceInv, Once

\* Steps that write and read nothing, and open nothing that was read.
LEMMA Keeps ==
  ASSUME Once, Delivered' = Delivered, line' = line,
         \A p \in Piece : Held(p)' => Held(p),
         \A i \in Inodes : \A j \in 1..Len(content'[i]) : Unread(i, j)' =>
           j \in 1..Len(content[i]) /\ Unread(i, j) /\ content'[i][j] = content[i][j],
         Handle'
  PROVE  Once'
<1>1. \A p : Gone(p)' = Gone(p)
  BY DEF Gone
<1>2. \A p : Past(p)' = Past(p)
  BY DEF Past
<1>3. Ahead'
  BY <1>1, <1>2 DEF Once, Ahead, Lt
<1>4. \A p, q \in Piece : (Gone(p) /\ Held(q))' => Lt(p, q)
  BY <1>1 DEF Once
<1>5. Rising(Delivered')
  BY DEF Once
<1> QED
  BY <1>3, <1>4, <1>5 DEF Once, Lt, Rising

LEMMA WriteOnce ==
  ASSUME TailerAssumption, OnceInv, NEW end \in BOOLEAN, Write(end)
  PROVE  Written' /\ (~raced' => Once')
<1> DEFINE id == IF line.pieces = 0 THEN line.id + 1 ELSE line.id
           p == [line |-> id, nr |-> line.pieces + 1, end |-> end]
           c == content[writer]
<1>1. /\ content \in [Inodes -> Seq(Piece)] /\ writer \in Inodes /\ c \in Seq(Piece) /\ Len(c) \in Nat
      /\ line.id \in 0..MaxLines /\ line.pieces \in Nat /\ MaxLines \in Nat /\ MaxFiles \in Nat
  BY DEF OnceInv, MixInv, TypeOK, TailerAssumption, Inodes
<1>2. p \in Piece /\ p.line = id /\ p.nr = line.pieces + 1
  BY <1>1 DEF Write, Piece
<1>3. /\ content' = [content EXCEPT ![writer] = Append(c, p)]
      /\ line' = [id |-> id, pieces |-> IF end THEN 0 ELSE line.pieces + 1]
      /\ writer' = writer /\ path' = path /\ step' = step
      /\ file' = file /\ ino' = ino /\ pos' = pos /\ raced' = raced /\ torn' = torn
      /\ partial' = partial /\ Delivered' = Delivered
  BY <1>1 DEF Write, World, handle, lines, Delivered
<1>4. ASSUME NEW q \in Piece, Past(q)
      PROVE  PastAt(q, line') /\ Lt(q, p)
  <2>1. q.line \in Nat /\ q.nr \in Nat
    BY <1>1 DEF Piece
  <2>2. line'.id = id /\ line'.pieces = IF end THEN 0 ELSE line.pieces + 1
    BY <1>3
  <2>3. CASE line.pieces = 0
    BY <1>1, <1>2, <1>4, <2>1, <2>2, <2>3 DEF Past, PastAt, Lt
  <2>4. CASE line.pieces # 0
    BY <1>1, <1>2, <1>4, <2>1, <2>2, <2>4 DEF Past, PastAt, Lt
  <2> QED
    BY <2>3, <2>4
<1>5. PastAt(p, line')
  BY <1>1, <1>2, <1>3 DEF PastAt
<1> HIDE DEF p, id
<1>6. /\ content'[writer] = Append(c, p)
      /\ \A i \in Inodes : i # writer => content'[i] = content[i]
  BY <1>1, <1>3
<1>7. /\ Len(content'[writer]) = Len(c) + 1 /\ content'[writer][Len(c) + 1] = p
      /\ \A j \in 1..Len(c) : content'[writer][j] = c[j]
  BY <1>1, <1>2, <1>6, Appended
<1>8. ASSUME NEW i \in Inodes, NEW j \in 1..Len(content'[i])
      PROVE  \/ i = writer /\ j = Len(c) + 1 /\ content'[i][j] = p
             \/ j \in 1..Len(content[i]) /\ content'[i][j] = content[i][j] /\ content[i][j] \in Piece
  <2>1. CASE i = writer
    BY <1>1, <1>7, <1>8, <2>1
  <2>2. CASE i # writer
    BY <1>1, <1>6, <1>8, <2>2
  <2> QED
    BY <2>1, <2>2
<1>9. Written'
  <2>1. ASSUME NEW i \in Inodes, NEW j \in 1..Len(content'[i])
        PROVE  PastAt(content'[i][j], line')
    BY <1>4, <1>5, <1>8, <2>1 DEF OnceInv, Written
  <2>2. ASSUME NEW i \in Inodes, NEW j \in 1..Len(content'[i]), NEW k \in 1..Len(content'[i]), j < k
        PROVE  Lt(content'[i][j], content'[i][k])
    <3>1. CASE i = writer
      <4>1. j \in 1..Len(c) /\ content'[i][j] = c[j] /\ c[j] \in Piece
        BY <1>1, <1>7, <2>2, <3>1
      <4>2. CASE k \in 1..Len(c)
        BY <1>1, <1>7, <2>2, <3>1, <4>1, <4>2 DEF OnceInv, Written
      <4>3. CASE k = Len(c) + 1
        BY <1>1, <1>4, <1>7, <3>1, <4>1, <4>3 DEF OnceInv, Written
      <4> QED
        BY <1>1, <1>7, <3>1, <4>2, <4>3
    <3>2. CASE i # writer
      BY <1>6, <2>2, <3>2 DEF OnceInv, Written
    <3> QED
      BY <3>1, <3>2
  <2>3. ASSUME NEW i \in Inodes, NEW m \in Inodes, i < m,
               NEW j \in 1..Len(content'[i]), NEW k \in 1..Len(content'[m])
        PROVE  Lt(content'[i][j], content'[m][k])
    <3>1. m <= writer
      BY <1>1, <1>6, <2>3 DEF OnceInv, Written, Inodes
    <3>2. i # writer /\ content'[i] = content[i] /\ content[i][j] \in Piece
      BY <1>1, <1>6, <2>3, <3>1 DEF Inodes
    <3>3. CASE content'[m][k] = p
      BY <1>4, <2>3, <3>2, <3>3 DEF OnceInv, Written
    <3>4. CASE k \in 1..Len(content[m]) /\ content'[m][k] = content[m][k]
      BY <2>3, <3>2, <3>4 DEF OnceInv, Written
    <3> QED
      BY <1>8, <2>3, <3>3, <3>4
  <2>4. \A i \in Inodes : i > writer' => content'[i] = <<>>
    BY <1>1, <1>3, <1>6 DEF OnceInv, Written, Inodes
  <2> QED
    BY <2>1, <2>2, <2>3, <2>4 DEF Written, Past
<1>10. ASSUME ~raced'
       PROVE  Once'
  <2>1. Once
    BY <1>3, <1>10 DEF OnceInv
  <2>2. \A q : Gone(q)' = Gone(q) /\ Held(q)' = Held(q)
    BY <1>3 DEF Gone, Held
  <2>3. ASSUME NEW q \in Piece, Gone(q) \/ Held(q)
        PROVE  /\ PastAt(q, line')
               /\ \A i \in Inodes : \A j \in 1..Len(content'[i]) :
                    Unread(i, j)' => Lt(q, content'[i][j])
    <3>1. PastAt(q, line') /\ Lt(q, p)
      BY <1>4, <2>1, <2>3 DEF Once, Ahead
    <3>2. \A i, j : Unread(i, j)' = Unread(i, j)
      BY <1>3 DEF Unread
    <3> QED
      BY <1>8, <2>1, <2>3, <3>1, <3>2 DEF Once, Ahead
  <2>4. Ahead'
    BY <2>2, <2>3 DEF Ahead, Past
  <2>5. Handle'
    BY <1>3, <2>1 DEF Once, Handle
  <2>6. Rising(Delivered')
    BY <1>3, <2>1 DEF Once
  <2> QED
    BY <2>1, <2>2, <2>4, <2>5, <2>6 DEF Once, Lt, Rising
<1> QED
  BY <1>9, <1>10

LEMMA LogOnce ==
  ASSUME TailerAssumption, OnceInv, Log
  PROVE  OnceInv'
<1>1. MixInv'
  BY LogMix DEF OnceInv
<1>2. /\ content \in [Inodes -> Seq(Piece)] /\ made \in 1..MaxFiles /\ MaxFiles \in Nat
      /\ path \in {None, made} /\ writer \in 1..made /\ file \in 0..made
  BY DEF OnceInv, MixInv, TypeOK, TailerAssumption
<1>3. /\ step' = step /\ file' = file /\ ino' = ino /\ pos' = pos /\ raced' = raced
      /\ partial' = partial /\ Delivered' = Delivered
  BY DEF Log, Write, Rename, Create, Reopen, Truncate, World, handle, lines, Delivered
<1>4. CASE Rename \/ Create \/ Reopen
  <2>1. content' = content /\ line' = line /\ torn' = torn /\ writer' \in {writer, made}
    BY <1>2, <1>4 DEF Rename, Create, Reopen, None
  <2>2. \A i \in Inodes : i > writer => content[i] = <<>>
    BY DEF OnceInv, Written
  <2>3. Written'
    <3>1. \A i \in Inodes : i > writer' => content'[i] = <<>>
      BY <1>2, <2>1, <2>2 DEF Inodes
    <3> QED
      BY <2>1, <3>1 DEF OnceInv, Written, Past
  <2>4. path' = path \/ path' = None \/ path' = made + 1
    BY <1>4 DEF Rename, Create, Reopen
  <2>5. None \notin Inodes
    BY <1>2 DEF None, Inodes
  <2>6. ASSUME NEW i \in Inodes, NEW j \in 1..Len(content[i]), Unread(i, j)'
        PROVE  Unread(i, j)
    <3>1. CASE path' = made + 1 /\ i = path'
      <4>1. content[i] = <<>>
        BY <1>2, <2>2, <3>1
      <4> QED
        BY <2>6, <4>1
    <3>2. CASE ~(path' = made + 1 /\ i = path')
      BY <1>3, <2>1, <2>4, <2>5, <2>6, <3>2 DEF Unread
    <3> QED
      BY <3>1, <3>2
  <2>7. ASSUME ~raced'
        PROVE  Once'
    <3>1. Once
      BY <1>3, <2>7 DEF OnceInv
    <3>2. \A p \in Piece : Held(p)' => Held(p)
      BY <1>3, <2>1 DEF Held
    <3>3. Handle'
      <4>1. step \in {"drain", "close"} => file # None
        BY DEF OnceInv, MixInv, TypeOK
      <4>2. path' = path \/ file = None \/ path' # file
        BY <1>2, <2>4 DEF None
      <4> QED
        BY <1>3, <2>1, <3>1, <4>1, <4>2 DEF Once, Handle
    <3> QED
      BY <1>3, <2>1, <2>6, <3>1, <3>2, <3>3, Keeps
  <2> QED
    BY <1>1, <2>3, <2>7 DEF OnceInv
<1>5. CASE Truncate
  <2>1. /\ path \in Inodes /\ content' = [content EXCEPT ![path] = <<>>]
        /\ line' = line /\ writer' = writer /\ path' = path /\ torn' = (torn \/ file = path)
    BY <1>2, <1>5 DEF Truncate, Inodes, None
  <2>2. content'[path] = <<>> /\ \A i \in Inodes : i # path => content'[i] = content[i]
    BY <1>2, <2>1
  <2>3. \A i \in Inodes : \A j \in 1..Len(content'[i]) :
          i # path /\ j \in 1..Len(content[i]) /\ content'[i] = content[i]
    BY <2>2
  <2>4. Written'
    <3>1. \A i \in Inodes : i > writer' => content'[i] = <<>>
      BY <2>1, <2>2 DEF OnceInv, Written
    <3>2. \A q : Past(q)' = PastAt(q, line)
      BY <2>1 DEF Past
    <3> QED
      BY <2>1, <2>3, <3>1 DEF OnceInv, Written, Past
  <2>5. ASSUME ~raced'
        PROVE  Once'
    <3>1. Once
      BY <1>3, <2>5 DEF OnceInv
    <3>2. \A p \in Piece : Held(p)' => Held(p)
      BY <1>3, <2>1 DEF Held
    <3>3. Handle'
      BY <1>3, <2>1, <3>1 DEF Once, Handle
    <3>4. \A i \in Inodes : \A j \in 1..Len(content'[i]) : Unread(i, j)' => Unread(i, j)
      BY <1>3, <2>1, <2>3 DEF Unread
    <3> QED
      BY <1>3, <2>1, <2>3, <3>1, <3>2, <3>3, <3>4, Keeps
  <2> QED
    BY <1>1, <2>4, <2>5 DEF OnceInv
<1> QED
  BY <1>1, <1>4, <1>5, WriteOnce DEF Log, OnceInv

\* One read: the piece comes after all that was sent, and before all that is left.
LEMMA ConsumeOnce ==
  ASSUME TailerAssumption, OnceInv, Once, file # None, Consume, step' = step
  PROVE  Once'
<1> DEFINE c == content[file]
           e == c[pos+1]
           d == [pieces |-> LineSoFar, torn |-> torn]
<1>1. /\ file \in Inodes /\ c \in Seq(Piece) /\ pos \in Nat /\ pos + 1 \in 1..Len(c) /\ e \in Piece
      /\ partial \in Seq(Piece) /\ out \in Seq(Text) /\ got \in Seq(Text) /\ torn \in BOOLEAN
  <2>1. /\ file \in Inodes /\ c \in Seq(Piece) /\ pos \in Nat
        /\ partial \in Seq(Piece) /\ out \in Seq(Text) /\ got \in Seq(Text) /\ torn \in BOOLEAN
    BY Handled DEF OnceInv, MixInv, TypeOK
  <2>2. pos + 1 \in 1..Len(c)
    BY <2>1 DEF Consume, More
  <2>3. QED
    BY <2>1, <2>2
<1>2. /\ content' = content /\ line' = line /\ path' = path /\ file' = file /\ ino' = ino
      /\ pos' = pos + 1 /\ torn' = torn
  BY DEF Consume, disk
<1>3. /\ LineSoFar \in Seq(Piece) /\ Len(LineSoFar) = Len(partial) + 1 /\ LineSoFar[Len(partial) + 1] = e
      /\ \A k \in 1..Len(partial) : LineSoFar[k] = partial[k]
  BY <1>1, Appended DEF LineSoFar
<1>4. d \in Text
  BY <1>1, <1>3 DEF Text
<1>5. \/ e.end /\ Delivered' = Append(Delivered, d) /\ partial' = <<>>
      \/ Delivered' = Delivered /\ partial' \in {<<>>, LineSoFar}
  <2>1. got \o Append(out, d) = Append(got \o out, d)
    BY <1>1, <1>4
  <2> QED
    BY <2>1 DEF Consume, Kept, Delivered
<1>6. Delivered \in Seq(Text) /\ Len(Delivered) \in Nat
  BY <1>1 DEF Delivered
<1>7. ASSUME NEW k \in 1..Len(LineSoFar), ~torn
      PROVE  LineSoFar[k] = e \/ Held(LineSoFar[k])
  <2>1. CASE k \in 1..Len(partial)
    BY <1>3, <1>7, <2>1 DEF Held
  <2>2. CASE k = Len(partial) + 1
    BY <1>3, <2>2
  <2> QED
    BY <1>1, <1>3, <2>1, <2>2
<1>8. ~torn => Past(e) /\ Unread(file, pos + 1)
  BY <1>1 DEF OnceInv, Written, Unread
<1> HIDE DEF d, e
<1>9. ASSUME NEW q \in Piece, Gone(q)', ~Gone(q)
      PROVE  ~torn /\ (q = e \/ Held(q))
  <2>1. Delivered' = Append(Delivered, d)
    BY <1>5, <1>9 DEF Gone
  <2>2. /\ Len(Delivered') = Len(Delivered) + 1 /\ Delivered'[Len(Delivered) + 1] = d
        /\ \A i \in 1..Len(Delivered) : Delivered'[i] = Delivered[i]
    BY <1>4, <1>6, <2>1, Appended
  <2>3. ~d.torn /\ \E k \in 1..Len(d.pieces) : q = d.pieces[k]
    <3>1. PICK i \in 1..Len(Delivered') :
            ~Delivered'[i].torn /\ \E k \in 1..Len(Delivered'[i].pieces) : q = Delivered'[i].pieces[k]
      BY <1>9 DEF Gone
    <3>2. i \notin 1..Len(Delivered)
      BY <1>9, <2>2, <3>1 DEF Gone
    <3>3. i = Len(Delivered) + 1
      BY <1>6, <2>2, <3>2
    <3> QED
      BY <2>2, <3>1, <3>3
  <2> QED
    BY <1>7, <2>3 DEF d
<1>10. ASSUME NEW q \in Piece, Held(q)'
       PROVE  ~torn /\ (q = e \/ Held(q)) /\ Delivered' = Delivered
  BY <1>2, <1>5, <1>7, <1>10 DEF Held
<1>11. ASSUME NEW q \in Piece, Gone(q)
       PROVE  ~torn => Lt(q, e)
  BY <1>1, <1>8, <1>11 DEF Once, Ahead, e
<1>12. ASSUME NEW q \in Piece, Held(q)
       PROVE  Lt(q, e)
  BY <1>1, <1>8, <1>12 DEF Once, Ahead, e, Held
<1>13. Ahead'
  <2>1. \A i, j : Unread(i, j)' => Unread(i, j) \/ (i = file /\ j > pos + 1)
    BY <1>1, <1>2 DEF Unread
  <2>2. ASSUME NEW i \in Inodes, NEW j \in 1..Len(content[i]), Unread(i, j)', ~torn
        PROVE  Lt(e, content[i][j])
    <3>1. CASE i = file
      <4>1. j > pos + 1
        BY <1>2, <2>2, <3>1 DEF Unread
      <4> QED
        BY <1>1, <2>2, <3>1, <4>1 DEF OnceInv, Written, e
    <3>2. CASE i # file
      <4>1. i = path
        BY <1>2, <2>2, <3>2 DEF Unread
      <4>2. file < i
        <5>1. path \in {0, made} /\ made \in Nat /\ file \in 0..made /\ 0 \notin Inodes
          BY DEF OnceInv, MixInv, TypeOK, TailerAssumption, Inodes, None
        <5> QED
          BY <2>2, <3>2, <4>1, <5>1
      <4> QED
        BY <1>1, <2>2, <4>2 DEF OnceInv, Written, e
    <3> QED
      BY <3>1, <3>2
  <2>3. ASSUME NEW q \in Piece, (Gone(q) \/ Held(q))'
        PROVE  /\ Past(q)
               /\ \A i \in Inodes : \A j \in 1..Len(content[i]) :
                    Unread(i, j)' => Lt(q, content[i][j])
    <3>1. CASE Gone(q) \/ Held(q)
      <4>1. ASSUME NEW i \in Inodes, NEW j \in 1..Len(content[i]), Unread(i, j)'
            PROVE  Unread(i, j)
        BY <1>1, <1>2, <4>1 DEF Unread
      <4> QED
        BY <3>1, <4>1 DEF Once, Ahead
    <3>2. CASE q = e /\ ~torn
      BY <1>8, <2>2, <3>2
    <3> QED
      BY <1>9, <1>10, <2>3, <3>1, <3>2
  <2> QED
    BY <1>2, <2>3 DEF Ahead, Past, Lt
<1>14. ASSUME NEW p \in Piece, NEW q \in Piece, Gone(p)', Held(q)'
       PROVE  Lt(p, q)
  <2>1. Gone(p) /\ ~torn /\ (q = e \/ Held(q))
    BY <1>10, <1>14 DEF Gone
  <2> QED
    BY <1>11, <2>1 DEF Once
<1>15. Rising(Delivered')
  <2>1. CASE Delivered' = Delivered
    BY <2>1 DEF Once
  <2>2. CASE Delivered' = Append(Delivered, d)
    <3>1. /\ Len(Delivered') = Len(Delivered) + 1 /\ Delivered'[Len(Delivered) + 1] = d
          /\ \A i \in 1..Len(Delivered) : Delivered'[i] = Delivered[i]
      BY <1>4, <1>6, <2>2, Appended
    <3>2. ASSUME NEW i \in 1..Len(Delivered'), NEW j \in 1..Len(Delivered'), i < j,
                 ~Delivered'[i].torn, ~Delivered'[j].torn,
                 NEW k \in 1..Len(Delivered'[i].pieces), NEW l \in 1..Len(Delivered'[j].pieces)
          PROVE  Lt(Delivered'[i].pieces[k], Delivered'[j].pieces[l])
      <4>1. i \in 1..Len(Delivered) /\ Delivered'[i] = Delivered[i]
        BY <1>6, <3>1, <3>2
      <4>2. CASE j \in 1..Len(Delivered)
        BY <3>1, <3>2, <4>1, <4>2 DEF Once, Rising
      <4>3. CASE j = Len(Delivered) + 1
        <5>1. Delivered[i] \in Text
          BY <1>6, <4>1
        <5>2. Delivered[i].pieces[k] \in Piece /\ Gone(Delivered[i].pieces[k])
          BY <3>2, <4>1, <5>1 DEF Gone, Text
        <5>3. ~torn /\ l \in 1..Len(LineSoFar) /\ Delivered'[j].pieces[l] = LineSoFar[l]
          BY <3>1, <3>2, <4>3 DEF d
        <5>4. LineSoFar[l] \in Piece /\ (LineSoFar[l] = e \/ Held(LineSoFar[l]))
          BY <1>3, <1>7, <5>3
        <5> QED
          BY <1>11, <4>1, <5>2, <5>3, <5>4 DEF Once
      <4>4. j \in 1..Len(Delivered) \/ j = Len(Delivered) + 1
        BY <1>6, <3>1
      <4> QED
        BY <4>2, <4>3, <4>4
    <3> QED
      BY <3>2 DEF Rising
  <2> QED
    BY <1>5, <2>1, <2>2
<1>16. Handle'
  BY <1>2 DEF Once, Handle
<1> QED
  BY <1>13, <1>14, <1>15, <1>16 DEF Once, Lt, Rising

LEMMA TailerOnce ==
  ASSUME TailerAssumption, OnceInv, Tailer
  PROVE  OnceInv'
<1>1. MixInv'
  BY TailerMix DEF OnceInv
<1>2. content' = content /\ line' = line /\ writer' = writer /\ path' = path
  BY DEF Tailer, Poll, Drain, EndDrain, Read, Consume, Close, Open, OpenFails, EndRead, Flush, disk
<1>3. Written'
  BY <1>2 DEF OnceInv, Written, Past
<1>4. /\ path \in {0, made} /\ made \in Nat /\ file \in 0..made /\ 0 \notin Inodes
      /\ got \in Seq(Text) /\ out \in Seq(Text) /\ torn \in BOOLEAN /\ pos \in Nat
      /\ step \in {"drain", "close", "read"} => file # None
      /\ step = "open" => file = None
      /\ file # None => file \in Inodes /\ Len(content[file]) \in Nat
  BY Handled DEF OnceInv, MixInv, TypeOK, TailerAssumption, Inodes, None
<1>5. ASSUME Once, Delivered' = Delivered, \A p \in Piece : Held(p)' => Held(p),
             \A i \in Inodes : \A j \in 1..Len(content[i]) : Unread(i, j)' => Unread(i, j),
             Handle'
      PROVE  Once'
  BY <1>2, <1>5, Keeps
<1>6. ASSUME ~raced'
      PROVE  Once'
  <2>1. Once
    BY <1>6 DEF OnceInv, Tailer, Poll, Drain, EndDrain, Read, Consume, Close, Open, OpenFails, EndRead, Flush, handle
  <2>2. CASE Drain \/ Read
    BY <1>4, <2>1, <2>2, ConsumeOnce DEF Drain, Read
  <2>3. CASE Poll
    <3>1. /\ Delivered' = Delivered /\ file' = file /\ ino' = ino /\ torn' = torn /\ partial' = partial
          /\ (file # None => pos' = pos)
      BY <2>3 DEF Poll, Delivered, lines
    <3>2. Handle'
      <4>1. ASSUME step' \in {"drain", "close"}
            PROVE  torn \/ path # file
        <5>1. file # None /\ (path = None \/ path # ino \/ Len(content[path]) < pos)
          BY <2>3, <4>1 DEF Poll, Rotated
        <5>2. torn \/ pos <= Len(content[file])
          BY <5>1 DEF OnceInv, MixInv, Pending
        <5> QED
          BY <1>4, <2>1, <5>1, <5>2 DEF Once, Handle, None
      <4> QED
        BY <1>2, <2>1, <3>1, <4>1 DEF Once, Handle
    <3>3. \A p \in Piece : Held(p)' => Held(p)
      BY <3>1 DEF Held
    <3>4. \A i \in Inodes : \A j \in 1..Len(content[i]) : Unread(i, j)' => Unread(i, j)
      BY <1>2, <1>4, <3>1 DEF Unread, None
    <3> QED
      BY <1>5, <2>1, <3>1, <3>2, <3>3, <3>4
  <2>4. CASE Close
    <3>1. /\ Delivered' = Delivered /\ file' = 0 /\ torn' = FALSE /\ partial' = <<>>
          /\ step' \notin {"drain", "close"} /\ (torn \/ path # file)
      BY <1>4, <2>1, <2>4 DEF Close, Leave, Delivered, lines, None, Once, Handle
    <3>2. \A p \in Piece : Held(p)' => Held(p)
      BY <3>1 DEF Held
    <3>3. \A i \in Inodes : \A j \in 1..Len(content[i]) : Unread(i, j)' => Unread(i, j)
      BY <1>2, <1>4, <3>1 DEF Unread
    <3>4. Handle'
      BY <3>1 DEF Handle, None
    <3> QED
      BY <1>5, <2>1, <3>1, <3>2, <3>3, <3>4
  <2>5. CASE Open
    <3>1. file = 0 /\ ~torn /\ partial = <<>>
      BY <1>4, <2>5 DEF OnceInv, MixInv, Pending, Open, None
    <3>2. /\ Delivered' = Delivered /\ file' = path /\ ino' = path /\ torn' = torn /\ partial' = partial
          /\ step' \notin {"drain", "close"}
      BY <1>6, <2>5 DEF Open, Delivered, lines
    <3>3. \A p \in Piece : Held(p)' => Held(p)
      BY <3>1, <3>2 DEF Held
    <3>4. \A i \in Inodes : \A j \in 1..Len(content[i]) : Unread(i, j)' => Unread(i, j)
      BY <1>2, <1>4, <3>1, <3>2 DEF Unread
    <3>5. Handle'
      BY <3>2 DEF Handle
    <3> QED
      BY <1>5, <2>1, <3>2, <3>3, <3>4, <3>5
  <2>6. CASE EndDrain
    <3>1. /\ Delivered' = Delivered /\ file' = file /\ ino' = ino /\ pos' = pos /\ torn' = torn
          /\ partial' = partial /\ step = "drain"
      BY <2>6 DEF EndDrain, Delivered, handle, lines
    <3>2. (\A p \in Piece : Held(p)' => Held(p)) /\ Handle'
      BY <1>2, <2>1, <3>1 DEF Held, Once, Handle
    <3>3. \A i \in Inodes : \A j \in 1..Len(content[i]) : Unread(i, j)' => Unread(i, j)
      BY <1>2, <3>1 DEF Unread
    <3> QED
      BY <1>5, <2>1, <3>1, <3>2, <3>3
  <2>7. CASE OpenFails \/ EndRead \/ Flush
    <3>1. Delivered' = Delivered
      <4>1. (got \o out) \o <<>> = got \o out
        BY <1>4
      <4> QED
        BY <2>7, <4>1 DEF OpenFails, EndRead, Flush, Delivered, lines
    <3>2. /\ file' = file /\ ino' = ino /\ pos' = pos /\ torn' = torn /\ partial' = partial
          /\ step' \notin {"drain", "close"}
      BY <2>7 DEF OpenFails, EndRead, Flush, handle
    <3>3. (\A p \in Piece : Held(p)' => Held(p)) /\ Handle'
      BY <2>1, <3>2 DEF Held, Once, Handle
    <3>4. \A i \in Inodes : \A j \in 1..Len(content[i]) : Unread(i, j)' => Unread(i, j)
      BY <1>2, <3>2 DEF Unread
    <3> QED
      BY <1>5, <2>1, <3>1, <3>3, <3>4
  <2> QED
    BY <2>2, <2>3, <2>4, <2>5, <2>6, <2>7 DEF Tailer
<1> QED
  BY <1>1, <1>3, <1>6 DEF OnceInv

LEMMA StutterOnce ==
  ASSUME OnceInv, UNCHANGED vars
  PROVE  OnceInv'
<1>1. MixInv'
  BY StutterMix DEF OnceInv
<1>2. /\ content' = content /\ line' = line /\ path' = path /\ writer' = writer /\ step' = step
      /\ file' = file /\ ino' = ino /\ pos' = pos /\ raced' = raced /\ torn' = torn
      /\ partial' = partial /\ Delivered' = Delivered
  BY DEF vars, disk, handle, lines, Delivered
<1>3. Written'
  BY <1>2 DEF OnceInv, Written, Past
<1>4. Once => Once'
  <2>1. Handle => Handle'
    BY <1>2 DEF Handle
  <2>2. \A p : (Held(p)' = Held(p)) /\ \A i, j : Unread(i, j)' = Unread(i, j)
    BY <1>2 DEF Held, Unread
  <2> QED
    BY <1>2, <2>1, <2>2, Keeps DEF Once
<1> QED
  BY <1>1, <1>2, <1>3, <1>4 DEF OnceInv

LEMMA OnceImplies ==
  ASSUME OnceInv
  PROVE  DeliveredOnce
<1>1. Delivered \in Seq(Text) /\ Len(Delivered) \in Nat
  BY DEF OnceInv, MixInv, TypeOK, Delivered
<1>2. SUFFICES ASSUME ~raced, NEW i \in 1..Len(Delivered), NEW j \in 1..Len(Delivered), i # j,
                      ~Delivered[i].torn, ~Delivered[j].torn,
                      NEW k \in DOMAIN Delivered[i].pieces, NEW l \in DOMAIN Delivered[j].pieces
               PROVE  Delivered[i].pieces[k] # Delivered[j].pieces[l]
  BY <1>1 DEF DeliveredOnce
<1>3. Delivered[i].pieces \in Seq(Piece) /\ Delivered[j].pieces \in Seq(Piece)
  <2>1. Delivered[i] \in Text /\ Delivered[j] \in Text
    BY <1>1
  <2> QED
    BY <2>1 DEF Text
<1>4. /\ k \in 1..Len(Delivered[i].pieces) /\ l \in 1..Len(Delivered[j].pieces)
      /\ Delivered[i].pieces[k] \in Piece /\ Delivered[j].pieces[l] \in Piece
  BY <1>2, <1>3
<1>5. Rising(Delivered)
  BY <1>2 DEF OnceInv, Once
<1>6. Lt(Delivered[i].pieces[k], Delivered[j].pieces[l]) \/ Lt(Delivered[j].pieces[l], Delivered[i].pieces[k])
  BY <1>1, <1>2, <1>4, <1>5 DEF Rising
<1>7. \A p \in Piece : ~Lt(p, p)
  <2>1. MaxLines \in Nat
    BY TailerAssumption DEF TailerAssumption
  <2> QED
    BY <2>1 DEF Piece, Lt
<1> QED
  BY <1>4, <1>6, <1>7

\* Nothing is delivered twice, whatever rotations, truncations and reads come between:
\* only a log replaced between the look at it and its opening can make that happen.
THEOREM NothingTwice == Spec => []DeliveredOnce
<1>1. Init => OnceInv
  BY TailerAssumption, OnceInit
<1>2. OnceInv /\ [Next]_vars => OnceInv'
  BY TailerAssumption, LogOnce, TailerOnce, StutterOnce DEF Next
<1>3. OnceInv => DeliveredOnce
  BY OnceImplies
<1>4. QED
  BY <1>1, <1>2, <1>3, PTL DEF Spec

-----------------------------------------------------------------------------
(* No line left out.  What the tailer keeps is the line in which its       *)
(* offset stands, from its first piece on, if that was not too long so far *)
(* and began after the file was opened (Pieced).                           *)

\* The pieces of c from first to n are a line so far, begun after offset o, and not too long.
Lead(c, o, first, n) ==
  /\ o < first
  /\ first = 1 \/ c[first-1].end
  /\ \A i \in first..n : ~c[i].end
  /\ n - first + 1 <= MaxLine

Spells(s, c, first, last) ==
  /\ Len(s) = last - first + 1
  /\ \A k \in 1..Len(s) : s[k] = c[first + k - 1]

Covered ==
  LET c == content[file] IN
  \A last \in 1..pos : \A first \in 1..last : c[last].end /\ Lead(c, opened, first, last - 1) =>
    \E i \in 1..Len(Delivered) : Spells(Delivered[i].pieces, c, first, last)

Pieced ==
  \A first \in 1..pos+1 :
    Lead(content[file], opened, first, pos) => Spells(partial, content[file], first, pos)

SkipInv == MixInv /\ (file # None /\ ~torn => Covered /\ Pieced)

LEMMA SkipInit ==
  ASSUME TailerAssumption, Init
  PROVE  SkipInv
BY MixInit DEF SkipInv, Init

\* Steps that only add to the open file, or leave it alone.
LEMMA SkipKeeps ==
  ASSUME SkipInv, file # None, ~torn,
         \A j \in 1..pos : content'[file][j] = content[file][j],
         file' = file, pos' = pos, opened' = opened, partial' = partial, Delivered' = Delivered
  PROVE  Covered' /\ Pieced'
<1> DEFINE c == content[file]
           d == content'[file]
<1>1. pos \in Nat /\ partial \in Seq(Piece) /\ Delivered \in Seq(Text) /\ MaxLine \in Nat
  BY TailerAssumption DEF SkipInv, MixInv, TypeOK, Delivered, TailerAssumption
<1>2. \A j \in 1..pos : d[j] = c[j]
  OBVIOUS
<1> HIDE DEF c, d
<1>3. ASSUME NEW n \in 0..pos, NEW first \in 1..n+1, Lead(d, opened, first, n)
      PROVE  Lead(c, opened, first, n)
  <2>1. \A i \in first..n : i \in 1..pos
    BY <1>1
  <2>2. first = 1 \/ first - 1 \in 1..pos
    BY <1>1
  <2> QED
    BY <1>2, <1>3, <2>1, <2>2 DEF Lead
<1>4. ASSUME NEW s, Len(s) \in Nat, NEW last \in 0..pos, NEW first \in 1..last+1, Spells(s, c, first, last)
      PROVE  Spells(s, d, first, last)
  <2>1. \A k \in 1..Len(s) : first + k - 1 \in 1..pos
    BY <1>1, <1>4 DEF Spells
  <2> QED
    BY <1>2, <1>4, <2>1 DEF Spells
<1>5. \A i \in 1..Len(Delivered) : Len(Delivered[i].pieces) \in Nat
  BY <1>1 DEF Text
<1>6. ASSUME NEW last \in 1..pos, NEW first \in 1..last, d[last].end, Lead(d, opened, first, last - 1)
      PROVE  \E i \in 1..Len(Delivered) : Spells(Delivered[i].pieces, d, first, last)
  <2>1. last - 1 \in 0..pos /\ first \in 1..(last-1)+1 /\ last \in 0..pos /\ first \in 1..last+1
    BY <1>1
  <2>2. c[last].end /\ Lead(c, opened, first, last - 1)
    BY <1>2, <1>3, <1>6, <2>1
  <2>3. PICK i \in 1..Len(Delivered) : Spells(Delivered[i].pieces, c, first, last)
    BY <2>2 DEF SkipInv, Covered, c
  <2> QED
    BY <1>4, <1>5, <2>1, <2>3
<1>7. ASSUME NEW first \in 1..pos+1, Lead(d, opened, first, pos)
      PROVE  Spells(partial, d, first, pos)
  <2>1. pos \in 0..pos /\ Len(partial) \in Nat
    BY <1>1
  <2>2. Spells(partial, c, first, pos)
    BY <1>3, <1>7, <2>1 DEF SkipInv, Pieced, c
  <2> QED
    BY <1>4, <2>1, <2>2
<1>8. Covered'
  BY <1>6 DEF Covered, d
<1>9. Pieced'
  BY <1>7 DEF Pieced, d
<1> QED
  BY <1>8, <1>9

LEMMA LogSkip ==
  ASSUME TailerAssumption, SkipInv, Log
  PROVE  SkipInv'
<1>1. /\ file' = file /\ pos' = pos /\ opened' = opened /\ partial' = partial /\ Delivered' = Delivered
  BY DEF Log, Write, Rename, Create, Reopen, Truncate, World, handle, lines, Delivered
<1>2. ASSUME file # None, ~torn'
      PROVE  ~torn /\ \A j \in 1..pos : content'[file][j] = content[file][j]
  <2>1. /\ file \in Inodes /\ content[file] \in Seq(Piece) /\ Len(content[file]) \in Nat /\ pos \in Nat
        /\ content \in [Inodes -> Seq(Piece)]
    BY <1>2, Handled DEF SkipInv, MixInv, TypeOK
  <2>2. ASSUME ~torn
        PROVE  \A j \in 1..pos : j \in 1..Len(content[file])
    BY <1>2, <2>1, <2>2 DEF SkipInv, MixInv, Pending
  <2>3. CASE Rename \/ Create \/ Reopen
    BY <1>2, <2>3 DEF Rename, Create, Reopen
  <2>4. CASE Truncate
    <3>1. ~torn /\ file # path
      BY <1>2, <2>4 DEF Truncate
    <3>2. content'[file] = content[file]
      BY <2>1, <2>4, <3>1 DEF Truncate
    <3> QED
      BY <3>1, <3>2
  <2>5. ASSUME NEW end \in BOOLEAN, Write(end)
        PROVE  ~torn /\ \A j \in 1..pos : content'[file][j] = content[file][j]
    <3>1. torn' = torn
      BY <2>5 DEF Write
    <3>2. PICK p : content' = [content EXCEPT ![writer] = Append(content[writer], p)]
      BY <2>5 DEF Write
    <3>3. \A j \in 1..Len(content[file]) : Append(content[file], p)[j] = content[file][j]
      BY <2>1
    <3>4. content'[file] \in {content[file], Append(content[file], p)}
      BY <2>1, <3>2
    <3> QED
      BY <1>2, <2>2, <3>1, <3>3, <3>4
  <2> QED
    BY <2>3, <2>4, <2>5 DEF Log
<1>3. MixInv'
  BY LogMix DEF SkipInv
<1> QED
  BY <1>1, <1>2, <1>3, SkipKeeps DEF SkipInv

LEMMA JustAfter ==
  ASSUME NEW n \in Nat, NEW first \in 1..n+1, n < first
  PROVE  first = n + 1 /\ n - first + 1 = 0
OBVIOUS

LEMMA OneLonger ==
  ASSUME NEW c, NEW n \in Nat, NEW first \in 1..n+1, NEW s, Len(s) \in Nat, Spells(s, c, first, n),
         NEW l, Len(l) = Len(s) + 1, l[Len(s) + 1] = c[n + 1], \A k \in 1..Len(s) : l[k] = s[k]
  PROVE  Spells(l, c, first, n + 1)
<1>1. Len(s) = n - first + 1 /\ Len(l) = (n + 1) - first + 1
  BY DEF Spells
<1>2. ASSUME NEW k \in 1..Len(l)
      PROVE  l[k] = c[first + k - 1]
  <2>1. CASE k \in 1..Len(s)
    BY <2>1 DEF Spells
  <2>2. CASE k = Len(s) + 1
    <3>1. first + k - 1 = n + 1
      BY <1>1, <2>2
    <3> QED
      BY <2>2, <3>1
  <2> QED
    BY <2>1, <2>2
<1> QED
  BY <1>1, <1>2 DEF Spells

\* One read: the line it ends was kept from its first piece on.
LEMMA ConsumeSkip ==
  ASSUME TailerAssumption, SkipInv, file # None, ~torn, Consume
  PROVE  Covered' /\ Pieced'
<1> DEFINE c == content[file]
           e == c[pos+1]
           d == [pieces |-> LineSoFar, torn |-> torn]
<1>0. c[pos+1] = e
  OBVIOUS
<1>1. /\ c \in Seq(Piece) /\ pos \in Nat /\ pos + 1 \in 1..Len(c) /\ e \in Piece /\ MaxLine \in Nat
      /\ partial \in Seq(Piece) /\ out \in Seq(Text) /\ got \in Seq(Text) /\ torn \in BOOLEAN
  <2>1. /\ c \in Seq(Piece) /\ pos \in Nat /\ MaxLine \in Nat
        /\ partial \in Seq(Piece) /\ out \in Seq(Text) /\ got \in Seq(Text) /\ torn \in BOOLEAN
    BY Handled DEF SkipInv, MixInv, TypeOK, TailerAssumption
  <2>2. pos + 1 \in 1..Len(c)
    BY <2>1 DEF Consume, More
  <2>3. QED
    BY <2>1, <2>2
<1>2. content' = content /\ file' = file /\ opened' = opened /\ pos' = pos + 1
  BY DEF Consume, disk
<1>3. /\ LineSoFar \in Seq(Piece) /\ Len(LineSoFar) = Len(partial) + 1 /\ LineSoFar[Len(partial) + 1] = e
      /\ \A k \in 1..Len(partial) : LineSoFar[k] = partial[k]
  BY <1>1, Appended DEF LineSoFar
<1>4. d \in Text
  BY <1>1, <1>3 DEF Text
<1>5. \/ e.end /\ Delivered' = Append(Delivered, d) /\ partial' = <<>>
      \/ ~e.end /\ Delivered' = Delivered /\ partial' = Kept(LineSoFar)
  <2>1. got \o Append(out, d) = Append(got \o out, d)
    BY <1>1, <1>4
  <2> QED
    BY <2>1 DEF Consume, Delivered
<1>6. Delivered \in Seq(Text) /\ Len(Delivered) \in Nat
  BY <1>1 DEF Delivered
<1>7. d.pieces = LineSoFar
  OBVIOUS
<1>8. Covered /\ Pieced
  BY DEF SkipInv
<1> HIDE DEF c, d, e
<1>9. ASSUME NEW first \in 1..pos+1, Lead(c, opened, first, pos)
      PROVE  Spells(LineSoFar, c, first, pos + 1)
  <2>1. Spells(partial, c, first, pos)
    BY <1>8, <1>9 DEF Pieced, c
  <2> DEFINE n == Len(partial)
  <2>2. /\ n \in Nat /\ Len(LineSoFar) = n + 1 /\ LineSoFar[n + 1] = c[pos + 1]
        /\ \A k \in 1..n : LineSoFar[k] = partial[k]
    BY <1>0, <1>1, <1>3
  <2> QED
    BY <1>1, <2>1, <2>2, OneLonger
<1>10. ASSUME NEW last \in 1..pos+1, NEW first \in 1..last, c[last].end, Lead(c, opened, first, last - 1)
       PROVE  \E i \in 1..Len(Delivered') : Spells(Delivered'[i].pieces, c, first, last)
  <2>1. /\ Len(Delivered) <= Len(Delivered')
        /\ \A i \in 1..Len(Delivered) : i \in 1..Len(Delivered') /\ Delivered'[i] = Delivered[i]
    <3>1. CASE Delivered' = Delivered
      BY <1>6, <3>1
    <3>2. CASE Delivered' = Append(Delivered, d)
      BY <1>4, <1>6, <3>2, Appended
    <3> QED
      BY <1>5, <3>1, <3>2
  <2>2. CASE last \in 1..pos
    <3>1. PICK i \in 1..Len(Delivered) : Spells(Delivered[i].pieces, c, first, last)
      BY <1>8, <1>10, <2>2 DEF Covered, c
    <3> QED
      BY <2>1, <3>1
  <2>3. CASE last = pos + 1
    <3>1. first \in 1..pos+1 /\ last - 1 = pos
      BY <1>1, <2>3
    <3>2. Spells(LineSoFar, c, first, last)
      BY <1>9, <1>10, <2>3, <3>1
    <3>3. Delivered' = Append(Delivered, d)
      BY <1>5, <1>10, <1>0, <2>3
    <3>4. Len(Delivered) + 1 \in 1..Len(Delivered') /\ Delivered'[Len(Delivered) + 1] = d
      BY <1>4, <1>6, <3>3, Appended
    <3> QED
      BY <1>7, <3>2, <3>4
  <2> QED
    BY <1>1, <2>2, <2>3
<1>11. ASSUME NEW first \in 1..(pos+1)+1, Lead(c, opened, first, pos + 1)
       PROVE  Spells(partial', c, first, pos + 1)
  <2>1. CASE first = pos + 2
    <3>1. e.end
      <4>1. first # 1 /\ first - 1 = pos + 1
        BY <1>1, <2>1
      <4> QED
        BY <1>11, <1>0, <4>1 DEF Lead
    <3>2. partial' = <<>>
      BY <1>5, <3>1
    <3> QED
      BY <1>1, <2>1, <3>2 DEF Spells
  <2>2. CASE first \in 1..pos+1
    <3>1. ~e.end
      BY <1>1, <1>11, <1>0, <2>2 DEF Lead
    <3>2. Lead(c, opened, first, pos)
      <4>1. \A i \in first..pos : i \in first..pos+1
        BY <1>1, <2>2
      <4>2. pos - first + 1 <= MaxLine
        BY <1>1, <1>11, <2>2 DEF Lead
      <4> QED
        BY <1>11, <4>1, <4>2 DEF Lead
    <3>3. Spells(LineSoFar, c, first, pos + 1)
      BY <1>9, <2>2, <3>2
    <3>4. Len(LineSoFar) <= MaxLine
      BY <1>11, <3>3 DEF Lead, Spells
    <3>5. partial' = LineSoFar
      BY <1>1, <1>3, <1>5, <3>1, <3>4 DEF Kept
    <3> QED
      BY <3>3, <3>5
  <2> QED
    BY <1>1, <2>1, <2>2
<1>12. Covered'
  BY <1>2, <1>10 DEF Covered, c
<1>13. Pieced'
  BY <1>2, <1>11 DEF Pieced, c
<1> QED
  BY <1>12, <1>13

LEMMA TailerSkip ==
  ASSUME TailerAssumption, SkipInv, Tailer
  PROVE  SkipInv'
<1>1. MixInv'
  BY TailerMix DEF SkipInv
<1>2. content' = content
  BY DEF Tailer, Poll, Drain, EndDrain, Read, Consume, Close, Open, OpenFails, EndRead, Flush, disk
<1>3. /\ step \in {"drain", "read"} => file # None
      /\ step = "open" => file = None
      /\ got \in Seq(Text) /\ out \in Seq(Text)
      /\ path \in {None, made} /\ made \in 1..MaxFiles /\ MaxFiles \in Nat
      /\ content \in [Inodes -> Seq(Piece)]
  BY DEF SkipInv, MixInv, TypeOK, TailerAssumption
<1>4. ASSUME file' # None, ~torn'
      PROVE  Covered' /\ Pieced'
  <2>1. CASE Drain \/ Read
    <3>1. file # None /\ ~torn /\ Consume
      BY <1>3, <1>4, <2>1 DEF Drain, Read, Consume
    <3> QED
      BY <3>1, ConsumeSkip
  <2>2. CASE Close
    BY <1>4, <2>2 DEF Close, Leave
  <2>3. CASE Open
    <3>1. file = None /\ ~torn /\ partial = <<>>
      BY <1>3, <2>3 DEF SkipInv, MixInv, Pending, Open
    <3>2. path \in Inodes /\ Len(content[path]) \in Nat
      BY <1>3, <2>3 DEF Open, Inodes
    <3>3. opened' = pos' /\ pos' \in Nat /\ partial' = <<>>
      BY <2>3, <3>1, <3>2 DEF Open
    <3>4. ASSUME NEW c, NEW last \in 1..pos', NEW first \in 1..last, Lead(c, opened', first, last - 1)
          PROVE  FALSE
      BY <3>3, <3>4 DEF Lead
    <3>5. ASSUME NEW c, NEW first \in 1..pos'+1, Lead(c, opened', first, pos')
          PROVE  Spells(partial', c, first, pos')
      <4>1. opened' < first
        BY <3>5 DEF Lead
      <4>2. first = pos' + 1 /\ pos' - first + 1 = 0
        BY <3>3, <4>1, JustAfter
      <4>3. Len(partial') = 0 /\ 1..0 = {}
        BY <3>3
      <4> QED
        BY <4>2, <4>3 DEF Spells
    <3>6. Covered'
      BY <3>4 DEF Covered, Lead
    <3>7. Pieced'
      BY <3>5 DEF Pieced, Lead, Spells
    <3> QED
      BY <3>6, <3>7
  <2>4. CASE Poll \/ EndDrain \/ OpenFails \/ EndRead \/ Flush
    <3>1. file' = file /\ torn' = torn /\ opened' = opened /\ partial' = partial
      BY <2>4 DEF Poll, EndDrain, OpenFails, EndRead, Flush, handle
    <3>2. pos' = pos
      BY <1>4, <2>4, <3>1 DEF Poll, EndDrain, OpenFails, EndRead, Flush, handle
    <3>3. Delivered' = Delivered
      <4>1. (got \o out) \o <<>> = got \o out
        BY <1>3
      <4> QED
        BY <2>4, <4>1 DEF Poll, EndDrain, OpenFails, EndRead, Flush, Delivered, lines
    <3> QED
      BY <1>2, <1>4, <3>1, <3>2, <3>3, SkipKeeps
  <2> QED
    BY <2>1, <2>2, <2>3, <2>4 DEF Tailer
<1> QED
  BY <1>1, <1>4 DEF SkipInv

LEMMA StutterSkip ==
  ASSUME SkipInv, UNCHANGED vars
  PROVE  SkipInv'
<1>1. MixInv'
  BY StutterMix DEF SkipInv
<1>2. /\ content' = content /\ file' = file /\ pos' = pos /\ opened' = opened /\ torn' = torn
      /\ partial' = partial /\ Delivered' = Delivered
  BY DEF vars, disk, handle, lines, Delivered
<1> QED
  BY <1>1, <1>2, SkipKeeps DEF SkipInv

LEMMA Spelled ==
  ASSUME NEW c \in Seq(Piece), NEW last \in 1..Len(c), NEW first \in 1..last,
         NEW s \in Seq(Piece), Spells(s, c, first, last)
  PROVE  s = SubSeq(c, first, last)
<1>1. /\ SubSeq(c, first, last) \in Seq(Piece)
      /\ Len(SubSeq(c, first, last)) = last - first + 1
      /\ \A k \in 1..(last - first + 1) : SubSeq(c, first, last)[k] = c[first + k - 1]
  OBVIOUS
<1> QED
  BY <1>1 DEF Spells

LEMMA SkipImplies ==
  ASSUME TailerAssumption, SkipInv
  PROVE  NothingSkipped
<1>1. SUFFICES ASSUME file # None, ~torn,
                      NEW first \in 1..Len(content[file]),
                      NEW last \in 1..Least(pos, Len(content[file])),
                      first <= last, WholeLine(first, last)
               PROVE  \E i \in DOMAIN Delivered :
                        Delivered[i].pieces = SubSeq(content[file], first, last)
  BY DEF NothingSkipped, Arrived
<1>2. /\ content[file] \in Seq(Piece) /\ Len(content[file]) \in Nat /\ pos \in Nat /\ MaxLine \in Nat
      /\ opened \in Nat /\ Delivered \in Seq(Text)
  BY <1>1, Handled DEF SkipInv, MixInv, TypeOK, Delivered, TailerAssumption
<1>3. last \in 1..pos /\ last \in 1..Len(content[file]) /\ first \in 1..last
  BY <1>1, <1>2 DEF Least
<1>4. content[file][last].end /\ Lead(content[file], opened, first, last - 1)
  <2>1. (last - 1) - first + 1 = last - first
    BY <1>3
  <2> QED
    BY <1>1, <2>1 DEF WholeLine, Lead
<1>5. PICK i \in 1..Len(Delivered) : Spells(Delivered[i].pieces, content[file], first, last)
  BY <1>1, <1>3, <1>4 DEF SkipInv, Covered
<1>6. Delivered[i].pieces \in Seq(Piece) /\ i \in DOMAIN Delivered
  <2>1. Delivered[i] \in Text
    BY <1>2
  <2> QED
    BY <1>2, <2>1 DEF Text
<1> QED
  BY <1>2, <1>3, <1>5, <1>6, Spelled

\* No whole line of the open file that was read is missing from what was delivered,
\* wherever the reads cut it and whatever is written meanwhile.
THEOREM SkipsNothing == Spec => []NothingSkipped
<1>1. Init => SkipInv
  BY TailerAssumption, SkipInit
<1>2. SkipInv /\ [Next]_vars => SkipInv'
  BY TailerAssumption, LogSkip, TailerSkip, StutterSkip DEF Next
<1>3. SkipInv => NothingSkipped
  BY TailerAssumption, SkipImplies
<1>4. QED
  BY <1>1, <1>2, <1>3, PTL DEF Spec

-----------------------------------------------------------------------------
(* Leaving a file.  What was in it when the tailer saw that it is gone or  *)
(* rotated stays within what it reads before it closes it.                 *)

Seen ==
  file # None /\ ~torn =>
    /\ step = "drain" => due <= Len(content[file])
    /\ step = "close" => due <= pos

LEMMA LogSeen ==
  ASSUME TailerAssumption, TypeOK, Seen, Log
  PROVE  Seen'
<1>1. step' = step /\ due' = due /\ file' = file /\ pos' = pos
  BY DEF Log, Write, Rename, Create, Reopen, Truncate, World, look, handle
<1>2. ASSUME file' # None, ~torn', step' = "drain"
      PROVE  due' <= Len(content'[file'])
  <2>1. file # None /\ file \in Inodes /\ content[file] \in Seq(Piece) /\ content \in [Inodes -> Seq(Piece)]
        /\ due \in Nat
    BY <1>1, <1>2, Handled DEF TypeOK
  <2>2. CASE \E end \in BOOLEAN : Write(end)
    <3>1. ~torn
      BY <1>2, <2>2 DEF Write
    <3>2. PICK p \in Piece : content' = [content EXCEPT ![writer] = Append(@, p)]
      <4>1. PICK end \in BOOLEAN : Write(end)
        BY <2>2
      <4>2. [line |-> IF line.pieces = 0 THEN line.id + 1 ELSE line.id,
             nr |-> line.pieces + 1, end |-> end] \in Piece
        BY <4>1 DEF Write, Piece, TypeOK, TailerAssumption
      <4> QED
        BY <4>1, <4>2 DEF Write
    <3>3. Len(content'[file]) >= Len(content[file])
      BY <2>1, <3>2
    <3>4. due <= Len(content[file])
      BY <1>1, <1>2, <2>1, <3>1 DEF Seen
    <3> QED
      BY <1>1, <2>1, <3>3, <3>4
  <2>3. CASE Rename \/ Create \/ Reopen
    BY <1>1, <1>2, <2>3 DEF Seen, Rename, Create, Reopen
  <2>4. CASE Truncate
    BY <1>1, <1>2, <2>1, <2>4 DEF Seen, Truncate
  <2> QED
    BY <2>2, <2>3, <2>4 DEF Log
<1>3. torn => torn'
  BY DEF Log, Write, Rename, Create, Reopen, Truncate
<1> QED
  BY <1>1, <1>2, <1>3 DEF Seen

LEMMA TailerSeen ==
  ASSUME TailerAssumption, TypeOK, Seen, Tailer
  PROVE  Seen'
<1>1. content' = content
  BY DEF Tailer, Poll, Drain, EndDrain, Read, Consume, Close, Open, OpenFails, EndRead, Flush, disk
<1>2. CASE Poll
  <2>1. step' = "drain" => due' = Len(content[file]) /\ file' = file
    BY <1>2 DEF Poll
  <2>2. step' # "close"
    BY <1>2 DEF Poll
  <2>3. ASSUME file # None
        PROVE  Len(content[file]) \in Nat
    BY <2>3, Handled
  <2> QED
    BY <1>1, <2>1, <2>2, <2>3 DEF Seen
<1>3. CASE Drain
  BY <1>1, <1>3 DEF Drain, Consume, look, Seen
<1>4. CASE EndDrain
  <2>1. /\ file' = file /\ torn' = torn /\ due' = due /\ pos' = pos /\ step = "drain" /\ step' = "close"
        /\ pos >= Len(content[file])
    BY <1>4, Handled DEF EndDrain, Drained, More, look, handle, TypeOK
  <2>2. file # None => Len(content[file]) \in Nat /\ due \in Nat /\ pos \in Nat
    BY Handled DEF TypeOK
  <2> QED
    BY <2>1, <2>2 DEF Seen
<1>5. CASE Close \/ Open \/ OpenFails \/ Read \/ EndRead \/ Flush
  BY <1>5 DEF Close, Open, OpenFails, Read, EndRead, Flush, Seen
<1> QED
  BY <1>2, <1>3, <1>4, <1>5 DEF Tailer

SeenInv == SkipInv /\ Seen

LEMMA LeavesSeen ==
  ASSUME TailerAssumption, SeenInv, Next, file # None, file' # file, ~torn,
         NEW first \in 1..Len(content[file]), NEW last \in 1..Least(due, Len(content[file])),
         first <= last, WholeLine(first, last)
  PROVE  Arrived(first, last)
<1>1. CASE Close
  <2>1. due <= pos /\ due \in Nat /\ pos \in Nat /\ Len(content[file]) \in Nat
    BY <1>1, Handled DEF SeenInv, SkipInv, MixInv, Seen, Close, TypeOK
  <2>2. last \in 1..Least(pos, Len(content[file]))
    BY <2>1 DEF Least
  <2> QED
    BY <2>2, SkipImplies DEF SeenInv, NothingSkipped
<1>2. CASE Open
  BY <1>2 DEF Open, SeenInv, SkipInv, MixInv, TypeOK
<1>3. CASE ~Close /\ ~Open
  BY <1>3 DEF Next, Log, Tailer, Write, Rename, Create, Reopen, Truncate, World, handle,
     Poll, Drain, EndDrain, Read, Consume, OpenFails, EndRead, Flush
<1> QED
  BY <1>1, <1>2, <1>3

\* However the log is rotated and whatever is written meanwhile, no whole line that was in
\* an intact file when the tailer saw it renamed or replaced is missing from what was
\* delivered when it closes the file.
THEOREM LeavesNothing == Spec => LeavesNothingBehind
<1>1. Init => SeenInv
  BY TailerAssumption, SkipInit DEF SeenInv, Seen, Init
<1>2. SeenInv /\ [Next]_vars => SeenInv'
  <2>1. ASSUME SeenInv, UNCHANGED vars
        PROVE  Seen'
    BY <2>1 DEF vars, disk, look, handle, SeenInv, Seen
  <2>2. ASSUME SeenInv, Next
        PROVE  Seen'
    BY <2>2, TailerAssumption, LogSeen, TailerSeen DEF Next, SeenInv, SkipInv, MixInv
  <2> QED
    BY <2>1, <2>2, TailerAssumption, LogSkip, TailerSkip, StutterSkip DEF Next, SeenInv
<1>3. SeenInv /\ [Next]_vars =>
        [file # None /\ file' # file /\ ~torn =>
           \A first \in 1..Len(content[file]), last \in 1..Least(due, Len(content[file])) :
             first <= last /\ WholeLine(first, last) => Arrived(first, last)]_vars
  BY TailerAssumption, LeavesSeen
<1>4. QED
  BY <1>1, <1>2, <1>3, PTL DEF Spec, LeavesNothingBehind
=============================================================================
