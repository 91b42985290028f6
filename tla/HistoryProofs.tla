----------------------------- MODULE HistoryProofs -----------------------------
(***************************************************************************)
(* Proofs about History, for any number of archives, any size of file and  *)
(* any number of records, failures and kills.                              *)
(***************************************************************************)
EXTENDS History, FiniteSetTheorems, SequenceTheorems, TLAPS

--------------------------------------------------------------------------------
(* The inductive invariant: what the writer's place in rotate() says of the files *)

Full(f) == f \in DOMAIN file /\ Len(file[f]) = MaxBytes

\* No file outgrows the limit.
FilesFit == 0 \in DOMAIN file => Len(file[0]) <= MaxBytes

\* The writer's count is the size of the file it has open.
SizeIsKnown == handle \in {"open", "stale"} => 0 \in DOMAIN file /\ size = Len(file[0])

\* A handle that could not be closed belongs to a full file, so nothing is written to it.
StaleIsFull == handle = "stale" => size = MaxBytes

\* From the decision to rotate until it is removed, the live file is full; the archive
\* takes its final name only when it is as long.
RotatingIsFull == /\ pc = "write" => handle = "open" /\ size < MaxBytes
                  /\ pc = "close" => handle \in {"open", "stale"} /\ size = MaxBytes
                  /\ pc \in {"prune", "shift", "compress", "publish", "discard"} => Full(0)
                  /\ pc \in Rotating \ {"close"} => handle = "nil"
                  /\ pc = "compress" => Len(partial) < MaxBytes
                  /\ pc = "publish" => Len(partial) = MaxBytes
                  /\ pc = "reopen" => 0 \notin DOMAIN file

\* A record is being appended from the first step of a rotation to the write.
RecordInHand == pc \notin {"down", "open", "idle"} => last \in Record

Sound == /\ FilesFit /\ SizeIsKnown /\ StaleIsFull /\ RotatingIsFull /\ RecordInHand
         /\ ArchivesAreWhole
IInv == WriterTypeOK /\ Sound

FileType == /\ DOMAIN file \subseteq Files
            /\ \A f \in DOMAIN file : file[f] \in Chunks

--------------------------------------------------------------------------------
(* The files *)

\* Appending one chunk to the live file leaves the others alone.
LEMMA Appended ==
  ASSUME IInv, 0 \in DOMAIN file, NEW c \in Record \union {Torn},
         file' = [file EXCEPT ![0] = Append(@, c)]
  PROVE  /\ DOMAIN file' = DOMAIN file
         /\ Len(file'[0]) = Len(file[0]) + 1
         /\ \A f \in DOMAIN file \ {0} : file'[f] = file[f]
         /\ FileType'
BY DEF IInv, WriterTypeOK, FileType, Chunks

\* Nothing but the live file is created by opening it, and it is empty then.
LEMMA Opened ==
  ASSUME IInv, OpenFile
  PROVE  /\ DOMAIN file' = DOMAIN file \union {0}
         /\ \A f \in DOMAIN file : file'[f] = file[f]
         /\ 0 \notin DOMAIN file => file'[0] = << >>
         /\ handle' = "open" /\ size' = Len(file'[0]) /\ size' \in Nat
         /\ FileType'
BY KeepAssumption DEF IInv, WriterTypeOK, OpenFile, Exists, With, FileType, Files, Chunks

\* Renaming an archive to the next place keeps every file a file.
LEMMA Moved ==
  ASSUME IInv, slot > 0, file' = Renamed(slot, slot + 1)
  PROVE  /\ 0 \in DOMAIN file' <=> 0 \in DOMAIN file
         /\ 0 \in DOMAIN file => file'[0] = file[0]
         /\ \A f \in DOMAIN file' \ {0} : \E g \in DOMAIN file \ {0} : file'[f] = file[g]
         /\ FileType'
<1> USE KeepAssumption DEF IInv, WriterTypeOK, Files, FileType
<1>1. CASE Exists(slot)
  BY <1>1 DEF Renamed, Exists
<1>2. CASE ~Exists(slot)
  BY <1>2 DEF Renamed
<1> QED BY <1>1, <1>2

\* So does removing one.
LEMMA Removed ==
  ASSUME IInv, NEW g \in Files, file' = Without(g)
  PROVE  /\ DOMAIN file' = DOMAIN file \ {g}
         /\ \A f \in DOMAIN file' : file'[f] = file[f]
         /\ FileType'
BY DEF IInv, WriterTypeOK, Without, FileType

\* The archive grows by what is copied, and stays a prefix of the live file.
LEMMA Copied ==
  ASSUME IInv, Full(0), Len(partial) < MaxBytes,
         NEW p, p = SubSeq(file[0], 1, Len(partial) + 1)
  PROVE  p \in Chunks /\ Len(p) = Len(partial) + 1
BY MaxBytesAssumption DEF IInv, WriterTypeOK, Full, Chunks

--------------------------------------------------------------------------------
(* Steps *)

\* Opening and closing the history finds every file as it should be.
LEMMA OpenStep == ASSUME IInv, Start \/ Open \/ OpenFails \/ Stop PROVE IInv'
<1> USE KeepAssumption, MaxBytesAssumption, FaultsAssumption
<1> USE DEF IInv, WriterTypeOK, Sound, FilesFit, SizeIsKnown, StaleIsFull, RotatingIsFull, RecordInHand,
            ArchivesAreWhole, Full, Rotating, PCs, diskVars, readVars, faultVars
<1>1. ASSUME Start \/ OpenFails \/ Stop PROVE IInv'
  BY <1>1 DEF Start, OpenFails, Stop, Fault
<1>2. ASSUME Open PROVE IInv'
  BY <1>2, Opened DEF Open, FileType
<1> QED BY <1>1, <1>2

\* A kill in the middle of a write leaves at most one more line, within the limit.
LEMMA KillStep == ASSUME IInv, Kill PROVE IInv'
<1> USE KeepAssumption, MaxBytesAssumption, FaultsAssumption
<1> USE DEF IInv, WriterTypeOK, Sound, FilesFit, SizeIsKnown, StaleIsFull, RotatingIsFull, RecordInHand,
            ArchivesAreWhole, Full, Rotating, PCs, readVars, Interrupt
<1>1. CASE UNCHANGED file
  BY <1>1 DEF Kill
<1>2. ASSUME NEW c \in {Torn, last}, pc = "write", file' = [file EXCEPT ![0] = Append(@, c)]
      PROVE  IInv'
  <2>1. c \in Record \union {Torn} /\ 0 \in DOMAIN file
    BY <1>2
  <2>2. /\ DOMAIN file' = DOMAIN file /\ Len(file'[0]) = Len(file[0]) + 1
        /\ \A f \in DOMAIN file \ {0} : file'[f] = file[f]
        /\ FileType'
    BY <1>2, <2>1, Appended
  <2>3. WriterTypeOK'
    BY <2>2 DEF Kill, FileType
  <2>4. Sound'
    BY <1>2, <2>2 DEF Kill
  <2> QED BY <2>3, <2>4
<1> QED BY <1>1, <1>2 DEF Kill

\* A record, or what the disk had room for, is appended to a file that was not full.
LEMMA AppendStep == ASSUME IInv, AppendJob \/ Write \/ WriteFails PROVE IInv'
<1> USE KeepAssumption, MaxBytesAssumption, FaultsAssumption, RecordsAssumption
<1> USE DEF IInv, WriterTypeOK, Sound, FilesFit, SizeIsKnown, StaleIsFull, RotatingIsFull, RecordInHand,
            ArchivesAreWhole, Full, Rotating, PCs, diskVars, readVars, faultVars, Fault
<1>1. CASE AppendJob
  BY <1>1 DEF AppendJob, Over, Record, Chunks
<1>2. CASE Write
  <2>1. last \in Record
    BY <1>2 DEF Write
  <2>2. /\ DOMAIN file' = DOMAIN file /\ Len(file'[0]) = Len(file[0]) + 1
        /\ \A f \in DOMAIN file \ {0} : file'[f] = file[f]
        /\ FileType'
    BY <1>2, <2>1, Appended DEF Write
  <2>3. WriterTypeOK'
    BY <1>2, <2>1, <2>2 DEF Write, FileType
  <2>4. Sound'
    BY <1>2, <2>1, <2>2 DEF Write
  <2> QED BY <2>3, <2>4
<1>3. CASE WriteFails
  BY <1>3, Appended DEF WriteFails, FileType
<1> QED BY <1>1, <1>2, <1>3

\* Each step of a rotation leaves what the next one, a failure or a kill may rely on.
LEMMA RotateStep ==
  ASSUME IInv, \/ Close \/ CloseFails \/ Prune \/ Shift \/ Shifted
               \/ Compress \/ Publish \/ Discard \/ Reopen \/ RotateGivesUp
  PROVE  IInv'
<1> USE KeepAssumption, MaxBytesAssumption, FaultsAssumption
<1> USE DEF IInv, WriterTypeOK, Sound, FilesFit, SizeIsKnown, StaleIsFull, RotatingIsFull, RecordInHand,
            ArchivesAreWhole, Full, Rotating, PCs, diskVars, readVars, faultVars, Touches
<1>1. CASE Close \/ CloseFails
  BY <1>1 DEF Close, CloseFails, Fault
<1>2. CASE Prune
  <2> HIDE DEF IInv
  <2>0. Keep \in Files /\ file' = Without(Keep)
    BY <1>2 DEF Prune, Files
  <2>1. /\ DOMAIN file' = DOMAIN file \ {Keep}
        /\ \A f \in DOMAIN file' : file'[f] = file[f]
        /\ FileType'
    BY <2>0, Removed
  <2> USE DEF IInv
  <2>2. slot' \in 0 .. Keep - 1
    BY <1>2 DEF Prune
  <2>3. moved' \in BOOLEAN
    BY <1>2 DEF Prune
  <2>4. WriterTypeOK'
    BY <1>2, <2>1, <2>2, <2>3 DEF Prune, FileType
  <2>5. Sound'
    BY <1>2, <2>1 DEF Prune
  <2> QED BY <2>4, <2>5
<1>3. CASE Shift
  BY <1>3, Moved DEF Shift, FileType
<1>4. CASE Shifted
  BY <1>4 DEF Shifted, Chunks
<1>5. CASE Compress
  <2>1. Full(0) /\ Len(partial) < MaxBytes
    BY <1>5 DEF Compress
  <2>2. partial' \in Chunks /\ Len(partial') = Len(partial) + 1
    BY <1>5, <2>1, Copied DEF Compress
  <2>3. WriterTypeOK'
    BY <1>5, <2>2 DEF Compress
  <2>4. Sound'
    BY <1>5, <2>1, <2>2 DEF Compress, Chunks
  <2> QED BY <2>3, <2>4
<1>6. CASE Publish
  BY <1>6 DEF Publish, With, Files, Chunks
<1>7. CASE Discard
  BY <1>7, Removed DEF Discard, Files, FileType
<1>8. CASE Reopen
  BY <1>8, Opened DEF Reopen, FileType
<1>9. CASE RotateGivesUp
  BY <1>9 DEF RotateGivesUp, Fault, Interrupt, Chunks
<1> QED BY <1>1, <1>2, <1>3, <1>4, <1>5, <1>6, <1>7, <1>8, <1>9

\* `dup logs` only reads.
LEMMA ReadStep == ASSUME IInv, Reader \/ UNCHANGED vars PROVE IInv'
<1>1. UNCHANGED <<diskVars, writerVars, faultVars>>
  BY DEF Reader, ReadStart, ReadNext, ReadFails, ReadEnds, vars
<1> QED BY <1>1 DEF IInv, WriterTypeOK, Sound, FilesFit, SizeIsKnown, StaleIsFull, RotatingIsFull,
                    RecordInHand, ArchivesAreWhole, Full, diskVars, writerVars, faultVars

\* The service starts with no file, down.
LEMMA Starting == Init => IInv
BY KeepAssumption, MaxBytesAssumption, FaultsAssumption, RecordsAssumption
   DEF Init, IInv, WriterTypeOK, Sound, FilesFit, SizeIsKnown, StaleIsFull, RotatingIsFull,
       RecordInHand, ArchivesAreWhole, Full, Rotating, PCs, Chunks

\* No step of the service or of a reader breaks the writer's invariant.
LEMMA Step == IInv /\ [Next]_vars => IInv'
BY OpenStep, KillStep, AppendStep, RotateStep, ReadStep DEF Next, Writer

\* The invariant holds of every reachable state of the files and of the writer.
THEOREM Invariance == Spec => []IInv
BY Starting, Step, PTL DEF Spec

\* An archive under its final name is a whole file, whatever fails or is killed between
\* any two system calls of rotate().
THEOREM WholeArchives == Spec => []ArchivesAreWhole
<1>1. IInv => ArchivesAreWhole
  BY DEF IInv, Sound
<1> QED BY <1>1, Invariance, PTL

--------------------------------------------------------------------------------
(* Retention: how far back the files reach *)

\* Operators of the writer's place p and slot s, and of the files F.
Scale(x) == MaxBytes * x
Holds(F, f, r) == f \in DOMAIN F /\ \E i \in 1 .. Len(F[f]) : F[f][i] = r
OnDisk(F, r) == \E f \in DOMAIN F : Holds(F, f, r)

\* The record being appended, the lines of the live file, and those of them that are in no
\* archive yet.
InHand(p) == IF p \in Rotating \union {"write"} THEN 1 ELSE 0
Live(F) == IF 0 \in DOMAIN F THEN Len(F[0]) ELSE 0
Unretired(p, F) == IF p = "discard" THEN 0 ELSE Live(F)

\* The files between an archive and the live one, not counting the hole that rotate() shifts.
Shifting == {"shift", "compress", "publish"}
Place(p, s, f) == IF p \in Shifting /\ f > s + 1 THEN f - 2 ELSE f - 1
Lines(p, s, F, f) == Scale(Place(p, s, f)) + Unretired(p, F) + InHand(p)

\* Each line is the record of one job, or what is left of one, and jobs are numbered in order:
\* a record is as far back as the lines after it, less a file for each rotation that left a
\* hole or a copy behind.
LiveIsOlder == \A r \in Record : Holds(file, 0, r) => r + InHand(pc) <= last
ArchivesAreOlder ==
  \A f \in DOMAIN file \ {0} : \A r \in Record : Holds(file, f, r) =>
     /\ Holds(file, 0, r) \/ r + Live(file) + InHand(pc) <= last
     /\ r + Lines(pc, slot, file, f) <= last + Scale(interrupted)

\* What is renamed or published finds its place empty, and is what was there before.
RoomAhead == /\ pc \in Shifting => slot + 1 \notin DOMAIN file
             /\ pc \in {"compress", "publish"} => slot = 0
CopyIsFaithful == /\ pc \in {"compress", "publish"} => partial = SubSeq(file[0], 1, Len(partial))
                  /\ pc = "discard" => 1 \in DOMAIN file /\ file[1] = file[0]

\* Retained, as a function of the rotations that were interrupted.
Depth(k) == IF k >= Keep THEN 1 ELSE Keep - k
Kept == \A r \in acked : OnDisk(file, r) \/ r + Scale(Depth(interrupted)) < last
Older == LiveIsOlder /\ ArchivesAreOlder /\ Kept
Reach == Older /\ RoomAhead /\ CopyIsFaithful

\* MaxBytes times a number of files, as the provers need to know it.
LEMMA Scaled ==
  /\ MaxBytes \in Nat /\ MaxBytes > 0
  /\ Scale(0) = 0
  /\ \A x \in Int : /\ Scale(x) \in Int
                    /\ Scale(x + 1) = Scale(x) + MaxBytes /\ Scale(x - 1) = Scale(x) - MaxBytes
  /\ \A x, y \in Int : x <= y => Scale(x) <= Scale(y)
<1>1. MaxBytes \in Nat /\ MaxBytes > 0
  BY MaxBytesAssumption
<1>2. \A x \in Int : /\ Scale(x) \in Int
                     /\ Scale(x + 1) = Scale(x) + MaxBytes /\ Scale(x - 1) = Scale(x) - MaxBytes
  BY <1>1 DEF Scale
<1>3. ASSUME NEW x \in Int, NEW y \in Int, x <= y PROVE Scale(x) <= Scale(y)
  <2>1. MaxBytes * (y - x) >= 0
    BY <1>1, <1>3
  <2>2. MaxBytes * (y - x) = MaxBytes * y - MaxBytes * x
    BY <1>1
  <2> QED BY <1>1, <2>1, <2>2 DEF Scale
<1> QED BY <1>1, <1>2, <1>3 DEF Scale

\* The numbers are numbers.
LEMMA Measures ==
  ASSUME IInv
  PROVE  /\ last \in Nat /\ interrupted \in Nat /\ Scale(interrupted) \in Int
         /\ acked \subseteq Nat /\ InHand(pc) \in {0, 1}
         /\ Live(file) \in Nat /\ Live(file) <= MaxBytes
         /\ Unretired(pc, file) \in Nat /\ Unretired(pc, file) <= Live(file)
         /\ \A f \in DOMAIN file : /\ Scale(Place(pc, slot, f)) \in Int
                                   /\ Lines(pc, slot, file, f) \in Int
<1>1. /\ last \in Nat /\ interrupted \in Nat /\ slot \in Int /\ acked \subseteq Nat
      /\ \A f \in DOMAIN file : f \in Int
  BY KeepAssumption, RecordsAssumption DEF IInv, WriterTypeOK, Record, Files
<1>2. Live(file) \in Nat /\ Live(file) <= MaxBytes
  BY MaxBytesAssumption DEF IInv, WriterTypeOK, Chunks, Live, Sound, FilesFit
<1>3. /\ InHand(pc) \in {0, 1}
      /\ Unretired(pc, file) \in Nat /\ Unretired(pc, file) <= Live(file)
  BY <1>2 DEF InHand, Unretired
<1>4. \A f \in DOMAIN file : Place(pc, slot, f) \in Int
  BY <1>1 DEF Place
<1>5. \A f \in DOMAIN file : Scale(Place(pc, slot, f)) \in Int
  BY <1>4, Scaled
<1>6. \A f \in DOMAIN file : Lines(pc, slot, file, f) \in Int
  BY <1>3, <1>5 DEF Lines
<1>7. Scale(interrupted) \in Int
  BY <1>1, Scaled
<1> QED BY <1>1, <1>2, <1>3, <1>5, <1>6, <1>7

\* Retention never reaches further back than it did.
LEMMA DepthShrinks ==
  ASSUME NEW j \in Nat, NEW k \in Nat, j <= k
  PROVE  /\ Scale(Depth(j)) \in Int /\ Scale(Depth(k)) \in Int
         /\ Scale(Depth(k)) <= Scale(Depth(j))
<1>1. Depth(j) \in Int /\ Depth(k) \in Int /\ Depth(k) <= Depth(j)
  BY KeepAssumption DEF Depth
<1> QED BY <1>1, Scaled

\* What stays on disk stays kept, and what retention has dropped stays dropped.
LEMMA KeptStep ==
  ASSUME IInv, IInv', Kept, interrupted <= interrupted', last <= last',
         \A r \in acked : OnDisk(file, r)
             => OnDisk(file', r) \/ r + Scale(Depth(interrupted')) < last',
         \A r \in acked' \ acked : OnDisk(file', r)
  PROVE  Kept'
<1>1. interrupted \in Nat /\ interrupted' \in Nat
  BY DEF IInv, WriterTypeOK
<1>2. /\ Scale(Depth(interrupted)) \in Int /\ Scale(Depth(interrupted')) \in Int
      /\ Scale(Depth(interrupted')) <= Scale(Depth(interrupted))
  BY <1>1, DepthShrinks
<1>3. last \in Nat /\ last' \in Nat /\ acked \subseteq Nat
  BY RecordsAssumption DEF IInv, WriterTypeOK, Record
<1>4. \A r \in acked : r + Scale(Depth(interrupted)) < last => r + Scale(Depth(interrupted')) < last'
  BY <1>2, <1>3
<1> QED BY <1>4 DEF Kept

\* A step that leaves the files alone, at most counts a job or an interrupted rotation, and
\* brings no archive further back.
LEMMA FilesAlone ==
  ASSUME IInv, IInv', Older, UNCHANGED <<file, acked>>,
         interrupted <= interrupted', last <= last', InHand(pc') - last' <= InHand(pc) - last,
         \A f \in DOMAIN file \ {0} :
            Lines(pc', slot', file, f) - last' - Scale(interrupted')
               <= Lines(pc, slot, file, f) - last - Scale(interrupted)
  PROVE  Older'
<1>1. /\ last \in Nat /\ interrupted \in Nat /\ Scale(interrupted) \in Int
      /\ InHand(pc) \in Int /\ Live(file) \in Nat
      /\ \A f \in DOMAIN file : Lines(pc, slot, file, f) \in Int
  BY Measures
<1>2. /\ last' \in Nat /\ interrupted' \in Nat /\ Scale(interrupted') \in Int
      /\ slot' \in Int /\ \A f \in DOMAIN file : f \in Int
  BY Scaled, KeepAssumption DEF IInv, WriterTypeOK, Files
<1>3. InHand(pc') \in Int /\ Unretired(pc', file) \in Int
  BY <1>1 DEF InHand, Unretired
<1>4. \A f \in DOMAIN file : Place(pc', slot', f) \in Int
  BY <1>2 DEF Place
<1>5. \A f \in DOMAIN file : Lines(pc', slot', file, f) \in Int
  <2>1. \A f \in DOMAIN file : Scale(Place(pc', slot', f)) \in Int
    BY <1>4, Scaled
  <2> QED BY <1>3, <2>1 DEF Lines
<1>6. Record \subseteq Nat
  BY RecordsAssumption DEF Record
<1>7. LiveIsOlder'
  BY <1>1, <1>2, <1>3, <1>6 DEF Older, LiveIsOlder
<1>8. ASSUME NEW f \in DOMAIN file \ {0}, NEW r \in Record, Holds(file, f, r)
      PROVE  /\ Holds(file, 0, r) \/ r + Live(file) + InHand(pc') <= last'
             /\ r + Lines(pc', slot', file, f) <= last' + Scale(interrupted')
  <2>1. /\ Holds(file, 0, r) \/ r + Live(file) + InHand(pc) <= last
        /\ r + Lines(pc, slot, file, f) <= last + Scale(interrupted)
    BY <1>8 DEF Older, ArchivesAreOlder
  <2> QED BY <1>1, <1>2, <1>3, <1>5, <1>6, <2>1
<1>9. ArchivesAreOlder'
  BY <1>8 DEF ArchivesAreOlder
<1>10. Kept'
  BY KeptStep DEF Older
<1> QED BY <1>7, <1>9, <1>10 DEF Older

\* Nothing of a rotation moves when a job is handed over or the history opened and closed.
LEMMA HandedOver ==
  ASSUME IInv, IInv', Reach, Start \/ OpenFails \/ Stop \/ AppendJob \/ Close \/ CloseFails
  PROVE  Reach'
<1>1. /\ last \in Nat /\ interrupted \in Nat /\ Scale(interrupted) \in Int
      /\ \A f \in DOMAIN file : Scale(Place(pc, slot, f)) \in Int
      /\ Unretired(pc, file) \in Nat
  BY Measures
<1>2. /\ UNCHANGED <<file, partial, acked, slot, interrupted>>
      /\ pc # "discard" /\ pc' # "discard" /\ pc \notin Shifting /\ pc' \notin Shifting
      /\ last' \in Nat /\ last <= last' /\ InHand(pc') - last' <= InHand(pc) - last
      /\ InHand(pc) \in Int /\ InHand(pc') \in Int
  BY <1>1 DEF Start, OpenFails, Stop, AppendJob, Close, CloseFails, Fault, diskVars, faultVars,
              InHand, Rotating, Shifting
<1>3. \A f \in DOMAIN file : /\ Place(pc', slot', f) = Place(pc, slot, f)
                             /\ Unretired(pc', file) = Unretired(pc, file)
  BY <1>2 DEF Place, Unretired
<1>4. \A f \in DOMAIN file \ {0} :
         Lines(pc', slot', file, f) - last' - Scale(interrupted')
            <= Lines(pc, slot, file, f) - last - Scale(interrupted)
  BY <1>1, <1>2, <1>3 DEF Lines
<1>5. Older'
  BY <1>1, <1>2, <1>4, FilesAlone DEF Reach
<1>6. RoomAhead' /\ CopyIsFaithful'
  BY <1>2 DEF RoomAhead, CopyIsFaithful, Shifting
<1> QED BY <1>5, <1>6 DEF Reach

\* Nor when the archive is being built.
LEMMA Copying ==
  ASSUME IInv, IInv', Reach, Shifted \/ Compress
  PROVE  Reach'
<1>1. /\ last \in Nat /\ interrupted \in Nat /\ Scale(interrupted) \in Int
      /\ \A f \in DOMAIN file : Lines(pc, slot, file, f) \in Int
  BY Measures
<1>2. /\ UNCHANGED <<file, acked, slot, interrupted, last>> /\ pc \in Shifting /\ pc' \in Shifting
      /\ InHand(pc') = InHand(pc) /\ InHand(pc) \in Int
  BY <1>1 DEF Shifted, Compress, diskVars, faultVars, InHand, Rotating, Shifting
<1>3. pc # "discard" /\ pc' # "discard"
  BY <1>2 DEF Shifting
<1>4. \A f \in DOMAIN file : Lines(pc', slot', file, f) = Lines(pc, slot, file, f)
  BY <1>2, <1>3 DEF Lines, Place, Unretired
<1>5. Older'
  BY <1>1, <1>2, <1>4, FilesAlone DEF Reach
<1>6. RoomAhead'
  BY <1>2 DEF Shifted, Compress, Reach, RoomAhead, Shifting
<1>7. CopyIsFaithful'
  <2>1. CASE Shifted
    BY <2>1 DEF Shifted, CopyIsFaithful
  <2>2. CASE Compress
    <3>1. Full(0) /\ Len(partial) < MaxBytes
      BY <2>2 DEF Compress, IInv, Sound, RotatingIsFull
    <3>2. Len(partial') = Len(partial) + 1
      BY <2>2, <3>1, Copied DEF Compress
    <3> QED BY <2>2, <3>2 DEF Compress, CopyIsFaithful
  <2> QED BY <2>1, <2>2
<1> QED BY <1>5, <1>6, <1>7 DEF Reach

\* A rotation that ends before its time leaves a hole, or a file twice: it costs one file.
LEMMA Abandoned ==
  ASSUME IInv, IInv', Reach,
         RotateGivesUp \/ (Kill /\ UNCHANGED file) \/ (WriteFails /\ UNCHANGED file)
  PROVE  Reach'
<1> DEFINE Costs == pc \in Rotating \ {"close", "prune"}
<1>1. /\ last \in Nat /\ interrupted \in Nat /\ Scale(interrupted) \in Int
      /\ InHand(pc) \in {0, 1}
      /\ Live(file) \in Nat /\ Live(file) <= MaxBytes /\ Unretired(pc, file) \in Nat
      /\ \A f \in DOMAIN file : f \in Int /\ Scale(Place(pc, slot, f)) \in Int
  BY Measures, KeepAssumption DEF IInv, WriterTypeOK, Files
<1>2. /\ UNCHANGED <<file, acked, last, slot>>
      /\ interrupted' = interrupted + (IF Costs THEN 1 ELSE 0)
      /\ pc' \in {"idle", "down"}
  <2>1. CASE RotateGivesUp
    BY <2>1 DEF RotateGivesUp, Fault, Interrupt
  <2>2. CASE Kill /\ UNCHANGED file
    BY <2>2 DEF Kill, Interrupt
  <2>3. CASE WriteFails /\ UNCHANGED file
    BY <1>1, <2>3 DEF WriteFails, Fault, Rotating
  <2> QED BY <2>1, <2>2, <2>3
<1>3. /\ InHand(pc') = 0 /\ Unretired(pc', file) = Live(file)
      /\ \A f : Place(pc', slot', f) = f - 1
  BY <1>2 DEF InHand, Unretired, Place, Shifting, Rotating
<1>4. ASSUME NEW f \in DOMAIN file \ {0}
      PROVE  Lines(pc', slot', file, f) - last' - Scale(interrupted')
                <= Lines(pc, slot, file, f) - last - Scale(interrupted)
  <2>0. Lines(pc', slot', file, f) = Scale(f - 1) + Live(file)
    <3>1. Scale(f - 1) \in Int
      BY <1>1, Scaled
    <3> QED BY <1>1, <1>3, <3>1 DEF Lines
  <2>1. CASE pc \in Shifting
    <3>1. interrupted' = interrupted + 1 /\ pc # "discard"
      BY <1>2, <2>1 DEF Shifting, Rotating
    <3>2. Scale(interrupted') = Scale(interrupted) + MaxBytes
      BY <1>1, <3>1, Scaled
    <3>3. Place(pc, slot, f) = f - 1 \/ Place(pc, slot, f) = (f - 1) - 1
      BY <1>1 DEF Place
    <3>4. f - 1 \in Int
      BY <1>1
    <3>5. Scale(f - 1) \in Int /\ Scale((f - 1) - 1) = Scale(f - 1) - MaxBytes /\ MaxBytes \in Nat
      BY <3>4, Scaled
    <3>6. Scale(f - 1) <= Scale(Place(pc, slot, f)) + MaxBytes
      BY <3>3, <3>5
    <3>7. Unretired(pc, file) = Live(file)
      BY <3>1 DEF Unretired
    <3> QED BY <1>1, <1>2, <2>0, <3>2, <3>5, <3>6, <3>7 DEF Lines
  <2>2. CASE pc \notin Shifting
    <3>1. Place(pc, slot, f) = f - 1
      BY <2>2 DEF Place
    <3>2. /\ Scale(interrupted') \in Int
          /\ Live(file) - Scale(interrupted') <= Unretired(pc, file) - Scale(interrupted)
      <4>1. CASE pc = "discard"
        <5>1. interrupted' = interrupted + 1 /\ Unretired(pc, file) = 0
          BY <1>2, <4>1 DEF Rotating, Unretired
        <5>2. Scale(interrupted') = Scale(interrupted) + MaxBytes /\ MaxBytes \in Nat
          BY <1>1, <5>1, Scaled
        <5> QED BY <1>1, <5>1, <5>2
      <4>2. CASE pc # "discard"
        <5>1. interrupted' \in Nat /\ interrupted <= interrupted' /\ Unretired(pc, file) = Live(file)
          BY <1>1, <1>2, <4>2 DEF Unretired
        <5>2. Scale(interrupted') \in Int /\ Scale(interrupted) <= Scale(interrupted')
          BY <1>1, <5>1, Scaled
        <5> QED BY <1>1, <5>1, <5>2
      <4> QED BY <4>1, <4>2
    <3> QED BY <1>1, <1>2, <2>0, <3>1, <3>2 DEF Lines
  <2> QED BY <2>1, <2>2
<1>5. Older'
  <2>1. interrupted <= interrupted' /\ last <= last' /\ InHand(pc') - last' <= InHand(pc) - last
    BY <1>1, <1>2, <1>3
  <2> QED BY <1>2, <1>4, <2>1, FilesAlone DEF Reach
<1>6. RoomAhead' /\ CopyIsFaithful'
  BY <1>2 DEF RoomAhead, CopyIsFaithful, Shifting
<1> QED BY <1>5, <1>6 DEF Reach

\* A line is appended: the record in hand, or a fragment of it, takes its place.
LEMMA LineAppended ==
  ASSUME IInv, IInv', Reach, pc = "write", pc' \in {"idle", "down"},
         NEW c \in {Torn, last}, file' = [file EXCEPT ![0] = Append(@, c)],
         UNCHANGED <<last, slot, interrupted>>,
         acked' = acked \/ (acked' = acked \union {last} /\ c = last)
  PROVE  Reach'
<1>1. /\ last \in Nat /\ interrupted \in Nat /\ Scale(interrupted) \in Int
      /\ \A f \in DOMAIN file : Scale(Place(pc, slot, f)) \in Int
  BY Measures
<1>2. 0 \in DOMAIN file /\ last \in Record /\ Record \subseteq Nat
  BY RecordsAssumption DEF IInv, Sound, RotatingIsFull, SizeIsKnown, RecordInHand, Record
<1>3. /\ DOMAIN file' = DOMAIN file /\ Len(file'[0]) = Len(file[0]) + 1
      /\ \A f \in DOMAIN file \ {0} : file'[f] = file[f]
  BY <1>2, Appended
<1>4. /\ file[0] \in Chunks /\ Len(file[0]) \in Nat
      /\ \A i \in 1 .. Len(file[0]) : file'[0][i] = file[0][i]
      /\ file'[0][Len(file[0]) + 1] = c
  BY <1>2 DEF IInv, WriterTypeOK, Chunks
<1>5. \A r \in Record : /\ Holds(file, 0, r) => Holds(file', 0, r)
                        /\ Holds(file', 0, r) => Holds(file, 0, r) \/ r = last
                        /\ c = last => Holds(file', 0, last)
  BY <1>2, <1>3, <1>4 DEF Holds, Torn, Record
<1>6. \A f \in DOMAIN file \ {0} : \A r \in Record : Holds(file', f, r) <=> Holds(file, f, r)
  BY <1>3 DEF Holds
<1>7. /\ InHand(pc) = 1 /\ InHand(pc') = 0
      /\ Live(file) \in Nat /\ Live(file') = Live(file) + 1
      /\ Unretired(pc, file) = Live(file) /\ Unretired(pc', file') = Live(file')
      /\ \A f : Place(pc', slot', f) = Place(pc, slot, f)
  BY <1>2, <1>3, <1>4 DEF InHand, Live, Unretired, Place, Shifting, Rotating
<1>8. LiveIsOlder'
  BY <1>1, <1>2, <1>5, <1>7 DEF Reach, Older, LiveIsOlder
<1>9. \A f \in DOMAIN file : Lines(pc', slot', file', f) = Lines(pc, slot, file, f)
  BY <1>1, <1>7 DEF Lines
<1>10. ArchivesAreOlder'
  <2>1. ASSUME NEW f \in DOMAIN file \ {0}, NEW r \in Record, Holds(file, f, r)
        PROVE  /\ Holds(file', 0, r) \/ r + Live(file') + InHand(pc') <= last
               /\ r + Lines(pc', slot', file', f) <= last + Scale(interrupted)
    <3>1. /\ Holds(file, 0, r) \/ r + Live(file) + InHand(pc) <= last
          /\ r + Lines(pc, slot, file, f) <= last + Scale(interrupted)
      BY <2>1 DEF Reach, Older, ArchivesAreOlder
    <3>2. CASE Holds(file, 0, r)
      BY <1>5, <1>9, <3>1, <3>2
    <3>3. CASE r + Live(file) + InHand(pc) <= last
      <4>1. r \in Nat
        BY <1>2
      <4>2. r + Live(file') + InHand(pc') <= last
        BY <1>1, <1>7, <3>3, <4>1
      <4> QED BY <1>9, <3>1, <4>2
    <3> QED BY <3>1, <3>2, <3>3
  <2> QED BY <1>3, <1>6, <2>1 DEF ArchivesAreOlder
<1>11. Kept'
  <2>1. \A r \in Record : OnDisk(file, r) => OnDisk(file', r)
    BY <1>3, <1>5, <1>6 DEF OnDisk, Holds
  <2>2. c = last => OnDisk(file', last)
    BY <1>2, <1>3, <1>5 DEF OnDisk
  <2>3. acked \subseteq Record
    BY DEF IInv, WriterTypeOK
  <2>4. \A r \in acked : OnDisk(file, r) => OnDisk(file', r)
    BY <2>1, <2>3
  <2>5. \A r \in acked' \ acked : OnDisk(file', r)
    BY <2>2
  <2>6. last <= last' /\ interrupted <= interrupted'
    BY <1>1
  <2> QED BY <2>4, <2>5, <2>6, KeptStep DEF Reach, Older
<1>12. RoomAhead' /\ CopyIsFaithful'
  BY DEF RoomAhead, CopyIsFaithful, Shifting
<1> QED BY <1>8, <1>10, <1>11, <1>12 DEF Reach, Older

\* So it is whoever cuts the write short, and when nothing is written at all.
LEMMA Writing ==
  ASSUME IInv, IInv', Reach, Write \/ WriteFails \/ Kill
  PROVE  Reach'
<1>1. CASE UNCHANGED file /\ ~Write
  BY <1>1, Abandoned
<1>2. CASE Write
  <2>1. UNCHANGED <<last, slot, interrupted>>
    BY <1>2 DEF Write, faultVars
  <2> QED BY <1>2, <2>1, LineAppended DEF Write
<1>3. CASE WriteFails /\ ~UNCHANGED file
  <2>1. UNCHANGED <<last, slot, interrupted, acked>> /\ pc' = "idle"
    BY <1>3 DEF WriteFails, Fault
  <2> QED BY <1>3, <2>1, LineAppended DEF WriteFails
<1>4. CASE Kill /\ ~UNCHANGED file
  <2>1. pc = "write" /\ UNCHANGED <<last, slot, interrupted, acked>> /\ pc' = "down"
    <3>1. pc = "write" /\ interrupted \in Nat
      BY <1>4 DEF Kill, IInv, WriterTypeOK
    <3> QED BY <1>4, <3>1 DEF Kill, Interrupt, Rotating
  <2>2. PICK c \in {Torn, last} : file' = [file EXCEPT ![0] = Append(@, c)]
    BY <1>4 DEF Kill
  <2>3. UNCHANGED <<last, slot, interrupted>> /\ acked' = acked /\ pc' \in {"idle", "down"}
    BY <2>1
  <2> QED BY <2>1, <2>2, <2>3, LineAppended
<1> QED BY <1>1, <1>2, <1>3, <1>4

\* Opening the history may add an empty file.
LEMMA Opening ==
  ASSUME IInv, IInv', Reach, Open \/ Reopen
  PROVE  Reach'
<1>0. /\ last \in Nat /\ interrupted \in Nat /\ Live(file) \in Nat
  BY Measures
<1>1. Unretired(pc, file) = Live(file)
  BY DEF Open, Reopen, Unretired
<1>2. /\ OpenFile /\ UNCHANGED <<slot, last, acked, interrupted>>
      /\ \/ pc = "open" /\ pc' = "idle"
         \/ pc = "reopen" /\ pc' = "write"
  BY DEF Open, Reopen, faultVars
<1>3. /\ DOMAIN file' = DOMAIN file \union {0}
      /\ \A f \in DOMAIN file : file'[f] = file[f]
      /\ 0 \notin DOMAIN file => file'[0] = << >>
  BY <1>2, Opened
<1>4. \A f : \A r \in Record : Holds(file', f, r) <=> Holds(file, f, r)
  BY <1>3 DEF Holds
<1>5. InHand(pc') = InHand(pc) /\ Live(file') = Live(file)
      /\ Unretired(pc', file') = Live(file')
      /\ \A f : Place(pc', slot', f) = Place(pc, slot, f)
  BY <1>2, <1>3 DEF InHand, Rotating, Live, Unretired, Place, Shifting
<1>6. \A f : Lines(pc', slot', file', f) = Lines(pc, slot, file, f)
  BY <1>1, <1>5 DEF Lines
<1>7. LiveIsOlder'
  BY <1>2, <1>4, <1>5 DEF Reach, Older, LiveIsOlder
<1>8. ArchivesAreOlder'
  BY <1>2, <1>3, <1>4, <1>5, <1>6 DEF Reach, Older, ArchivesAreOlder
<1>9. Kept'
  <2>1. \A r \in acked : OnDisk(file, r) => OnDisk(file', r)
    BY <1>3 DEF OnDisk, Holds
  <2> QED BY <1>0, <1>2, <2>1, KeptStep DEF Reach, Older
<1>10. RoomAhead' /\ CopyIsFaithful'
  BY <1>2 DEF RoomAhead, CopyIsFaithful, Shifting
<1> QED BY <1>7, <1>8, <1>9, <1>10 DEF Reach, Older

\* What pruning drops lies a whole retention back.
LEMMA Pruning ==
  ASSUME IInv, IInv', Reach, Prune
  PROVE  Reach'
<1>1. /\ last \in Nat /\ interrupted \in Nat /\ Scale(interrupted) \in Int
      /\ \A f \in DOMAIN file : Lines(pc, slot, file, f) \in Int
  BY Measures
<1>2. /\ pc = "prune" /\ pc' = "shift" /\ slot' = Keep - 1 /\ file' = Without(Keep)
      /\ UNCHANGED <<last, acked, interrupted>>
  BY DEF Prune, faultVars
<1>3. /\ DOMAIN file' = DOMAIN file \ {Keep}
      /\ \A f \in DOMAIN file' : file'[f] = file[f]
      /\ Keep \in Nat /\ Keep > 0 /\ \A f \in DOMAIN file : f \in 0 .. Keep
  <2>1. Keep \in Files /\ Keep \in Nat /\ Keep > 0
    BY KeepAssumption DEF Files
  <2>2. /\ DOMAIN file' = DOMAIN file \ {Keep}
        /\ \A f \in DOMAIN file' : file'[f] = file[f]
    BY <1>2, <2>1, Removed
  <2> QED BY <2>1, <2>2 DEF IInv, WriterTypeOK, Files
<1>4. \A f \in DOMAIN file' : \A r \in Record : Holds(file', f, r) <=> Holds(file, f, r)
  BY <1>3 DEF Holds
<1>5. /\ 0 \in DOMAIN file /\ 0 \in DOMAIN file' /\ Live(file) = MaxBytes /\ Live(file') = Live(file)
      /\ MaxBytes \in Nat
  BY <1>2, <1>3, MaxBytesAssumption DEF IInv, Sound, RotatingIsFull, Full, Live
<1>6. /\ InHand(pc) = 1 /\ InHand(pc') = 1
      /\ Unretired(pc, file) = Live(file) /\ Unretired(pc', file') = Live(file)
      /\ \A f : Place(pc, slot, f) = f - 1
      /\ \A f \in DOMAIN file' : Place(pc', slot', f) = f - 1
  BY <1>2, <1>3, <1>5 DEF InHand, Rotating, Unretired, Place, Shifting
<1>7. \A f \in DOMAIN file' : Lines(pc', slot', file', f) = Lines(pc, slot, file, f)
  BY <1>6 DEF Lines
<1>8. LiveIsOlder'
  BY <1>2, <1>4, <1>5, <1>6 DEF Reach, Older, LiveIsOlder
<1>9. ArchivesAreOlder'
  BY <1>2, <1>3, <1>4, <1>5, <1>6, <1>7 DEF Reach, Older, ArchivesAreOlder
<1>10. Kept'
  <2>1. ASSUME NEW r \in acked, Holds(file, Keep, r), ~Holds(file, 0, r)
        PROVE  r + Scale(Depth(interrupted)) < last
    <3>1. r \in Record /\ r \in Nat /\ Keep \in DOMAIN file \ {0}
      BY <1>3, <2>1, RecordsAssumption DEF IInv, WriterTypeOK, Record, Holds
    <3>2. /\ r + MaxBytes + 1 <= last
          /\ r + Lines(pc, slot, file, Keep) <= last + Scale(interrupted)
      BY <1>5, <1>6, <2>1, <3>1 DEF Reach, Older, ArchivesAreOlder
    <3>0. Keep \in Int
      BY <1>3
    <3>3. Scale(Keep - 1) = Scale(Keep) - MaxBytes /\ Scale(Keep) \in Int
      BY <3>0, Scaled
    <3>4. Lines(pc, slot, file, Keep) = Scale(Keep) + 1
      BY <1>5, <1>6, <3>3 DEF Lines
    <3>5. CASE interrupted >= Keep
      BY <1>1, <1>3, <1>5, <3>1, <3>2, <3>5 DEF Depth, Scale
    <3>6. CASE ~(interrupted >= Keep)
      <4>1. Scale(Depth(interrupted)) = Scale(Keep) - Scale(interrupted)
        BY <1>1, <1>3, <1>5, <3>6 DEF Depth, Scale
      <4> QED BY <1>1, <3>1, <3>2, <3>3, <3>4, <4>1
    <3> QED BY <3>5, <3>6
  <2>2. acked \subseteq Record
    BY DEF IInv, WriterTypeOK
  <2>3. \A r \in acked : OnDisk(file, r) => OnDisk(file', r) \/ r + Scale(Depth(interrupted')) < last'
    <3>1. ASSUME NEW r \in acked, NEW f \in DOMAIN file, Holds(file, f, r)
          PROVE  OnDisk(file', r) \/ r + Scale(Depth(interrupted)) < last
      <4>1. CASE f # Keep
        BY <1>3, <1>4, <2>2, <3>1, <4>1 DEF OnDisk
      <4>2. CASE f = Keep
        BY <1>4, <1>5, <2>1, <2>2, <3>1, <4>2 DEF OnDisk
      <4> QED BY <4>1, <4>2
    <3> QED BY <1>2, <3>1 DEF OnDisk
  <2>4. last <= last' /\ interrupted <= interrupted' /\ acked' = acked
    BY <1>1, <1>2
  <2> QED BY <2>3, <2>4, KeptStep DEF Reach, Older
<1>11. RoomAhead' /\ CopyIsFaithful'
  BY <1>2, <1>3 DEF RoomAhead, CopyIsFaithful
<1> QED BY <1>8, <1>9, <1>10, <1>11 DEF Reach, Older

\* The archive before the hole fills it, and leaves one behind it.
LEMMA Renaming ==
  ASSUME IInv, IInv', Reach, Shift
  PROVE  Reach'
<1>1. /\ last \in Nat /\ interrupted \in Nat /\ slot \in Nat /\ slot > 0
      /\ \A f \in DOMAIN file : f \in Nat
  BY KeepAssumption DEF IInv, WriterTypeOK, Files, Shift
<1>2. /\ pc = "shift" /\ pc' = "shift" /\ slot' = slot - 1 /\ file' = Renamed(slot, slot + 1)
      /\ UNCHANGED <<last, acked, interrupted>> /\ slot + 1 \notin DOMAIN file
  BY DEF Shift, faultVars, Reach, RoomAhead, Shifting
<1> DEFINE From(f) == IF f = slot + 1 THEN slot ELSE f
<1>3. /\ \A f \in DOMAIN file' : From(f) \in DOMAIN file /\ file'[f] = file[From(f)]
      /\ \A f \in DOMAIN file : \E g \in DOMAIN file' : From(g) = f
      /\ slot \notin DOMAIN file'
      /\ 0 \in DOMAIN file' <=> 0 \in DOMAIN file
      /\ \A f \in DOMAIN file' : f \in Nat /\ (f = 0 <=> From(f) = 0)
  <2>1. CASE Exists(slot)
    <3>1. /\ DOMAIN file' = (DOMAIN file \ {slot}) \union {slot + 1}
          /\ file'[slot + 1] = file[slot]
          /\ \A f \in DOMAIN file \ {slot} : file'[f] = file[f]
      BY <1>1, <1>2, <2>1 DEF Renamed
    <3>2. From(slot + 1) = slot /\ \A f \in DOMAIN file : From(f) = f
      BY <1>2
    <3>3. \A f \in DOMAIN file : \E g \in DOMAIN file' : From(g) = f
      BY <3>1, <3>2
    <3>4. \A f \in DOMAIN file' : From(f) \in DOMAIN file /\ file'[f] = file[From(f)]
      BY <2>1, <3>1, <3>2 DEF Exists
    <3> QED BY <1>1, <3>1, <3>2, <3>3, <3>4
  <2>2. CASE ~Exists(slot)
    <3>1. file' = file /\ slot \notin DOMAIN file
      BY <1>2, <2>2 DEF Renamed, Exists
    <3>2. \A f \in DOMAIN file : From(f) = f
      BY <1>2
    <3> QED BY <1>1, <3>1, <3>2
  <2> QED BY <2>1, <2>2
<1>4. \A f \in DOMAIN file' : \A r \in Record : Holds(file', f, r) <=> Holds(file, From(f), r)
  BY <1>3 DEF Holds
<1>5. \A r \in Record : Holds(file', 0, r) <=> Holds(file, 0, r)
  BY <1>1, <1>3, <1>4 DEF Holds
<1>6. /\ InHand(pc') = InHand(pc) /\ Live(file') = Live(file)
      /\ Unretired(pc', file') = Unretired(pc, file)
      /\ \A f \in DOMAIN file' : Place(pc', slot', f) = Place(pc, slot, From(f))
  <2>1. Live(file') = Live(file)
    BY <1>1, <1>3 DEF Live
  <2>2. \A f \in DOMAIN file' : Place(pc', slot', f) = Place(pc, slot, From(f))
    <3>1. ASSUME NEW f \in DOMAIN file'
          PROVE  Place(pc', slot', f) = Place(pc, slot, From(f))
      <4>1. f \in Nat /\ f # slot /\ slot' + 1 = slot /\ pc \in Shifting /\ pc' \in Shifting
        BY <1>1, <1>2, <1>3 DEF Shifting
      <4>2. CASE f = slot + 1
        BY <1>1, <4>1, <4>2 DEF Place
      <4>3. CASE f # slot + 1
        BY <1>1, <4>1, <4>3 DEF Place
      <4> QED BY <4>2, <4>3
    <3> QED BY <3>1
  <2> QED BY <1>2, <2>1, <2>2 DEF InHand, Unretired
<1>7. \A f \in DOMAIN file' : Lines(pc', slot', file', f) = Lines(pc, slot, file, From(f))
  BY <1>6 DEF Lines
<1>8. LiveIsOlder'
  BY <1>2, <1>5, <1>6 DEF Reach, Older, LiveIsOlder
<1>9. ArchivesAreOlder'
  <2>1. ASSUME NEW f \in DOMAIN file' \ {0}, NEW r \in Record, Holds(file', f, r)
        PROVE  /\ Holds(file', 0, r) \/ r + Live(file') + InHand(pc') <= last
               /\ r + Lines(pc', slot', file', f) <= last + Scale(interrupted)
    <3>1. From(f) \in DOMAIN file \ {0} /\ Holds(file, From(f), r)
      BY <1>3, <1>4, <2>1
    <3>2. /\ Holds(file, 0, r) \/ r + Live(file) + InHand(pc) <= last
          /\ r + Lines(pc, slot, file, From(f)) <= last + Scale(interrupted)
      BY <3>1 DEF Reach, Older, ArchivesAreOlder
    <3> HIDE DEF From
    <3> QED BY <1>5, <1>6, <1>7, <3>2
  <2> QED BY <1>2, <2>1 DEF ArchivesAreOlder
<1>10. Kept'
  <2>1. acked \subseteq Record
    BY DEF IInv, WriterTypeOK
  <2>2. \A r \in acked : OnDisk(file, r) => OnDisk(file', r)
    <3> HIDE DEF From
    <3> QED BY <1>3, <1>4, <2>1 DEF OnDisk, Holds
  <2>3. last <= last' /\ interrupted <= interrupted' /\ acked' = acked
    BY <1>1, <1>2
  <2> QED BY <2>2, <2>3, KeptStep DEF Reach, Older
<1>11. RoomAhead' /\ CopyIsFaithful'
  BY <1>1, <1>2, <1>3 DEF RoomAhead, CopyIsFaithful
<1> QED BY <1>8, <1>9, <1>10, <1>11 DEF Reach, Older

\* The copy that is published is the live file, which is about to go.
LEMMA Publishing ==
  ASSUME IInv, IInv', Reach, Publish
  PROVE  Reach'
<1>1. /\ last \in Nat /\ interrupted \in Nat /\ Scale(interrupted) \in Nat
      /\ \A f \in DOMAIN file : f \in Int /\ Lines(pc, slot, file, f) \in Int
  <2>1. 0 <= interrupted /\ interrupted \in Int
    BY DEF IInv, WriterTypeOK
  <2>2. Scale(interrupted) \in Nat
    BY <2>1, MaxBytesAssumption DEF Scale
  <2> QED BY <2>2, Measures, KeepAssumption DEF IInv, WriterTypeOK, Files
<1>2. /\ pc = "publish" /\ pc' = "discard" /\ slot = 0 /\ file' = With(1, partial)
      /\ UNCHANGED <<last, acked, interrupted>>
      /\ Full(0) /\ 1 \notin DOMAIN file /\ partial = file[0]
  <2>1. /\ Full(0) /\ Len(partial) = MaxBytes /\ slot = 0 /\ 1 \notin DOMAIN file
        /\ partial = SubSeq(file[0], 1, Len(partial))
    BY DEF Publish, IInv, Sound, RotatingIsFull, Reach, RoomAhead, CopyIsFaithful, Shifting
  <2>2. partial = file[0]
    BY <2>1, MaxBytesAssumption DEF Full, IInv, WriterTypeOK, Chunks
  <2> QED BY <2>1, <2>2 DEF Publish, faultVars
<1>3. /\ DOMAIN file' = DOMAIN file \union {1} /\ file'[1] = file[0]
      /\ \A f \in DOMAIN file : file'[f] = file[f]
      /\ 0 \in DOMAIN file
  BY <1>2 DEF With, Full
<1>4. /\ \A f \in DOMAIN file : \A r \in Record : Holds(file', f, r) <=> Holds(file, f, r)
      /\ \A r \in Record : Holds(file', 1, r) <=> Holds(file, 0, r)
  BY <1>3 DEF Holds
<1>5. /\ InHand(pc) = 1 /\ InHand(pc') = 1
      /\ Live(file) = MaxBytes /\ Live(file') = MaxBytes /\ MaxBytes \in Nat
      /\ Unretired(pc, file) = MaxBytes /\ Unretired(pc', file') = 0
  BY <1>2, <1>3, MaxBytesAssumption DEF InHand, Rotating, Live, Unretired, Full
<1>6. LiveIsOlder'
  BY <1>2, <1>3, <1>4, <1>5 DEF Reach, Older, LiveIsOlder
<1>7. ASSUME NEW f \in DOMAIN file \ {0}, NEW r \in Record, Holds(file, f, r)
      PROVE  /\ Holds(file', 0, r) \/ r + Live(file') + InHand(pc') <= last
             /\ r + Lines(pc', slot', file', f) <= last + Scale(interrupted)
  <2>1. /\ Holds(file, 0, r) \/ r + Live(file) + InHand(pc) <= last
        /\ r + Lines(pc, slot, file, f) <= last + Scale(interrupted)
    BY <1>7 DEF Reach, Older, ArchivesAreOlder
  <2>2. f \in Int /\ f # 0 /\ f # 1
    BY <1>1, <1>2
  <2>3. Place(pc', slot', f) = f - 1 /\ (Place(pc, slot, f) = f - 2 \/ Place(pc, slot, f) = f - 1)
    BY <1>2, <2>2 DEF Place, Shifting
  <2>4. f - 1 \in Int /\ f - 2 = (f - 1) - 1
    BY <2>2
  <2>5. Scale(f - 1) \in Int /\ Scale(f - 2) = Scale(f - 1) - MaxBytes
    BY <2>4, Scaled
  <2>6. Lines(pc', slot', file', f) <= Lines(pc, slot, file, f) /\ Lines(pc', slot', file', f) \in Int
    BY <1>5, <2>3, <2>5 DEF Lines
  <2>7. r \in Nat /\ Lines(pc, slot, file, f) \in Int
    BY <1>1, RecordsAssumption DEF Record
  <2>8. r + Lines(pc', slot', file', f) <= last + Scale(interrupted)
    BY <1>1, <2>1, <2>6, <2>7
  <2>9. Holds(file', 0, r) \/ r + Live(file') + InHand(pc') <= last
    BY <1>3, <1>4, <1>5, <2>1
  <2> QED BY <2>8, <2>9
<1>8. ASSUME NEW r \in Record, Holds(file, 0, r)
      PROVE  /\ Holds(file', 0, r)
             /\ r + Lines(pc', slot', file', 1) <= last + Scale(interrupted)
  <2>1. r + 1 <= last /\ r \in Nat
    BY <1>5, <1>8, RecordsAssumption DEF Reach, Older, LiveIsOlder, Record
  <2>2. Lines(pc', slot', file', 1) = 1
    BY <1>2, <1>5, Scaled DEF Lines, Place, Shifting
  <2> QED BY <1>1, <1>3, <1>4, <1>8, <2>1, <2>2
<1>9. ArchivesAreOlder'
  BY <1>2, <1>3, <1>4, <1>7, <1>8 DEF ArchivesAreOlder
<1>10. Kept'
  <2>1. acked \subseteq Record
    BY DEF IInv, WriterTypeOK
  <2>2. \A r \in acked : OnDisk(file, r) => OnDisk(file', r)
    BY <1>3, <1>4, <2>1 DEF OnDisk
  <2>3. last <= last' /\ interrupted <= interrupted' /\ acked' = acked
    BY <1>1, <1>2
  <2> QED BY <2>2, <2>3, KeptStep DEF Reach, Older
<1>11. RoomAhead' /\ CopyIsFaithful'
  BY <1>2, <1>3 DEF RoomAhead, CopyIsFaithful, Shifting
<1> QED BY <1>6, <1>9, <1>10, <1>11 DEF Reach, Older

\* The live file goes only when its copy carries its final name.
LEMMA Discarding ==
  ASSUME IInv, IInv', Reach, Discard
  PROVE  Reach'
<1>1. /\ last \in Nat /\ interrupted \in Nat /\ Scale(interrupted) \in Int
      /\ Live(file) \in Nat /\ acked \subseteq Nat
  BY Measures
<1>2. /\ pc = "discard" /\ pc' = "reopen" /\ slot' = slot /\ file' = Without(0)
      /\ UNCHANGED <<last, acked, interrupted>>
      /\ 1 \in DOMAIN file /\ file[1] = file[0]
  BY DEF Discard, faultVars, Reach, CopyIsFaithful
<1>3. /\ DOMAIN file' = DOMAIN file \ {0}
      /\ \A f \in DOMAIN file' : file'[f] = file[f]
  <2>1. 0 \in Files
    BY KeepAssumption DEF Files
  <2> QED BY <1>2, <2>1, Removed
<1>4. /\ \A f \in DOMAIN file' : \A r \in Record : Holds(file', f, r) <=> Holds(file, f, r)
      /\ \A r \in Record : ~Holds(file', 0, r)
      /\ \A r \in Record : Holds(file, 0, r) => Holds(file', 1, r)
  BY <1>2, <1>3 DEF Holds
<1>5. /\ InHand(pc) = 1 /\ InHand(pc') = 1 /\ Live(file') = 0
      /\ Unretired(pc, file) = 0 /\ Unretired(pc', file') = 0
      /\ \A f : Place(pc', slot', f) = Place(pc, slot, f)
  BY <1>2, <1>3 DEF InHand, Rotating, Live, Unretired, Place, Shifting
<1>6. \A f : Lines(pc', slot', file', f) = Lines(pc, slot, file, f)
  BY <1>5 DEF Lines
<1>7. LiveIsOlder'
  BY <1>4 DEF LiveIsOlder
<1>8. ASSUME NEW f \in DOMAIN file \ {0}, NEW r \in Record, Holds(file, f, r)
      PROVE  /\ r + Live(file') + InHand(pc') <= last
             /\ r + Lines(pc', slot', file', f) <= last + Scale(interrupted)
  <2>1. /\ Holds(file, 0, r) \/ r + Live(file) + InHand(pc) <= last
        /\ r + Lines(pc, slot, file, f) <= last + Scale(interrupted)
        /\ Holds(file, 0, r) => r + InHand(pc) <= last
    BY <1>8 DEF Reach, Older, ArchivesAreOlder, LiveIsOlder
  <2>2. r \in Nat
    BY RecordsAssumption DEF Record
  <2>3. r + Live(file') + InHand(pc') <= last
    BY <1>1, <1>5, <2>1, <2>2
  <2> QED BY <1>6, <2>1, <2>3
<1>9. ArchivesAreOlder'
  BY <1>2, <1>3, <1>4, <1>8 DEF ArchivesAreOlder
<1>10. Kept'
  <2>1. acked \subseteq Record
    BY DEF IInv, WriterTypeOK
  <2>2. \A r \in acked : OnDisk(file, r) => OnDisk(file', r)
    BY <1>2, <1>3, <1>4, <2>1 DEF OnDisk
  <2>3. last <= last' /\ interrupted <= interrupted' /\ acked' = acked
    BY <1>1, <1>2
  <2> QED BY <2>2, <2>3, KeptStep DEF Reach, Older
<1>11. RoomAhead' /\ CopyIsFaithful'
  BY <1>2 DEF RoomAhead, CopyIsFaithful, Shifting
<1> QED BY <1>7, <1>9, <1>10, <1>11 DEF Reach, Older

\* `dup logs` only reads.
LEMMA ReadReach == ASSUME Reach, Reader \/ UNCHANGED vars PROVE Reach'
<1>1. UNCHANGED <<diskVars, writerVars, faultVars>>
  BY DEF Reader, ReadStart, ReadNext, ReadFails, ReadEnds, vars
<1> QED BY <1>1 DEF Reach, Older, LiveIsOlder, ArchivesAreOlder, Kept, RoomAhead, CopyIsFaithful,
                    diskVars, writerVars, faultVars

\* A record that is on disk is legible, or stands behind a fragment.
LEMMA OnDiskIsLegible ==
  ASSUME IInv, NEW r \in Record, OnDisk(file, r)
  PROVE  \E f \in DOMAIN file : r \in Legible(file[f]) \union Spoiled(file[f])
<1>0. PICK f \in DOMAIN file : \E i \in 1 .. Len(file[f]) : file[f][i] = r
  BY DEF OnDisk, Holds
<1>1. PICK i \in 1 .. Len(file[f]) : file[f][i] = r
  BY <1>0
<1>2. r # Torn /\ Len(file[f]) \in Nat
  BY RecordsAssumption DEF Record, Torn, IInv, WriterTypeOK, Chunks
<1>3. r \in Legible(file[f]) \union Spoiled(file[f])
  <2>1. CASE i = 1 \/ file[f][i - 1] # Torn
    BY <1>1, <1>2, <2>1 DEF Legible, Parsed
  <2>2. CASE i # 1 /\ file[f][i - 1] = Torn
    <3>1. i \in 2 .. Len(file[f])
      BY <1>2, <2>2
    <3> QED BY <1>1, <1>2, <2>2, <3>1 DEF Spoiled
  <2> QED BY <2>1, <2>2
<1> QED BY <1>3

\* There is nothing to keep, and nothing on disk, at the start.
LEMMA ReachStarts == Init => Reach
BY DEF Init, Reach, Older, LiveIsOlder, ArchivesAreOlder, Kept, RoomAhead, CopyIsFaithful, Holds,
       Shifting

\* No step brings a file further back, or drops a record before its time.
LEMMA ReachStep == ASSUME IInv, IInv', Reach, [Next]_vars PROVE Reach'
BY HandedOver, Copying, Abandoned, Writing, Opening, Pruning, Renaming, Publishing, Discarding, ReadReach
   DEF Next, Writer

\* A record that Append acknowledged is found by a later read, or is on disk behind the
\* fragment of a failed write, or Keep files' worth of jobs, less one file for each
\* interrupted rotation, finished after it (rotate.Writer.Write, rotate and history.Append,
\* with a failure or a kill between any two system calls).
THEOREM AcknowledgedRecordsAreKept == Spec => []AcknowledgedIsKept
<1>1. IInv /\ Reach /\ [Next]_vars => IInv' /\ Reach'
  BY Step, ReachStep
<1>2. IInv /\ Reach => AcknowledgedIsKept
  <2> SUFFICES ASSUME IInv, Reach, NEW r \in acked
               PROVE  \/ \E f \in DOMAIN file : r \in Legible(file[f]) \union Spoiled(file[f])
                      \/ r + Retained < last
    BY DEF AcknowledgedIsKept
  <2>1. OnDisk(file, r) \/ r + Retained < last
    BY DEF Reach, Older, Kept, Retained, Depth, Scale
  <2>2. r \in Record
    BY DEF IInv, WriterTypeOK
  <2> QED BY <2>1, <2>2, OnDiskIsLegible
<1> QED BY <1>1, <1>2, Starting, ReachStarts, PTL DEF Spec

--------------------------------------------------------------------------------
(* Numbers in ascending order *)

\* Of two members of a finite set of numbers the smaller has fewer at or below it, so the
\* ranks are 1, 2, ... and each number is at its rank.
LEMMA Ascending ==
  ASSUME NEW S \in SUBSET Nat, IsFiniteSet(S)
  PROVE  /\ Cardinality(S) \in Nat
         /\ InOrder(S) \in [1 .. Cardinality(S) -> S]
         /\ \A i \in S : \E k \in 1 .. Cardinality(S) : InOrder(S)[k] = i
         /\ \A j, k \in 1 .. Cardinality(S) : j < k => InOrder(S)[j] < InOrder(S)[k]
<1> DEFINE n == Cardinality(S)
           Upto(i) == {j \in S : j <= i}
           rank == [i \in S |-> Cardinality(Upto(i))]
<1>0. \A i \in S : i \in Nat
  OBVIOUS
<1>1. n \in Nat
  BY FS_CardinalityType
<1>2. \A i \in S : IsFiniteSet(Upto(i)) /\ Cardinality(Upto(i)) \in 1 .. n
  <2> SUFFICES ASSUME NEW i \in S PROVE IsFiniteSet(Upto(i)) /\ Cardinality(Upto(i)) \in 1 .. n
    OBVIOUS
  <2>1. Upto(i) \in SUBSET S /\ i \in Upto(i)
    OBVIOUS
  <2>2. IsFiniteSet(Upto(i)) /\ Cardinality(Upto(i)) <= n
    BY <2>1, FS_Subset
  <2>3. Cardinality(Upto(i)) \in Nat
    BY <2>2, FS_CardinalityType
  <2>4. Cardinality(Upto(i)) # 0
    BY <2>1, <2>2, FS_EmptySet
  <2> QED BY <1>1, <2>2, <2>3, <2>4
<1>3. ASSUME NEW i \in S, NEW j \in S, i < j PROVE rank[i] < rank[j]
  <2>1. Upto(i) \in SUBSET Upto(j) /\ j \in Upto(j) /\ j \notin Upto(i)
    <3>1. i \in Nat /\ j \in Nat
      BY <1>0
    <3>2. \A m \in S : m <= i => m <= j
      BY <1>0, <1>3, <3>1
    <3>3. ~(j <= i) /\ j <= j
      BY <1>3, <3>1
    <3> QED BY <3>2, <3>3
  <2>2. IsFiniteSet(Upto(j)) /\ Cardinality(Upto(i)) \in Nat /\ Cardinality(Upto(j)) \in Nat
    BY <1>2
  <2> HIDE DEF Upto
  <2>3. Cardinality(Upto(i)) <= Cardinality(Upto(j)) /\ Cardinality(Upto(i)) # Cardinality(Upto(j))
    BY <2>1, <2>2, FS_Subset
  <2> QED BY <2>2, <2>3
<1>4. rank \in [S -> 1 .. n] /\ \A i, j \in S : rank[i] = rank[j] => i = j
  <2>1. rank \in [S -> 1 .. n]
    BY <1>2
  <2> HIDE DEF rank, n
  <2>2. ASSUME NEW i \in S, NEW j \in S, rank[i] = rank[j] PROVE i = j
    <3>1. i \in Nat /\ j \in Nat /\ rank[i] \in Nat
      BY <1>1, <2>1
    <3>2. ~(i < j) /\ ~(j < i)
      BY <1>3, <2>2, <3>1
    <3> QED BY <3>1, <3>2
  <2> QED BY <2>1, <2>2
<1>5. \A k \in 1 .. n : \E i \in S : rank[i] = k
  <2>1. rank \in Injection(S, 1 .. n)
    BY <1>4 DEF Injection, IsInjective
  <2>2. IsFiniteSet(1 .. n) /\ Cardinality(1 .. n) = n
    BY <1>1, FS_Interval
  <2>3. rank \in Surjection(S, 1 .. n)
    BY <2>1, <2>2, FS_Injection
  <2> QED BY <2>3 DEF Surjection
<1>6. ASSUME NEW k \in 1 .. n PROVE InOrder(S)[k] \in S /\ rank[InOrder(S)[k]] = k
  <2>1. \E i \in S : Cardinality(Upto(i)) = k
    BY <1>5
  <2>2. InOrder(S)[k] = Ranked(S, k)
    BY DEF InOrder
  <2>3. Ranked(S, k) \in S /\ Cardinality(Upto(Ranked(S, k))) = k
    BY <2>1 DEF Ranked
  <2> QED BY <2>2, <2>3
<1>7. InOrder(S) \in [1 .. n -> S]
  <2>1. InOrder(S) = [k \in 1 .. n |-> InOrder(S)[k]]
    BY DEF InOrder
  <2> QED BY <1>6, <2>1
<1> HIDE DEF rank
<1>8. \A i \in S : \E k \in 1 .. n : InOrder(S)[k] = i
  <2> SUFFICES ASSUME NEW i \in S PROVE \E k \in 1 .. n : InOrder(S)[k] = i
    OBVIOUS
  <2>1. rank[i] \in 1 .. n
    BY <1>4
  <2>2. InOrder(S)[rank[i]] \in S /\ rank[InOrder(S)[rank[i]]] = rank[i]
    BY <1>6, <2>1
  <2> QED BY <1>4, <2>1, <2>2
<1>9. ASSUME NEW j \in 1 .. n, NEW k \in 1 .. n, j < k PROVE InOrder(S)[j] < InOrder(S)[k]
  <2>1. /\ InOrder(S)[j] \in S /\ rank[InOrder(S)[j]] = j
        /\ InOrder(S)[k] \in S /\ rank[InOrder(S)[k]] = k
    BY <1>6
  <2>2. j \in Nat /\ k \in Nat /\ InOrder(S)[j] \in Nat /\ InOrder(S)[k] \in Nat
    <3>1. j \in Nat /\ k \in Nat
      BY <1>1
    <3>2. InOrder(S)[j] \in Nat /\ InOrder(S)[k] \in Nat
      BY <1>0, <2>1, Zenon
    <3> QED BY <3>1, <3>2
  <2>3. InOrder(S)[k] < InOrder(S)[j] => k < j
    BY <1>3, <2>1
  <2>4. ~(InOrder(S)[k] < InOrder(S)[j]) /\ InOrder(S)[j] # InOrder(S)[k]
    BY <1>9, <2>1, <2>2, <2>3
  <2> QED BY <2>2, <2>4
<1> QED BY <1>1, <1>7, <1>8, <1>9

--------------------------------------------------------------------------------
(* The order of the lines *)

\* Within a file later lines are newer; and until a rotation is interrupted, so is a file than
\* those behind it, but for the copy of the live file that is about to replace it.
LinesAscend ==
  \A f \in DOMAIN file : \A i, j \in 1 .. Len(file[f]) :
     i < j /\ file[f][j] # Torn => file[f][i] < file[f][j]
Twin(p, f, g) == p = "discard" /\ f = 0 /\ g = 1
NewerFirst ==
  interrupted = 0 =>
    \A f, g \in DOMAIN file : f < g /\ ~Twin(pc, f, g) =>
       \A r, s \in Record : Holds(file, f, r) /\ Holds(file, g, s) => s < r
Chronological == LinesAscend /\ NewerFirst

\* A step that only moves files, none past another, keeps the order.
LEMMA Rearranged ==
  ASSUME Chronological, NEW from \in [DOMAIN file' -> DOMAIN file],
         \A f \in DOMAIN file' : file'[f] = file[from[f]],
         interrupted' = 0 =>
            /\ interrupted = 0
            /\ \A f, g \in DOMAIN file' : f < g /\ ~Twin(pc', f, g) =>
                  from[f] < from[g] /\ ~Twin(pc, from[f], from[g])
  PROVE  Chronological'
<1>1. LinesAscend'
  BY DEF Chronological, LinesAscend
<1>2. \A f \in DOMAIN file' : \A r \in Record : Holds(file', f, r) <=> Holds(file, from[f], r)
  BY DEF Holds
<1>3. ASSUME interrupted' = 0, NEW f \in DOMAIN file', NEW g \in DOMAIN file', f < g, ~Twin(pc', f, g),
             NEW r \in Record, NEW s \in Record, Holds(file', f, r), Holds(file', g, s)
      PROVE  s < r
  <2>1. from[f] \in DOMAIN file /\ from[g] \in DOMAIN file
    OBVIOUS
  <2>2. interrupted = 0 /\ from[f] < from[g] /\ ~Twin(pc, from[f], from[g])
    BY <1>3
  <2>3. Holds(file, from[f], r) /\ Holds(file, from[g], s)
    BY <1>2, <1>3
  <2> QED BY <2>1, <2>2, <2>3 DEF Chronological, NewerFirst
<1>4. NewerFirst'
  BY <1>3 DEF NewerFirst
<1> QED BY <1>1, <1>4 DEF Chronological

\* The record that is written is newer than all there are.
LEMMA LineInOrder ==
  ASSUME IInv, IInv', Reach, Chronological, pc = "write", pc' \in {"idle", "down"},
         NEW c \in {Torn, last}, file' = [file EXCEPT ![0] = Append(@, c)],
         UNCHANGED <<last, interrupted>>
  PROVE  Chronological'
<1>1. last \in Nat /\ Live(file) \in Nat /\ InHand(pc) = 1
  BY Measures DEF InHand
<1>2. 0 \in DOMAIN file /\ last \in Record /\ Record \subseteq Nat \ {0}
  BY RecordsAssumption DEF IInv, Sound, RotatingIsFull, SizeIsKnown, RecordInHand, Record
<1>3. /\ DOMAIN file' = DOMAIN file /\ Len(file'[0]) = Len(file[0]) + 1
      /\ \A f \in DOMAIN file \ {0} : file'[f] = file[f]
  BY <1>2, Appended
<1>4. /\ file[0] \in Chunks /\ Len(file[0]) \in Nat
      /\ \A i \in 1 .. Len(file[0]) : file'[0][i] = file[0][i]
      /\ file'[0][Len(file[0]) + 1] = c
  BY <1>2 DEF IInv, WriterTypeOK, Chunks
<1>5. \A i \in 1 .. Len(file[0]) : file[0][i] < last
  <2> SUFFICES ASSUME NEW i \in 1 .. Len(file[0]) PROVE file[0][i] < last
    OBVIOUS
  <2>1. CASE file[0][i] \in Record
    <3>1. Holds(file, 0, file[0][i])
      BY <1>2 DEF Holds
    <3>2. file[0][i] + 1 <= last
      BY <1>1, <2>1, <3>1 DEF Reach, Older, LiveIsOlder
    <3> QED BY <1>1, <1>2, <2>1, <3>2
  <2>2. CASE file[0][i] = Torn
    BY <1>2, <2>2 DEF Torn
  <2> QED BY <1>4, <2>1, <2>2 DEF Chunks
<1>6. LinesAscend'
  <2>1. ASSUME NEW i \in 1 .. Len(file'[0]), NEW j \in 1 .. Len(file'[0]), i < j, file'[0][j] # Torn
        PROVE  file'[0][i] < file'[0][j]
    <3>1. CASE j \in 1 .. Len(file[0])
      BY <1>2, <1>3, <1>4, <2>1, <3>1 DEF Chronological, LinesAscend
    <3>2. CASE j = Len(file[0]) + 1
      <4>1. i \in 1 .. Len(file[0]) /\ file'[0][j] = last
        BY <1>3, <1>4, <2>1, <3>2
      <4> QED BY <1>4, <1>5, <4>1
    <3> QED BY <1>3, <1>4, <3>1, <3>2
  <2> QED BY <1>3, <2>1 DEF Chronological, LinesAscend
<1>7. \A f \in DOMAIN file \ {0} : \A r \in Record : Holds(file', f, r) <=> Holds(file, f, r)
  BY <1>3 DEF Holds
<1>8. \A r \in Record : Holds(file', 0, r) => Holds(file, 0, r) \/ r = last
  BY <1>2, <1>3, <1>4 DEF Holds, Torn
<1>9. \A f \in DOMAIN file : \A r \in Record : Holds(file, f, r) => r < last
  <2> SUFFICES ASSUME NEW f \in DOMAIN file, NEW r \in Record, Holds(file, f, r) PROVE r < last
    OBVIOUS
  <2>1. r \in Nat
    BY <1>2
  <2>2. CASE Holds(file, 0, r)
    <3>1. r + 1 <= last
      BY <1>1, <2>2 DEF Reach, Older, LiveIsOlder
    <3> QED BY <1>1, <2>1, <3>1
  <2>3. CASE f # 0 /\ ~Holds(file, 0, r)
    <3>1. r + Live(file) + 1 <= last
      BY <1>1, <2>3 DEF Reach, Older, ArchivesAreOlder
    <3> QED BY <1>1, <2>1, <3>1
  <2> QED BY <2>2, <2>3
<1>10. ASSUME interrupted' = 0, NEW f \in DOMAIN file', NEW g \in DOMAIN file', f < g,
              NEW r \in Record, NEW s \in Record, Holds(file', f, r), Holds(file', g, s)
       PROVE  s < r
  <2>1. f \in DOMAIN file /\ g \in DOMAIN file /\ g # 0 /\ Holds(file, g, s)
    <3>1. f \in Nat /\ g \in Nat
      BY KeepAssumption DEF IInv, WriterTypeOK, Files
    <3>2. g # 0
      BY <1>10, <3>1
    <3> QED BY <1>3, <1>7, <1>10, <3>2
  <2>2. CASE Holds(file, f, r)
    BY <1>10, <2>1, <2>2 DEF Chronological, NewerFirst, Twin
  <2>3. CASE f = 0 /\ r = last
    BY <1>9, <2>1, <2>3
  <2> QED BY <1>7, <1>8, <1>10, <2>1, <2>2, <2>3
<1>11. NewerFirst'
  BY <1>10 DEF NewerFirst
<1> QED BY <1>6, <1>11 DEF Chronological

\* Nothing but the writer changes the files, and it keeps them in order.
LEMMA OrderStep ==
  ASSUME IInv, IInv', Reach, Chronological, [Next]_vars
  PROVE  Chronological'
<1> DEFINE same == [f \in DOMAIN file' |-> f]
<1>0. /\ interrupted \in Nat /\ \A f \in DOMAIN file : f \in Nat
      /\ \A f \in DOMAIN file' : f \in Nat
  BY KeepAssumption DEF IInv, WriterTypeOK, Files
<1>1. CASE UNCHANGED file
  <2>1. interrupted' = 0 => interrupted = 0 /\ (pc = "discard" => pc' = "discard")
    <3>1. CASE RotateGivesUp \/ Kill
      BY <1>0, <3>1 DEF RotateGivesUp, Kill, Interrupt, Rotating
    <3>2. CASE Discard
      <4>1. 0 \in DOMAIN file
        BY <3>2 DEF Discard, IInv, Sound, RotatingIsFull, Full
      <4> QED BY <1>1, <3>2, <4>1 DEF Discard, Without
    <3>3. CASE /\ ~(RotateGivesUp \/ Kill \/ Discard)
               /\ [Next]_vars
      BY <3>3 DEF Next, Writer, Reader, Start, Open, OpenFails, Stop, AppendJob, Write, WriteFails, Close,
                  CloseFails, Prune, Shift, Shifted, Compress, Publish, Reopen, ReadStart, ReadNext, ReadFails,
                  ReadEnds, vars, writerVars, faultVars
    <3> QED BY <3>1, <3>2, <3>3
  <2>2. same \in [DOMAIN file' -> DOMAIN file] /\ \A f \in DOMAIN file' : file'[f] = file[same[f]]
    BY <1>1
  <2>3. interrupted' = 0 =>
           /\ interrupted = 0
           /\ \A f, g \in DOMAIN file' : f < g /\ ~Twin(pc', f, g) =>
                 same[f] < same[g] /\ ~Twin(pc, same[f], same[g])
    BY <2>1 DEF Twin
  <2> HIDE DEF same
  <2> QED BY <2>2, <2>3, Rearranged
<1>2. CASE (Write \/ WriteFails \/ Kill) /\ ~UNCHANGED file
  <2>1. pc = "write"
    BY <1>2 DEF Write, WriteFails, Kill
  <2>2. pc' \in {"idle", "down"} /\ UNCHANGED <<last, interrupted>>
    BY <1>0, <1>2, <2>1 DEF Write, WriteFails, Kill, Fault, faultVars, Interrupt, Rotating
  <2>3. PICK c \in {Torn, last} : file' = [file EXCEPT ![0] = Append(@, c)]
    BY <1>2 DEF Write, WriteFails, Kill
  <2> QED BY <2>1, <2>2, <2>3, LineInOrder
<1>3. CASE Open \/ Reopen
  <2>1. /\ OpenFile /\ UNCHANGED interrupted /\ pc # "discard" /\ pc' # "discard"
    BY <1>3 DEF Open, Reopen, faultVars
  <2>2. /\ DOMAIN file' = DOMAIN file \union {0}
        /\ \A f \in DOMAIN file : file'[f] = file[f]
        /\ 0 \notin DOMAIN file => file'[0] = << >>
    BY <2>1, Opened
  <2>3. \A f \in DOMAIN file' : \A r : Holds(file', f, r) => f \in DOMAIN file /\ Holds(file, f, r)
    BY <2>2 DEF Holds
  <2>4. LinesAscend'
    BY <2>2 DEF Chronological, LinesAscend
  <2>5. NewerFirst'
    BY <2>1, <2>3 DEF Chronological, NewerFirst, Twin
  <2> QED BY <2>4, <2>5 DEF Chronological
<1>4. CASE Prune \/ Discard
  <2>1. PICK g \in Files : file' = Without(g) /\ (pc = "discard" => g = 0)
    BY <1>4, KeepAssumption DEF Prune, Discard, Files
  <2>2. UNCHANGED interrupted
    BY <1>4 DEF Prune, Discard, faultVars
  <2>3. /\ same \in [DOMAIN file' -> DOMAIN file]
        /\ \A f \in DOMAIN file' : file'[f] = file[same[f]] /\ f # g
    BY <2>1, Removed
  <2>4. \A f \in DOMAIN file' : same[f] = f
    OBVIOUS
  <2> HIDE DEF same
  <2>5. \A f, h \in DOMAIN file' : f < h => same[f] < same[h] /\ ~Twin(pc, same[f], same[h])
    BY <2>1, <2>3, <2>4 DEF Twin
  <2> QED BY <2>2, <2>3, <2>5, Rearranged
<1>5. CASE Shift
  <2>1. /\ slot \in Nat /\ slot > 0 /\ slot + 1 \notin DOMAIN file /\ pc # "discard"
        /\ file' = Renamed(slot, slot + 1) /\ UNCHANGED interrupted
    BY <1>5, KeepAssumption DEF Shift, IInv, WriterTypeOK, Reach, RoomAhead, Shifting, faultVars
  <2>2. CASE ~Exists(slot)
    BY <1>1, <2>1, <2>2 DEF Renamed
  <2>3. CASE Exists(slot)
    <3> DEFINE from == [f \in DOMAIN file' |-> IF f = slot + 1 THEN slot ELSE f]
    <3>1. /\ DOMAIN file' = (DOMAIN file \ {slot}) \union {slot + 1}
          /\ file'[slot + 1] = file[slot]
          /\ \A f \in DOMAIN file \ {slot} : file'[f] = file[f]
      BY <2>1, <2>3 DEF Renamed
    <3>2. from \in [DOMAIN file' -> DOMAIN file] /\ \A f \in DOMAIN file' : file'[f] = file[from[f]]
      BY <2>1, <2>3, <3>1 DEF Exists
    <3>3. ASSUME NEW f \in DOMAIN file', NEW g \in DOMAIN file', f < g PROVE from[f] < from[g]
      <4>1. f \in Nat /\ g \in Nat /\ f # slot /\ g # slot
        BY <1>0, <2>1, <3>1
      <4>2. from[f] = (IF f = slot + 1 THEN slot ELSE f) /\ from[g] = (IF g = slot + 1 THEN slot ELSE g)
        OBVIOUS
      <4> HIDE DEF from
      <4>3. CASE f = slot + 1
        <5>1. g # slot + 1 /\ from[f] = slot /\ from[g] = g
          BY <2>1, <3>3, <4>1, <4>2, <4>3
        <5> QED BY <2>1, <3>3, <4>1, <4>3, <5>1
      <4>4. CASE f # slot + 1
        <5>1. from[f] = f /\ (from[g] = g \/ (g = slot + 1 /\ from[g] = slot))
          BY <4>2, <4>4
        <5> QED BY <2>1, <3>3, <4>1, <5>1
      <4> QED BY <4>3, <4>4
    <3> HIDE DEF from
    <3>4. \A f, g \in DOMAIN file' : f < g => from[f] < from[g] /\ ~Twin(pc, from[f], from[g])
      BY <2>1, <3>3 DEF Twin
    <3> QED BY <2>1, <3>2, <3>4, Rearranged
  <2> QED BY <2>2, <2>3
<1>6. CASE Publish
  <2>1. /\ file' = With(1, partial) /\ UNCHANGED interrupted /\ pc # "discard" /\ pc' = "discard"
        /\ Full(0) /\ 1 \notin DOMAIN file /\ partial = file[0]
    <3>1. /\ Full(0) /\ Len(partial) = MaxBytes /\ 1 \notin DOMAIN file
          /\ partial = SubSeq(file[0], 1, Len(partial))
      BY <1>6 DEF Publish, IInv, Sound, RotatingIsFull, Reach, RoomAhead, CopyIsFaithful, Shifting
    <3>2. partial = file[0]
      BY <3>1, MaxBytesAssumption DEF Full, IInv, WriterTypeOK, Chunks
    <3> QED BY <1>6, <3>1, <3>2 DEF Publish, faultVars
  <2> DEFINE from == [f \in DOMAIN file' |-> IF f = 1 THEN 0 ELSE f]
  <2>2. /\ DOMAIN file' = DOMAIN file \union {1} /\ file'[1] = file[0]
        /\ \A f \in DOMAIN file : file'[f] = file[f] /\ f # 1
        /\ 0 \in DOMAIN file
    BY <2>1 DEF With, Full
  <2>3. from \in [DOMAIN file' -> DOMAIN file] /\ \A f \in DOMAIN file' : file'[f] = file[from[f]]
    BY <2>2
  <2>4. ASSUME NEW f \in DOMAIN file', NEW g \in DOMAIN file', f < g, ~Twin(pc', f, g)
        PROVE  from[f] < from[g]
    <3>1. f \in Nat /\ g \in Nat /\ ~(f = 0 /\ g = 1)
      BY <1>0, <2>1, <2>4 DEF Twin
    <3>2. from[f] = (IF f = 1 THEN 0 ELSE f) /\ from[g] = (IF g = 1 THEN 0 ELSE g)
      OBVIOUS
    <3> HIDE DEF from
    <3>3. CASE f = 1
      <4>1. g # 1 /\ from[f] = 0 /\ from[g] = g
        BY <2>4, <3>1, <3>2, <3>3
      <4> QED BY <2>4, <3>1, <3>3, <4>1
    <3>4. CASE f # 1
      <4>1. from[f] = f /\ (from[g] = g \/ (g = 1 /\ from[g] = 0))
        BY <3>2, <3>4
      <4> QED BY <2>4, <3>1, <4>1
    <3> QED BY <3>3, <3>4
  <2> HIDE DEF from
  <2>5. \A f, g \in DOMAIN file' : f < g /\ ~Twin(pc', f, g) =>
           from[f] < from[g] /\ ~Twin(pc, from[f], from[g])
    BY <2>1, <2>4 DEF Twin
  <2> QED BY <2>1, <2>3, <2>5, Rearranged
<1>7. \/ UNCHANGED file \/ Write \/ WriteFails \/ Kill
      \/ Open \/ Reopen \/ Prune \/ Discard \/ Shift \/ Publish
  BY DEF Next, Writer, Reader, Start, OpenFails, Stop, AppendJob, Close, CloseFails, Shifted, Compress,
         RotateGivesUp, ReadStart, ReadNext, ReadFails, ReadEnds, vars, diskVars
<1> QED BY <1>1, <1>2, <1>3, <1>4, <1>5, <1>6, <1>7

--------------------------------------------------------------------------------
(* A read *)

\* What the read of a file finds: its lines that match, each once and in their order.
LEMMA FoundIs ==
  ASSUME IInv, Chronological, NEW f \in Files
  PROVE  /\ Found(f) \in Seq(Record)
         /\ \A k \in 1 .. Len(Found(f)) : Holds(file, f, Found(f)[k])
         /\ \A j, k \in 1 .. Len(Found(f)) : j < k => Found(f)[j] < Found(f)[k]
         /\ \A r \in Record : f \in DOMAIN file /\ r \in Legible(file[f]) /\ r \in query
                                 => \E k \in 1 .. Len(Found(f)) : Found(f)[k] = r
<1> DEFINE M == Matching(f)
<1>1. M \in SUBSET Nat /\ IsFiniteSet(M)
  <2>1. CASE ~Exists(f)
    BY <2>1, FS_EmptySet DEF Matching
  <2>2. CASE Exists(f)
    <3>1. Len(file[f]) \in Nat
      BY <2>2 DEF Exists, IInv, WriterTypeOK, Chunks
    <3>2. M \in SUBSET (1 .. Len(file[f]))
      BY <2>2 DEF Matching, Parsed
    <3>3. IsFiniteSet(1 .. Len(file[f]))
      BY <3>1, FS_Interval
    <3> HIDE DEF M
    <3>4. IsFiniteSet(M)
      BY <3>2, <3>3, FS_Subset
    <3>5. \A i \in 1 .. Len(file[f]) : i \in Nat
      BY <3>1
    <3> QED BY <3>2, <3>4, <3>5
  <2> QED BY <2>1, <2>2
<1>2. \A i \in M : /\ f \in DOMAIN file /\ i \in 1 .. Len(file[f])
                   /\ file[f][i] \in Record /\ file[f][i] # Torn
  BY DEF Matching, Exists, Parsed, IInv, WriterTypeOK, Chunks
<1> DEFINE n == Cardinality(M)
<1>3. Found(f) = [k \in 1 .. n |-> file[f][InOrder(M)[k]]]
  BY DEF Found
<1>4. \A r : f \in DOMAIN file /\ r \in Legible(file[f]) /\ r \in query => \E i \in M : file[f][i] = r
  BY DEF Legible, Matching, Exists
<1> HIDE DEF M
<1>5. /\ n \in Nat
      /\ InOrder(M) \in [1 .. n -> M]
      /\ \A i \in M : \E k \in 1 .. n : InOrder(M)[k] = i
      /\ \A j, k \in 1 .. n : j < k => InOrder(M)[j] < InOrder(M)[k]
  BY <1>1, Ascending
<1> HIDE DEF n
<1>6. \A k \in 1 .. n : /\ InOrder(M)[k] \in M
                        /\ Found(f)[k] = file[f][InOrder(M)[k]] /\ Found(f)[k] \in Record
  BY <1>2, <1>3, <1>5
<1>7. Found(f) \in Seq(Record) /\ Len(Found(f)) = n
  <2>1. Found(f) \in [1 .. n -> Record]
    BY <1>3, <1>6
  <2>2. Found(f) \in Seq(Record)
    BY <1>5, <2>1, SeqDef
  <2>3. DOMAIN Found(f) = 1 .. n /\ DOMAIN Found(f) = 1 .. Len(Found(f)) /\ Len(Found(f)) \in Nat
    BY <2>1, <2>2, LenProperties
  <2>4. Len(Found(f)) = n
    BY <1>5, <2>3
  <2> QED BY <2>2, <2>4
<1>8. \A k \in 1 .. n : Holds(file, f, Found(f)[k])
  BY <1>2, <1>6 DEF Holds
<1>9. ASSUME NEW j \in 1 .. n, NEW k \in 1 .. n, j < k PROVE Found(f)[j] < Found(f)[k]
  <2>1. InOrder(M)[j] < InOrder(M)[k]
    BY <1>5, <1>9
  <2> QED BY <1>2, <1>6, <2>1 DEF Chronological, LinesAscend
<1>10. \A r \in Record : f \in DOMAIN file /\ r \in Legible(file[f]) /\ r \in query
                            => \E k \in 1 .. n : Found(f)[k] = r
  BY <1>4, <1>5, <1>6
<1> QED BY <1>7, <1>8, <1>9, <1>10

\* A file is read backwards, and the read stops at the limit.
Collects(new, o, s) ==
  /\ new \in Seq(Record) /\ Len(new) \in Nat
  /\ Len(new) = IF Len(o) + Len(s) > Limit THEN Limit ELSE Len(o) + Len(s)
  /\ \A k \in 1 .. Len(new) :
        new[k] = IF k <= Len(o) THEN o[k] ELSE s[Len(s) + 1 - (k - Len(o))]

\* What the read has collected after a file s, when it had collected o before.
LEMMA Collected ==
  ASSUME NEW o \in Seq(Record), NEW s \in Seq(Record)
  PROVE  Collects(Truncated(o \o Reversed(s)), o, s)
<1> DEFINE new == Truncated(o \o Reversed(s))
           b == Reversed(s)
           w == o \o b
           m == IF Len(w) > Limit THEN Limit ELSE Len(w)
<1>1. /\ b \in Seq(Record) /\ Len(b) = Len(s) /\ Len(s) \in Nat /\ Len(o) \in Nat
      /\ \A i \in 1 .. Len(s) : b[i] = s[Len(s) + 1 - i]
  <2>1. Len(s) \in Nat /\ Len(o) \in Nat /\ \A i \in 1 .. Len(s) : s[i] \in Record
    BY LenProperties
  <2>2. b = [i \in 1 .. Len(s) |-> s[Len(s) + 1 - i]]
    BY DEF Reversed
  <2>3. \A i \in 1 .. Len(s) : Len(s) + 1 - i \in 1 .. Len(s)
    BY <2>1
  <2>4. b \in [1 .. Len(s) -> Record]
    BY <2>1, <2>2, <2>3
  <2> HIDE DEF b
  <2>5. b \in Seq(Record)
    BY <2>1, <2>4, SeqDef
  <2>6. 1 .. Len(b) = 1 .. Len(s) /\ Len(b) \in Nat
    BY <2>4, <2>5, LenProperties
  <2> QED BY <2>1, <2>2, <2>5, <2>6
<1> HIDE DEF b
<1>2. /\ w \in Seq(Record) /\ Len(w) = Len(o) + Len(s)
      /\ \A i \in 1 .. Len(w) : w[i] = IF i <= Len(o) THEN o[i] ELSE b[i - Len(o)]
  <2>1. /\ w \in Seq(Record) /\ Len(w) = Len(o) + Len(b)
        /\ \A i \in 1 .. Len(o) + Len(b) : w[i] = IF i <= Len(o) THEN o[i] ELSE b[i - Len(o)]
    <3>1. o \in Seq(Record) /\ b \in Seq(Record)
      BY <1>1
    <3> QED BY <3>1, ConcatProperties
  <2> HIDE DEF w
  <2> QED BY <1>1, <2>1
<1>3. new = SubSeq(w, 1, m)
  BY DEF Truncated, b
<1> HIDE DEF w, new
<1>4. m \in Nat /\ m <= Len(w)
  BY <1>1, <1>2, LimitAssumption
<1>5. \A i \in 1 .. m : w[i] \in Record
  BY <1>1, <1>2, <1>4, ElementOfSeq
<1> HIDE DEF m
<1>6. new \in Seq(Record) /\ Len(new) = m /\ \A i \in 1 .. m : new[i] = w[i]
  <2>1. /\ new \in Seq(Record)
        /\ Len(new) = IF 1 <= m THEN m - 1 + 1 ELSE 0
        /\ \A i \in 1 .. m - 1 + 1 : new[i] = w[1 + i - 1]
    BY <1>3, <1>4, <1>5, SubSeqProperties
  <2> QED BY <1>4, <2>1
<1>7. ASSUME NEW k \in 1 .. m
      PROVE  new[k] = IF k <= Len(o) THEN o[k] ELSE s[Len(s) + 1 - (k - Len(o))]
  <2>1. new[k] = w[k] /\ k \in 1 .. Len(w)
    BY <1>1, <1>2, <1>4, <1>6
  <2>2. k > Len(o) => k - Len(o) \in 1 .. Len(s)
    BY <1>1, <1>2, <2>1
  <2> QED BY <1>1, <1>2, <2>1, <2>2
<1>8. m = IF Len(o) + Len(s) > Limit THEN Limit ELSE Len(o) + Len(s)
  BY <1>2 DEF m
<1>9. Collects(new, o, s)
  BY <1>4, <1>6, <1>7, <1>8 DEF Collects
<1> QED BY <1>9 DEF new

\* A read goes through its list of files, the live one first, until it has enough.
Listed == rpc = "reading" =>
  /\ \A i, j \in 1 .. Len(toRead) : i < j => toRead[i] < toRead[j]
  /\ \A i \in 1 .. Len(toRead) : toRead[i] = 0 => out = << >>
  /\ Len(out) <= Limit /\ (toRead # << >> => Len(out) < Limit)

\* While no rotation overtakes it, what was on record when it began has been found, is in a
\* file still to be read, or is older than the records that filled the limit.
Ahead(F, t, r) == \E i \in 1 .. Len(t) : t[i] \in DOMAIN F /\ r \in Legible(F[t[i]])
Enough(x, t, o, r) == /\ Len(o) = Limit /\ t = << >>
                      /\ x = 0 => \A k \in 1 .. Len(o) : o[k] > r
Pending == rpc = "reading" /\ moved = FALSE =>
  /\ pc # "discard"
  /\ \A r \in expected : /\ r \in query
                         /\ \/ r \in RangeOf(out) \/ Ahead(file, toRead, r)
                            \/ Enough(interrupted, toRead, out, r)

\* Nor is anything still to be read newer than what has been found.
Newest == rpc = "reading" /\ moved = FALSE /\ interrupted = 0 =>
  /\ \A i, j \in 1 .. Len(out) : i < j => out[i] > out[j]
  /\ \A i \in 1 .. Len(toRead) : \A r \in Record :
        Holds(file, toRead[i], r) => \A k \in 1 .. Len(out) : out[k] > r

Reading == ReaderTypeOK /\ Listed /\ Pending /\ Newest

\* A read that begins has the whole of the files before it.
LEMMA ReadBegins ==
  ASSUME IInv, Reading, ReadStart
  PROVE  Reading'
<1>1. PICK q \in Queries : query' = q /\ expected' = OnRecord \intersect q
  BY DEF ReadStart
<1>2. /\ UNCHANGED <<file, pc, interrupted>> /\ toRead' = <<0>> \o Archives /\ out' = << >>
      /\ rpc' = "reading" /\ moved' = (pc = "discard")
  BY DEF ReadStart, diskVars, writerVars, faultVars
<1> DEFINE D == DOMAIN file \ {0}
           n == Cardinality(D)
<1>3. D \in SUBSET (1 .. Keep) /\ D \in SUBSET Nat /\ Keep \in Nat
  BY KeepAssumption DEF IInv, WriterTypeOK, Files
<1>4. IsFiniteSet(D)
  <2> HIDE DEF D
  <2>1. IsFiniteSet(1 .. Keep)
    BY <1>3, FS_Interval
  <2> QED BY <1>3, <2>1, FS_Subset
<1>5. Archives = InOrder(D)
  BY DEF Archives
<1> HIDE DEF D
<1>6. /\ n \in Nat /\ Archives \in [1 .. n -> D]
      /\ \A i \in D : \E k \in 1 .. n : Archives[k] = i
      /\ \A j, k \in 1 .. n : j < k => Archives[j] < Archives[k]
  BY <1>3, <1>4, <1>5, Ascending
<1> HIDE DEF n
<1>7. \A k \in 1 .. n : Archives[k] \in D /\ Archives[k] \in Files /\ Archives[k] > 0
  <2>1. \A f \in D : f \in Files /\ f > 0
    BY <1>3 DEF Files
  <2> QED BY <1>6, <2>1
<1>8. Archives \in Seq(Files) /\ Len(Archives) = n
  <2>1. Archives \in [1 .. n -> Files]
    BY <1>6, <1>7
  <2>2. Archives \in Seq(Files)
    BY <1>6, <2>1, SeqDef
  <2>3. DOMAIN Archives = 1 .. n /\ DOMAIN Archives = 1 .. Len(Archives) /\ Len(Archives) \in Nat
    BY <2>1, <2>2, LenProperties
  <2> QED BY <1>6, <2>2, <2>3
<1>9. /\ toRead' \in Seq(Files) /\ Len(toRead') = n + 1
      /\ toRead'[1] = 0 /\ \A k \in 1 .. n : toRead'[k + 1] = Archives[k]
  <2>1. 0 \in Files /\ <<0>> \in Seq(Files) /\ Len(<<0>>) = 1 /\ <<0>>[1] = 0
    BY <1>3 DEF Files
  <2>2. /\ toRead' \in Seq(Files) /\ Len(toRead') = 1 + n
        /\ \A i \in 1 .. 1 + n : toRead'[i] = IF i <= 1 THEN <<0>>[i] ELSE Archives[i - 1]
    <3>1. /\ <<0>> \o Archives \in Seq(Files) /\ Len(<<0>> \o Archives) = Len(<<0>>) + Len(Archives)
          /\ \A i \in 1 .. Len(<<0>>) + Len(Archives) :
                (<<0>> \o Archives)[i] = IF i <= Len(<<0>>) THEN <<0>>[i] ELSE Archives[i - Len(<<0>>)]
      BY <1>8, <2>1, ConcatProperties
    <3> QED BY <1>2, <1>8, <2>1, <3>1
  <2> QED BY <1>6, <2>1, <2>2
<1>10. ReaderTypeOK'
  <2>1. query' \in SUBSET Record /\ expected' \in SUBSET Record
    BY <1>1, QueriesAssumption DEF Record
  <2> QED BY <1>2, <1>9, <2>1 DEF ReaderTypeOK
<1>11. Listed'
  <2>1. ASSUME NEW i \in 1 .. n + 1, NEW j \in 1 .. n + 1, i < j PROVE toRead'[i] < toRead'[j]
    <3>1. j - 1 \in 1 .. n /\ toRead'[j] = Archives[j - 1]
      <4>1. j - 1 \in 1 .. n /\ (j - 1) + 1 = j
        BY <1>6, <2>1
      <4> QED BY <1>9, <4>1
    <3>2. CASE i = 1
      BY <1>7, <1>9, <3>1, <3>2
    <3>3. CASE i # 1
      <4>1. i - 1 \in 1 .. n /\ i - 1 < j - 1 /\ (i - 1) + 1 = i
        BY <1>6, <2>1, <3>3
      <4>2. toRead'[i] = Archives[i - 1]
        BY <1>9, <4>1
      <4>3. Archives[i - 1] < Archives[j - 1]
        BY <1>6, <3>1, <4>1
      <4> QED BY <3>1, <4>2, <4>3
    <3> QED BY <3>2, <3>3
  <2>2. Len(out') = 0
    BY <1>2
  <2> QED BY <1>2, <1>9, <2>1, <2>2, LimitAssumption DEF Listed
<1>12. Pending'
  <2>1. ASSUME NEW r \in OnRecord PROVE Ahead(file, toRead', r)
    <3>1. PICK f \in DOMAIN file : r \in Legible(file[f])
      BY DEF OnRecord
    <3>2. CASE f = 0
      BY <1>6, <1>9, <3>1, <3>2 DEF Ahead
    <3>3. CASE f # 0
      <4>1. PICK k \in 1 .. n : Archives[k] = f
        BY <1>6, <3>3 DEF D
      <4>2. k + 1 \in 1 .. n + 1 /\ toRead'[k + 1] = f
        BY <1>6, <1>9, <4>1
      <4> QED BY <1>9, <3>1, <4>2 DEF Ahead
    <3> QED BY <3>2, <3>3
  <2>2. moved' = FALSE => pc' # "discard"
    BY <1>2
  <2> QED BY <1>1, <1>2, <2>1, <2>2 DEF Pending
<1>13. Newest'
  BY <1>2 DEF Newest
<1> QED BY <1>10, <1>11, <1>12, <1>13 DEF Reading

\* The next file is older than what has been found, and newer than the files behind it.
LEMMA ReadGoesOn ==
  ASSUME IInv, Chronological, Reading, ReadNext
  PROVE  Reading'
<1> DEFINE f == Head(toRead)
           s == Found(f)
           n == Len(out)
           m == Len(s)
           At(k) == m + 1 - (k - n)
<1>1. /\ rpc = "reading" /\ toRead # << >> /\ rpc' = "reading"
      /\ out' = Truncated(out \o Reversed(s))
      /\ toRead' = IF Len(out') = Limit THEN << >> ELSE Tail(toRead)
      /\ UNCHANGED <<file, pc, interrupted, query, expected, moved>>
  BY DEF ReadNext, diskVars, writerVars, faultVars
<1>2. /\ toRead \in Seq(Files) /\ out \in Seq(Record) /\ Len(toRead) \in Nat \ {0}
      /\ f \in Files /\ f = toRead[1]
      /\ Tail(toRead) \in Seq(Files) /\ Len(Tail(toRead)) = Len(toRead) - 1
      /\ \A i \in 1 .. Len(toRead) - 1 : Tail(toRead)[i] = toRead[i + 1]
      /\ n \in Nat /\ n < Limit /\ Limit \in Nat
  <2>1. toRead \in Seq(Files) /\ out \in Seq(Record) /\ n < Limit
    BY <1>1 DEF Reading, ReaderTypeOK, Listed
  <2>2. Len(toRead) \in Nat /\ n \in Nat
    BY <2>1, LenProperties
  <2>3. Len(toRead) # 0
    BY <1>1, <2>1, EmptySeq
  <2>4. /\ f \in Files /\ Tail(toRead) \in Seq(Files) /\ Len(Tail(toRead)) = Len(toRead) - 1
        /\ \A i \in 1 .. Len(Tail(toRead)) : Tail(toRead)[i] = toRead[i + 1]
    BY <1>1, <2>1, HeadTailProperties
  <2>5. f = toRead[1]
    BY <1>1, <2>1
  <2> QED BY <2>1, <2>2, <2>3, <2>4, <2>5, LimitAssumption
<1> HIDE DEF f
<1>3. /\ s \in Seq(Record) /\ m \in Nat
      /\ \A k \in 1 .. m : s[k] \in Record /\ Holds(file, f, s[k])
      /\ \A j, k \in 1 .. m : j < k => s[j] < s[k]
      /\ \A r \in Record : f \in DOMAIN file /\ r \in Legible(file[f]) /\ r \in query
                              => \E k \in 1 .. m : s[k] = r
  <2>1. /\ s \in Seq(Record)
        /\ \A k \in 1 .. m : Holds(file, f, s[k])
        /\ \A j, k \in 1 .. m : j < k => s[j] < s[k]
        /\ \A r \in Record : f \in DOMAIN file /\ r \in Legible(file[f]) /\ r \in query
                                => \E k \in 1 .. m : s[k] = r
    BY <1>2, FoundIs
  <2>2. m \in Nat /\ \A k \in 1 .. m : s[k] \in Record
    BY <2>1, LenProperties
  <2> QED BY <2>1, <2>2
<1> HIDE DEF s
<1>4. /\ out' \in Seq(Record) /\ Len(out') \in Nat
      /\ Len(out') = IF n + m > Limit THEN Limit ELSE n + m
      /\ \A k \in 1 .. Len(out') : out'[k] = IF k <= n THEN out[k] ELSE s[At(k)]
  <2>1. out \in Seq(Record) /\ s \in Seq(Record) /\ out' = Truncated(out \o Reversed(s))
    BY <1>1, <1>2, <1>3
  <2>2. Collects(out', out, s)
    BY <2>1, Collected
  <2> QED BY <2>2 DEF Collects
<1>5. /\ n <= Len(out') /\ Len(out') <= Limit
      /\ \A k \in 1 .. n : k \in 1 .. Len(out') /\ out'[k] = out[k]
      /\ \A k \in 1 .. Len(out') : k \notin 1 .. n => At(k) \in 1 .. m /\ out'[k] = s[At(k)]
  BY <1>2, <1>3, <1>4
<1>6. Record \subseteq Nat /\ \A i \in 1 .. n : out[i] \in Nat
  BY <1>2, RecordsAssumption, ElementOfSeq DEF Record
<1>7. ReaderTypeOK'
  BY <1>1, <1>2, <1>4, EmptySeq DEF Reading, ReaderTypeOK
<1>8. /\ toRead' # << >> => toRead' = Tail(toRead) /\ Len(out') < Limit
      /\ toRead' = << >> => Len(out') = Limit \/ Len(toRead) = 1
  <2>1. CASE Len(out') = Limit
    BY <1>1, <2>1
  <2>2. CASE Len(out') # Limit
    <3>1. toRead' = Tail(toRead) /\ Len(out') < Limit
      BY <1>1, <1>2, <1>4, <1>5, <2>2
    <3>2. toRead' = << >> => Len(Tail(toRead)) = 0
      BY <3>1, EmptySeq
    <3> QED BY <1>2, <3>1, <3>2
  <2> QED BY <2>1, <2>2
<1>9. Listed'
  <2>1. CASE toRead' = << >>
    BY <1>5, <2>1 DEF Listed
  <2>2. CASE toRead' # << >>
    <3>1. Len(toRead') = Len(toRead) - 1 /\ \A i \in 1 .. Len(toRead') : toRead'[i] = toRead[i + 1]
      BY <1>2, <1>8, <2>2
    <3>2. ASSUME NEW i \in 1 .. Len(toRead'), NEW j \in 1 .. Len(toRead'), i < j
          PROVE  toRead'[i] < toRead'[j]
      <4>1. i + 1 \in 1 .. Len(toRead) /\ j + 1 \in 1 .. Len(toRead) /\ i + 1 < j + 1
        BY <1>2, <3>1, <3>2
      <4> QED BY <1>1, <3>1, <4>1 DEF Reading, Listed
    <3>3. ASSUME NEW i \in 1 .. Len(toRead') PROVE toRead'[i] # 0
      <4>1. 1 \in 1 .. Len(toRead) /\ i + 1 \in 1 .. Len(toRead) /\ 1 < i + 1
        BY <1>2, <3>1
      <4>2. toRead[1] < toRead[i + 1]
        BY <1>1, <4>1 DEF Reading, Listed
      <4>3. toRead[1] \in Nat
        BY <1>2, KeepAssumption DEF Files
      <4> QED BY <3>1, <4>2, <4>3
    <3> QED BY <1>5, <1>8, <2>2, <3>2, <3>3 DEF Listed
  <2> QED BY <2>1, <2>2
<1>10. ASSUME moved = FALSE, interrupted = 0,
              NEW r \in Record, NEW i \in 1 .. Len(toRead), i # 1, Holds(file, toRead[i], r)
       PROVE  \A k \in 1 .. Len(out') : out'[k] > r
  <2>1. ASSUME NEW k \in 1 .. n PROVE out'[k] > r
    BY <1>1, <1>5, <1>10 DEF Reading, Newest
  <2>2. ASSUME NEW k \in 1 .. Len(out'), k \notin 1 .. n PROVE out'[k] > r
    <3>1. At(k) \in 1 .. m /\ out'[k] = s[At(k)]
      BY <1>5, <2>2
    <3> HIDE DEF At
    <3>2. s[At(k)] \in Record /\ Holds(file, f, s[At(k)])
      BY <1>3, <3>1
    <3>3. f < toRead[i]
      <4>1. 1 \in 1 .. Len(toRead) /\ 1 < i
        BY <1>2, <1>10
      <4> QED BY <1>1, <1>2, <4>1 DEF Reading, Listed
    <3>4. f \in DOMAIN file /\ toRead[i] \in DOMAIN file /\ ~Twin(pc, f, toRead[i])
      BY <1>1, <1>10, <3>2 DEF Holds, Twin, Reading, Pending
    <3>5. r < s[At(k)]
      BY <1>10, <3>2, <3>3, <3>4 DEF Chronological, NewerFirst
    <3> QED BY <1>6, <3>1, <3>2, <3>5
  <2> QED BY <2>1, <2>2
<1>11. Newest'
  <2> SUFFICES ASSUME moved = FALSE, interrupted = 0
               PROVE  /\ \A i, j \in 1 .. Len(out') : i < j => out'[i] > out'[j]
                      /\ \A i \in 1 .. Len(toRead') : \A r \in Record :
                            Holds(file, toRead'[i], r) => \A k \in 1 .. Len(out') : out'[k] > r
    BY <1>1 DEF Newest
  <2>1. ASSUME NEW i \in 1 .. Len(out'), NEW j \in 1 .. Len(out'), i < j PROVE out'[i] > out'[j]
    <3>1. CASE j \in 1 .. n
      <4>1. i \in 1 .. n
        BY <1>2, <1>4, <2>1, <3>1
      <4> QED BY <1>1, <1>5, <2>1, <3>1, <4>1 DEF Reading, Newest
    <3>2. CASE j \notin 1 .. n
      <4>1. At(j) \in 1 .. m /\ out'[j] = s[At(j)]
        BY <1>5, <3>2
      <4>2. s[At(j)] \in Record /\ Holds(file, f, s[At(j)])
        BY <1>3, <4>1
      <4>3. CASE i \in 1 .. n
        <5>1. out[i] > s[At(j)]
          <6>1. 1 \in 1 .. Len(toRead)
            BY <1>2
          <6> HIDE DEF At
          <6> QED BY <1>1, <1>2, <4>2, <4>3, <6>1 DEF Reading, Newest
        <5> QED BY <1>5, <4>1, <4>3, <5>1
      <4>4. CASE i \notin 1 .. n
        <5>1. At(i) \in 1 .. m /\ out'[i] = s[At(i)]
          BY <1>5, <4>4
        <5>2. At(j) < At(i)
          BY <1>2, <1>3, <1>4, <2>1
        <5> HIDE DEF At
        <5>3. s[At(j)] < s[At(i)] /\ s[At(i)] \in Record
          BY <1>3, <4>1, <5>1, <5>2
        <5> QED BY <1>6, <4>1, <4>2, <5>1, <5>3
      <4> QED BY <4>3, <4>4
    <3> QED BY <3>1, <3>2
  <2>2. ASSUME NEW i \in 1 .. Len(toRead'), NEW r \in Record, Holds(file, toRead'[i], r)
        PROVE  \A k \in 1 .. Len(out') : out'[k] > r
    <3>1. toRead' # << >>
      BY <2>2
    <3>2. i + 1 \in 1 .. Len(toRead) /\ i + 1 # 1 /\ toRead'[i] = toRead[i + 1]
      BY <1>2, <1>8, <3>1
    <3> QED BY <1>10, <2>2, <3>2
  <2> QED BY <2>1, <2>2
<1>12. ASSUME moved = FALSE, NEW r \in expected
       PROVE  r \in RangeOf(out') \/ Ahead(file, toRead', r) \/ Enough(interrupted, toRead', out', r)
  <2>1. /\ r \in Record /\ r \in query
        /\ \/ r \in RangeOf(out) \/ Ahead(file, toRead, r)
           \/ Enough(interrupted, toRead, out, r)
    BY <1>1, <1>12 DEF Reading, ReaderTypeOK, Pending
  <2>2. CASE r \in RangeOf(out)
    BY <1>5, <2>2 DEF RangeOf
  <2>3. ASSUME NEW i \in 1 .. Len(toRead), i # 1,
               toRead[i] \in DOMAIN file, r \in Legible(file[toRead[i]])
        PROVE  Ahead(file, toRead', r) \/ Enough(interrupted, toRead', out', r)
    <3>1. CASE toRead' # << >>
      <4>1. /\ i - 1 \in 1 .. Len(toRead') /\ toRead'[i - 1] = toRead[i]
        <5>1. i - 1 \in 1 .. Len(toRead) - 1 /\ (i - 1) + 1 = i
          BY <1>2, <2>3
        <5> QED BY <1>2, <1>8, <3>1, <5>1
      <4> QED BY <2>3, <4>1 DEF Ahead
    <3>2. CASE toRead' = << >>
      <4>1. Len(out') = Limit
        BY <1>2, <1>8, <2>3, <3>2
      <4>2. Holds(file, toRead[i], r)
        BY <2>3 DEF Legible, Parsed, Holds
      <4>3. interrupted = 0 => \A k \in 1 .. Len(out') : out'[k] > r
        BY <1>10, <1>12, <2>1, <2>3, <4>2
      <4> QED BY <3>2, <4>1, <4>3 DEF Enough
    <3> QED BY <3>1, <3>2
  <2>4. ASSUME f \in DOMAIN file, r \in Legible(file[f])
        PROVE  r \in RangeOf(out') \/ Enough(interrupted, toRead', out', r)
    <3>1. PICK p \in 1 .. m : s[p] = r
      BY <1>3, <2>1, <2>4
    <3> DEFINE k == n + (m + 1 - p)
    <3>2. k \in Nat /\ k > n /\ k <= n + m /\ At(k) = p
      BY <1>2, <1>3
    <3>3. CASE k <= Len(out')
      <4>1. k \in 1 .. Len(out') /\ k \notin 1 .. n
        BY <1>2, <1>4, <3>2, <3>3
      <4> HIDE DEF k, At
      <4>2. out'[k] = r
        BY <1>5, <3>1, <3>2, <4>1
      <4> QED BY <4>1, <4>2 DEF RangeOf
    <3>4. CASE k > Len(out')
      <4>1. Len(out') = Limit /\ toRead' = << >>
        BY <1>1, <1>2, <1>3, <1>4, <3>2, <3>4
      <4>2. ASSUME interrupted = 0, NEW j \in 1 .. Len(out') PROVE out'[j] > r
        <5>1. CASE j \in 1 .. n
          <6>1. 1 \in 1 .. Len(toRead) /\ Holds(file, toRead[1], r)
            BY <1>2, <1>3, <3>1
          <6>2. out[j] > r
            BY <1>1, <1>12, <2>1, <4>2, <5>1, <6>1 DEF Reading, Newest
          <6> QED BY <1>5, <5>1, <6>2
        <5>2. CASE j \notin 1 .. n
          <6>1. At(j) \in 1 .. m /\ out'[j] = s[At(j)]
            BY <1>5, <5>2
          <6>2. p < At(j)
            BY <1>2, <1>3, <1>4, <3>2, <3>4
          <6> HIDE DEF At
          <6>3. r < s[At(j)] /\ s[At(j)] \in Record
            BY <1>3, <3>1, <6>1, <6>2
          <6> QED BY <1>6, <2>1, <6>1, <6>3
        <5> QED BY <5>1, <5>2
      <4> QED BY <4>1, <4>2 DEF Enough
    <3> QED BY <1>4, <3>2, <3>3, <3>4
  <2>5. CASE Ahead(file, toRead, r)
    <3>1. PICK i \in 1 .. Len(toRead) : toRead[i] \in DOMAIN file /\ r \in Legible(file[toRead[i]])
      BY <2>5 DEF Ahead
    <3> QED BY <1>2, <2>3, <2>4, <3>1
  <2>6. CASE Enough(interrupted, toRead, out, r)
    BY <1>1, <2>6 DEF Enough
  <2> QED BY <2>1, <2>2, <2>5, <2>6
<1>13. Pending'
  BY <1>1, <1>12 DEF Reading, Pending
<1> QED BY <1>7, <1>9, <1>11, <1>13 DEF Reading

\* What overtakes a read is a rename or a removal; anything else only adds to the live file.
Service == Writer \/ AppendJob \/ Stop \/ Kill
Grown == /\ DOMAIN file' \ {0} = DOMAIN file \ {0}
         /\ \A f \in DOMAIN file \ {0} : file'[f] = file[f]
         /\ 0 \in DOMAIN file => 0 \in DOMAIN file' /\ Legible(file[0]) \subseteq Legible(file'[0])

\* A line more makes no line that was legible less so.
LEMMA Appending ==
  ASSUME IInv, pc = "write", NEW c \in {Torn, last}, file' = [file EXCEPT ![0] = Append(@, c)]
  PROVE  Grown
<1>1. 0 \in DOMAIN file /\ last \in Record
  BY DEF IInv, Sound, RotatingIsFull, SizeIsKnown, RecordInHand
<1>2. /\ DOMAIN file' = DOMAIN file /\ Len(file'[0]) = Len(file[0]) + 1
      /\ \A f \in DOMAIN file \ {0} : file'[f] = file[f]
  BY <1>1, Appended
<1>3. /\ Len(file[0]) \in Nat
      /\ \A i \in 1 .. Len(file[0]) : file'[0][i] = file[0][i]
  BY <1>1 DEF IInv, WriterTypeOK, Chunks
<1>4. ASSUME NEW i \in Parsed(file[0]) PROVE i \in Parsed(file'[0]) /\ file'[0][i] = file[0][i]
  <2>1. i \in 1 .. Len(file[0]) /\ file[0][i] # Torn /\ (i = 1 \/ file[0][i - 1] # Torn)
    BY DEF Parsed
  <2>2. i \in 1 .. Len(file'[0]) /\ file'[0][i] = file[0][i]
    BY <1>2, <1>3, <2>1
  <2>3. i = 1 \/ (i - 1 \in 1 .. Len(file[0]) /\ file'[0][i - 1] = file[0][i - 1])
    BY <1>3, <2>1
  <2> QED BY <2>1, <2>2, <2>3 DEF Parsed
<1>5. Legible(file[0]) \subseteq Legible(file'[0])
  BY <1>4 DEF Legible
<1> QED BY <1>2, <1>5 DEF Grown

\* What does not rename or remove a file only adds to the live one.
LEMMA Undisturbed ==
  ASSUME IInv, IInv', Service, rpc = "reading", moved' = FALSE
  PROVE  Grown /\ (pc' = "discard" => pc = "discard")
<1>1. ~Prune /\ ~Shift /\ ~Publish /\ ~Discard
  BY DEF Prune, Shift, Publish, Discard, Touches
<1>2. pc' = "discard" => pc = "discard"
  BY <1>1 DEF Service, Writer, Start, Open, OpenFails, Stop, AppendJob, Write, WriteFails, Close, CloseFails,
              Shifted, Compress, Reopen, RotateGivesUp, Kill, Fault
<1>3. CASE UNCHANGED file
  BY <1>2, <1>3 DEF Grown
<1>4. CASE (Write \/ WriteFails \/ Kill) /\ ~UNCHANGED file
  <2>1. pc = "write" /\ \E c \in {Torn, last} : file' = [file EXCEPT ![0] = Append(@, c)]
    BY <1>4 DEF Write, WriteFails, Kill
  <2> QED BY <1>2, <2>1, Appending
<1>5. CASE Open \/ Reopen
  <2>1. OpenFile
    BY <1>5 DEF Open, Reopen
  <2>2. /\ DOMAIN file' = DOMAIN file \union {0}
        /\ \A f \in DOMAIN file : file'[f] = file[f]
    BY <2>1, Opened
  <2> QED BY <1>2, <2>2 DEF Grown
<1> QED BY <1>1, <1>3, <1>4, <1>5 DEF Service, Writer, Start, OpenFails, Stop, AppendJob, Close, CloseFails,
           Shifted, Compress, RotateGivesUp, diskVars

\* So what a read has still to find stays where it is.
LEMMA WhileReading ==
  ASSUME IInv, IInv', Reading, Service
  PROVE  Reading'
<1>1. /\ UNCHANGED <<rpc, query, toRead, out, expected>>
      /\ moved' = moved \/ moved' = (moved \/ rpc = "reading")
      /\ moved \in BOOLEAN
  BY DEF Service, Writer, Start, Open, OpenFails, Stop, AppendJob, Write, WriteFails, Close, CloseFails,
         Prune, Shift, Shifted, Compress, Publish, Discard, Reopen, RotateGivesUp, Kill, Touches,
         readVars, Reading, ReaderTypeOK
<1>2. interrupted' = 0 => interrupted = 0
  <2>1. interrupted \in Nat
    BY DEF IInv, WriterTypeOK
  <2> QED BY <2>1 DEF Service, Writer, Start, Open, OpenFails, Stop, AppendJob, Write, WriteFails, Close,
             CloseFails, Prune, Shift, Shifted, Compress, Publish, Discard, Reopen, RotateGivesUp, Kill,
             Interrupt, faultVars
<1>3. ReaderTypeOK' /\ Listed'
  <2>1. moved' \in BOOLEAN
    BY <1>1
  <2> QED BY <1>1, <2>1 DEF Reading, ReaderTypeOK, Listed
<1>4. CASE rpc = "reading" /\ moved' = FALSE
  <2>1. /\ moved = FALSE /\ Grown /\ pc' # "discard"
    <3>1. moved = FALSE
      BY <1>1, <1>4
    <3> QED BY <1>4, <3>1, Undisturbed DEF Reading, Pending
  <2>2. \A r : Ahead(file, toRead, r) => Ahead(file', toRead, r)
    BY <2>1 DEF Ahead, Grown
  <2>3. \A r : Enough(interrupted, toRead, out, r) => Enough(interrupted', toRead, out, r)
    BY <1>2 DEF Enough
  <2>4. Pending'
    BY <1>1, <1>4, <2>1, <2>2, <2>3 DEF Reading, Pending
  <2>5. ASSUME interrupted' = 0, NEW i \in 1 .. Len(toRead), NEW r \in Record, Holds(file', toRead[i], r)
        PROVE  \A k \in 1 .. Len(out) : out[k] > r
    <3>1. CASE toRead[i] = 0
      <4>1. Len(out) = 0
        BY <1>4, <3>1 DEF Reading, Listed
      <4> QED BY <4>1
    <3>2. CASE toRead[i] # 0
      <4>1. Holds(file, toRead[i], r)
        BY <2>1, <2>5, <3>2 DEF Holds, Grown
      <4> QED BY <1>2, <1>4, <2>1, <2>5, <4>1 DEF Reading, Newest
    <3> QED BY <3>1, <3>2
  <2>6. Newest'
    BY <1>1, <1>2, <1>4, <2>1, <2>5 DEF Reading, Newest
  <2> QED BY <1>3, <2>4, <2>6 DEF Reading
<1>5. CASE ~(rpc = "reading" /\ moved' = FALSE)
  BY <1>1, <1>3, <1>5 DEF Reading, Pending, Newest
<1> QED BY <1>4, <1>5

\* No step of the service or of the reader makes a read miss what it has to find.
LEMMA ReadingStep ==
  ASSUME IInv, IInv', Chronological, Reading, [Next]_vars
  PROVE  Reading'
<1>1. CASE Service
  BY <1>1, WhileReading
<1>2. CASE ReadStart
  BY <1>2, ReadBegins
<1>3. CASE ReadNext
  BY <1>3, ReadGoesOn
<1>4. CASE ReadFails \/ ReadEnds
  <2>1. /\ rpc' = "idle" /\ query' = {} /\ out' = << >> /\ expected' = {} /\ moved' = FALSE
        /\ toRead' \in {toRead, << >>}
    BY <1>4 DEF ReadFails, ReadEnds
  <2>2. out' \in Seq(Record) /\ toRead' \in Seq(Files)
    BY <2>1, EmptySeq DEF Reading, ReaderTypeOK
  <2>3. ReaderTypeOK'
    BY <2>1, <2>2 DEF Reading, ReaderTypeOK
  <2> QED BY <2>1, <2>3 DEF Reading, Listed, Pending, Newest
<1>5. CASE UNCHANGED vars
  BY <1>5 DEF vars, diskVars, writerVars, faultVars, readVars, Reading, ReaderTypeOK, Listed, Pending, Newest
<1> QED BY <1>1, <1>2, <1>3, <1>4, <1>5 DEF Next, Reader, Service

\* All of it together: what the steps of a read need of the files and of their order.
Orderly == Reach /\ Chronological /\ Reading

\* All of it holds of every reachable state.
LEMMA Orderliness == Spec => [](IInv /\ Orderly)
<1>1. Init => IInv /\ Orderly
  <2> SUFFICES ASSUME Init PROVE IInv /\ Orderly
    OBVIOUS
  <2>1. IInv
    BY Starting
  <2>2. Reach
    BY ReachStarts
  <2>3. DOMAIN file = {} /\ rpc = "idle" /\ query = {} /\ toRead = << >> /\ out = << >>
        /\ expected = {} /\ moved = FALSE
    BY DEF Init
  <2>4. Chronological
    BY <2>3 DEF Chronological, LinesAscend, NewerFirst
  <2>5. Reading
    <3>1. toRead \in Seq(Files) /\ out \in Seq(Record)
      BY <2>3, EmptySeq
    <3> QED BY <2>3, <3>1 DEF Reading, ReaderTypeOK, Listed, Pending, Newest
  <2> QED BY <2>1, <2>2, <2>4, <2>5 DEF Orderly
<1>2. IInv /\ Orderly /\ [Next]_vars => IInv' /\ Orderly'
  BY Step, ReachStep, OrderStep, ReadingStep DEF Orderly
<1> QED BY <1>1, <1>2, PTL DEF Spec

\* Whatever a writer and a reader do at the same time, each variable keeps its type: above
\* all, what a read collects is records, from files there may be (rotate.Writer, history.Read).
THEOREM TypeCorrect == Spec => []TypeOK
<1>1. IInv /\ Orderly => TypeOK
  BY DEF IInv, Orderly, Reading, TypeOK
<1> QED BY <1>1, Orderliness, PTL

\* A read that no rotation overtook returns, newest first, what was on record when it began:
\* all of it, or the newest Limit of it (history.Read over a file that is being appended to).
THEOREM ReadsAreNewest == Spec => []ReadIsNewest
<1>1. IInv /\ Orderly => ReadIsNewest
  <2> SUFFICES ASSUME IInv, Reading, rpc = "reading", toRead = << >>, ~moved PROVE ReadIsNewest
    BY DEF Orderly, ReadIsNewest
  <2>1. moved = FALSE /\ Len(out) \in Nat /\ interrupted \in Nat
    BY LenProperties DEF Reading, ReaderTypeOK, IInv, WriterTypeOK
  <2>2. \A i \in 1 .. Len(out) - 1 : out[i] > out[i + 1] \/ interrupted > 0
    BY <2>1 DEF Reading, Newest
  <2>3. \A r \in expected : r \in RangeOf(out) \/ Enough(interrupted, toRead, out, r)
    <3>1. \A r : ~Ahead(file, toRead, r)
      BY DEF Ahead
    <3> QED BY <2>1, <3>1 DEF Reading, Pending
  <2>4. ASSUME NEW r \in expected, Enough(interrupted, toRead, out, r)
        PROVE  Len(out) = Limit /\ \A i \in 1 .. Limit : out[i] > r \/ interrupted > 0
    BY <2>1, <2>4 DEF Enough
  <2> QED BY <2>2, <2>3, <2>4 DEF ReadIsNewest
<1> QED BY <1>1, Orderliness, PTL
================================================================================
