-------------------------------- MODULE History --------------------------------
(***************************************************************************)
(* The durable record of finished updates: internal/history over the       *)
(* rotating writer internal/rotate, as `dup serve` opens it, and `dup      *)
(* logs`, another process, reading the files at the same time.             *)
(*                                                                         *)
(* One action per system call that changes the files, so that a failure, a *)
(* kill or a reader can come between any two.  A record is one unit long;  *)
(* a write that is cut short leaves a fragment with no end of line, which  *)
(* spoils the line appended behind it.                                     *)
(***************************************************************************)
EXTENDS Naturals, Sequences, FiniteSets

CONSTANTS Keep,        \* rotate.Config.Keep: archives to keep
          MaxBytes,    \* rotate.Config.MaxBytes, in records
          Queries,     \* what `dup logs` asks for: sets of matching records
          Limit,       \* Query.Limit
          Records,     \* bound on the jobs that finish
          MaxFaults,   \* bound on failing system calls
          MaxKills     \* bound on kills of the service

ASSUME KeepAssumption == Keep \in Nat \ {0}   \* both configs default 0 to a positive number
ASSUME MaxBytesAssumption == MaxBytes \in Nat \ {0}
ASSUME LimitAssumption == Limit \in Nat \ {0}
ASSUME RecordsAssumption == Records \in Nat
ASSUME FaultsAssumption == MaxFaults \in Nat /\ MaxKills \in Nat
ASSUME QueriesAssumption == Queries \subseteq SUBSET (1 .. Records)

VARIABLES
  file,      \* the files there are: the live one (0) and archives (1 .. Keep)
  handle,    \* rotate.Writer.f: open, nil, or closed without having been set to nil
  size,      \* rotate.Writer.n
  pc,        \* where the writer is, "down" when the service is not running
  slot,      \* the archive rotate() shifts next
  partial,   \* path.1.gz.partial, empty when there is none
  last,      \* the latest record handed to Append; records are numbered in order
  acked,     \* the records whose Append returned nil
  faults, kills,
  interrupted,  \* rotations that did not complete
  rpc, query, toRead, out,   \* one run of history.Read
  expected,  \* what was on record when the read began
  moved      \* a rotation changed the files during the read

diskVars == <<file, partial>>
writerVars == <<handle, size, pc, slot, last, acked>>
faultVars == <<faults, kills, interrupted>>
readVars == <<rpc, query, toRead, out, expected, moved>>
vars == <<diskVars, writerVars, faultVars, readVars>>

Record == 1 .. Records
Torn == 0         \* a fragment of a line
Chunks == Seq(Record \union {Torn})
Files == 0 .. Keep
Exists(f) == f \in DOMAIN file
With(f, c) == [g \in DOMAIN file \union {f} |-> IF g = f THEN c ELSE file[g]]
Without(f) == [g \in DOMAIN file \ {f} |-> file[g]]

Rotating == {"close", "prune", "shift", "compress", "publish", "discard", "reopen"}
PCs == {"down", "open", "idle", "write"} \union Rotating

WriterTypeOK == /\ DOMAIN file \subseteq Files
                /\ \A f \in DOMAIN file : file[f] \in Chunks
                /\ partial \in Chunks
                /\ handle \in {"open", "nil", "stale"}
                /\ size \in Nat
                /\ pc \in PCs
                /\ slot \in 0 .. Keep - 1
                /\ last \in 0 .. Records
                /\ acked \in SUBSET Record
                /\ faults \in 0 .. MaxFaults
                /\ kills \in 0 .. MaxKills
                /\ interrupted \in Nat
ReaderTypeOK == /\ rpc \in {"idle", "reading"}
                /\ query \in SUBSET Record
                /\ toRead \in Seq(Files)
                /\ out \in Seq(Record)
                /\ expected \in SUBSET Record
                /\ moved \in BOOLEAN
TypeOK == WriterTypeOK /\ ReaderTypeOK

Init == /\ file = << >>
        /\ partial = << >>
        /\ handle = "nil"
        /\ size = 0
        /\ pc = "down"
        /\ slot = 0
        /\ last = 0
        /\ acked = {}
        /\ faults = 0
        /\ kills = 0
        /\ interrupted = 0
        /\ rpc = "idle"
        /\ query = {}
        /\ toRead = << >>
        /\ out = << >>
        /\ expected = {}
        /\ moved = FALSE

--------------------------------------------------------------------------------
(* What the lines of a file say *)

\* readFile skips a line that does not parse: a fragment, and what follows one.
Parsed(c) == {i \in 1 .. Len(c) : c[i] # Torn /\ (i = 1 \/ c[i - 1] # Torn)}
Legible(c) == {c[i] : i \in Parsed(c)}
Spoiled(c) == {c[i] : i \in {i \in 2 .. Len(c) : c[i] # Torn /\ c[i - 1] = Torn}}

OnRecord == UNION {Legible(file[f]) : f \in DOMAIN file}

\* Every rename and every removal of a file that is there is seen by a read in progress.
Touches == moved' = (moved \/ rpc = "reading")

--------------------------------------------------------------------------------
(* The service opens the history, and stops *)

\* A history that cannot be opened is a warning: nothing is recorded from then on.
Start == /\ pc = "down"
         /\ pc' = "open"
         /\ UNCHANGED <<diskVars, handle, size, slot, last, acked, faultVars, readVars>>

OpenFile == /\ file' = IF Exists(0) THEN file ELSE With(0, << >>)
            /\ handle' = "open"
            /\ size' = IF Exists(0) THEN Len(file[0]) ELSE 0

Open == /\ pc = "open"
        /\ OpenFile
        /\ pc' = "idle"
        /\ UNCHANGED <<partial, slot, last, acked, faultVars, readVars>>

Fault(to) == /\ faults < MaxFaults
             /\ faults' = faults + 1
             /\ pc' = to

OpenFails == /\ pc = "open"
             /\ Fault("idle")
             /\ UNCHANGED <<diskVars, handle, size, slot, last, acked, kills, interrupted, readVars>>

\* Writer.Close, deferred by runServe: it waits for the write in progress.
Stop == /\ pc = "idle"
        /\ pc' = "down"
        /\ handle' = "nil"
        /\ UNCHANGED <<diskVars, size, slot, last, acked, faultVars, readVars>>

Interrupt == interrupted' = interrupted + (IF pc \in Rotating \ {"close", "prune"} THEN 1 ELSE 0)

\* A kill, anywhere.  In the middle of a write it may leave a fragment, or the
\* whole record though nobody was told.
Kill == /\ pc # "down"
        /\ kills < MaxKills
        /\ kills' = kills + 1
        /\ pc' = "down"
        /\ handle' = "nil"
        /\ Interrupt
        /\ \/ UNCHANGED file
           \/ /\ pc = "write"
              /\ \E c \in {Torn, last} : file' = [file EXCEPT ![0] = Append(@, c)]
        /\ UNCHANGED <<partial, size, slot, last, acked, faults, readVars>>

--------------------------------------------------------------------------------
(* Append: one finished job, under both mutexes *)

Over == size > 0 /\ size + 1 > MaxBytes

AppendJob == /\ pc = "idle"
             /\ last < Records
             /\ last' = last + 1
             /\ pc' = IF handle = "nil" THEN "idle"      \* "writer is closed"
                      ELSE IF Over THEN "close" ELSE "write"
             /\ UNCHANGED <<diskVars, handle, size, slot, acked, faultVars, readVars>>

Write == /\ pc = "write"
         /\ file' = [file EXCEPT ![0] = Append(@, last)]
         /\ size' = size + 1
         /\ acked' = acked \union {last}
         /\ pc' = "idle"
         /\ UNCHANGED <<partial, handle, slot, last, faultVars, readVars>>

\* The disk is full: all, or part, of the line is missing.
WriteFails == /\ pc = "write"
              /\ Fault("idle")
              /\ \/ UNCHANGED <<file, size>>
                 \/ /\ file' = [file EXCEPT ![0] = Append(@, Torn)]
                    /\ size' = size + 1
              /\ UNCHANGED <<partial, handle, slot, last, acked, kills, interrupted, readVars>>

--------------------------------------------------------------------------------
(* rotate(): close, prune, shift, compress, publish, discard, reopen.  Any of *)
(* them may fail, and every failure but the first leaves the writer without a *)
(* file: each later Append is refused until the service restarts.             *)

Close == /\ pc = "close"
         /\ handle = "open"
         /\ handle' = "nil"
         /\ pc' = "prune"
         /\ UNCHANGED <<diskVars, size, slot, last, acked, faultVars, readVars>>

\* f stays set, so every later Append, which finds the file full, comes back here.
CloseFails == /\ pc = "close"
              /\ \/ handle = "stale" /\ pc' = "idle" /\ UNCHANGED <<handle, faults>>
                 \/ handle = "open" /\ Fault("idle") /\ handle' = "stale"
              /\ UNCHANGED <<diskVars, size, slot, last, acked, kills, interrupted, readVars>>

Renamed(from, to) == IF Exists(from)
                     THEN [f \in (DOMAIN file \ {from}) \union {to} |->
                             IF f = to THEN file[from] ELSE file[f]]
                     ELSE file

PruneMut == /\ pc = "prune"
            /\ file' = Without(Keep)
            /\ slot' = Keep
            /\ pc' = "shift"
            /\ Touches
            /\ UNCHANGED <<partial, handle, size, last, acked, faultVars, rpc, query, toRead, out, expected>>
Prune == /\ pc = "prune"
         /\ file' = Without(Keep)
         /\ slot' = Keep - 1
         /\ pc' = "shift"
         /\ Touches
         /\ UNCHANGED <<partial, handle, size, last, acked, faultVars, rpc, query, toRead, out, expected>>

Shift == /\ pc = "shift"
         /\ slot > 0
         /\ file' = Renamed(slot, slot + 1)
         /\ slot' = slot - 1
         /\ Touches
         /\ UNCHANGED <<partial, handle, size, pc, last, acked, faultVars, rpc, query, toRead, out, expected>>

Shifted == /\ pc = "shift"
           /\ slot = 0
           /\ pc' = "compress"
           /\ partial' = << >>
           /\ UNCHANGED <<file, handle, size, slot, last, acked, faultVars, readVars>>

\* The archive is built beside its place, a piece at a time.
CompressInPlace == /\ pc = "compress"
                   /\ partial' = SubSeq(file[0], 1, Len(partial) + 1)
                   /\ file' = With(1, partial')
                   /\ pc' = IF Len(partial') = Len(file[0]) THEN "publish" ELSE "compress"
                   /\ UNCHANGED <<handle, size, slot, last, acked, faultVars, readVars>>
Compress == /\ pc = "compress"
            /\ partial' = SubSeq(file[0], 1, Len(partial) + 1)
            /\ pc' = IF Len(partial') = Len(file[0]) THEN "publish" ELSE "compress"
            /\ UNCHANGED <<file, handle, size, slot, last, acked, faultVars, readVars>>

Publish == /\ pc = "publish"
           /\ file' = With(1, partial)
           /\ partial' = << >>
           /\ pc' = "discard"
           /\ Touches
           /\ UNCHANGED <<handle, size, slot, last, acked, faultVars, rpc, query, toRead, out, expected>>

Discard == /\ pc = "discard"
           /\ file' = Without(0)
           /\ size' = 0
           /\ pc' = "reopen"
           /\ Touches
           /\ UNCHANGED <<partial, handle, slot, last, acked, faultVars, rpc, query, toRead, out, expected>>

Reopen == /\ pc = "reopen"
          /\ OpenFile
          /\ pc' = "write"
          /\ UNCHANGED <<partial, slot, last, acked, faultVars, readVars>>

\* gzipFile removes what it had built.
RotateGivesUpMut == /\ pc \in Rotating \ {"close"}
                    /\ Fault(IF pc \in {"compress", "publish"} THEN "discard" ELSE "idle")
                    /\ partial' = << >>
                    /\ Interrupt
                    /\ UNCHANGED <<file, handle, size, slot, last, acked, kills, readVars>>
RotateGivesUp == /\ pc \in Rotating \ {"close"}
                 /\ Fault("idle")
                 /\ partial' = << >>
                 /\ Interrupt
                 /\ UNCHANGED <<file, handle, size, slot, last, acked, kills, readVars>>

--------------------------------------------------------------------------------
(* Read *)

Reversed(s) == [i \in 1 .. Len(s) |-> s[Len(s) + 1 - i]]
Truncated(s) == SubSeq(s, 1, IF Len(s) > Limit THEN Limit ELSE Len(s))

\* The members of a finite set of numbers, in ascending order.
Ranked(S, k) == CHOOSE i \in S : Cardinality({j \in S : j <= i}) = k
InOrder(S) == [k \in 1 .. Cardinality(S) |-> Ranked(S, k)]

\* The live file, whether it is there or not, then the archives by index.
Archives == InOrder(DOMAIN file \ {0})

ReadStart == /\ rpc = "idle"
             /\ \E q \in Queries :
                  /\ query' = q
                  /\ expected' = OnRecord \intersect q
             /\ toRead' = <<0>> \o Archives
             /\ rpc' = "reading"
             /\ out' = << >>
             /\ moved' = (pc = "discard")   \* the retired file is there twice
             /\ UNCHANGED <<diskVars, writerVars, faultVars>>

\* readFile: a file that has gone since it was listed is skipped.
Matching(f) == IF Exists(f) THEN {i \in Parsed(file[f]) : file[f][i] \in query} ELSE {}
Found(f) == [k \in 1 .. Cardinality(Matching(f)) |-> file[f][InOrder(Matching(f))[k]]]

ReadNextMut == /\ rpc = "reading"
               /\ toRead # << >>
               /\ out' = Truncated(out \o Found(Head(toRead)))
               /\ toRead' = IF Len(out') = Limit THEN << >> ELSE Tail(toRead)
               /\ UNCHANGED <<diskVars, writerVars, faultVars, rpc, query, expected, moved>>
ReadNext == /\ rpc = "reading"
            /\ toRead # << >>
            /\ out' = Truncated(out \o Reversed(Found(Head(toRead))))
            /\ toRead' = IF Len(out') = Limit THEN << >> ELSE Tail(toRead)
            /\ UNCHANGED <<diskVars, writerVars, faultVars, rpc, query, expected, moved>>

ReadEnds == /\ rpc = "reading"
            /\ toRead = << >>
            /\ rpc' = "idle"
            /\ query' = {} /\ out' = << >> /\ expected' = {} /\ moved' = FALSE
            /\ UNCHANGED <<diskVars, writerVars, faultVars, toRead>>

\* A file that cannot be opened, a damaged archive or a line beyond the scanner's limit: Read
\* returns an error with what it had.
ReadFails == /\ rpc = "reading"
             /\ toRead # << >>
             /\ rpc' = "idle" /\ toRead' = << >>
             /\ query' = {} /\ out' = << >> /\ expected' = {} /\ moved' = FALSE
             /\ UNCHANGED <<diskVars, writerVars, faultVars>>

Writer == \/ Start \/ Open \/ OpenFails \/ Write \/ WriteFails
          \/ Close \/ CloseFails \/ Prune \/ Shift \/ Shifted \/ Compress \/ Publish
          \/ Discard \/ Reopen \/ RotateGivesUp

Reader == ReadStart \/ ReadNext \/ ReadFails \/ ReadEnds
Next == Writer \/ AppendJob \/ Stop \/ Kill \/ Reader

Spec == Init /\ [][Next]_vars

--------------------------------------------------------------------------------
(* Properties *)

\* A record that Append acknowledged stays on record until retention drops it: it
\* is legible in some file, or it was appended behind the fragment a failed write
\* or a kill left (and is on disk but unreadable), or at least Keep files' worth
\* of jobs finished after it, less one file for each rotation that was interrupted
\* (each of those pruned an archive and published none, or published one twice).
Retained == MaxBytes * (IF interrupted >= Keep THEN 1 ELSE Keep - interrupted)
AcknowledgedIsKept ==
  \A r \in acked : \/ \E f \in DOMAIN file : r \in Legible(file[f]) \union Spoiled(file[f])
                   \/ r + Retained < last

\* Whatever is killed or fails between two steps of a rotation, an archive that
\* carries its final name is a whole file: it was full when it was retired.
ArchivesAreWhole == \A f \in DOMAIN file \ {0} : Len(file[f]) = MaxBytes

\* A read that no rotation overtook returns what was on record when it began, the
\* newest Limit of it, and newest first; without an interrupted rotation, each
\* record once.
RangeOf(s) == {s[i] : i \in 1 .. Len(s)}
ReadIsNewest ==
  (rpc = "reading" /\ toRead = << >> /\ ~moved) =>
     /\ \A i \in 1 .. Len(out) - 1 : out[i] > out[i + 1] \/ interrupted > 0
     /\ \A r \in expected : \/ r \in RangeOf(out)
                            \/ Len(out) = Limit /\ \A i \in 1 .. Limit : out[i] > r \/ interrupted > 0
================================================================================
