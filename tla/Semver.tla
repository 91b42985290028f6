--------------------------------- MODULE Semver --------------------------------
(***************************************************************************)
(* Version comparison (internal/selfupdate/semver.go).                     *)
(*                                                                         *)
(* An identifier between two dots is a record of what the comparison can   *)
(* tell: whether it is all digits, with a zero in front, its value, and    *)
(* its rank in byte order.  Build metadata and the leading "v" are cut off *)
(* before parsing and left out here.                                       *)
(***************************************************************************)
EXTENDS Integers, Sequences

CONSTANTS MaxInt,     \* the largest number strconv.Atoi accepts
          MaxRank     \* bound on the byte order of identifiers

ASSUME IntAssumption == MaxInt \in Nat /\ MaxRank \in Nat

Identifiers == [digits : BOOLEAN, zero : BOOLEAN, value : Nat, rank : 0 .. MaxRank]

\* A version: three fields and the pre-release identifiers, none for a release; describe:
\* it ends as `git describe` marks a build that is not on a tag.
Versions == [core : [1 .. 3 -> Identifiers], pre : Seq(Identifiers), describe : BOOLEAN]

numericField(id) == id.digits /\ ~id.zero /\ id.value <= MaxInt

\* parse: every field of the core must be a number, so one beyond MaxInt is no version.
Valid(v) == \A i \in 1 .. 3 : numericField(v.core[i])

Checkable(v) == Valid(v) /\ ~v.describe

cmpInt(a, b) == IF a < b THEN -1 ELSE IF a > b THEN 1 ELSE 0

\* A number with a zero in front, or beyond MaxInt, compares as text.
compareIdentMut(a, b) ==
  IF a.digits /\ b.digits THEN cmpInt(a.value, b.value)
  ELSE IF numericField(a) THEN -1
  ELSE IF numericField(b) THEN 1
  ELSE cmpInt(a.rank, b.rank)
compareIdent(a, b) ==
  IF numericField(a) /\ numericField(b) THEN cmpInt(a.value, b.value)
  ELSE IF numericField(a) THEN -1
  ELSE IF numericField(b) THEN 1
  ELSE cmpInt(a.rank, b.rank)

\* The first position where two sequences differ decides, then their lengths.
First(S) == CHOOSE i \in S : \A j \in S : i <= j

comparePre(a, b) ==
  LET D == {i \in (1 .. Len(a)) \intersect (1 .. Len(b)) : compareIdent(a[i], b[i]) # 0}
  IN IF a = << >> \/ b = << >>
     THEN cmpInt(IF a = << >> THEN 1 ELSE 0, IF b = << >> THEN 1 ELSE 0)
     ELSE IF D = {} THEN cmpInt(Len(a), Len(b))
     ELSE compareIdent(a[First(D)], b[First(D)])

Compare(v, w) ==
  LET D == {i \in 1 .. 3 : v.core[i].value # w.core[i].value}
  IN IF D = {} THEN comparePre(v.pre, w.pre)
     ELSE cmpInt(v.core[First(D)].value, w.core[First(D)].value)
================================================================================
