---------------------------- MODULE SelfUpdateProofs ----------------------------
(***************************************************************************)
(* Proofs about SelfUpdate, for any number of commands, any releases and   *)
(* any times: the bound on the clock is the only limit. The order of       *)
(* versions, for identifiers of every kind, is at the end.                 *)
(***************************************************************************)
EXTENDS SelfUpdate, FiniteSetTheorems, WellFoundedInduction, TLAPS

--------------------------------------------------------------------------------
(* The inductive invariant *)

\* What CheckedAtIsTruthful says of the file holds of every copy of it that may be written back.
Sound(cf) == /\ cf.checkedAt <= now /\ cf.release <= latest
             /\ cf.release # 0 =>
                  /\ published[cf.release] <= cf.checkedAt
                  /\ \A i \in Tags : (i > cf.release /\ i <= latest) =>
                        published[i] + Timeout >= cf.checkedAt

\* A check under way is within its time, and no release newer than its answer preceded it.
UnderWay(c) ==
  /\ pc[c] # "idle" => began[c] <= now /\ now <= began[c] + Timeout
  /\ pc[c] = "limited" => reply[c] \in Times
  /\ pc[c] = "release" => /\ reply[c] \in Tags /\ reply[c] <= latest /\ published[reply[c]] <= now
                          /\ \A i \in Tags : (i > reply[c] /\ i <= latest) => published[i] >= began[c]

Copies == \A c \in Checkers : Sound(cached[c])
Checks == \A c \in Checkers : UnderWay(c)
Dated == \A i \in Tags : published[i] <= now
IInv == TypeOK /\ Dated /\ Sound(cache) /\ Copies /\ Checks

--------------------------------------------------------------------------------
(* What the steps of one check have in common *)

LEMMA Numbers ==
  /\ TTL \in Nat /\ Timeout \in Nat /\ Reset \in Nat /\ Reset > 0 /\ MaxTime \in Nat
  /\ Len(Releases) \in Nat /\ Tags = 1 .. Len(Releases)
BY TimeAssumption, ReleaseAssumption DEF Tags

--------------------------------------------------------------------------------
(* Steps of a check *)

LEMMA BeginStep ==
  ASSUME IInv, NEW c \in Checkers, NEW v \in Builds, NEW force \in BOOLEAN,
         Begin(c, v, force)
  PROVE  IInv'
<1>1. /\ now' = now /\ latest' = latest /\ published' = published /\ cache' = cache
      /\ cached' = [cached EXCEPT ![c] = [cache EXCEPT !.retryAfter = 0]]
  BY DEF Begin
<1>2. [cache EXCEPT !.retryAfter = 0] \in CacheType
  <2>1. 0 \in Times /\ cache \in CacheType
    BY Numbers DEF IInv, TypeOK, Times
  <2> QED BY <2>1 DEF CacheType
<1>3. TypeOK'
  BY <1>2 DEF IInv, TypeOK, Begin
<1>4. Dated' /\ Sound(cache)'
  BY <1>1 DEF IInv, TypeOK, Dated, Sound
<1>5. Copies'
  BY <1>1, <1>2 DEF IInv, TypeOK, CacheType, Copies, Sound
<1>6. ASSUME NEW d \in Checkers PROVE UnderWay(d)'
  <2>1. CASE d = c
    BY <2>1, Numbers DEF IInv, TypeOK, Begin, UnderWay
  <2>2. CASE d # c
    BY <2>2 DEF IInv, TypeOK, Begin, Checks, UnderWay
  <2> QED BY <2>1, <2>2
<1> QED BY <1>3, <1>4, <1>5, <1>6 DEF IInv, Checks

LEMMA ReplySteps == ASSUME IInv, NEW c \in Checkers, Answered(c) \/ Limited(c) PROVE IInv'
<1>1. /\ now' = now /\ latest' = latest /\ published' = published /\ cache' = cache
      /\ cached' = cached /\ began' = began /\ pc[c] = "request"
      /\ \A d \in Checkers \ {c} : pc'[d] = pc[d] /\ reply'[d] = reply[d]
  BY DEF IInv, TypeOK, Answered, Limited
<1>2. Dated' /\ Sound(cache)' /\ Copies'
  BY <1>1 DEF IInv, Dated, Copies, Sound
<1>3. ASSUME NEW d \in Checkers \ {c} PROVE UnderWay(d)'
  BY <1>1, <1>3 DEF IInv, Checks, UnderWay
<1>4. CASE Answered(c)
  <2>1. TypeOK'
    BY <1>4 DEF IInv, TypeOK, Answered, Replies
  <2>2. pc'[c] = "release" /\ reply'[c] = latest /\ latest \in Tags
    BY <1>4 DEF IInv, TypeOK, Answered
  <2>3. UnderWay(c)'
    BY <1>1, <2>2, Numbers DEF IInv, Dated, Checks, UnderWay
  <2> QED BY <1>2, <1>3, <2>1, <2>3 DEF IInv, Checks
<1>5. CASE Limited(c)
  <2>1. limitedUntil' \in Times
    BY <1>5, Numbers DEF IInv, TypeOK, Limited, Times
  <2>2. 0 \in Times
    BY Numbers DEF Times
  <2>3. pc'[c] = "limited" /\ reply'[c] \in Times
    BY <1>5, <2>1, <2>2 DEF IInv, TypeOK, Limited
  <2>4. lost' \in BOOLEAN
    BY <1>5 DEF IInv, TypeOK, Limited
  <2>5. refused' \in Nat
    BY <1>5 DEF IInv, TypeOK, Limited
  <2>6. TypeOK'
    BY <1>5, <2>1, <2>2, <2>4, <2>5 DEF IInv, TypeOK, Limited
  <2>7. UnderWay(c)'
    BY <1>1, <2>3 DEF IInv, Checks, UnderWay
  <2> QED BY <1>2, <1>3, <2>6, <2>7 DEF IInv, Checks
<1> QED BY <1>4, <1>5

\* The end of a check, whatever it leaves in the file.
LEMMA EndSteps ==
  ASSUME IInv, NEW c \in Checkers, Fails(c) \/ SaveRelease(c) \/ SaveLimit(c)
  PROVE  IInv'
<1>1. /\ now' = now /\ latest' = latest /\ published' = published /\ limitedUntil' = limitedUntil
      /\ Done(c) /\ lost' \in BOOLEAN
  BY DEF Fails, SaveRelease, SaveLimit, Writes, IInv, TypeOK
<1>2. refused' \in Nat
  BY DEF Fails, SaveRelease, SaveLimit, Counted, IInv, TypeOK
<1>3. 0 \in 0 .. MaxTime /\ 0 \in Times /\ NoCache \in CacheType /\ now \in Times /\ latest \in Nat
  BY Numbers DEF Times, NoCache, CacheType, IInv, TypeOK
<1>4. cache' \in CacheType /\ Sound(cache)'
  <2>1. CASE UNCHANGED cache
    BY <1>1, <2>1 DEF IInv, TypeOK, Sound
  <2>2. CASE pc[c] = "release" /\ cache' = [release |-> reply[c], checkedAt |-> now, retryAfter |-> 0]
    <3>1. /\ reply[c] \in Tags /\ reply[c] <= latest /\ published[reply[c]] <= now
          /\ \A i \in Tags : (i > reply[c] /\ i <= latest) => published[i] >= began[c]
          /\ now <= began[c] + Timeout
      BY <2>2 DEF IInv, Checks, UnderWay
    <3>2. cache' \in CacheType
      BY <1>3, <2>2, <3>1 DEF CacheType
    <3>3. \A i \in Tags : published[i] \in Nat /\ began[c] \in Nat /\ now \in Nat
      BY DEF IInv, TypeOK, Times
    <3>4. cache'.release = reply[c] /\ cache'.checkedAt = now
      BY <2>2
    <3> QED BY <1>1, <3>1, <3>2, <3>3, <3>4, Numbers DEF IInv, TypeOK, Sound
  <2>3. CASE pc[c] = "limited" /\ cache' = [cached[c] EXCEPT !.retryAfter = RetryAfter(c)]
    <3>1. cached[c] \in CacheType /\ Sound(cached[c]) /\ reply[c] \in Times
      BY <2>3 DEF IInv, TypeOK, Copies, Checks, UnderWay
    <3>2. RetryAfter(c) \in Times
      BY <3>1, Numbers DEF RetryAfter, Times, IInv, TypeOK
    <3>3. cache' \in CacheType /\ cache'.release = cached[c].release
          /\ cache'.checkedAt = cached[c].checkedAt
      BY <2>3, <3>1, <3>2 DEF CacheType
    <3> QED BY <1>1, <3>1, <3>3 DEF Sound
  <2> QED BY <2>1, <2>2, <2>3 DEF Fails, SaveRelease, SaveLimit, Writes
<1>5. TypeOK'
  BY <1>1, <1>2, <1>3, <1>4 DEF IInv, TypeOK, Done, Replies
<1>6. Copies'
  <2> SUFFICES ASSUME NEW d \in Checkers PROVE Sound(cached[d])'
    BY DEF Copies
  <2>1. CASE d = c
    <3>1. cached'[d] = NoCache
      BY <1>1, <2>1 DEF Done, IInv, TypeOK
    <3> QED BY <1>1, <1>3, <3>1, Numbers DEF Sound, NoCache, IInv, TypeOK
  <2>2. CASE d # c
    BY <1>1, <2>2 DEF Done, IInv, TypeOK, Copies, Sound
  <2> QED BY <2>1, <2>2
<1>7. Checks'
  BY <1>1 DEF Done, IInv, TypeOK, Checks, UnderWay
<1> QED BY <1>1, <1>4, <1>5, <1>6, <1>7 DEF IInv, Dated

--------------------------------------------------------------------------------
(* Steps of the world *)

\* What comes out now came out no earlier than anything that was read before.
LEMMA PublishStep == ASSUME IInv, Publish PROVE IInv'
<1>1. /\ now \in Nat /\ latest \in Nat /\ latest + 1 \in Tags /\ now \in Times /\ Timeout \in Nat
      /\ latest' = latest + 1 /\ now' = now
      /\ published' = [published EXCEPT ![latest + 1] = now]
      /\ UNCHANGED <<limitedUntil, cache, checkVars, refused, lost>>
  BY Numbers DEF IInv, TypeOK, Publish, Times
<1>2. \A i \in Tags : i \in Nat /\ published[i] \in Nat
  BY Numbers DEF IInv, TypeOK, Times
<1>3. \A i \in Tags : published'[i] = IF i = latest + 1 THEN now ELSE published[i]
  BY <1>1 DEF IInv, TypeOK
<1>4. TypeOK'
  BY <1>1 DEF IInv, TypeOK, checkVars
<1>5. ASSUME NEW cf \in CacheType, Sound(cf)
      PROVE  /\ cf.checkedAt <= now' /\ cf.release <= latest'
             /\ cf.release # 0 =>
                  /\ published'[cf.release] <= cf.checkedAt
                  /\ \A i \in Tags : (i > cf.release /\ i <= latest') =>
                        published'[i] + Timeout >= cf.checkedAt
  <2>1. cf.release \in {0} \union Tags /\ cf.checkedAt \in Nat
    BY DEF CacheType, Times
  <2> QED BY <1>1, <1>2, <1>3, <1>5, <2>1 DEF Sound
<1>6. Sound(cache)' /\ Copies'
  BY <1>1, <1>5 DEF IInv, TypeOK, Copies, Sound, checkVars
<1>7. Dated'
  BY <1>1, <1>3 DEF IInv, Dated
<1>8. ASSUME NEW c \in Checkers PROVE UnderWay(c)'
  <2>1. began[c] \in Nat /\ UnderWay(c)
    BY DEF IInv, TypeOK, Checks
  <2> QED BY <1>1, <1>2, <1>3, <2>1 DEF UnderWay, checkVars
<1> QED BY <1>4, <1>6, <1>7, <1>8 DEF IInv, Checks

LEMMA TickStep == ASSUME IInv, Tick PROVE IInv'
<1>1. /\ now \in Nat /\ Timeout \in Nat /\ now' = now + 1 /\ now' \in 0 .. MaxTime
      /\ UNCHANGED <<latest, limitedUntil, cache, checkVars, published, refused, lost>>
      /\ \A c \in Checkers : pc[c] # "idle" => now - began[c] < Timeout
  BY Numbers DEF IInv, TypeOK, Tick
<1>2. TypeOK'
  BY <1>1 DEF IInv, TypeOK, checkVars
<1>3. \A i \in Tags : published[i] \in Nat
  BY DEF IInv, TypeOK, Times
<1>4. \A cf \in CacheType : cf.checkedAt \in Nat /\ cf.release \in {0} \union Tags
  BY DEF CacheType, Times
<1>5. Sound(cache)' /\ Copies'
  BY <1>1, <1>4 DEF IInv, TypeOK, Copies, Sound, checkVars
<1>6. Dated'
  BY <1>1, <1>3 DEF IInv, Dated
<1>7. ASSUME NEW c \in Checkers PROVE UnderWay(c)'
  <2>1. began[c] \in Nat /\ UnderWay(c) /\ (pc[c] = "release" => reply[c] \in Tags)
    BY DEF IInv, TypeOK, Checks, UnderWay
  <2> QED BY <1>1, <1>3, <2>1 DEF UnderWay, checkVars
<1> QED BY <1>2, <1>5, <1>6, <1>7 DEF IInv, Checks

LEMMA Initially == Init => IInv
<1> SUFFICES ASSUME Init PROVE IInv
  OBVIOUS
<1>1. 0 \in 0 .. MaxTime /\ 0 \in Times /\ NoCache \in CacheType
  BY Numbers DEF Times, NoCache, CacheType
<1>2. TypeOK
  BY <1>1 DEF Init, TypeOK, Replies
<1> QED BY <1>2 DEF Init, IInv, Dated, Copies, Checks, Sound, UnderWay, NoCache

THEOREM Invariance == Spec => []IInv
<1>1. IInv /\ [Next]_vars => IInv'
  <2> SUFFICES ASSUME IInv, [Next]_vars PROVE IInv'
    OBVIOUS
  <2>1. CASE \E c \in Checkers : \/ \E v \in Builds, force \in BOOLEAN : Begin(c, v, force)
                                 \/ Answered(c) \/ Limited(c) \/ Fails(c)
                                 \/ SaveRelease(c) \/ SaveLimit(c)
    BY <2>1, BeginStep, ReplySteps, EndSteps
  <2>2. CASE UNCHANGED vars
    BY <2>2 DEF vars, checkVars, IInv, TypeOK, Dated, Copies, Checks, Sound, UnderWay
  <2> QED BY <2>1, <2>2, PublishStep, TickStep DEF Next
<1> QED BY <1>1, Initially, PTL DEF Spec

--------------------------------------------------------------------------------
(* Refusals: what is left to ask while GitHub refuses *)

\* Which writer can still be refused before the suppression is written again, and whose answer,
\* from before the refusal, will erase it once more.
Asking == {c \in Writers : \/ pc[c] = "request"
                           \/ pc[c] = "idle" /\ cache.retryAfter < limitedUntil}
Stale == {c \in Writers : \/ pc[c] = "release"
                          \/ pc[c] = "limited" /\ reply[c] # limitedUntil}

\* Twice what `a` stale answers may cost: each lets those that hold no other ask once.
Cost(n, a) == a * (2 * n - a + 1)
Spent == 2 * refused + 2 * Cardinality(Asking) + Cost(N, Cardinality(Stale))
Budget == /\ RefusalsBounded
          /\ lost => refused = 0
          /\ ~lost /\ now < limitedUntil => Spent <= N * (N + 1)

LEMMA CostOfOne ==
  ASSUME NEW n \in Nat, NEW a \in Nat, a > 0
  PROVE  Cost(n, a) = Cost(n, a - 1) + 2 * (n - (a - 1))
<1>1. Cost(n, a) = 2 * (a * n) - a * a + a
  BY DEF Cost
<1>2. Cost(n, a - 1) = 2 * ((a - 1) * n) - (a - 1) * (a - 1) + (a - 1)
  BY DEF Cost
<1>3. (a - 1) * n = a * n - n /\ (a - 1) * (a - 1) = a * a - 2 * a + 1
  OBVIOUS
<1> QED BY <1>1, <1>2, <1>3

LEMMA CostOfFirst ==
  ASSUME NEW n \in Nat, NEW a \in Nat, a <= n
  PROVE  2 * (n - a) + Cost(n, a) <= n * (n + 1)
<1> DEFINE k == n - a
<1>1. k \in Nat /\ k * (k - 1) >= 0
  OBVIOUS
<1>2. k * (k - 1) = n * n - 2 * (a * n) + a * a - n + a
  OBVIOUS
<1>3. Cost(n, a) = 2 * (a * n) - a * a + a /\ n * (n + 1) = n * n + n
  BY DEF Cost
<1> QED BY <1>1, <1>2, <1>3

LEMMA CostIsNatural ==
  ASSUME NEW n \in Nat, NEW a \in 0 .. n
  PROVE  Cost(n, a) \in Nat
BY DEF Cost

\* Nobody asks and holds an answer at once.
LEMMA FinitelyMany == IsFiniteSet(Writers) /\ Writers \subseteq Checkers
<1>1. IsFiniteSet(Checkers)
  BY ServiceAssumption, FS_AddElement DEF Checkers
<1>2. Writers \subseteq Checkers
  BY WritersAssumption DEF Checkers
<1> QED BY <1>1, <1>2, FS_Subset

LEMMA Counts ==
  ASSUME NEW A \in SUBSET Writers, NEW S \in SUBSET Writers, A \intersect S = {}
  PROVE  /\ IsFiniteSet(A) /\ IsFiniteSet(S) /\ N \in Nat
         /\ Cardinality(A) \in Nat /\ Cardinality(S) \in Nat
         /\ Cardinality(A) + Cardinality(S) <= N
         /\ Writers \ (A \union S) # {} => Cardinality(A) + Cardinality(S) < N
<1>1. IsFiniteSet(Writers)
  BY FinitelyMany
<1>2. N \in Nat
  BY <1>1, FS_CardinalityType DEF N
<1>3. IsFiniteSet(A) /\ IsFiniteSet(S)
  BY <1>1, FS_Subset
<1>4. Cardinality(A) \in Nat /\ Cardinality(S) \in Nat
  BY <1>3, FS_CardinalityType
<1>5. Cardinality(A \union S) = Cardinality(A) + Cardinality(S)
  <2>1. Cardinality(A \union S) = Cardinality(A) + Cardinality(S) - Cardinality(A \intersect S)
    BY <1>3, FS_Union, Zenon
  <2>2. Cardinality(A \intersect S) = 0
    BY FS_EmptySet, Zenon
  <2> QED BY <1>4, <2>1, <2>2
<1>6. A \union S \in SUBSET Writers
  OBVIOUS
<1>7. /\ Cardinality(A \union S) <= N
      /\ Cardinality(A \union S) = N => A \union S = Writers
  BY <1>1, <1>6, FS_Subset DEF N
<1> QED BY <1>2, <1>3, <1>4, <1>5, <1>7

\* The first refusal: everybody else may hold a stale answer, or ask.
LEMMA FirstRefusal ==
  ASSUME NEW A \in SUBSET Writers, NEW S \in SUBSET Writers, A \intersect S = {},
         NEW c \in Writers \ (A \union S)
  PROVE  2 + 2 * Cardinality(A) + Cost(N, Cardinality(S)) <= N * (N + 1)
<1>1. /\ Cardinality(A) + Cardinality(S) + 1 <= N /\ Cardinality(A) \in Nat
      /\ Cardinality(S) \in Nat /\ N \in Nat
  <2>1. Writers \ (A \union S) # {}
    OBVIOUS
  <2>2. /\ Cardinality(A) \in Nat /\ Cardinality(S) \in Nat /\ N \in Nat
        /\ Cardinality(A) + Cardinality(S) < N
    BY <2>1, Counts, Zenon
  <2> QED BY <2>2
<1>2. 2 * (N - Cardinality(S)) + Cost(N, Cardinality(S)) <= N * (N + 1)
  BY <1>1, CostOfFirst
<1>3. Cost(N, Cardinality(S)) \in Nat /\ N * (N + 1) \in Nat
  BY <1>1, CostIsNatural
<1> QED BY <1>1, <1>2, <1>3

\* The same when it was not a writer that GitHub refused first.
LEMMA OthersRefusal ==
  ASSUME NEW A \in SUBSET Writers, NEW S \in SUBSET Writers, A \intersect S = {}
  PROVE  2 * Cardinality(A) + Cost(N, Cardinality(S)) <= N * (N + 1)
<1>1. /\ Cardinality(A) + Cardinality(S) <= N /\ Cardinality(A) \in Nat
      /\ Cardinality(S) \in Nat /\ N \in Nat
  BY Counts
<1>2. 2 * (N - Cardinality(S)) + Cost(N, Cardinality(S)) <= N * (N + 1)
  BY <1>1, CostOfFirst
<1>3. Cost(N, Cardinality(S)) \in Nat /\ N * (N + 1) \in Nat
  BY <1>1, CostIsNatural
<1> QED BY <1>1, <1>2, <1>3

\* An answer from before the refusal is written: those that hold no other may ask once more.
LEMMA Erased ==
  ASSUME NEW A \in SUBSET Writers, NEW S \in SUBSET Writers, A \intersect S = {},
         NEW c \in S, NEW B \in SUBSET Writers, B \intersect (S \ {c}) = {}
  PROVE  2 * Cardinality(B) + Cost(N, Cardinality(S \ {c}))
           <= 2 * Cardinality(A) + Cost(N, Cardinality(S))
<1>1. /\ IsFiniteSet(S) /\ Cardinality(A) \in Nat /\ Cardinality(S) \in Nat /\ N \in Nat
      /\ Cardinality(S) <= N
  <2>1. /\ IsFiniteSet(S) /\ Cardinality(A) \in Nat /\ Cardinality(S) \in Nat /\ N \in Nat
        /\ Cardinality(A) + Cardinality(S) <= N
    BY Counts, Zenon
  <2> QED BY <2>1
<1>2. Cardinality(S \ {c}) = Cardinality(S) - 1 /\ Cardinality(S) > 0
  BY <1>1, FS_RemoveElement, FS_EmptySet
<1>3. Cardinality(B) + Cardinality(S \ {c}) <= N /\ Cardinality(B) \in Nat
  BY Counts
<1>4. Cost(N, Cardinality(S)) = Cost(N, Cardinality(S) - 1) + 2 * (N - (Cardinality(S) - 1))
  BY <1>1, <1>2, CostOfOne
<1>5. Cost(N, Cardinality(S) - 1) \in Nat
  BY <1>1, <1>2, CostIsNatural
<1> QED BY <1>1, <1>2, <1>3, <1>4, <1>5

\* Fewer may ask.
LEMMA Fewer ==
  ASSUME NEW A \in SUBSET Writers, NEW B \in SUBSET A
  PROVE  Cardinality(B) <= Cardinality(A) /\ Cardinality(B) \in Nat /\ Cardinality(A) \in Nat
<1>1. IsFiniteSet(A) /\ Cardinality(A) \in Nat
  <2>1. IsFiniteSet(Writers)
    BY FinitelyMany
  <2>2. IsFiniteSet(A)
    BY <2>1, FS_Subset
  <2> QED BY <2>2, FS_CardinalityType
<1>2. IsFiniteSet(B) /\ Cardinality(B) <= Cardinality(A)
  BY <1>1, FS_Subset
<1> QED BY <1>1, <1>2, FS_CardinalityType

\* Whoever asks or holds an answer is a writer, and does not do both.
LEMMA Parties ==
  /\ Asking \in SUBSET Writers /\ Stale \in SUBSET Writers /\ Asking \intersect Stale = {}
  /\ Asking' \in SUBSET Writers /\ Stale' \in SUBSET Writers /\ Asking' \intersect Stale' = {}
BY DEF Asking, Stale

LEMMA Sizes ==
  /\ N \in Nat
  /\ IsFiniteSet(Asking) /\ Cardinality(Asking) \in Nat /\ Cardinality(Stale) \in 0 .. N
  /\ Cardinality(Asking') \in Nat /\ Cardinality(Stale') \in 0 .. N
<1>1. ASSUME NEW A \in SUBSET Writers, NEW S \in SUBSET Writers, A \intersect S = {}
      PROVE  /\ N \in Nat /\ IsFiniteSet(A) /\ Cardinality(A) \in Nat
             /\ Cardinality(S) \in 0 .. N
  <2>1. /\ N \in Nat /\ IsFiniteSet(A) /\ Cardinality(A) \in Nat /\ Cardinality(S) \in Nat
        /\ Cardinality(A) + Cardinality(S) <= N
    BY <1>1, Counts
  <2> QED BY <2>1
<1> HIDE DEF Asking, Stale
<1> QED BY <1>1, Parties

LEMMA Bounds ==
  ASSUME TypeOK
  PROVE  /\ N \in Nat /\ N * (N + 1) \in Nat /\ refused \in Nat
         /\ 2 * Cardinality(Asking) + Cost(N, Cardinality(Stale)) \in Nat
<1>1. /\ Cardinality(Asking) \in Nat /\ Cardinality(Stale) \in 0 .. N /\ N \in Nat
  BY Sizes
<1>2. Cost(N, Cardinality(Stale)) \in Nat
  BY <1>1, CostIsNatural
<1>3. N * (N + 1) \in Nat
  BY <1>1
<1>4. refused \in Nat
  BY DEF TypeOK
<1> QED BY <1>1, <1>2, <1>3, <1>4

\* Nobody is refused, nobody comes to ask, and every stale answer stays where it is.
LEMMA QuietStep ==
  ASSUME TypeOK, Budget, refused' = refused, limitedUntil' = limitedUntil, lost' <=> lost,
         now' \in Nat, now <= now',
         now < limitedUntil => Asking' \subseteq Asking /\ Stale' = Stale
  PROVE  Budget'
<1>1. RefusalsBounded' /\ (lost' => refused' = 0)
  BY DEF Budget, RefusalsBounded
<1>2. ASSUME ~lost', now' < limitedUntil' PROVE Spent' <= N * (N + 1)
  <2>1. now < limitedUntil /\ ~lost
    BY <1>2 DEF TypeOK, Times
  <2>2. Asking' \in SUBSET Asking /\ Stale' = Stale /\ Spent <= N * (N + 1)
    BY <2>1 DEF Budget
  <2>3. /\ Cardinality(Asking') <= Cardinality(Asking)
        /\ Cardinality(Asking') \in Nat /\ Cardinality(Asking) \in Nat
    BY <2>2, Parties, Fewer
  <2>4. Cardinality(Stale) \in 0 .. N /\ N \in Nat
    BY Sizes
  <2>5. Cost(N, Cardinality(Stale)) \in Nat
    BY <2>4, CostIsNatural
  <2>6. Spent' = 2 * refused + 2 * Cardinality(Asking') + Cost(N, Cardinality(Stale))
    BY <2>2 DEF Spent, Cost, N
  <2> QED BY <2>2, <2>3, <2>4, <2>5, <2>6 DEF Spent, TypeOK
<1> QED BY <1>1, <1>2 DEF Budget

\* While the bound holds of what may be spent, it holds of what has been.
LEMMA SpentIsEnough ==
  ASSUME refused' \in Nat, ~lost', Spent' <= N * (N + 1)
  PROVE  Budget'
<1>1. Cardinality(Asking') \in Nat /\ Cardinality(Stale') \in 0 .. N /\ N \in Nat
  BY Sizes
<1>2. Cost(N, Cardinality(Stale')) \in Nat
  BY <1>1, CostIsNatural
<1>3. Spent' = 2 * refused' + 2 * Cardinality(Asking') + Cost(N, Cardinality(Stale'))
  BY DEF Spent, Cost, N
<1>4. 2 * refused' <= N * (N + 1)
  <2>1. \A x, y, z, most \in Nat : 2 * x + 2 * y + z <= most => 2 * x <= most
    OBVIOUS
  <2>2. N * (N + 1) \in Nat
    BY <1>1
  <2>3. 2 * refused' + 2 * Cardinality(Asking') + Cost(N, Cardinality(Stale')) <= N * (N + 1)
    BY <1>3
  <2> QED BY <1>1, <1>2, <2>1, <2>2, <2>3
<1> QED BY <1>4 DEF Budget, RefusalsBounded, N

\* A write that is lost ends the count.
LEMMA LostStep ==
  ASSUME TypeOK, lost', refused' = 0
  PROVE  Budget'
BY Bounds DEF Budget, RefusalsBounded, N

\* GitHub refuses once more, or begins to.
LEMMA LimitedStep == ASSUME IInv, Budget, NEW c \in Checkers, Limited(c) PROVE Budget'
<1>1. CASE lost'
  BY <1>1, LostStep DEF Limited, IInv
<1>2. CASE ~lost'
  <2>1. /\ now' = now /\ now \in Nat /\ limitedUntil \in Nat /\ cache' = cache
        /\ pc[c] = "request" /\ pc' = [pc EXCEPT ![c] = "limited"]
        /\ \A d \in Checkers \ {c} : reply'[d] = reply[d]
        /\ c \in Writers => reply'[c] = limitedUntil'
        /\ pc \in [Checkers -> {"idle", "request", "release", "limited"}]
        /\ refused \in Nat /\ (now < limitedUntil => ~lost)
    <3>1. PICK told \in BOOLEAN :
             /\ reply' = [reply EXCEPT ![c] = IF told THEN limitedUntil' ELSE 0]
             /\ lost' = ((lost /\ now < limitedUntil) \/ (~told /\ c \in Writers))
      BY Zenon DEF Limited
    <3>2. (c \in Writers => told) /\ (now < limitedUntil => ~lost)
      BY <1>2, <3>1, Zenon
    <3>3. /\ \A d \in Checkers \ {c} : reply'[d] = reply[d]
          /\ c \in Writers => reply'[c] = limitedUntil'
      BY <3>1, <3>2 DEF IInv, TypeOK
    <3> QED BY <3>2, <3>3 DEF Limited, IInv, TypeOK, Times
  <2>2. /\ Writers \subseteq Checkers /\ c \notin Asking' /\ c \notin Stale'
        /\ c \in Writers => c \in Asking
    BY <2>1, FinitelyMany DEF Asking, Stale
  <2> DEFINE before == IF now < limitedUntil THEN refused ELSE 0
             one == IF c \in Writers THEN 1 ELSE 0
  <2>3. refused' = before + one
    BY <1>2, Zenon DEF Limited
  <2>4. CASE now < limitedUntil
    <3>1. limitedUntil' = limitedUntil /\ ~lost
      BY <2>1, <2>4 DEF Limited
    <3>2. Asking' = Asking \ {c} /\ Stale' = Stale
      BY <2>1, <2>2, <3>1 DEF Asking, Stale
    <3>3. CASE c \in Writers
      <4>1. refused' = refused + 1
        BY <2>1, <2>3, <2>4, <3>3
      <4>2. IsFiniteSet(Asking) /\ Cardinality(Asking) \in Nat
        BY Sizes
      <4>3. Cardinality(Asking') = Cardinality(Asking) - 1
        BY <2>2, <3>2, <3>3, <4>2, FS_RemoveElement
      <4>4. Spent' = Spent
        <5>1. Cost(N, Cardinality(Stale))' = Cost(N, Cardinality(Stale))
          BY <3>2 DEF Cost, N
        <5> QED BY <4>1, <4>2, <4>3, <5>1, Bounds DEF Spent, IInv
      <4>5. refused' \in Nat /\ Spent <= N * (N + 1)
        BY <2>1, <2>4, <3>1, <4>1, Bounds DEF Budget, IInv
      <4> QED BY <1>2, <4>4, <4>5, SpentIsEnough
    <3>4. CASE c \notin Writers
      <4>1. refused' = refused
        BY <2>1, <2>3, <2>4, <3>4
      <4>2. Asking' \subseteq Asking
        BY <3>2
      <4> QED BY <1>2, <2>1, <3>1, <3>2, <4>1, <4>2, QuietStep DEF IInv
    <3> QED BY <3>3, <3>4
  <2>5. CASE now >= limitedUntil
    <3>1. CASE c \in Writers
      <4>1. refused' = 1
        BY <2>1, <2>3, <2>5, <3>1
      <4>2. 2 + 2 * Cardinality(Asking') + Cost(N, Cardinality(Stale')) <= N * (N + 1)
        BY <2>2, <3>1, Parties, FirstRefusal
      <4>3. Spent' <= N * (N + 1)
        BY <4>1, <4>2 DEF Spent, N, Cost
      <4> QED BY <1>2, <4>1, <4>3, SpentIsEnough
    <3>2. CASE c \notin Writers
      <4>1. refused' = 0
        BY <2>1, <2>3, <2>5, <3>2
      <4>2. 2 * Cardinality(Asking') + Cost(N, Cardinality(Stale')) <= N * (N + 1)
        BY Parties, OthersRefusal
      <4>3. Cardinality(Asking') \in Nat /\ Cost(N, Cardinality(Stale')) \in Nat
        BY Sizes, CostIsNatural
      <4>4. Spent' <= N * (N + 1)
        BY <4>1, <4>2, <4>3 DEF Spent, N, Cost
      <4> QED BY <1>2, <4>1, <4>4, SpentIsEnough
    <3> QED BY <3>1, <3>2
  <2> QED BY <2>1, <2>4, <2>5
<1> QED BY <1>1, <1>2

\* A check ends, having written an answer from before the refusal, the refusal, or nothing.
LEMMA SaveStep ==
  ASSUME IInv, Budget, NEW c \in Checkers, SaveRelease(c) \/ SaveLimit(c)
  PROVE  Budget'
<1>1. /\ now' = now /\ limitedUntil' = limitedUntil /\ now \in Nat /\ limitedUntil \in Nat
      /\ refused' = (IF lost' THEN 0 ELSE refused) /\ refused \in Nat
      /\ pc' = [pc EXCEPT ![c] = "idle"] /\ reply' = [reply EXCEPT ![c] = 0]
      /\ pc \in [Checkers -> {"idle", "request", "release", "limited"}]
      /\ DOMAIN reply = Checkers /\ lost \in BOOLEAN
  BY DEF SaveRelease, SaveLimit, Done, Counted, IInv, TypeOK, Times
<1>2. CASE lost'
  BY <1>1, <1>2, LostStep DEF IInv
<1>3. CASE ~lost'
  <2>1. ~lost /\ refused' = refused
    BY <1>1, <1>3, Zenon DEF SaveRelease, SaveLimit, Writes
  <2>2. ~(now < limitedUntil) \/ Spent <= N * (N + 1)
    BY <2>1 DEF Budget
  <2>3. CASE c \in Stale /\ now < limitedUntil
    <3>1. Stale' = Stale \ {c}
      BY <1>1, <2>3 DEF Stale
    <3>2. 2 * Cardinality(Asking') + Cost(N, Cardinality(Stale'))
            <= 2 * Cardinality(Asking) + Cost(N, Cardinality(Stale))
      BY <2>3, <3>1, Parties, Erased
    <3>3. Cost(N, Cardinality(Stale)) \in Nat /\ Cost(N, Cardinality(Stale')) \in Nat
      BY Sizes, CostIsNatural
    <3>4. Spent' = 2 * refused + 2 * Cardinality(Asking') + Cost(N, Cardinality(Stale'))
      BY <2>1 DEF Spent, Cost, N
    <3>5. Spent' <= Spent /\ Spent' \in Nat /\ Spent \in Nat
      BY <1>1, <3>2, <3>3, <3>4, Sizes DEF Spent
    <3>6. N * (N + 1) \in Nat
      BY Sizes
    <3>7. Spent' <= N * (N + 1)
      BY <2>2, <2>3, <3>5, <3>6
    <3> QED BY <1>1, <1>3, <2>1, <3>7, SpentIsEnough
  <2>4. CASE c \in Writers \ Stale /\ now < limitedUntil
    <3>1. pc[c] = "limited" /\ reply[c] = limitedUntil /\ reply[c] # 0
      BY <1>1, <2>4 DEF Stale, SaveRelease, SaveLimit
    <3>2. cache'.retryAfter = limitedUntil
      <4>1. cache' = [cached[c] EXCEPT !.retryAfter = RetryAfter(c)]
        BY <1>3, <2>4, <3>1, Zenon DEF SaveRelease, SaveLimit, Writes
      <4> QED BY <3>1, <4>1 DEF RetryAfter, IInv, TypeOK, CacheType
    <3>3. Asking' \subseteq Asking
      BY <1>1, <3>1, <3>2 DEF Asking
    <3>4. Stale' = Stale
      BY <1>1, <2>4, <3>1 DEF Stale
    <3> QED BY <1>1, <1>3, <2>1, <3>3, <3>4, QuietStep DEF IInv
  <2>5. CASE now >= limitedUntil
    BY <1>1, <1>3, <2>1, <2>5, QuietStep DEF IInv
  <2>6. CASE c \notin Writers
    <3>1. cache' = cache
      BY <2>6, Zenon DEF SaveRelease, SaveLimit, Writes
    <3>2. Asking' = Asking /\ Stale' = Stale
      BY <1>1, <2>6, <3>1, FinitelyMany DEF Asking, Stale
    <3> QED BY <1>1, <1>3, <2>1, <3>2, QuietStep DEF IInv
  <2> QED BY <1>1, <2>3, <2>4, <2>5, <2>6
<1> QED BY <1>2, <1>3

LEMMA BudgetStep == ASSUME IInv, Budget, [Next]_vars PROVE Budget'
<1>1. /\ now \in Nat /\ limitedUntil \in Nat
      /\ pc \in [Checkers -> {"idle", "request", "release", "limited"}]
  BY DEF IInv, TypeOK, Times
<1>2. ASSUME NEW c \in Checkers, NEW v \in Builds, NEW force \in BOOLEAN, Begin(c, v, force)
      PROVE  Budget'
  <2>1. /\ now' = now /\ limitedUntil' = limitedUntil /\ refused' = refused /\ cache' = cache
        /\ reply' = reply /\ pc' = [pc EXCEPT ![c] = "request"] /\ pc[c] = "idle"
        /\ now >= cache.retryAfter /\ (lost' <=> lost) /\ cache.retryAfter \in Nat
    BY <1>2 DEF Begin, Suppressed, IInv, TypeOK, CacheType, Times
  <2>2. now < limitedUntil => Asking' \subseteq Asking /\ Stale' = Stale
    BY <1>1, <2>1 DEF Asking, Stale
  <2> QED BY <1>1, <2>1, <2>2, QuietStep DEF IInv
<1>3. ASSUME NEW c \in Checkers, Answered(c) PROVE Budget'
  <2>1. /\ now' = now /\ limitedUntil' = limitedUntil /\ refused' = refused
        /\ now >= limitedUntil /\ (lost' <=> lost)
    BY <1>3 DEF Answered
  <2> QED BY <1>1, <2>1, QuietStep DEF IInv
<1>4. ASSUME NEW c \in Checkers, Fails(c) PROVE Budget'
  <2>1. /\ now' = now /\ limitedUntil' = limitedUntil /\ refused' = refused /\ cache' = cache
        /\ reply' = [reply EXCEPT ![c] = 0] /\ pc' = [pc EXCEPT ![c] = "idle"]
        /\ pc[c] = "request" /\ (lost' <=> lost) /\ DOMAIN reply = Checkers
    BY <1>4 DEF Fails, Done, IInv, TypeOK
  <2>2. Asking' \subseteq Asking /\ Stale' = Stale
    BY <1>1, <2>1 DEF Asking, Stale
  <2> QED BY <1>1, <2>1, <2>2, QuietStep DEF IInv
<1>5. CASE Publish \/ Tick \/ UNCHANGED vars
  <2>1. /\ now' \in Nat /\ now <= now' /\ limitedUntil' = limitedUntil /\ refused' = refused
        /\ cache' = cache /\ reply' = reply /\ pc' = pc /\ (lost' <=> lost)
    BY <1>1, <1>5 DEF Publish, Tick, vars, checkVars
  <2>2. Asking' = Asking /\ Stale' = Stale
    BY <2>1 DEF Asking, Stale
  <2> QED BY <2>1, <2>2, QuietStep DEF IInv
<1> QED BY <1>2, <1>3, <1>4, <1>5, LimitedStep, SaveStep DEF Next

--------------------------------------------------------------------------------
(* What a reader should know of *)

\* The file, its copies, the answers and the clock keep their types.
THEOREM TypeCorrect == Spec => []TypeOK
<1>1. IInv => TypeOK
  BY DEF IInv
<1> QED BY <1>1, Invariance, PTL

\* The release and the time on file belong together, however many processes write the file.
THEOREM TimesAreTruthful == Spec => []CheckedAtIsTruthful
<1>1. IInv => CheckedAtIsTruthful
  BY DEF IInv, Sound, CheckedAtIsTruthful
<1> QED BY <1>1, Invariance, PTL

\* While GitHub refuses, the N processes that may write the cache are refused at most N(N+1)/2
\* times, for any number of them and of others, provided that none of their writes fails and
\* each is told when to come back: what the stale answers may still cost is within the budget
\* at every step.
THEOREM RefusalsAreBounded == Spec => []RefusalsBounded
<1>1. Init => Budget
  <2> SUFFICES ASSUME Init PROVE Budget
    OBVIOUS
  <2>1. refused = 0 /\ ~lost /\ ~(now < limitedUntil)
    BY DEF Init
  <2>2. N * (N + 1) \in Nat
    BY Sizes
  <2> QED BY <2>1, <2>2 DEF Budget, RefusalsBounded
<1>2. IInv /\ Budget /\ [Next]_vars => Budget'
  BY BudgetStep
<1>3. Budget => RefusalsBounded
  BY DEF Budget
<1> QED BY <1>1, <1>2, <1>3, Invariance, PTL DEF Spec

--------------------------------------------------------------------------------
(* The order of versions *)

\* Identifiers are ordered: numbers by value, then everything else by its bytes.
LEMMA IdentOrder ==
  ASSUME NEW a \in Identifiers, NEW b \in Identifiers
  PROVE  /\ compareIdent(a, b) \in {-1, 0, 1}
         /\ compareIdent(a, b) = 1 <=> compareIdent(b, a) = -1
         /\ compareIdent(a, b) = 0 <=> compareIdent(b, a) = 0
BY IntAssumption DEF Identifiers, compareIdent, cmpInt

LEMMA IdentTransitive ==
  ASSUME NEW a \in Identifiers, NEW b \in Identifiers, NEW c \in Identifiers,
         compareIdent(a, b) >= 0, compareIdent(b, c) >= 0
  PROVE  /\ compareIdent(a, c) >= 0
         /\ compareIdent(a, c) = 0 <=> compareIdent(a, b) = 0 /\ compareIdent(b, c) = 0
BY IntAssumption DEF Identifiers, compareIdent, cmpInt

\* What `First` finds.
LEMMA FirstIsLeast ==
  ASSUME NEW S \in SUBSET Nat, NEW i \in S
  PROVE  /\ First(S) \in S /\ \A j \in S : First(S) <= j
         /\ (\A j \in S : i <= j) => First(S) = i
<1>1. PICK x \in S : \A y \in S : <<y, x>> \notin OpToRel(<, Nat)
  BY NatLessThanWellFounded, WFMin
<1>2. ASSUME NEW y \in S PROVE x <= y
  <2>1. x \in Nat /\ y \in Nat
    OBVIOUS
  <2>2. ~(y < x)
    BY <1>1, <2>1 DEF OpToRel
  <2> QED BY <2>1, <2>2
<1>3. First(S) \in S /\ \A j \in S : First(S) <= j
  BY <1>2, Zenon DEF First
<1>4. ASSUME \A j \in S : i <= j PROVE First(S) = i
  <2>1. First(S) <= i /\ i <= First(S) /\ First(S) \in Nat /\ i \in Nat
    BY <1>3, <1>4
  <2> QED BY <2>1
<1> QED BY <1>3, <1>4

\* Where two sequences of identifiers differ.
Differing(a, b) == {i \in (1 .. Len(a)) \intersect (1 .. Len(b)) : compareIdent(a[i], b[i]) # 0}

\* The first difference decides, and without one the lengths do.
LEMMA PreValue ==
  ASSUME NEW a \in Seq(Identifiers), NEW b \in Seq(Identifiers), a # << >>, b # << >>
  PROVE  /\ Differing(a, b) = {} => comparePre(a, b) = cmpInt(Len(a), Len(b))
         /\ \A i \in Differing(a, b) :
              (\A j \in Differing(a, b) : i <= j) => comparePre(a, b) = compareIdent(a[i], b[i])
         /\ Differing(a, b) # {} => \E i \in Differing(a, b) : \A j \in Differing(a, b) : i <= j
<1>1. Differing(a, b) \in SUBSET Nat
  BY DEF Differing
<1>2. comparePre(a, b) = IF Differing(a, b) = {} THEN cmpInt(Len(a), Len(b))
                         ELSE compareIdent(a[First(Differing(a, b))], b[First(Differing(a, b))])
  BY DEF comparePre, Differing
<1>3. ASSUME NEW i \in Differing(a, b)
      PROVE  /\ First(Differing(a, b)) \in Differing(a, b)
             /\ \A j \in Differing(a, b) : First(Differing(a, b)) <= j
             /\ (\A j \in Differing(a, b) : i <= j) => First(Differing(a, b)) = i
  BY <1>1, FirstIsLeast, Zenon
<1> QED BY <1>2, <1>3, Zenon

LEMMA PreOrder ==
  ASSUME NEW a \in Seq(Identifiers), NEW b \in Seq(Identifiers)
  PROVE  /\ comparePre(a, b) \in {-1, 0, 1}
         /\ comparePre(a, b) = 1 <=> comparePre(b, a) = -1
         /\ comparePre(a, b) = 0 <=> comparePre(b, a) = 0
<1>1. CASE a = << >> \/ b = << >>
  BY <1>1 DEF comparePre, cmpInt
<1>2. CASE a # << >> /\ b # << >>
  <2>1. Differing(a, b) = Differing(b, a)
    BY IdentOrder DEF Differing
  <2>2. CASE Differing(a, b) = {}
    <3>1. comparePre(a, b) = cmpInt(Len(a), Len(b)) /\ comparePre(b, a) = cmpInt(Len(b), Len(a))
      BY <1>2, <2>1, <2>2, PreValue
    <3>2. Len(a) \in Nat /\ Len(b) \in Nat
      OBVIOUS
    <3> QED BY <3>1, <3>2 DEF cmpInt
  <2>3. CASE Differing(a, b) # {}
    <3>1. PICK i \in Differing(a, b) : \A j \in Differing(a, b) : i <= j
      BY <1>2, <2>3, PreValue
    <3>2. comparePre(a, b) = compareIdent(a[i], b[i]) /\ comparePre(b, a) = compareIdent(b[i], a[i])
      BY <1>2, <2>1, <3>1, PreValue
    <3>3. a[i] \in Identifiers /\ b[i] \in Identifiers
      BY DEF Differing
    <3> QED BY <3>2, <3>3, IdentOrder
  <2> QED BY <2>2, <2>3
<1> QED BY <1>1, <1>2

LEMMA PreTransitive ==
  ASSUME NEW a \in Seq(Identifiers), NEW b \in Seq(Identifiers), NEW c \in Seq(Identifiers),
         comparePre(a, b) >= 0, comparePre(b, c) >= 0
  PROVE  /\ comparePre(a, c) >= 0
         /\ comparePre(a, c) = 0 <=> comparePre(a, b) = 0 /\ comparePre(b, c) = 0
<1>1. CASE a = << >> \/ b = << >> \/ c = << >>
  BY <1>1 DEF comparePre, cmpInt
<1>2. CASE a # << >> /\ b # << >> /\ c # << >>
  <2>1. Len(a) \in Nat /\ Len(b) \in Nat /\ Len(c) \in Nat
    OBVIOUS
  <2> DEFINE ab(i) == compareIdent(a[i], b[i])
             bc(i) == compareIdent(b[i], c[i])
             ac(i) == compareIdent(a[i], c[i])
  <2>2. ASSUME NEW i \in Nat, 1 <= i, i <= Len(a), i <= Len(b), i <= Len(c)
        PROVE  /\ ab(i) \in {-1, 0, 1} /\ bc(i) \in {-1, 0, 1} /\ ac(i) \in {-1, 0, 1}
               /\ ab(i) >= 0 /\ bc(i) >= 0 =>
                     ac(i) >= 0 /\ (ac(i) = 0 <=> ab(i) = 0 /\ bc(i) = 0)
    <3>1. a[i] \in Identifiers /\ b[i] \in Identifiers /\ c[i] \in Identifiers
      BY <2>1, <2>2
    <3>2. ab(i) \in {-1, 0, 1} /\ bc(i) \in {-1, 0, 1} /\ ac(i) \in {-1, 0, 1}
      BY <3>1, IdentOrder
    <3> QED BY <3>1, <3>2, IdentTransitive
  <2>3. /\ Differing(a, b) = {i \in Nat : 1 <= i /\ i <= Len(a) /\ i <= Len(b) /\ ab(i) # 0}
        /\ Differing(b, c) = {i \in Nat : 1 <= i /\ i <= Len(b) /\ i <= Len(c) /\ bc(i) # 0}
        /\ Differing(a, c) = {i \in Nat : 1 <= i /\ i <= Len(a) /\ i <= Len(c) /\ ac(i) # 0}
    BY <2>1 DEF Differing
  <2> HIDE DEF ab, bc, ac
  <2>4. CASE Differing(a, b) = {} /\ Differing(b, c) = {}
    <3>1. comparePre(a, b) = cmpInt(Len(a), Len(b)) /\ comparePre(b, c) = cmpInt(Len(b), Len(c))
      BY <1>2, <2>4, PreValue
    <3>2. Len(a) >= Len(b) /\ Len(b) >= Len(c)
      BY <2>1, <3>1 DEF cmpInt
    <3>3. Differing(a, c) = {}
      BY <2>1, <2>2, <2>3, <2>4, <3>2
    <3>4. comparePre(a, c) = cmpInt(Len(a), Len(c))
      BY <1>2, <3>3, PreValue
    <3> QED BY <2>1, <3>1, <3>2, <3>4 DEF cmpInt
  <2>5. CASE Differing(a, b) = {} /\ Differing(b, c) # {}
    <3>1. comparePre(a, b) = cmpInt(Len(a), Len(b))
      BY <1>2, <2>5, PreValue
    <3>2. Len(a) >= Len(b)
      BY <2>1, <3>1 DEF cmpInt
    <3>3. PICK j \in Differing(b, c) : \A k \in Differing(b, c) : j <= k
      BY <1>2, <2>5, PreValue
    <3>4. comparePre(b, c) = bc(j)
      BY <1>2, <3>3, PreValue DEF bc
    <3>5. j \in Differing(a, c) /\ ac(j) = 1 /\ bc(j) = 1
      BY <2>1, <2>2, <2>3, <2>5, <3>2, <3>4
    <3>6. \A k \in Differing(a, c) : j <= k
      BY <2>1, <2>2, <2>3, <2>5, <3>2, <3>3
    <3>7. comparePre(a, c) = ac(j)
      BY <1>2, <3>5, <3>6, PreValue DEF ac
    <3> QED BY <3>4, <3>5, <3>7
  <2>6. CASE Differing(a, b) # {}
    <3>1. PICK i \in Differing(a, b) : \A k \in Differing(a, b) : i <= k
      BY <1>2, <2>6, PreValue
    <3>2. comparePre(a, b) = ab(i)
      BY <1>2, <3>1, PreValue DEF ab
    <3>3. CASE Differing(b, c) = {}
      <4>1. comparePre(b, c) = cmpInt(Len(b), Len(c))
        BY <1>2, <3>3, PreValue
      <4>2. Len(b) >= Len(c)
        BY <2>1, <4>1 DEF cmpInt
      <4>3. CASE i <= Len(c)
        <5>1. i \in Differing(a, c) /\ ac(i) = 1 /\ ab(i) = 1
          BY <2>1, <2>2, <2>3, <3>2, <3>3, <4>3
        <5>2. \A k \in Differing(a, c) : i <= k
          BY <2>1, <2>2, <2>3, <3>1, <3>3, <4>2, <4>3
        <5>3. comparePre(a, c) = ac(i)
          BY <1>2, <5>1, <5>2, PreValue DEF ac
        <5> QED BY <3>2, <5>1, <5>3
      <4>4. CASE i > Len(c)
        <5>1. Differing(a, c) = {}
          BY <2>1, <2>2, <2>3, <3>1, <3>3, <4>2, <4>4
        <5>2. comparePre(a, c) = cmpInt(Len(a), Len(c)) /\ Len(a) > Len(c)
          BY <1>2, <2>1, <2>3, <4>4, <5>1, PreValue
        <5>3. comparePre(a, b) # 0
          BY <2>3, <3>2
        <5> QED BY <2>1, <5>2, <5>3 DEF cmpInt
      <4> QED BY <2>1, <2>3, <4>3, <4>4
    <3>4. CASE Differing(b, c) # {}
      <4>1. PICK j \in Differing(b, c) : \A k \in Differing(b, c) : j <= k
        BY <1>2, <3>4, PreValue
      <4>2. comparePre(b, c) = bc(j)
        BY <1>2, <4>1, PreValue DEF bc
      <4> DEFINE m == IF i <= j THEN i ELSE j
      <4>3. m \in Differing(a, c) /\ ac(m) = 1 /\ ab(i) # 0
        BY <2>1, <2>2, <2>3, <3>1, <3>2, <4>1, <4>2
      <4>4. \A k \in Differing(a, c) : m <= k
        BY <2>1, <2>2, <2>3, <3>1, <4>1
      <4>5. comparePre(a, c) = ac(m)
        BY <1>2, <4>3, <4>4, PreValue DEF ac
      <4> QED BY <3>2, <4>3, <4>5
    <3> QED BY <3>3, <3>4
  <2> QED BY <2>4, <2>5, <2>6
<1> QED BY <1>1, <1>2

\* The same of the three numbers in front.
Field(v, i) == v.core[i].value
Unequal(v, w) == {i \in 1 .. 3 : Field(v, i) # Field(w, i)}

LEMMA CoreValue ==
  ASSUME NEW v \in Versions, NEW w \in Versions
  PROVE  /\ Unequal(v, w) = {} => Compare(v, w) = comparePre(v.pre, w.pre)
         /\ \A i \in Unequal(v, w) :
              (\A j \in Unequal(v, w) : i <= j) => Compare(v, w) = cmpInt(Field(v, i), Field(w, i))
         /\ Unequal(v, w) # {} => \E i \in Unequal(v, w) : \A j \in Unequal(v, w) : i <= j
<1>1. Unequal(v, w) \in SUBSET Nat
  BY DEF Unequal
<1>2. Compare(v, w) = IF Unequal(v, w) = {} THEN comparePre(v.pre, w.pre)
                      ELSE cmpInt(Field(v, First(Unequal(v, w))), Field(w, First(Unequal(v, w))))
  BY DEF Compare, Unequal, Field
<1>3. ASSUME NEW i \in Unequal(v, w)
      PROVE  /\ First(Unequal(v, w)) \in Unequal(v, w)
             /\ \A j \in Unequal(v, w) : First(Unequal(v, w)) <= j
             /\ (\A j \in Unequal(v, w) : i <= j) => First(Unequal(v, w)) = i
  BY <1>1, FirstIsLeast, Zenon
<1> QED BY <1>2, <1>3, Zenon

LEMMA Parts ==
  ASSUME NEW v \in Versions
  PROVE  v.pre \in Seq(Identifiers) /\ \A i \in 1 .. 3 : Field(v, i) \in Nat
BY DEF Versions, Identifiers, Field

LEMMA VersionOrder ==
  ASSUME NEW v \in Versions, NEW w \in Versions
  PROVE  /\ Compare(v, w) \in {-1, 0, 1}
         /\ Compare(v, w) = 1 <=> Compare(w, v) = -1
         /\ Compare(v, w) = 0 <=> Compare(w, v) = 0
<1>1. Unequal(v, w) = Unequal(w, v)
  BY DEF Unequal
<1>2. CASE Unequal(v, w) = {}
  <2>1. Compare(v, w) = comparePre(v.pre, w.pre) /\ Compare(w, v) = comparePre(w.pre, v.pre)
    BY <1>1, <1>2, CoreValue
  <2>2. v.pre \in Seq(Identifiers) /\ w.pre \in Seq(Identifiers)
    BY Parts
  <2> QED BY <2>1, <2>2, PreOrder
<1>3. CASE Unequal(v, w) # {}
  <2>1. PICK i \in Unequal(v, w) : \A j \in Unequal(v, w) : i <= j
    BY <1>3, CoreValue
  <2>2. /\ Compare(v, w) = cmpInt(Field(v, i), Field(w, i))
        /\ Compare(w, v) = cmpInt(Field(w, i), Field(v, i))
    BY <1>1, <2>1, CoreValue
  <2>3. Field(v, i) \in Nat /\ Field(w, i) \in Nat
    BY Parts DEF Unequal
  <2> QED BY <2>2, <2>3 DEF cmpInt
<1> QED BY <1>2, <1>3

LEMMA VersionTransitive ==
  ASSUME NEW u \in Versions, NEW v \in Versions, NEW w \in Versions,
         Compare(u, v) >= 0, Compare(v, w) >= 0
  PROVE  /\ Compare(u, w) >= 0
         /\ Compare(u, w) = 0 <=> Compare(u, v) = 0 /\ Compare(v, w) = 0
<1>1. \A i \in 1 .. 3 : Field(u, i) \in Nat /\ Field(v, i) \in Nat /\ Field(w, i) \in Nat
  BY Parts
<1>2. CASE Unequal(u, v) = {} /\ Unequal(v, w) = {}
  <2>1. Unequal(u, w) = {}
    BY <1>2 DEF Unequal
  <2> QED BY <1>2, <2>1, CoreValue, PreTransitive, Parts
<1>3. CASE Unequal(u, v) = {} /\ Unequal(v, w) # {}
  <2>1. PICK j \in Unequal(v, w) : \A k \in Unequal(v, w) : j <= k
    BY <1>3, CoreValue
  <2>2. Unequal(u, w) = Unequal(v, w) /\ Field(u, j) = Field(v, j)
    BY <1>3 DEF Unequal
  <2>3. Compare(v, w) = cmpInt(Field(v, j), Field(w, j)) /\ Compare(u, w) = Compare(v, w)
    BY <2>1, <2>2, CoreValue
  <2>4. Compare(v, w) # 0
    BY <1>1, <2>1, <2>3 DEF Unequal, cmpInt
  <2> QED BY <2>3, <2>4
<1>4. CASE Unequal(u, v) # {}
  <2>1. PICK i \in Unequal(u, v) : \A k \in Unequal(u, v) : i <= k
    BY <1>4, CoreValue
  <2>2. Compare(u, v) = cmpInt(Field(u, i), Field(v, i)) /\ i \in 1 .. 3
    BY <2>1, CoreValue DEF Unequal
  <2>3. Field(u, i) > Field(v, i) /\ Compare(u, v) = 1
    <3>1. Field(u, i) \in Nat /\ Field(v, i) \in Nat /\ Field(u, i) # Field(v, i)
      BY <1>1, <2>1, <2>2 DEF Unequal
    <3> HIDE DEF Field
    <3> QED BY <2>2, <3>1 DEF cmpInt
  <2>4. CASE Unequal(v, w) = {}
    <3>1. Unequal(u, w) = Unequal(u, v) /\ Field(v, i) = Field(w, i)
      BY <2>2, <2>4 DEF Unequal
    <3>2. Compare(u, w) = Compare(u, v)
      BY <2>1, <2>2, <3>1, CoreValue
    <3> QED BY <2>3, <3>2
  <2>5. CASE Unequal(v, w) # {}
    <3>1. PICK j \in Unequal(v, w) : \A k \in Unequal(v, w) : j <= k
      BY <2>5, CoreValue
    <3>2. Compare(v, w) = cmpInt(Field(v, j), Field(w, j)) /\ j \in 1 .. 3
      BY <3>1, CoreValue DEF Unequal
    <3>3. Field(v, j) > Field(w, j)
      BY <1>1, <3>1, <3>2 DEF Unequal, cmpInt
    <3> DEFINE m == IF i <= j THEN i ELSE j
    <3>4. m \in Unequal(u, w) /\ Field(u, m) > Field(w, m)
      BY <1>1, <2>1, <2>2, <2>3, <3>1, <3>2, <3>3 DEF Unequal
    <3>5. \A k \in Unequal(u, w) : m <= k
      BY <2>1, <2>2, <3>1, <3>2 DEF Unequal
    <3>6. Compare(u, w) = cmpInt(Field(u, m), Field(w, m))
      BY <3>4, <3>5, CoreValue
    <3>7. Compare(u, w) = 1
      BY <1>1, <3>4, <3>6 DEF cmpInt, Unequal
    <3> QED BY <2>3, <3>7
  <2> QED BY <2>4, <2>5
<1> QED BY <1>2, <1>3, <1>4

\* The advice is consistent for any Checkable builds and any releases, whatever their
\* identifiers: the comparison is a total preorder.
THEOREM AdviceOrdered == Spec => []AdviceIsOrdered
<1>1. IInv => AdviceIsOrdered
  <2> SUFFICES ASSUME IInv, NEW v \in Builds, Cached(v)
               PROVE  /\ Compare(v, Releases[cache.release]) = -1
                      /\ \A w \in Builds : Cached(w) \/ Compare(v, w) = -1
    BY DEF AdviceIsOrdered
  <2>1. v \in Versions /\ Releases[cache.release] \in Versions
    BY BuildAssumption, ReleaseAssumption, Numbers DEF Cached, IInv, TypeOK, CacheType, Tags
  <2>2. Compare(Releases[cache.release], v) = 1
    BY <2>1, VersionOrder DEF Cached, Newer
  <2>3. Compare(v, Releases[cache.release]) = -1
    BY <2>1, <2>2, VersionOrder
  <2>4. ASSUME NEW w \in Builds, Compare(v, w) # -1 PROVE Cached(w)
    <3>1. w \in Versions
      BY BuildAssumption
    <3>2. Compare(v, w) >= 0
      BY <2>1, <2>4, <3>1, VersionOrder
    <3>3. /\ Compare(Releases[cache.release], w) >= 0
          /\ Compare(Releases[cache.release], w) # 0
      BY <2>1, <2>2, <3>1, <3>2, VersionTransitive
    <3>4. Compare(Releases[cache.release], w) \in {-1, 0, 1}
      BY <2>1, <3>1, VersionOrder
    <3> QED BY <3>3, <3>4 DEF Cached, Newer
  <2> QED BY <2>3, <2>4
<1> QED BY <1>1, Invariance, PTL
================================================================================
