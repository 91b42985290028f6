------------------------------- MODULE ApiProofs -------------------------------
(***************************************************************************)
(* Proofs about Api, for any finite set of request goroutines, any         *)
(* requests, addresses and proxies, and any limits of the throttle.        *)
(***************************************************************************)
EXTENDS Api, FiniteSetTheorems, WellFoundedInduction, TLAPS

--------------------------------------------------------------------------------
(* The source of a request *)

\* A chain of hops has a last one with any property that some hop has.
LEMMA HasGreatest ==
  ASSUME NEW n \in Nat, NEW S \in SUBSET (1 .. n), S # {}
  PROVE  \E i \in S : \A j \in S : j <= i
<1> DEFINE T == {n - i : i \in S}
<1>1. T \subseteq Nat /\ T # {}
  <2>1. \A i \in S : i \in Nat /\ n - i \in Nat
    OBVIOUS
  <2> QED BY <2>1, Zenon
<1>2. PICK x \in T : \A y \in T : <<y, x>> \notin OpToRel(<, Nat)
  BY <1>1, NatLessThanWellFounded, WFMin
<1>3. PICK i \in S : x = n - i
  OBVIOUS
<1>4. ASSUME NEW j \in S PROVE j <= i
  <2>1. n - j \in T /\ n - j \in Nat /\ n - i \in Nat
    BY <1>1
  <2>2. ~(n - j < n - i)
    BY <1>2, <1>3, <2>1 DEF OpToRel
  <2> QED BY <2>2
<1> QED BY <1>4

\* Whatever a proxy reports, the throttle's key is an address or the shared "unknown".
LEMMA ClientIsHop == ASSUME NEW r \in Requests PROVE clientIP(r) \in Hops
<1>1. r \in RequestType
  BY RequestAssumption
<1>2. CASE r.peer \notin TrustedProxies \/ Forwarded(r) = {}
  BY <1>1, <1>2 DEF clientIP, RequestType
<1>3. CASE r.peer \in TrustedProxies /\ Forwarded(r) # {}
  <2>1. Len(r.chain) \in Nat /\ Forwarded(r) \in SUBSET (1 .. Len(r.chain))
    BY <1>1 DEF RequestType, Forwarded
  <2>2. Nearest(Forwarded(r)) \in Forwarded(r)
    BY <1>3, <2>1, HasGreatest DEF Nearest
  <2>3. r.chain[Nearest(Forwarded(r))] \in Addresses
    BY <2>2 DEF Forwarded
  <2> QED BY <1>3, <2>3 DEF clientIP, Hops
<1> QED BY <1>2, <1>3

--------------------------------------------------------------------------------
(* The inductive invariant *)

\* An entry counts only failures of its own source since its window began.
Backed ==
  \A k \in DOMAIN entries :
    /\ entries[k].windowStart <= now
    /\ \A i \in 1 .. MaxFailures :
         i <= entries[k].failures => since[k][i] <= now - entries[k].windowStart

\* What a request past `allow` may still add is part of the bound on the count.
FlightBounded ==
  \A k \in Live :
    entries[k].failures + Cardinality(InFlight(k)) < MaxFailures + Cardinality(Handlers)

IInv == TypeOK /\ IsFiniteSet(DOMAIN entries) /\ Backed /\ FlightBounded

\* A count at the limit is the source's own, within the window.
LEMMA BackedCounts ==
  ASSUME TypeOK, Backed, NEW k \in Live, entries[k].failures >= MaxFailures
  PROVE  since[k][MaxFailures] <= Window
BY ThrottleAssumption DEF TypeOK, Backed, Live, Over, EntryType, Ages

--------------------------------------------------------------------------------
(* The table *)

\* Room keeps old entries as they are, below the limit, and drops entries that still
\* count only when all of them do.
LEMMA RoomIsMade ==
  ASSUME IInv
  PROVE  /\ Room \subseteq DOMAIN entries /\ IsFiniteSet(Room)
         /\ Cardinality(Room) < MaxKeys
         /\ Live \subseteq Room \/ Cardinality(Live) = MaxKeys
<1> USE DEF IInv, TypeOK
<1>1. IsFiniteSet({}) /\ Cardinality({}) = 0
  BY FS_EmptySet
<1>2. /\ Live \subseteq DOMAIN entries /\ IsFiniteSet(Live)
      /\ Cardinality(Live) <= Cardinality(DOMAIN entries)
  <2>1. Live \subseteq DOMAIN entries
    BY DEF Live
  <2> QED BY <2>1, FS_Subset
<1>3. Cardinality(Live) \in Nat /\ Cardinality(DOMAIN entries) \in Nat
  BY <1>2, FS_CardinalityType
<1>4. CASE Cardinality(DOMAIN entries) < MaxKeys
  BY <1>2, <1>4 DEF Room
<1>5. CASE ~(Cardinality(DOMAIN entries) < MaxKeys) /\ Cardinality(Live) < MaxKeys
  BY <1>2, <1>5 DEF Room
<1>6. CASE ~(Cardinality(DOMAIN entries) < MaxKeys) /\ ~(Cardinality(Live) < MaxKeys)
  <2>1. Room = {}
    BY <1>6 DEF Room
  <2>2. Cardinality(Live) = MaxKeys
    BY <1>2, <1>3, <1>6, ThrottleAssumption
  <2> QED BY <1>1, <2>1, <2>2, ThrottleAssumption
<1> QED BY <1>4, <1>5, <1>6

\* entry() leaves a bounded table, in which the key has a live entry or a fresh one.
LEMMA TableIsSound ==
  ASSUME IInv, NEW k \in Hops
  PROVE  /\ k \in DOMAIN Table(k) /\ DOMAIN Table(k) \subseteq DOMAIN entries \union {k}
         /\ IsFiniteSet(DOMAIN Table(k)) /\ Cardinality(DOMAIN Table(k)) <= MaxKeys
         /\ \A x \in DOMAIN Table(k) \ {k} : x \in DOMAIN entries /\ Table(k)[x] = entries[x]
         /\ Table(k)[k] = Fresh \/ (k \in Live /\ Table(k)[k] = entries[k])
         /\ k \in Live => Table(k)[k] = entries[k]
         /\ \A x \in Live : x \in DOMAIN Table(k) \/ Cardinality(Live) = MaxKeys
<1> DEFINE kept == IF k \in DOMAIN entries THEN DOMAIN entries ELSE Room
<1>1. /\ Room \subseteq DOMAIN entries /\ IsFiniteSet(Room)
      /\ Cardinality(Room) < MaxKeys
      /\ Live \subseteq Room \/ Cardinality(Live) = MaxKeys
  BY RoomIsMade
<1>2. DOMAIN Table(k) = kept \union {k}
  BY DEF Table
<1>3. /\ kept \subseteq DOMAIN entries
      /\ Live \subseteq kept \/ Cardinality(Live) = MaxKeys
  BY <1>1 DEF Live
<1>4. IsFiniteSet(kept \union {k}) /\ Cardinality(kept \union {k}) <= MaxKeys
  <2>1. CASE k \in DOMAIN entries
    <3>1. kept \union {k} = DOMAIN entries
      BY <2>1
    <3> QED BY <3>1 DEF IInv, TypeOK
  <2>2. CASE k \notin DOMAIN entries
    <3>1. kept = Room /\ k \notin Room
      BY <1>1, <2>2
    <3>2. Cardinality(Room) \in Nat
      BY <1>1, FS_CardinalityType
    <3>3. /\ IsFiniteSet(Room \union {k})
          /\ Cardinality(Room \union {k}) = Cardinality(Room) + 1
      BY <1>1, <3>1, FS_AddElement
    <3> QED BY <1>1, <3>1, <3>2, <3>3, ThrottleAssumption
  <2> QED BY <2>1, <2>2
<1>5. \A x \in DOMAIN Table(k) :
        Table(k)[x] = IF x # k THEN entries[x]
                      ELSE IF k \in DOMAIN entries /\ ~Over(entries[k]) THEN entries[k]
                      ELSE Fresh
  BY DEF Table
<1>6. k \in Live <=> k \in DOMAIN entries /\ ~Over(entries[k])
  BY DEF Live
<1> QED BY <1>2, <1>3, <1>4, <1>5, <1>6

--------------------------------------------------------------------------------
(* Steps *)

\* Requests in flight are at most the goroutines there are.
LEMMA Flights ==
  ASSUME NEW S \in SUBSET Handlers, NEW T \in SUBSET S
  PROVE  /\ IsFiniteSet(S) /\ IsFiniteSet(T)
         /\ Cardinality(Handlers) \in Nat /\ Cardinality(S) \in Nat /\ Cardinality(T) \in Nat
         /\ Cardinality(T) <= Cardinality(S) /\ Cardinality(S) <= Cardinality(Handlers)
<1>1. IsFiniteSet(S) /\ Cardinality(S) <= Cardinality(Handlers)
  BY HandlersAssumption, FS_Subset
<1>2. IsFiniteSet(T) /\ Cardinality(T) <= Cardinality(S)
  BY <1>1, FS_Subset
<1> QED BY <1>1, <1>2, HandlersAssumption, FS_CardinalityType

\* A step that leaves the table alone and puts no request in flight keeps the bound.
LEMMA QuietStep ==
  ASSUME IInv, NEW h \in Handlers, Arrive(h) \/ Authenticate(h)
  PROVE  IInv'
<1> USE DEF IInv
<1>1. TypeOK'
  <2>1. entries' = entries /\ now' = now /\ since' = since
    BY DEF Arrive, Authenticate
  <2>2. /\ pc' \in [Handlers -> {"idle", "allow", "authenticate", "fail"}]
        /\ req' \in [Handlers -> Requests \union {NoRequest}]
        /\ \A g \in Handlers : pc'[g] = "idle" <=> req'[g] = NoRequest
    BY RequestAssumption DEF TypeOK, Arrive, Authenticate, Answer, Goes
  <2> QED BY <2>1, <2>2 DEF TypeOK
<1>2. UNCHANGED <<entries, now, since>> /\ Live' = Live
  BY DEF Arrive, Authenticate, Live, Over
<1>3. ASSUME NEW k \in Live
      PROVE  entries[k].failures + Cardinality(InFlight(k)') < MaxFailures + Cardinality(Handlers)
  <2>1. InFlight(k) \subseteq Handlers /\ InFlight(k)' \subseteq InFlight(k)
    BY DEF TypeOK, InFlight, Arrive, Authenticate, Answer, Goes
  <2>2. entries[k].failures \in Nat
    BY DEF TypeOK, Live, EntryType
  <2>3. entries[k].failures + Cardinality(InFlight(k)) < MaxFailures + Cardinality(Handlers)
    BY DEF FlightBounded
  <2> QED BY <2>1, <2>2, <2>3, Flights, ThrottleAssumption
<1>4. FlightBounded'
  BY <1>2, <1>3 DEF FlightBounded
<1> QED BY <1>1, <1>2, <1>4 DEF Backed

\* What allow() and fail() start from: the table entry() returns for the key.
LEMMA AllowStep == ASSUME IInv, NEW h \in Handlers, Allow(h) PROVE IInv'
<1> USE DEF IInv
<1> DEFINE k == throttleKey(req[h])
<1>1. k \in Hops
  BY ClientIsHop DEF TypeOK, Allow, throttleKey
<1>2. entries' = Table(k) /\ UNCHANGED <<now, since>>
  BY DEF Allow
<1>3. /\ k \in DOMAIN entries' /\ DOMAIN entries' \subseteq DOMAIN entries \union {k}
      /\ IsFiniteSet(DOMAIN entries') /\ Cardinality(DOMAIN entries') <= MaxKeys
      /\ \A x \in DOMAIN entries' \ {k} : x \in DOMAIN entries /\ entries'[x] = entries[x]
      /\ entries'[k] = Fresh \/ (k \in Live /\ entries'[k] = entries[k])
  BY <1>1, <1>2, TableIsSound
<1> HIDE DEF k
<1>4. TypeOK'
  <2>1. Fresh \in EntryType
    BY DEF TypeOK, Fresh, EntryType
  <2>2. \A x \in DOMAIN entries' : entries'[x] \in EntryType
    BY <1>3, <2>1 DEF TypeOK, Live
  <2>3. /\ pc' \in [Handlers -> {"idle", "allow", "authenticate", "fail"}]
        /\ req' \in [Handlers -> Requests \union {NoRequest}]
        /\ \A g \in Handlers : pc'[g] = "idle" <=> req'[g] = NoRequest
    BY RequestAssumption DEF TypeOK, Allow, Answer, Goes
  <2> QED BY <1>1, <1>2, <1>3, <2>2, <2>3 DEF TypeOK
<1>5. Backed'
  <2>1. Fresh.failures = 0 /\ Fresh.windowStart = now
    BY DEF Fresh
  <2>2. now \in Nat
    BY ThrottleAssumption DEF TypeOK
  <2> QED BY <1>2, <1>3, <2>1, <2>2, ThrottleAssumption DEF Backed, Live
<1>6. ASSUME NEW x \in Live'
      PROVE  entries'[x].failures + Cardinality(InFlight(x)') < MaxFailures + Cardinality(Handlers)
  <2>1. InFlight(x)' \subseteq Handlers /\ InFlight(x) \subseteq Handlers
    BY DEF InFlight
  <2>2. x \in DOMAIN entries' /\ entries'[x].failures \in Nat
    BY <1>4 DEF TypeOK, Live, EntryType
  <2>3. CASE x # k
    <3>1. x \in Live /\ entries'[x] = entries[x]
      BY <1>2, <1>3, <2>2, <2>3 DEF Live, Over
    <3>2. InFlight(x)' \subseteq InFlight(x)
      BY <2>3 DEF k, TypeOK, InFlight, Allow, Answer, Goes
    <3> QED BY <2>1, <2>2, <3>1, <3>2, Flights, ThrottleAssumption DEF FlightBounded
  <2>4. CASE x = k /\ entries'[k].failures < MaxFailures
    BY <2>1, <2>2, <2>4, Flights, ThrottleAssumption
  <2>5. CASE x = k /\ ~(entries'[k].failures < MaxFailures)
    <3>1. k \in Live /\ entries'[k] = entries[k]
      BY <1>3, <2>5, ThrottleAssumption DEF Fresh
    <3>2. InFlight(x)' \subseteq InFlight(x)
      BY <2>5 DEF k, TypeOK, InFlight, Allow, Answer
    <3> QED BY <2>1, <2>2, <2>5, <3>1, <3>2, Flights, ThrottleAssumption DEF FlightBounded
  <2> QED BY <2>3, <2>4, <2>5
<1> QED BY <1>3, <1>4, <1>5, <1>6 DEF FlightBounded

\* fail() adds one to the count as its request leaves the flight.
LEMMA FailStep == ASSUME IInv, NEW h \in Handlers, Fail(h) PROVE IInv'
<1> USE DEF IInv
<1> DEFINE k == throttleKey(req[h])
           T == Table(k)
<1>1. k \in Hops /\ k = clientIP(req[h])
  BY ClientIsHop DEF TypeOK, Fail, throttleKey
<1>2. /\ k \in DOMAIN T /\ DOMAIN T \subseteq DOMAIN entries \union {k}
      /\ IsFiniteSet(DOMAIN T) /\ Cardinality(DOMAIN T) <= MaxKeys
      /\ \A x \in DOMAIN T \ {k} : x \in DOMAIN entries /\ T[x] = entries[x]
      /\ T[k] = Fresh \/ (k \in Live /\ T[k] = entries[k])
  BY <1>1, TableIsSound
<1>3. /\ entries' = [T EXCEPT ![k].failures = @ + 1]
      /\ since' = [since EXCEPT ![k] = AnotherFailure(@)]
      /\ now' = now
  BY <1>1 DEF Fail
<1> HIDE DEF k, T
<1>4. T[k] \in EntryType /\ T[k].windowStart <= now
  BY <1>2, ThrottleAssumption DEF TypeOK, Fresh, EntryType, Backed, Live
<1>5. /\ DOMAIN entries' = DOMAIN T
      /\ \A x \in DOMAIN T \ {k} : entries'[x] = entries[x]
      /\ entries'[k] \in EntryType
      /\ entries'[k].failures = T[k].failures + 1 /\ entries'[k].windowStart = T[k].windowStart
  BY <1>2, <1>3, <1>4 DEF EntryType
<1>6. /\ since' \in [Hops -> [1 .. MaxFailures -> Ages]]
      /\ \A x \in Hops \ {k} : since'[x] = since[x]
      /\ \A i \in 1 .. MaxFailures : since'[k][i] = IF i = 1 THEN 0 ELSE since[k][i - 1]
  <2>1. since[k] \in [1 .. MaxFailures -> Ages]
    BY <1>1 DEF TypeOK
  <2>2. /\ AnotherFailure(since[k]) \in [1 .. MaxFailures -> Ages]
        /\ \A i \in 1 .. MaxFailures :
             AnotherFailure(since[k])[i] = IF i = 1 THEN 0 ELSE since[k][i - 1]
    BY <2>1, ThrottleAssumption DEF AnotherFailure, Ages
  <2>3. since' = [since EXCEPT ![k] = AnotherFailure(since[k])]
    BY <1>3
  <2> HIDE DEF AnotherFailure
  <2> QED BY <1>1, <2>2, <2>3 DEF TypeOK
<1>7. TypeOK'
  <2>1. \A x \in DOMAIN entries' : entries'[x] \in EntryType
    BY <1>2, <1>5 DEF TypeOK
  <2>2. /\ pc' \in [Handlers -> {"idle", "allow", "authenticate", "fail"}]
        /\ req' \in [Handlers -> Requests \union {NoRequest}]
        /\ \A g \in Handlers : pc'[g] = "idle" <=> req'[g] = NoRequest
    BY RequestAssumption DEF TypeOK, Fail, Answer
  <2> QED BY <1>1, <1>2, <1>3, <1>5, <1>6, <2>1, <2>2 DEF TypeOK
<1>8. Backed'
  <2>1. ASSUME NEW x \in DOMAIN entries', x # k
        PROVE  /\ entries'[x].windowStart <= now
               /\ \A i \in 1 .. MaxFailures :
                    i <= entries'[x].failures => since'[x][i] <= now - entries'[x].windowStart
    BY <1>2, <1>5, <1>6, <2>1 DEF TypeOK, Backed
  <2>2. ASSUME NEW i \in 1 .. MaxFailures, i <= entries'[k].failures
        PROVE  since'[k][i] <= now - entries'[k].windowStart
    <3>1. CASE i = 1
      <4>1. T[k].windowStart \in Nat /\ now \in Nat
        BY <1>4, ThrottleAssumption DEF EntryType, TypeOK
      <4> QED BY <1>4, <1>5, <1>6, <3>1, <4>1
    <3>2. CASE i # 1
      <4>1. i - 1 \in 1 .. MaxFailures /\ i - 1 <= T[k].failures
        BY <1>4, <1>5, <2>2, <3>2, ThrottleAssumption DEF EntryType
      <4>2. T[k] # Fresh
        BY <1>4, <4>1 DEF Fresh
      <4> QED BY <1>2, <1>5, <1>6, <3>2, <4>1, <4>2 DEF Backed, Live
    <3> QED BY <3>1, <3>2
  <2> QED BY <1>3, <1>4, <1>5, <2>1, <2>2 DEF Backed
<1>9. ASSUME NEW x \in Live'
      PROVE  entries'[x].failures + Cardinality(InFlight(x)') < MaxFailures + Cardinality(Handlers)
  <2>1. InFlight(x)' \subseteq Handlers /\ InFlight(x) \subseteq Handlers
    BY DEF InFlight
  <2>2. x \in DOMAIN entries' /\ entries'[x].failures \in Nat
    BY <1>7 DEF TypeOK, Live, EntryType
  <2>3. CASE x # k
    <3>1. x \in Live /\ entries'[x] = entries[x]
      BY <1>2, <1>3, <1>5, <2>2, <2>3 DEF Live, Over
    <3>2. InFlight(x)' \subseteq InFlight(x)
      BY DEF TypeOK, InFlight, Fail, Answer
    <3> QED BY <2>1, <2>2, <3>1, <3>2, Flights, ThrottleAssumption DEF FlightBounded
  <2>4. CASE x = k
    <3>1. InFlight(x)' = InFlight(x) \ {h} /\ h \in InFlight(x)
      BY <2>4 DEF k, TypeOK, InFlight, Fail, Answer
    <3>2. Cardinality(InFlight(x)') = Cardinality(InFlight(x)) - 1
      BY <2>1, <3>1, Flights, FS_RemoveElement
    <3>3. /\ Cardinality(InFlight(x)) \in Nat /\ Cardinality(Handlers) \in Nat
          /\ Cardinality(InFlight(x)) <= Cardinality(Handlers)
      BY <2>1, Flights
    <3>4. CASE T[k] = Fresh
      BY <1>5, <2>4, <3>2, <3>3, <3>4, ThrottleAssumption DEF Fresh
    <3>5. CASE k \in Live /\ T[k] = entries[k]
      BY <1>4, <1>5, <2>4, <3>2, <3>3, <3>5, ThrottleAssumption DEF FlightBounded, EntryType
    <3> QED BY <1>2, <3>4, <3>5
  <2> QED BY <2>3, <2>4
<1> QED BY <1>2, <1>5, <1>7, <1>8, <1>9 DEF FlightBounded

\* Time only makes entries and failures older, together.
LEMMA TickStep == ASSUME IInv, Tick PROVE IInv'
<1> USE ThrottleAssumption DEF IInv, Tick
<1>1. \A k \in Hops : \A i \in 1 .. MaxFailures :
        /\ since'[k][i] = Older(since[k][i]) /\ Older(since[k][i]) \in Ages
        /\ Older(since[k][i]) <= since[k][i] + 1
  BY DEF TypeOK, Older, Ages
<1>2. TypeOK'
  <2>1. since' \in [Hops -> [1 .. MaxFailures -> Ages]]
    BY <1>1
  <2>2. now' \in 0 .. MaxTime /\ UNCHANGED <<entries, pc, req>>
    BY DEF TypeOK
  <2> HIDE DEF Tick
  <2> QED BY <2>1, <2>2 DEF TypeOK, EntryType
<1>3. Backed'
  BY <1>1 DEF TypeOK, Backed, EntryType, Ages
<1>4. FlightBounded'
  <2>1. \A k : InFlight(k)' = InFlight(k)
    BY DEF InFlight
  <2>2. \A k \in Live' : k \in Live /\ entries'[k] = entries[k]
    BY DEF TypeOK, EntryType, Live, Over
  <2> QED BY <2>1, <2>2 DEF FlightBounded
<1> QED BY <1>2, <1>3, <1>4

\* The invariant holds of every reachable state of the throttle and its requests.
THEOREM Invariance == Spec => []IInv
<1>1. Init => IInv
  <2> SUFFICES ASSUME Init PROVE IInv
    OBVIOUS
  <2>1. DOMAIN entries = {}
    BY DEF Init
  <2>2. IsFiniteSet(DOMAIN entries) /\ Cardinality(DOMAIN entries) = 0
    BY <2>1, FS_EmptySet
  <2>3. TypeOK
    BY <2>1, <2>2, ThrottleAssumption, RequestAssumption DEF Init, TypeOK, Ages
  <2> QED BY <2>1, <2>2, <2>3 DEF IInv, Backed, FlightBounded, Live
<1>2. IInv /\ [Next]_vars => IInv'
  <2>1. ASSUME IInv, UNCHANGED vars PROVE IInv'
    <3>1. \A k : InFlight(k)' = InFlight(k)
      BY <2>1 DEF vars, InFlight
    <3> QED BY <2>1, <3>1 DEF vars, IInv, TypeOK, Backed, FlightBounded, Live, Over
  <2> QED BY <2>1, QuietStep, AllowStep, FailStep, TickStep DEF Next
<1> QED BY <1>1, <1>2, PTL DEF Spec

\* The table stays within maxThrottleKeys, and its keys are addresses or "unknown".
THEOREM TypeCorrect == Spec => []TypeOK
<1>1. IInv => TypeOK
  BY DEF IInv
<1> QED BY <1>1, Invariance, PTL

\* A source is turned away only for its own recent failures, and its count passes the
\* limit by fewer than the other goroutines (authThrottle, with allow and fail apart).
THEOREM CountsAreRight == Spec => []CountIsRight
<1>1. IInv => CountIsRight
  BY BackedCounts DEF IInv, FlightBounded, CountIsRight
<1> QED BY <1>1, Invariance, PTL

\* Only a full table of failures that all count makes the throttle forget one.
THEOREM BudgetsAreKept == Spec => BudgetKept
<1> DEFINE Kept(k) == \/ k \in DOMAIN entries' /\ entries'[k].failures >= entries[k].failures
                      \/ Cardinality(Live) = MaxKeys
<1>1. ASSUME IInv, [Next]_vars, NEW k \in Live PROVE Kept(k)
  <2>1. k \in DOMAIN entries /\ entries[k].failures \in Nat
    BY <1>1 DEF IInv, TypeOK, Live, EntryType
  <2>2. CASE entries' = entries
    BY <2>1, <2>2
  <2>3. ASSUME NEW c \in Hops, entries' = Table(c) PROVE Kept(k)
    BY <1>1, <2>1, <2>3, TableIsSound
  <2>4. ASSUME NEW h \in Handlers, Allow(h) PROVE Kept(k)
    <3>1. throttleKey(req[h]) \in Hops /\ entries' = Table(throttleKey(req[h]))
      BY <1>1, <2>4, ClientIsHop DEF IInv, TypeOK, Allow, throttleKey
    <3> QED BY <2>3, <3>1
  <2>5. ASSUME NEW h \in Handlers, Fail(h) PROVE Kept(k)
    <3> DEFINE c == throttleKey(req[h])
    <3>1. c \in Hops /\ entries' = [Table(c) EXCEPT ![c].failures = @ + 1]
      BY <1>1, <2>5, ClientIsHop DEF IInv, TypeOK, Fail, throttleKey
    <3> HIDE DEF c
    <3>2. /\ k \in DOMAIN Table(c) \/ Cardinality(Live) = MaxKeys
          /\ k # c /\ k \in DOMAIN Table(c) => Table(c)[k] = entries[k]
          /\ k = c => Table(c)[k] = entries[k]
      BY <1>1, <3>1, TableIsSound
    <3>3. entries[k] \in EntryType
      BY <1>1, <2>1 DEF IInv, TypeOK
    <3> QED BY <2>1, <3>1, <3>2, <3>3 DEF EntryType
  <2>6. entries' = entries \/ \E h \in Handlers : Allow(h) \/ Fail(h)
    BY <1>1 DEF Next, vars, Tick, Arrive, Authenticate
  <2> QED BY <2>2, <2>4, <2>5, <2>6
<1>2. IInv /\ [Next]_vars => [\A k \in Live : Kept(k)]_vars
  BY <1>1
<1> QED BY <1>2, Invariance, PTL DEF Spec, BudgetKept
================================================================================
