----------------------------- MODULE AgentdProofs -----------------------------
(***************************************************************************)
(* Proofs about Agentd, for any targets, any finite set of requests and    *)
(* any number of slots.                                                    *)
(***************************************************************************)
EXTENDS Agentd, FiniteSetTheorems, TLAPS

--------------------------------------------------------------------------------
(* The inductive invariant *)

\* A target's lock has one holder.  NothingLeaks alone does not say so: the table is a set.
LockIsExclusive ==
  \A r, q \in Requests : HoldsLock(r) /\ HoldsLock(q) /\ Target[r] = Target[q] => r = q

\* What the status line says of the work: nothing before a slot is taken, or while a check
\* works, and 200 at the end only of work that gave a result.
StatusOfWork ==
  \A r \in Requests :
    /\ srv[r] \in {"none", "arrived", "locked"} => status[r] = None
    /\ srv[r] \in {"working", "stuck"} /\ Kind[r] = "check" => status[r] = None
    /\ status[r] = 500 => srv[r] \in {"emitted", "unslotted", "released", "returned", "dead"}
    /\ status[r] = 200 /\ Kind[r] = "check" => outcome[r] = "checked"
    /\ (status[r] = 200 /\ Kind[r] = "exec"
        /\ srv[r] \in {"emitted", "unslotted", "released", "returned"}) => outcome[r] \in Outcomes

\* A caller is answered by a handler that has returned, but for a check, which may be answered
\* or refused by a part of the body.
AnswersFollowReturn ==
  \A r \in Requests :
    /\ cli[r] = "result" => status[r] = 200 /\ (Kind[r] = "exec" => srv[r] = "returned")
    /\ cli[r] = "refused" => srv[r] = "returned" \/ status[r] = 500

Held == TypeOK /\ NothingLeaks /\ LockIsExclusive
IInv == Held /\ StatusOfWork /\ AnswersFollowReturn

--------------------------------------------------------------------------------
(* Steps of the handlers *)

\* Taking a slot below the limit stays within it, and giving one back keeps it there.
LEMMA SlotCount ==
  ASSUME NEW S \in SUBSET Requests, NEW r \in Requests
  PROVE  /\ Cardinality(S) < MaxConcurrent => Cardinality(S \union {r}) <= MaxConcurrent
         /\ Cardinality(S) <= MaxConcurrent => Cardinality(S \ {r}) <= MaxConcurrent
<1>1. IsFiniteSet(S)
  BY RequestsAssumption, FS_Subset
<1>2. Cardinality(S) \in Nat
  BY <1>1, FS_CardinalityType
<1>3. Cardinality(S \union {r}) \in {Cardinality(S), Cardinality(S) + 1}
  BY <1>1, FS_AddElement
<1>4. Cardinality(S \ {r}) \in {Cardinality(S), Cardinality(S) - 1}
  BY <1>1, FS_RemoveElement
<1> QED BY <1>2, <1>3, <1>4, MaxConcurrentAssumption

\* Every step of a handler keeps the accounting of locks and slots.
LEMMA HandlerStep == ASSUME Held, NEW r \in Requests,
                            Arrive(r) \/ Handle(r) \/ Stall(r) \/ Resume(r)
                     PROVE  Held'
<1> USE KindAssumption, TargetAssumption DEF Held, TypeOK, Goto, Write, Stages, Statuses
<1> USE DEF NothingLeaks, HoldsLock, HoldsSlot, LockIsExclusive
<1>1. ASSUME Arrive(r) \/ Refuse(r) \/ Conflict(r) \/ EndResponse(r) PROVE Held'
  <2>1. /\ UNCHANGED <<outcome, conn, cli, running, slots, agent>>
        /\ \E stage \in {"arrived", "returned"} : srv' = [srv EXCEPT ![r] = stage]
        /\ srv[r] \in {"none", "arrived", "released"}
        /\ status' \in [Requests -> Statuses \union {None}]
    BY <1>1 DEF Arrive, Refuse, Conflict, EndResponse
  <2>2. TypeOK'
    <3>1. srv' \in [Requests -> Stages]
      BY <2>1
    <3>2. TypeOK
      OBVIOUS
    <3> HIDE DEF Held, Stages, Statuses
    <3> QED BY <2>1, <3>1, <3>2
  <2>3. \A q \in Requests : /\ HoldsLock(q)' <=> HoldsLock(q)
                            /\ HoldsSlot(q)' <=> HoldsSlot(q)
    <3>1. srv \in [Requests -> Stages]
      OBVIOUS
    <3> HIDE DEF Held
    <3> QED BY <2>1, <3>1
  <2>4. NothingLeaks' /\ LockIsExclusive'
    <3>1. NothingLeaks /\ LockIsExclusive
      OBVIOUS
    <3>2. /\ {q \in Requests : HoldsLock(q)}' = {q \in Requests : HoldsLock(q)}
          /\ {q \in Requests : HoldsSlot(q)}' = {q \in Requests : HoldsSlot(q)}
      BY <2>3
    <3> HIDE DEF Held, HoldsLock, HoldsSlot
    <3> QED BY <2>1, <2>3, <3>1, <3>2
  <2> QED BY <2>2, <2>4
<1>2. ASSUME Acquire(r) PROVE Held'
  BY <1>2 DEF Acquire
<1>3. ASSUME TakeSlot(r) PROVE Held'
  BY <1>3, SlotCount DEF TakeSlot
<1>4. ASSUME NoSlot(r) PROVE Held'
  BY <1>4 DEF NoSlot
<1>5. ASSUME FinishExec(r) PROVE Held'
  BY <1>5 DEF FinishExec, Results
<1>6. ASSUME FinishCheck(r) PROVE Held'
  BY <1>6 DEF FinishCheck, Results
<1>7. ASSUME FreeSlot(r) PROVE Held'
  BY <1>7, SlotCount DEF FreeSlot
<1>8. ASSUME Release(r) PROVE Held'
  <2>1. TypeOK'
    BY <1>8 DEF Release
  <2>2. NothingLeaks'
    BY <1>8 DEF Release
  <2>3. LockIsExclusive'
    BY <1>8 DEF Release
  <2> QED BY <2>1, <2>2, <2>3
<1>9. ASSUME Stall(r) \/ Resume(r) PROVE Held'
  <2>1. TypeOK'
    <3>1. /\ srv' \in [Requests -> Stages]
          /\ UNCHANGED <<outcome, status, conn, cli, running, slots, agent>>
      BY <1>9 DEF Stall, Resume
    <3>2. TypeOK
      OBVIOUS
    <3> HIDE DEF Held, Stages, Statuses
    <3> QED BY <3>1, <3>2
  <2>2. \A q \in Requests : (HoldsLock(q)' <=> HoldsLock(q)) /\ (HoldsSlot(q)' <=> HoldsSlot(q))
    BY <1>9 DEF Stall, Resume
  <2>3. running' = running /\ slots' = slots
    BY <1>9 DEF Stall, Resume
  <2>4. NothingLeaks /\ LockIsExclusive
    OBVIOUS
  <2> HIDE DEF Held, HoldsLock, HoldsSlot
  <2> QED BY <2>1, <2>2, <2>3, <2>4 DEF Held
<1> QED BY <1>1, <1>2, <1>3, <1>4, <1>5, <1>6, <1>7, <1>8, <1>9 DEF Handle

\* Nor do the callers or the process itself disturb it.
LEMMA OtherStep == ASSUME Held, (\E r \in Requests : Call(r)) \/ Stop \/ Die \/ Restart
                   PROVE  Held'
<1> USE DEF Held, TypeOK, Conclude, NothingLeaks, HoldsLock, HoldsSlot, LockIsExclusive,
            Verdicts, Stages
<1>1. ASSUME NEW r \in Requests, Call(r) PROVE Held'
  <2>1. /\ UNCHANGED <<srv, outcome, status, running, slots, agent>>
        /\ cli' \in [Requests -> Verdicts] /\ conn' \in [Requests -> {"open", "cut"}]
    <3>1. \E verdict \in Verdicts : Conclude(r, verdict)
      BY <1>1 DEF Call, Receive, ReceivePrefix, GiveUp, LoseContact
    <3>2. cli' \in [Requests -> Verdicts]
      BY <3>1
    <3> QED BY <1>1, <3>2 DEF Call, Receive, ReceivePrefix, GiveUp, LoseContact
  <2> QED BY <2>1
<1>2. ASSUME Stop \/ Restart PROVE Held'
  BY <1>2 DEF Stop, Restart
<1>3. ASSUME Die PROVE Held'
  <2>1. Cardinality({}) = 0
    BY FS_EmptySet
  <2>2. \A r \in Requests : srv'[r] \in {"none", "returned", "dead"}
    BY <1>3 DEF Die, InFlight
  <2>3. TypeOK'
    BY <1>3, <2>1, MaxConcurrentAssumption DEF Die
  <2>4. NothingLeaks' /\ LockIsExclusive'
    BY <1>3, <2>2 DEF Die
  <2> QED BY <2>3, <2>4
<1> QED BY <1>1, <1>2, <1>3

\* Status lines, outcomes and verdicts follow each other at every step.
LEMMA AnswerStep == ASSUME TypeOK, StatusOfWork, AnswersFollowReturn, Next
                    PROVE  StatusOfWork' /\ AnswersFollowReturn'
<1> SUFFICES ASSUME NEW q \in Requests
             PROVE  StatusOfWork!(q)' /\ AnswersFollowReturn!(q)'
  BY DEF StatusOfWork, AnswersFollowReturn
<1>1. StatusOfWork!(q) /\ AnswersFollowReturn!(q)
  BY DEF StatusOfWork, AnswersFollowReturn
<1>2. /\ srv \in [Requests -> Stages] /\ cli \in [Requests -> Verdicts]
      /\ status \in [Requests -> Statuses \union {None}]
      /\ outcome \in [Requests -> Results \union {None}]
  BY DEF TypeOK
<1> USE NoneAssumption DEF Goto, Write, Conclude, Statuses, Results
<1>3. ASSUME NEW r \in Requests, Arrive(r) \/ Refuse(r) \/ Acquire(r) \/ Conflict(r)
      PROVE  StatusOfWork!(q)' /\ AnswersFollowReturn!(q)'
  BY <1>1, <1>2, <1>3 DEF Arrive, Refuse, Acquire, Conflict
<1>4. ASSUME NEW r \in Requests, TakeSlot(r) \/ NoSlot(r)
      PROVE  StatusOfWork!(q)' /\ AnswersFollowReturn!(q)'
  BY <1>1, <1>2, <1>4 DEF TakeSlot, NoSlot
<1>5. ASSUME NEW r \in Requests, FinishExec(r) \/ FinishCheck(r)
      PROVE  StatusOfWork!(q)' /\ AnswersFollowReturn!(q)'
  <2>1. CASE FinishExec(r)
    <3>1. PICK o \in Outcomes : outcome' = [outcome EXCEPT ![r] = o]
      BY <2>1 DEF FinishExec
    <3>2. /\ Kind[r] = "exec" /\ srv[r] = "working" /\ srv' = [srv EXCEPT ![r] = "emitted"]
          /\ UNCHANGED <<status, cli>>
      BY <2>1 DEF FinishExec
    <3>3. CASE q = r
      <4>1. srv'[q] = "emitted" /\ outcome'[q] = o
        BY <1>2, <3>1, <3>2, <3>3
      <4> QED BY <1>1, <3>2, <3>3, <4>1
    <3>4. CASE q # r
      BY <1>1, <1>2, <3>1, <3>2, <3>4
    <3> QED BY <3>3, <3>4
  <2>2. CASE FinishCheck(r)
    <3>1. /\ Kind[r] = "check" /\ srv[r] = "working" /\ srv' = [srv EXCEPT ![r] = "emitted"]
          /\ cli' = cli
      BY <2>2 DEF FinishCheck
    <3>2. \/ /\ outcome' = [outcome EXCEPT ![r] = "checked"]
             /\ status' = [status EXCEPT ![r] = 200]
          \/ status' = [status EXCEPT ![r] = 500]
      BY <2>2 DEF FinishCheck
    <3>3. \E o \in Results : outcome' = [outcome EXCEPT ![r] = o]
      BY <2>2 DEF FinishCheck
    <3>4. CASE q = r
      <4>1. /\ srv'[q] = "emitted"
            /\ (status'[q] = 200 /\ outcome'[q] = "checked") \/ status'[q] = 500
        BY <1>2, <3>1, <3>2, <3>4
      <4> QED BY <1>1, <3>1, <3>4, <4>1
    <3>5. CASE q # r
      BY <1>1, <1>2, <3>1, <3>2, <3>3, <3>5
    <3> QED BY <3>4, <3>5
  <2> QED BY <1>5, <2>1, <2>2
<1>6. ASSUME NEW r \in Requests,
             Stall(r) \/ Resume(r) \/ FreeSlot(r) \/ Release(r) \/ EndResponse(r)
      PROVE  StatusOfWork!(q)' /\ AnswersFollowReturn!(q)'
  BY <1>1, <1>2, <1>6 DEF Stall, Resume, FreeSlot, Release, EndResponse
<1>7. ASSUME NEW r \in Requests, Call(r)
      PROVE  StatusOfWork!(q)' /\ AnswersFollowReturn!(q)'
  BY <1>1, <1>2, <1>7 DEF Call, Receive, ReceivePrefix, GiveUp, LoseContact
<1>8. ASSUME Stop \/ Restart \/ Die
      PROVE  StatusOfWork!(q)' /\ AnswersFollowReturn!(q)'
  BY <1>1, <1>2, <1>8 DEF Stop, Restart, Die, InFlight
<1> QED BY <1>3, <1>4, <1>5, <1>6, <1>7, <1>8 DEF Next, Handle

\* The invariant holds of every reachable state of the agent and its callers.
THEOREM Invariance == Spec => []IInv
<1>1. Init => IInv
  <2> SUFFICES ASSUME Init PROVE IInv
    OBVIOUS
  <2>1. Cardinality({}) = 0
    BY FS_EmptySet
  <2>2. TypeOK
    BY <2>1, MaxConcurrentAssumption DEF Init, TypeOK, Stages, Verdicts
  <2>3. NothingLeaks /\ LockIsExclusive
    BY DEF Init, NothingLeaks, HoldsLock, HoldsSlot, LockIsExclusive
  <2>4. AnswersFollowReturn /\ StatusOfWork
    <3>1. None # 200 /\ None # 500
      BY NoneAssumption DEF Statuses
    <3>2. \A r \in Requests : srv[r] = "none" /\ status[r] = None /\ cli[r] = "none"
      BY DEF Init
    <3> QED BY <3>1, <3>2 DEF AnswersFollowReturn, StatusOfWork
  <2> QED BY <2>2, <2>3, <2>4 DEF IInv, Held
<1>2. IInv /\ [Next]_vars => IInv'
  <2> SUFFICES ASSUME IInv, [Next]_vars PROVE IInv'
    OBVIOUS
  <2>1. CASE UNCHANGED vars
    BY <2>1 DEF vars, IInv, Held, TypeOK, NothingLeaks, HoldsLock, HoldsSlot, LockIsExclusive,
                AnswersFollowReturn, StatusOfWork
  <2>2. CASE Next
    <3>1. Held'
      BY <2>2, HandlerStep, OtherStep DEF Next, IInv
    <3> QED BY <2>2, <3>1, AnswerStep DEF IInv, Held
  <2> QED BY <2>1, <2>2
<1> QED BY <1>1, <1>2, PTL DEF Spec

\* Every variable keeps its type, and never more than MaxConcurrent requests hold a slot.
THEOREM TypeCorrect == Spec => []TypeOK
<1>1. IInv => TypeOK
  BY DEF IInv, Held
<1> QED BY <1>1, Invariance, PTL

\* The lock table and the slots account for exactly the requests in progress.
THEOREM Accounting == Spec => []NothingLeaks
<1>1. IInv => NothingLeaks
  BY DEF IInv, Held
<1> QED BY <1>1, Invariance, PTL

\* A caller that has an update's result, or a refusal other than a failed check, leaves
\* nothing locked.
THEOREM AnsweredReleased == Spec => []AnsweredMeansReleased
<1>1. IInv => AnsweredMeansReleased
  BY DEF IInv, Held, AnswersFollowReturn, AnsweredMeansReleased, HoldsLock, HoldsSlot
<1> QED BY <1>1, Invariance, PTL

\* An update's result comes from work that ended and a handler that returned, never from a cut
\* stream, and a check's from a check that gave one.
THEOREM ResultsAreWhole == Spec => []ResultIsWhole
<1>1. IInv => ResultIsWhole
  BY KindAssumption DEF IInv, AnswersFollowReturn, StatusOfWork, ResultIsWhole
<1> QED BY <1>1, Invariance, PTL

--------------------------------------------------------------------------------
(* Refinement *)

\* The agent implements the promise of one update at a time per target, restarts included.
THEOREM Refinement == Spec => ImplementsExclusion
<1> DEFINE U == {<<Target[r], r>> : r \in {q \in Requests : HoldsLock(q)}}
           O == {r \in Requests : srv[r] \in {"released", "returned", "dead"}}
<1>1. Init => Exclusion!Init
  BY DEF Init, Exclusion!Init, HoldsLock
<1>2. IInv /\ IInv' /\ [Next]_vars => [Exclusion!Next]_(Exclusion!vars)
  <2> SUFFICES ASSUME IInv, IInv', [Next]_vars
               PROVE  Exclusion!Next \/ (U' = U /\ O' = O)
    BY DEF Exclusion!vars
  <2> USE TargetAssumption DEF IInv, Held, TypeOK, Goto, HoldsLock
  <2>1. ASSUME NEW r \in Requests, Acquire(r) PROVE Exclusion!Next
    <3>1. \A p \in U : p[1] # Target[r] /\ p[2] # r
      BY <2>1 DEF Acquire, NothingLeaks
    <3>2. U' = U \union {<<Target[r], r>>} /\ O' = O /\ r \notin O
      BY <2>1 DEF Acquire
    <3> QED BY <3>1, <3>2 DEF Exclusion!Next, Exclusion!Begin
  <2>2. ASSUME NEW r \in Requests, Release(r) PROVE Exclusion!Next
    <3>1. /\ <<Target[r], r>> \in U
          /\ U' = U \ {<<Target[r], r>>} /\ O' = O \union {r}
      BY <2>2 DEF Release
    <3> QED BY <3>1 DEF Exclusion!Next, Exclusion!End
  <2>3. ASSUME NEW r \in Requests, Refuse(r) \/ Conflict(r) PROVE Exclusion!Next
    <3>1. /\ \A p \in U : p[2] # r
          /\ U' = U /\ O' = O \union {r}
      BY <2>3 DEF Refuse, Conflict
    <3> QED BY <3>1 DEF Exclusion!Next, Exclusion!Refuse
  <2>4. ASSUME Die PROVE Exclusion!Next
    <3> DEFINE lost == {r \in Requests : InFlight(r)}
    <3>1. U' = {}
      BY <2>4 DEF Die, InFlight
    <3>2. O' = O \union lost
      BY <2>4 DEF Die, InFlight, Stages
    <3>3. {p[2] : p \in U} \subseteq lost
      BY DEF InFlight
    <3>4. lost \in SUBSET Requests /\ O' = O \union lost \union {p[2] : p \in U}
      BY <3>2, <3>3
    <3> HIDE DEF lost, U, O
    <3>5. Exclusion!Crash
      BY <3>1, <3>4 DEF Exclusion!Crash, U, O
    <3> QED BY <3>5 DEF Exclusion!Next
  <2>5. ASSUME NEW r \in Requests,
               Arrive(r) \/ TakeSlot(r) \/ NoSlot(r) \/ FinishExec(r) \/ FinishCheck(r)
               \/ Stall(r) \/ Resume(r) \/ FreeSlot(r) \/ EndResponse(r)
        PROVE  U' = U /\ O' = O
    <3>1. /\ \A q \in Requests : HoldsLock(q)' = HoldsLock(q)
          /\ \A q \in Requests : q \in O' <=> q \in O
      BY <2>5 DEF Arrive, TakeSlot, NoSlot, FinishExec, FinishCheck, Stall, Resume, FreeSlot,
                   EndResponse
    <3> QED BY <3>1
  <2>6. ASSUME srv' = srv PROVE U' = U /\ O' = O
    BY <2>6
  <2> QED
    BY <2>1, <2>2, <2>3, <2>4, <2>5, <2>6
    DEF Next, Handle, Call, Receive, ReceivePrefix, GiveUp, LoseContact, Stop,
        Restart, vars
<1> QED BY <1>1, <1>2, Invariance, PTL DEF Spec, ImplementsExclusion, Exclusion!Spec
================================================================================
