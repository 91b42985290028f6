---------------------------- MODULE JobStoreProofs ----------------------------
(***************************************************************************)
(* Proofs about JobStore, for any number of targets, jobs, handlers and    *)
(* tickers and any history length.                                         *)
(***************************************************************************)
EXTENDS JobStore, SequenceTheorems, TLAPS

--------------------------------------------------------------------------------
(* The inductive invariant *)

\* From Begin until the deletion in Complete.
Holding == {"update", "close", "free"}

\* A job that holds its target is the one the running map names.
HoldersAgree ==
  \A j \in Jobs : pc[j] \in Holding => target[j] \in Targets /\ running[target[j]] = j

\* The published state follows the run goroutine.
StateFollowsRun ==
  \A j \in Jobs : /\ pc[j] = "none" <=> state[j] = "unborn"
                  /\ pc[j] = "update" => state[j] = "running"
                  /\ pc[j] \in {"close", "free", "record", "end"} => state[j] \in Terminal

\* The done channel is closed by the goroutine, after the state is final.
DoneFollowsRun == \A j \in done : pc[j] \in {"free", "record", "end"}

\* A "finished" answer names a job whose channel is closed, with the state it keeps.
AnswersNameDoneJobs ==
  \A h \in Handlers : answer[h].kind = "finished" =>
     answer[h].job \in done /\ answer[h].state = state[answer[h].job]

\* Only the last step can be running, and none once the job has ended.
OnlyLastRuns(log) == \A i \in 1 .. Len(log) : log[i] = "running" => i = Len(log)
NoneRuns(log) == \A i \in 1 .. Len(log) : log[i] # "running"
LogsClean == \A j \in Jobs : /\ OnlyLastRuns(steps[j])
                             /\ state[j] \in Terminal => NoneRuns(steps[j])

\* Once HTTP shutdown has returned within its budget no handler is active.
HandlersGone == phase \in {"drain", "waiting", "drained"} /\ ~timedOut =>
                   \A h \in Handlers : caller[h] = "idle"

\* After a drain within its budget only a late tick can have an update in progress.
DrainComplete == phase \in {"drained", "exit"} /\ ~timedOut =>
                    \A j \in Jobs : pc[j] = "update" => starter[j] \in Tickers

IInv == /\ TypeOK /\ HoldersAgree /\ StateFollowsRun /\ DoneFollowsRun
        /\ AnswersNameDoneJobs /\ LogsClean /\ HandlersGone /\ DrainComplete

--------------------------------------------------------------------------------
(* Lemmas about the operators of the store and of the step log *)

\* Begin keeps at most History ids, all of them ids it was given.
LEMMA KeptIsBounded ==
  ASSUME NEW o \in Seq(Jobs)
  PROVE  Kept(o) \in Seq(Jobs) /\ Len(Kept(o)) <= History
<1> USE HistoryAssumption
<1>1. CASE Len(o) > History
  <2> DEFINE m == Len(o) - History + 1
  <2>1. m \in 1 .. Len(o) + 1 /\ Len(o) \in m - 1 .. Len(o) /\ Len(o) \in Nat
    BY <1>1
  <2>2. SubSeq(o, m, Len(o)) \in Seq(Jobs) /\ Len(SubSeq(o, m, Len(o))) = Len(o) - m + 1
    BY <2>1, SubSeqProperties
  <2> QED BY <1>1, <2>1, <2>2 DEF Kept
<1>2. CASE ~(Len(o) > History)
  BY <1>2 DEF Kept
<1> QED BY <1>1, <1>2

\* StartStep on a log without a placeholder adds the only running step.
LEMMA StartedLog ==
  ASSUME NEW log \in Seq(StepStates), OnlyLastRuns(log), ~Placeholder(log)
  PROVE  Started(log) \in Seq(StepStates) /\ OnlyLastRuns(Started(log))
  BY DEF Started, OnlyLastRuns, Placeholder, StepStates

\* AddStep leaves no running step behind.
LEMMA AddedLog ==
  ASSUME NEW log \in Seq(StepStates), OnlyLastRuns(log)
  PROVE  Added(log) \in Seq(StepStates) /\ OnlyLastRuns(Added(log))
<1>1. CASE Placeholder(log)
  BY <1>1 DEF Added, OnlyLastRuns, Placeholder, StepStates
<1>2. CASE ~Placeholder(log)
  BY <1>2 DEF Added, OnlyLastRuns, Placeholder, StepStates
<1> QED BY <1>1, <1>2

\* finish() leaves no running step.
LEMMA ClosedLog ==
  ASSUME NEW log \in Seq(StepStates), OnlyLastRuns(log)
  PROVE  Closed(log) \in Seq(StepStates) /\ OnlyLastRuns(Closed(log)) /\ NoneRuns(Closed(log))
<1>1. CASE Placeholder(log)
  BY <1>1 DEF Closed, OnlyLastRuns, NoneRuns, Placeholder, StepStates
<1>2. CASE ~Placeholder(log)
  BY <1>2 DEF Closed, OnlyLastRuns, NoneRuns, Placeholder, StepStates
<1> QED BY <1>1, <1>2

--------------------------------------------------------------------------------
(* Type correctness *)

\* A successful Begin keeps the store and the job table well typed.
LEMMA BeginType ==
  ASSUME TypeOK, NEW c \in Callers, NEW t \in Targets, NEW j \in Jobs, Begin(c, t, j)
  PROVE  /\ jobs' \in SUBSET Jobs
         /\ order' \in Seq(Jobs) /\ Len(order') <= History
         /\ running' \in [Targets -> Jobs \union {None}]
         /\ state' \in [Jobs -> States \union {"unborn"}]
         /\ target' \in [Jobs -> Targets \union {None}]
         /\ starter' \in [Jobs -> Callers \union {None}]
         /\ pc' \in [Jobs -> RunPCs]
         /\ steps' = steps /\ done' = done
<1>1. Append(order, j) \in Seq(Jobs)
  BY DEF TypeOK
<1>2. order' \in Seq(Jobs) /\ Len(order') <= History
  BY <1>1, KeptIsBounded DEF Begin
<1> QED BY <1>2 DEF Begin, TypeOK, States, RunPCs

\* Every step of the process keeps every variable in its type.
LEMMA TypeStep == IInv /\ [Next]_vars => TypeOK'
<1> SUFFICES ASSUME IInv, [Next]_vars
             PROVE  TypeOK'
  OBVIOUS
<1> USE DEF IInv, TypeOK, Callers, States, RunPCs, Phases, Answers, Respond,
            jobVars, storeVars, callVars, shutVars
<1>1. ASSUME NEW j \in Jobs, StartStep(j) PROVE TypeOK'
  BY <1>1, StartedLog DEF StartStep, LogsClean
<1>2. ASSUME NEW j \in Jobs, AddStep(j) PROVE TypeOK'
  BY <1>2, AddedLog DEF AddStep, LogsClean
<1>3. ASSUME NEW j \in Jobs, NEW s \in Outcomes, Finish(j, s) PROVE TypeOK'
  BY <1>3, ClosedLog, OutcomesAssumption DEF Finish, LogsClean
<1>4. ASSUME NEW j \in Jobs, CloseDone(j) PROVE TypeOK'
  BY <1>4 DEF CloseDone
<1>5. ASSUME NEW j \in Jobs, Free(j) PROVE TypeOK'
  BY <1>5 DEF Free
<1>6. ASSUME NEW j \in Jobs, Record(j) PROVE TypeOK'
  BY <1>6 DEF Record
<1>7. ASSUME NEW c \in Callers, Accept(c) PROVE TypeOK'
  BY <1>7 DEF Accept
<1>8. ASSUME NEW h \in Handlers, NEW t \in Targets, StartBusy(h, t) PROVE TypeOK'
  BY <1>8 DEF StartBusy
<1>9. ASSUME NEW h \in Handlers, NEW t \in Targets, NEW j \in Jobs, StartNoWait(h, t, j) PROVE TypeOK'
  BY <1>9, BeginType DEF StartNoWait
<1>10. ASSUME NEW h \in Handlers, NEW t \in Targets, NEW j \in Jobs, StartAndWait(h, t, j) PROVE TypeOK'
  BY <1>10, BeginType DEF StartAndWait
<1>11. ASSUME NEW h \in Handlers, WaitDone(h) PROVE TypeOK'
  <2>1. awaits[h] \in Jobs /\ state[awaits[h]] \in States
    BY <1>11 DEF WaitDone, DoneFollowsRun, StateFollowsRun
  <2> QED BY <1>11, <2>1 DEF WaitDone
<1>12. ASSUME NEW h \in Handlers, WaitTimeout(h) PROVE TypeOK'
  BY <1>12 DEF WaitTimeout
<1>13. ASSUME NEW h \in Handlers, ClientGone(h) PROVE TypeOK'
  BY <1>13 DEF ClientGone
<1>14. ASSUME NEW s \in Tickers, NEW t \in Targets, NEW j \in Jobs, TickStart(s, t, j) PROVE TypeOK'
  BY <1>14, BeginType DEF TickStart
<1>15. ASSUME NEW s \in Tickers, NEW t \in Targets, TickBusy(s, t) PROVE TypeOK'
  BY <1>15 DEF TickBusy
<1>16. ASSUME Signal \/ ServeFails PROVE TypeOK'
  BY <1>16 DEF Signal, ServeFails
<1>17. ASSUME HTTPClosed PROVE TypeOK'
  BY <1>17 DEF HTTPClosed
<1>18. ASSUME HTTPTimeout PROVE TypeOK'
  BY <1>18 DEF HTTPTimeout
<1>19. ASSUME DrainPick PROVE TypeOK'
  BY <1>19 DEF DrainPick
<1>20. ASSUME DrainNext PROVE TypeOK'
  BY <1>20 DEF DrainNext
<1>21. ASSUME DrainEmpty PROVE TypeOK'
  BY <1>21 DEF DrainEmpty
<1>22. ASSUME DrainTimeout PROVE TypeOK'
  BY <1>22 DEF DrainTimeout
<1>23. ASSUME Exit PROVE TypeOK'
  BY <1>23 DEF Exit
<1>24. CASE UNCHANGED vars
  BY <1>24 DEF vars
<1> QED
  BY <1>1, <1>2, <1>3, <1>4, <1>5, <1>6, <1>7, <1>8, <1>9, <1>10, <1>11, <1>12, <1>13, <1>14, <1>15, <1>16, <1>17, <1>18, <1>19, <1>20, <1>21, <1>22, <1>23, <1>24
  DEF Next, JobStep, RunStep, HandlerStep, TickerStep, ShutdownStep

--------------------------------------------------------------------------------
(* The inductive invariant *)

\* The invariant without its type part.
Rest == /\ HoldersAgree /\ StateFollowsRun /\ DoneFollowsRun
        /\ AnswersNameDoneJobs /\ LogsClean /\ HandlersGone /\ DrainComplete

\* A successful Begin leaves the other jobs alone and takes a target nobody holds.
LEMMA BeginRest ==
  ASSUME IInv, NEW c \in Callers, NEW t \in Targets, NEW j \in Jobs, Begin(c, t, j)
  PROVE  /\ HoldersAgree' /\ StateFollowsRun' /\ DoneFollowsRun' /\ LogsClean'
         /\ j \notin done
         /\ done' = done /\ \A k \in done : state'[k] = state[k]
         /\ \A k \in Jobs : k # j => pc'[k] = pc[k] /\ starter'[k] = starter[k]
         /\ starter'[j] = c
<1> USE DEF IInv, TypeOK, Begin, Busy
<1>1. pc[j] = "none" /\ j \notin done
  BY DEF StateFollowsRun, DoneFollowsRun
<1>2. HoldersAgree'
  BY <1>1, NoneAssumption DEF HoldersAgree, Holding
<1>3. StateFollowsRun'
  BY DEF StateFollowsRun, Terminal
<1>4. DoneFollowsRun'
  BY <1>1 DEF DoneFollowsRun
<1>5. LogsClean'
  BY DEF LogsClean, Terminal
<1> QED BY <1>1, <1>2, <1>3, <1>4, <1>5

\* Every other conjunct of the invariant is preserved, one step per action.
LEMMA RestStep == IInv /\ [Next]_vars => Rest'
<1> SUFFICES ASSUME IInv, [Next]_vars
             PROVE  Rest'
  OBVIOUS
<1> USE DEF IInv, TypeOK, Callers, RunPCs, Phases, Holding, Terminal,
            Rest, HoldersAgree, StateFollowsRun, DoneFollowsRun, AnswersNameDoneJobs,
            LogsClean, HandlersGone, DrainComplete,
            jobVars, storeVars, callVars, shutVars
<1>1. ASSUME NEW j \in Jobs, StartStep(j) PROVE Rest'
  BY <1>1, StartedLog DEF StartStep
<1>2. ASSUME NEW j \in Jobs, AddStep(j) PROVE Rest'
  BY <1>2, AddedLog DEF AddStep
<1>3. ASSUME NEW j \in Jobs, NEW s \in Outcomes, Finish(j, s) PROVE Rest'
  BY <1>3, ClosedLog, OutcomesAssumption DEF Finish
<1>4. ASSUME NEW j \in Jobs, CloseDone(j) PROVE Rest'
  BY <1>4 DEF CloseDone
<1>5. ASSUME NEW j \in Jobs, Free(j) PROVE Rest'
  BY <1>5 DEF Free
<1>6. ASSUME NEW j \in Jobs, Record(j) PROVE Rest'
  BY <1>6 DEF Record
<1>7. ASSUME NEW c \in Callers, Accept(c) PROVE Rest'
  BY <1>7 DEF Accept
<1>8. ASSUME NEW h \in Handlers, NEW t \in Targets, StartBusy(h, t) PROVE Rest'
  BY <1>8 DEF StartBusy, Begin, Busy, Respond
<1>9. ASSUME NEW h \in Handlers, NEW t \in Targets, NEW j \in Jobs, Alive, StartNoWait(h, t, j) PROVE Rest'
  <2>1. Begin(h, t, j) /\ h \in Callers
    BY <1>9 DEF StartNoWait
  <2>2. HoldersAgree' /\ StateFollowsRun' /\ DoneFollowsRun' /\ LogsClean' /\ j \notin done
    BY <2>1, BeginRest
  <2>3. AnswersNameDoneJobs'
    BY <1>9, <2>1, BeginRest DEF StartNoWait, Respond
  <2>4. HandlersGone' /\ DrainComplete'
    <3>1. phase' = phase /\ timedOut' = timedOut /\ caller[h] = "ready" /\ phase # "exit"
      BY <1>9 DEF StartNoWait, Alive
    <3> QED BY <3>1
  <2> QED BY <2>2, <2>3, <2>4
<1>10. ASSUME NEW h \in Handlers, NEW t \in Targets, NEW j \in Jobs, Alive, StartAndWait(h, t, j) PROVE Rest'
  <2>1. Begin(h, t, j) /\ h \in Callers
    BY <1>10 DEF StartAndWait
  <2>2. HoldersAgree' /\ StateFollowsRun' /\ DoneFollowsRun' /\ LogsClean' /\ j \notin done
    BY <2>1, BeginRest
  <2>3. AnswersNameDoneJobs'
    BY <1>10, <2>1, BeginRest DEF StartAndWait, Respond
  <2>4. HandlersGone' /\ DrainComplete'
    <3>1. phase' = phase /\ timedOut' = timedOut /\ caller[h] = "ready" /\ phase # "exit"
      BY <1>10 DEF StartAndWait, Alive
    <3> QED BY <3>1
  <2> QED BY <2>2, <2>3, <2>4
<1>11. ASSUME NEW h \in Handlers, WaitDone(h) PROVE Rest'
  BY <1>11 DEF WaitDone, Respond
<1>12. ASSUME NEW h \in Handlers, WaitTimeout(h) PROVE Rest'
  BY <1>12 DEF WaitTimeout, Respond
<1>13. ASSUME NEW h \in Handlers, ClientGone(h) PROVE Rest'
  BY <1>13 DEF ClientGone, Respond
<1>14. ASSUME NEW s \in Tickers, NEW t \in Targets, NEW j \in Jobs, TickStart(s, t, j) PROVE Rest'
  <2>1. Begin(s, t, j) /\ s \in Callers
    BY <1>14 DEF TickStart
  <2>2. HoldersAgree' /\ StateFollowsRun' /\ DoneFollowsRun' /\ LogsClean' /\ j \notin done
    BY <2>1, BeginRest
  <2>3. AnswersNameDoneJobs'
    BY <1>14, <2>1, BeginRest DEF TickStart
  <2>4. HandlersGone' /\ DrainComplete'
    <3>1. phase' = phase /\ timedOut' = timedOut /\ caller' = [caller EXCEPT ![s] = "idle"]
      BY <1>14 DEF TickStart
    <3>2. HandlersGone'
      BY <3>1
    <3>3. /\ \A k \in Jobs : k # j => pc'[k] = pc[k] /\ starter'[k] = starter[k]
          /\ starter'[j] = s
      BY <2>1, BeginRest
    <3>4. DrainComplete'
      BY <3>1, <3>3 DEF DrainComplete
    <3> QED BY <3>2, <3>4
  <2> QED BY <2>2, <2>3, <2>4
<1>15. ASSUME NEW s \in Tickers, NEW t \in Targets, TickBusy(s, t) PROVE Rest'
  BY <1>15 DEF TickBusy
<1>16. ASSUME Signal \/ ServeFails PROVE Rest'
  BY <1>16 DEF Signal, ServeFails
<1>17. ASSUME HTTPClosed PROVE Rest'
  BY <1>17 DEF HTTPClosed
<1>18. ASSUME HTTPTimeout PROVE Rest'
  BY <1>18 DEF HTTPTimeout
<1>19. ASSUME DrainPick PROVE Rest'
  BY <1>19 DEF DrainPick
<1>20. ASSUME DrainNext PROVE Rest'
  BY <1>20 DEF DrainNext
<1>21. ASSUME DrainEmpty PROVE Rest'
  BY <1>21, NoneAssumption DEF DrainEmpty
<1>22. ASSUME DrainTimeout PROVE Rest'
  BY <1>22 DEF DrainTimeout
<1>23. ASSUME Exit PROVE Rest'
  BY <1>23 DEF Exit
<1>24. CASE UNCHANGED vars
  BY <1>24 DEF vars
<1> QED
  BY <1>1, <1>2, <1>3, <1>4, <1>5, <1>6, <1>7, <1>8, <1>9, <1>10, <1>11, <1>12, <1>13, <1>14, <1>15, <1>16, <1>17, <1>18, <1>19, <1>20, <1>21, <1>22, <1>23, <1>24
  DEF Next, JobStep, RunStep, HandlerStep, TickerStep, ShutdownStep

\* The invariant holds of every reachable state of the service.
THEOREM Invariance == Spec => []IInv
<1>1. Init => IInv
  <2> SUFFICES ASSUME Init
               PROVE  IInv
    OBVIOUS
  <2> USE DEF Init
  <2>1. TypeOK
    <3>1. order \in Seq(Jobs) /\ Len(order) <= History
      BY HistoryAssumption
    <3>2. answer \in [Handlers -> Answers]
      BY DEF Answers
    <3>3. << >> \in Seq(StepStates)
      OBVIOUS
    <3>4. steps \in [Jobs -> Seq(StepStates)]
      BY <3>3
    <3> QED BY <3>1, <3>2, <3>4 DEF TypeOK, Callers, RunPCs, Phases
  <2>2. LogsClean
    BY DEF LogsClean, OnlyLastRuns, Terminal
  <2>3. HoldersAgree /\ StateFollowsRun /\ DoneFollowsRun
    BY DEF HoldersAgree, Holding, StateFollowsRun, DoneFollowsRun
  <2>4. AnswersNameDoneJobs /\ HandlersGone /\ DrainComplete
    BY DEF AnswersNameDoneJobs, HandlersGone, DrainComplete
  <2> QED BY <2>1, <2>2, <2>3, <2>4 DEF IInv
<1>2. IInv /\ [Next]_vars => IInv'
  BY TypeStep, RestStep DEF IInv, Rest
<1> QED BY <1>1, <1>2, PTL DEF Spec

\* Every variable of the service keeps its type, and the store stays within its bound.
THEOREM TypeCorrect == Spec => []TypeOK
<1>1. IInv => TypeOK
  BY DEF IInv
<1> QED BY <1>1, Invariance, PTL

\* At most one job per target has its backend call in progress.
THEOREM Exclusive == Spec => []OneUpdatePerTarget
<1>1. IInv => OneUpdatePerTarget
  BY DEF IInv, HoldersAgree, Holding, OneUpdatePerTarget
<1> QED BY <1>1, Invariance, PTL

\* A response sent on the done channel carries the job's final state.
THEOREM FinalAnswers == Spec => []AnswerIsFinal
<1>1. IInv => AnswerIsFinal
  BY DEF IInv, TypeOK, AnswersNameDoneJobs, DoneFollowsRun, StateFollowsRun, AnswerIsFinal
<1> QED BY <1>1, Invariance, PTL

\* No finished job reports a step as running.
THEOREM StepsClosed == Spec => []NoStepOutlivesJob
<1>1. IInv => NoStepOutlivesJob
  BY DEF IInv, LogsClean, NoneRuns, RangeOf, NoStepOutlivesJob
<1> QED BY <1>1, Invariance, PTL

\* A shutdown within its budgets leaves no update an HTTP request started in progress.
THEOREM DrainSound == Spec => []DrainWaitsForRequests
<1>1. IInv => DrainWaitsForRequests
  BY DEF IInv, DrainComplete, DrainWaitsForRequests
<1> QED BY <1>1, Invariance, PTL

--------------------------------------------------------------------------------
(* Refinement *)

\* The service implements the promise of one update at a time per target.
THEOREM Refinement == Spec => ImplementsExclusion
<1> DEFINE U == {<<target[j], j>> : j \in {k \in Jobs : pc[k] = "update"}}
           O == {j \in Jobs : pc[j] \notin {"none", "update"}}
<1>1. Init => Exclusion!Init
  BY DEF Init, Exclusion!Init
<1>2. IInv /\ IInv' /\ [Next]_vars => [Exclusion!Next]_(Exclusion!vars)
  <2> SUFFICES ASSUME IInv, IInv', [Next]_vars
               PROVE  Exclusion!Next \/ (U' = U /\ O' = O)
    BY DEF Exclusion!vars
  <2> USE DEF jobVars, storeVars, callVars, shutVars, IInv, TypeOK
  <2>1. ASSUME NEW c \in Callers, NEW t \in Targets, NEW j \in Jobs, Begin(c, t, j)
        PROVE  Exclusion!Next
    <3>1. pc[j] = "none"
      BY <2>1 DEF Begin, StateFollowsRun
    <3>2. \A p \in U : p[1] # t /\ p[2] # j
      BY <2>1, <3>1, NoneAssumption DEF Begin, Busy, HoldersAgree, Holding
    <3>3. U' = U \union {<<t, j>>} /\ O' = O
      BY <2>1, <3>1 DEF Begin
    <3>4. j \notin O
      BY <3>1
    <3> QED BY <3>2, <3>3, <3>4 DEF Exclusion!Next, Exclusion!Begin
  <2>2. ASSUME NEW j \in Jobs, NEW s \in Outcomes, Finish(j, s)
        PROVE  Exclusion!Next
    <3>1. target[j] \in Targets /\ <<target[j], j>> \in U
      BY <2>2 DEF Finish, HoldersAgree, Holding
    <3>2. U' = U \ {<<target[j], j>>} /\ O' = O \union {j}
      BY <2>2 DEF Finish
    <3> QED BY <3>1, <3>2 DEF Exclusion!Next, Exclusion!End
  <2>3. ASSUME NEW j \in Jobs, CloseDone(j) \/ Free(j) \/ Record(j)
        PROVE  U' = U /\ O' = O
    BY <2>3 DEF CloseDone, Free, Record
  <2>4. ASSUME pc' = pc, target' = target
        PROVE  U' = U /\ O' = O
    BY <2>4
  <2> QED
    BY <2>1, <2>2, <2>3, <2>4
    DEF Next, JobStep, RunStep, HandlerStep, TickerStep, ShutdownStep, StartStep, AddStep,
        Accept, StartBusy, StartNoWait, StartAndWait, WaitDone, WaitTimeout, ClientGone,
        TickStart, TickBusy, Signal, ServeFails, HTTPClosed, HTTPTimeout, DrainPick,
        DrainNext, DrainEmpty, DrainTimeout, Exit, Callers, vars
<1> QED BY <1>1, <1>2, Invariance, PTL DEF Spec, ImplementsExclusion, Exclusion!Spec
================================================================================
