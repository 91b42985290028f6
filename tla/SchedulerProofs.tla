---------------------------- MODULE SchedulerProofs ----------------------------
(***************************************************************************)
(* The soak is observed, the timer is right and the alerts are true for    *)
(* every soak window, check interval, jitter, set of images and number of  *)
(* disturbances.                                                           *)
(***************************************************************************)
EXTENDS Scheduler, TLAPS

\* An open soak is no older than the run of checks that found something new; only between the
\* answer "nothing new" and the clear that follows it does it outlive that run.
SoakBacked == w # "current" /\ pending # None => newFor # None /\ pending <= newFor

\* tick's own copy of the entry is no older either, and start is reached with a full soak.
CopyBacked == /\ w = "available" => newFor # None
              /\ w \in {"marked", "start"} => /\ mine # None /\ newFor # None
                                              /\ mine <= newFor
              /\ w = "start" => mine = soak

\* broken is brought up to date in the step that follows an answer, which is no failure.
BrokenFollows == IF w \in {"current", "available"} THEN failing = FALSE ELSE broken = failing

IInv == /\ TypeOK
        /\ SoakBacked
        /\ CopyBacked
        /\ BrokenFollows
        /\ WakesForTheSoak

\* Counting up and down stays within the soak, and None stays None.
LEMMA Counting == ASSUME soak \in Nat, NEW d, d \in Since \union {None}
                  PROVE  /\ Longer(d) \in Since \union {None}
                         /\ Shorter(d) \in Since \union {None}
                         /\ Longer(d) = None <=> d = None
                         /\ d # None => Longer(d) = (IF d < soak THEN d + 1 ELSE soak)
                         /\ d # None => Shorter(d) = (IF d > 0 THEN d - 1 ELSE 0)
BY NoneAssumption DEF Longer, Shorter, Since

\* The environment's budget is never overdrawn.
LEMMA Spending == ASSUME TypeOK, NEW k \in Kinds, Spend(k)
                  PROVE  left' \in [Kinds -> Nat]
BY DEF TypeOK, Spend

\* Every action keeps every variable within its type.
LEMMA TypeStep == ASSUME TypeOK, [Next]_vars PROVE TypeOK'
<1> USE SoaksAssumption, IntervalAssumption, NoneAssumption
<1> soak \in Nat
  BY DEF TypeOK
<1>1. CASE Advance
  <2>1. /\ pending' \in Since' \union {None} /\ mine' \in Since' \union {None}
        /\ newFor' \in Since' \union {None} /\ imageFor' \in Since' \union {None}
        /\ timer' \in Since' \union {None}
    BY <1>1, Counting DEF TypeOK, Advance, Since
  <2>2. next' \in Nat
    BY <1>1 DEF TypeOK, Advance, Shorter
  <2>3. tickLeft' \in 1 .. Interval
    BY <1>1 DEF TypeOK, Advance
  <2>4. ticked' \in BOOLEAN
    BY <1>1, Zenon DEF TypeOK, Advance
  <2> QED
    BY <1>1, <2>1, <2>2, <2>3, <2>4 DEF TypeOK, Advance, jobs, world
<1>2. CASE Watch
  <2>1. CASE Arm
    <3>1. Remaining \in Since \union {None}
      BY DEF TypeOK, Remaining, Since
    <3>2. /\ next' \in Nat /\ timer' \in Since' \union {None} /\ mine' = None /\ w' = "select"
          /\ UNCHANGED <<soak, pending, broken, tickLeft, ticked, stopping, job, finished, lock,
                         offered, deployed, left, newFor, imageFor, seen, failing>>
      BY <2>1, <3>1 DEF Arm, Go, jobs, world, history, Since
    <3> QED BY <3>2 DEF TypeOK, Since
  <2>2. CASE CheckAnswers
    <3>1. newFor' \in Since' \union {None} /\ imageFor' \in Since' \union {None}
      BY <2>2 DEF TypeOK, CheckAnswers, Since
    <3>2. seen' \in Images \union {None} /\ w' \in {"current", "available"}
      BY <2>2 DEF TypeOK, CheckAnswers, Go
    <3>3. /\ lock' = None /\ failing' = FALSE
          /\ UNCHANGED <<soak, pending, mine, broken, tickLeft, ticked, timer, next, stopping,
                         job, finished, offered, deployed, left>>
      BY <2>2 DEF CheckAnswers, timers, jobs, world
    <3> QED BY <3>1, <3>2, <3>3 DEF TypeOK, Since
  <2>3. CASE Mark
    <3>1. pending' \in Since' \union {None} /\ mine' \in Since' \union {None}
      BY <2>3 DEF TypeOK, Mark, Since
    <3>2. w' \in {"arm", "marked"}
      BY <2>3 DEF Mark, Go
    <3>3. /\ broken' \in BOOLEAN
          /\ UNCHANGED <<soak, tickLeft, ticked, timer, next, stopping, job, finished, lock,
                         offered, deployed, left, newFor, imageFor, seen, failing>>
      BY <2>3 DEF Mark, Go, timers, jobs, world, history
    <3> QED BY <3>1, <3>2, <3>3 DEF TypeOK, Since
  <2>4. CASE StartAuto
    BY <2>4 DEF TypeOK, StartAuto, Go, mind, timers, world, history, Works, Since
  <2>5. CASE lock # None /\ Refused
    BY <2>5, Spending DEF TypeOK, Refused, Go, mind, timers, jobs, world, history, Kinds, Since
  <2>6. CASE FirstWake \/ WakeTicker \/ WakeSoak \/ StopWatching \/ SkipBusy \/ AskAgent
             \/ CheckBegins
    <3>1. /\ UNCHANGED <<soak, pending, mine, broken, tickLeft, stopping, job, finished, offered,
                         deployed, left, newFor, imageFor, seen, failing>>
          /\ timer' \in {timer, None} /\ ticked' \in BOOLEAN /\ lock' \in {lock, "check"}
          /\ next' = next /\ w' \in {"tick", "stopped", "arm", "asked", "asking"}
      BY <2>6 DEF TypeOK, FirstWake, WakeTicker, WakeSoak, StopWatching, SkipBusy, AskAgent,
                  CheckBegins, Go, mind, timers, jobs, world, history
    <3> QED BY <3>1 DEF TypeOK, Since
  <2>7. CASE NothingNew \/ TooEarly \/ Soaked \/ StartRefused \/ ClearStarted
    <3>1. /\ UNCHANGED <<soak, mine, tickLeft, ticked, timer, next, stopping, job, finished, lock,
                         offered, deployed, left, newFor, imageFor, seen, failing>>
          /\ pending' \in {pending, None} /\ broken' \in BOOLEAN /\ w' \in {"arm", "start"}
      BY <2>7 DEF TypeOK, NothingNew, TooEarly, Soaked, StartRefused, ClearStarted, Go, mind,
                  timers, jobs, world, history
    <3> QED BY <3>1 DEF TypeOK, Since
  <2> QED
    BY <1>2, <2>1, <2>2, <2>3, <2>4, <2>5, <2>6, <2>7 DEF Watch
<1>3. CASE Work
  <2>1. CASE JobReaches
    BY <2>1 DEF TypeOK, JobReaches, mind, timers, world, history, Works, Since
  <2>2. CASE AgentApplies
    BY <2>2 DEF TypeOK, AgentApplies, Told, mind, timers, history, Works, Since
  <2>3. CASE AgentLeavesAlone
    BY <2>3, Spending DEF TypeOK, AgentLeavesAlone, Told, mind, timers, world, history, Works,
                          Kinds, Since
  <2>4. CASE Complete
    BY <2>4 DEF TypeOK, Complete, mind, timers, world, history, Works, Since
  <2>5. ASSUME NEW o \in {"applied", "other"}, ClearPending(o) PROVE TypeOK'
    BY <2>5 DEF TypeOK, ClearPending, timers, world, history, Since
  <2> QED
    BY <1>3, <2>1, <2>2, <2>3, <2>4, <2>5 DEF Work
<1>4. CASE Environment
  <2>1. CASE Refused
    BY <2>1, Spending DEF TypeOK, Refused, Go, mind, timers, jobs, world, history, Kinds, Since
  <2>2. CASE CheckFails
    BY <2>2, Spending DEF TypeOK, CheckFails, Go, timers, jobs, world, Kinds, Since
  <2>3. CASE JobTimesOut
    BY <2>3, Spending DEF TypeOK, JobTimesOut, mind, timers, world, history, Works, Kinds, Since
  <2>4. CASE Shutdown
    BY <2>4 DEF TypeOK, Shutdown, mind, timers, jobs, world, history, Since
  <2>5. CASE Restart
    <3>1. next' \in Nat /\ tickLeft' \in 1 .. Interval
      BY <2>5, JitterAssumption DEF Restart, Fresh
    <3>2. left' \in [Kinds -> Nat]
      BY <2>5, Spending DEF Restart, Kinds
    <3> QED
      BY <2>5, <3>1, <3>2 DEF TypeOK, Restart, Fresh, world
  <2>6. ASSUME NEW k \in {"manual", "dry"}, StartManual(k) PROVE TypeOK'
    BY <2>6, Spending DEF TypeOK, StartManual, mind, timers, world, history, Works, Kinds, Since
  <2>7. ASSUME NEW i \in Images, Publish(i) PROVE TypeOK'
    BY <2>7, Spending DEF TypeOK, Publish, mind, timers, jobs, history, Kinds, Since
  <2> QED
    BY <1>4, <2>1, <2>2, <2>3, <2>4, <2>5, <2>6, <2>7 DEF Environment
<1>5. CASE UNCHANGED vars
  BY <1>5 DEF TypeOK, vars, mind, timers, jobs, world, history, Since
<1> QED
  BY <1>1, <1>2, <1>3, <1>4, <1>5 DEF Next

\* Every action keeps the four facts that the properties rest on.
LEMMA FactsStep == ASSUME IInv, [Next]_vars
                   PROVE  SoakBacked' /\ CopyBacked' /\ BrokenFollows' /\ WakesForTheSoak'
<1> USE NoneAssumption
<1> soak \in Nat
  BY SoaksAssumption DEF IInv, TypeOK
<1> USE DEF IInv, TypeOK, SoakBacked, CopyBacked, BrokenFollows, WakesForTheSoak, Since
<1>1. CASE Advance
  <2>1. SoakBacked'
    BY <1>1, Counting DEF Advance
  <2>2. CopyBacked'
    BY <1>1, Counting DEF Advance, Waiting
  <2>3. BrokenFollows' /\ WakesForTheSoak'
    BY <1>1, Counting DEF Advance
  <2> QED
    BY <2>1, <2>2, <2>3
<1>2. CASE Watch
  <2>1. CASE Arm
    BY <2>1 DEF Arm, Remaining, Go, history
  <2>2. CASE CheckAnswers
    BY <2>2 DEF CheckAnswers, Go, timers
  <2>3. CASE Mark
    <3>1. /\ w' \in {"arm", "marked"} /\ pending' # None /\ mine' = pending'
          /\ newFor' = newFor /\ newFor # None /\ pending' <= newFor'
      BY <2>3 DEF Mark, Go, history
    <3>2. broken' = FALSE /\ failing' = FALSE
      BY <2>3 DEF Mark, history
    <3> QED
      BY <3>1, <3>2
  <2>4. CASE StartAuto
    BY <2>4 DEF StartAuto, Go, mind, timers, history
  <2>5. CASE lock # None /\ Refused
    BY <2>5 DEF Refused, Go, mind, timers, history
  <2>6. CASE FirstWake \/ WakeTicker \/ WakeSoak \/ StopWatching \/ SkipBusy \/ AskAgent
             \/ CheckBegins
    BY <2>6 DEF FirstWake, WakeTicker, WakeSoak, StopWatching, SkipBusy, AskAgent,
                CheckBegins, Go, mind, timers, history
  <2>7. CASE NothingNew \/ TooEarly \/ Soaked \/ StartRefused \/ ClearStarted
    BY <2>7 DEF NothingNew, TooEarly, Soaked, StartRefused, ClearStarted, Go, mind, timers, history
  <2> QED
    BY <1>2, <2>1, <2>2, <2>3, <2>4, <2>5, <2>6, <2>7 DEF Watch
<1>3. CASE Work
  <2>1. CASE JobReaches \/ AgentApplies \/ AgentLeavesAlone \/ Complete
    BY <2>1 DEF JobReaches, AgentApplies, AgentLeavesAlone, Complete, mind, timers, history
  <2>2. ASSUME NEW o \in {"applied", "other"}, ClearPending(o)
        PROVE  SoakBacked' /\ CopyBacked' /\ BrokenFollows' /\ WakesForTheSoak'
    BY <2>2 DEF ClearPending, timers, history
  <2> QED
    BY <1>3, <2>1, <2>2 DEF Work
<1>4. CASE Environment
  <2>1. CASE Refused
    BY <2>1 DEF Refused, Go, mind, timers, history
  <2>2. CASE CheckFails
    BY <2>2 DEF CheckFails, Go, timers
  <2>3. CASE JobTimesOut \/ Shutdown
    BY <2>3 DEF JobTimesOut, Shutdown, mind, timers, history
  <2>4. CASE Restart
    BY <2>4 DEF Restart, Fresh
  <2>5. ASSUME NEW k \in {"manual", "dry"}, StartManual(k)
        PROVE  SoakBacked' /\ CopyBacked' /\ BrokenFollows' /\ WakesForTheSoak'
    BY <2>5 DEF StartManual, mind, timers, history
  <2>6. ASSUME NEW i \in Images, Publish(i)
        PROVE  SoakBacked' /\ CopyBacked' /\ BrokenFollows' /\ WakesForTheSoak'
    BY <2>6 DEF Publish, mind, timers, history
  <2> QED
    BY <1>4, <2>1, <2>2, <2>3, <2>4, <2>5, <2>6 DEF Environment
<1>5. CASE UNCHANGED vars
  BY <1>5 DEF vars, mind, timers, history
<1> QED
  BY <1>1, <1>2, <1>3, <1>4, <1>5 DEF Next

\* The inductive invariant of the scheduler.
THEOREM Invariance == Spec => []IInv
<1>1. Init => IInv
  <2> SUFFICES ASSUME Init PROVE IInv
    OBVIOUS
  <2>1. TypeOK
    <3>1. next \in Nat /\ tickLeft \in 1 .. Interval
      BY IntervalAssumption, JitterAssumption DEF Init
    <3>2. left \in [Kinds -> Nat]
      BY BudgetsAssumption DEF Init
    <3> QED
      BY <3>1, <3>2 DEF Init, TypeOK
  <2> QED
    BY <2>1 DEF Init, IInv, SoakBacked, CopyBacked, BrokenFollows, WakesForTheSoak
<1>2. IInv /\ [Next]_vars => IInv'
  BY TypeStep, FactsStep DEF IInv
<1> QED
  BY <1>1, <1>2, PTL DEF Spec

\* Every variable of the scheduler keeps its type.
THEOREM TypeCorrect == Spec => []TypeOK
<1>1. IInv => TypeOK
  BY DEF IInv
<1> QED
  BY <1>1, Invariance, PTL

\* apply starts an automatic update only after a whole soak in which every check that the agent
\* answered found something new.
THEOREM SoakIsObserved == Spec => []SoakObserved
<1>1. IInv => SoakObserved
  BY SoaksAssumption, NoneAssumption DEF IInv, TypeOK, CopyBacked, SoakObserved, Since
<1> QED
  BY <1>1, Invariance, PTL

\* While watch sleeps, an unfinished soak has a timer for the moment it ends.
THEOREM SoakWakesWatch == Spec => []WakesForTheSoak
<1>1. IInv => WakesForTheSoak
  BY DEF IInv
<1> QED
  BY <1>1, Invariance, PTL

\* markBroken's memory, from which the alerts are sent, agrees with the last check that was not
\* refused for contention.
THEOREM AlertsAreTrue == Spec => []AlertsTellTheTruth
<1>1. IInv => AlertsTellTheTruth
  BY DEF IInv, BrokenFollows, AlertsTellTheTruth
<1> QED
  BY <1>1, Invariance, PTL
================================================================================
