------------------------------- MODULE Scheduler -------------------------------
(***************************************************************************)
(* The auto-update scheduler (internal/schedule) of one stack: the watch   *)
(* goroutine with its ticker and its soak timer, the pending soak it       *)
(* shares with the job manager's completion callback (serve.go wires       *)
(* OnComplete to ClearPending), the check it asks of the agent and the job *)
(* it starts.  Stacks share nothing but a mutex, so one is enough.  An     *)
(* announcer is configured; its messages are best effort and the           *)
(* scheduler's memory of what it announced is what is modelled.            *)
(*                                                                         *)
(* Time is kept as durations: how long a soak has lasted, how long until a *)
(* timer fires.  Durations stop counting once they can no longer be told   *)
(* apart, so the state space is finite and time never ends.                *)
(***************************************************************************)
EXTENDS Integers, FiniteSets

CONSTANTS
  Images,     \* image IDs the registry may offer
  Soaks,      \* soak windows to consider
  Interval,   \* check_interval
  Jitter,     \* startupJitter
  None,       \* not set
  Budgets     \* how often the environment may interfere, by kind

Kinds == {"publish", "fault", "manual", "restart"}

ASSUME SoaksAssumption == Soaks \subseteq Nat
ASSUME IntervalAssumption == Interval \in Nat \ {0}
ASSUME JitterAssumption == Jitter \in Nat
ASSUME NoneAssumption == None \notin Nat /\ None \notin Images
ASSUME BudgetsAssumption == Budgets \subseteq [Kinds -> Nat]

VARIABLES
  soak,       \* Target.SoakWindow()
  w,          \* where the watch goroutine is
  pending,    \* Scheduler.pending: time since Pending.Since, None without an entry
  mine,       \* the copy of the entry that tick works with
  broken,     \* Scheduler.broken
  tickLeft,   \* time until the ticker's next tick
  ticked,     \* a tick is buffered in ticker.C
  timer,      \* time until the soak timer fires, None when there is none
  next,       \* Scheduler.nextCheck: time until then
  stopping,   \* the context of Run is cancelled
  job,        \* the job that holds the target in the store
  finished,   \* completed jobs whose OnComplete is still to be called, by outcome
  lock,       \* what holds the agent's lock on the stack
  offered,    \* the image the registry offers
  deployed,   \* the image the stack runs
  left,       \* what remains of the budget
  newFor,     \* history variable: since when every answered check found something new
  imageFor,   \* history variable: since when every answered check found the same new image
  seen,       \* history variable: that image
  failing     \* history variable: the last check that was not refused for contention failed

mind    == <<pending, mine, broken>>
timers  == <<tickLeft, ticked, timer, next>>
jobs    == <<job, finished>>
world   == <<offered, deployed>>
history == <<newFor, imageFor, seen, failing>>
vars == <<soak, w, mind, timers, stopping, jobs, lock, world, left, history>>

Works == [kind : {"auto", "manual", "dry"}, at : {"sent", "working", "applied", "other"}]
Since == 0 .. soak

TypeOK == /\ soak \in Soaks
          /\ w \in {"jitter", "tick", "asked", "asking", "current", "available", "marked", "start", "clear",
                    "arm", "select", "stopped"}
          /\ pending \in Since \union {None} /\ mine \in Since \union {None}
          /\ broken \in BOOLEAN
          /\ tickLeft \in 1 .. Interval /\ ticked \in BOOLEAN
          /\ timer \in Since \union {None}
          /\ next \in Nat
          /\ stopping \in BOOLEAN
          /\ job \in Works \union {None}
          /\ finished \in [{"applied", "other"} -> Nat]
          /\ lock \in {"check", "auto", "manual", "dry", None}
          /\ offered \in Images /\ deployed \in Images
          /\ left \in [Kinds -> Nat]
          /\ newFor \in Since \union {None} /\ imageFor \in Since \union {None}
          /\ seen \in Images \union {None} /\ failing \in BOOLEAN

\* A process that has just started: everything the scheduler knows is in memory.
Fresh == /\ w' = "jitter" /\ next' \in 0 .. Jitter
         /\ pending' = None /\ mine' = None /\ broken' = FALSE
         /\ tickLeft' = Interval /\ ticked' = FALSE /\ timer' = None
         /\ stopping' = FALSE
         /\ job' = None /\ finished' = [o \in {"applied", "other"} |-> 0]
         /\ newFor' = None /\ imageFor' = None /\ seen' = None /\ failing' = FALSE

Init == /\ soak \in Soaks
        /\ w = "jitter" /\ next \in 0 .. Jitter
        /\ pending = None /\ mine = None /\ broken = FALSE
        /\ tickLeft = Interval /\ ticked = FALSE /\ timer = None
        /\ stopping = FALSE
        /\ job = None /\ finished = [o \in {"applied", "other"} |-> 0]
        /\ lock = None
        /\ offered \in Images /\ deployed \in Images
        /\ left \in Budgets
        /\ newFor = None /\ imageFor = None /\ seen = None /\ failing = FALSE

Spend(k) == left[k] > 0 /\ left' = [left EXCEPT ![k] = @ - 1]

--------------------------------------------------------------------------------
(* Time *)

Longer(d) == IF d = None \/ d = soak THEN d ELSE d + 1
Shorter(d) == IF d = None \/ d = 0 THEN d ELSE d - 1

\* One unit of time passes: minutes or more, so not while watch is between two statements
\* that wait for nothing.  A ticker whose channel is full drops the tick.
Waiting == {"jitter", "select", "asked", "asking", "current", "available"}

Advance == /\ w \in Waiting
           /\ pending' = Longer(pending) /\ mine' = Longer(mine)
           /\ newFor' = Longer(newFor) /\ imageFor' = Longer(imageFor)
           /\ timer' = Shorter(timer) /\ next' = Shorter(next)
           /\ IF w = "jitter" THEN UNCHANGED <<tickLeft, ticked>>
              ELSE /\ tickLeft' = IF tickLeft = 1 THEN Interval ELSE tickLeft - 1
                   /\ ticked' = (ticked \/ tickLeft = 1)
           /\ UNCHANGED <<soak, w, broken, stopping, jobs, lock, world, left, seen, failing>>

--------------------------------------------------------------------------------
(* watch() *)

Go(to) == w' = to

\* The jitter has passed: the ticker starts now and keeps this phase.
FirstWake == /\ w = "jitter" /\ next = 0
             /\ Go("tick")
             /\ UNCHANGED <<soak, mind, timers, stopping, jobs, lock, world, left, history>>

\* After a tick: nextCheck, and a timer for a soak that ends before the next check.
ArmNothing == None
RemainingMut == IF pending # None THEN soak - pending - 1 ELSE None
Remaining == IF pending # None /\ pending < soak THEN soak - pending ELSE None

Arm == /\ w = "arm"
       /\ next' = Interval
       /\ timer' = Remaining
       /\ mine' = None
       /\ Go("select")
       /\ UNCHANGED <<soak, pending, broken, tickLeft, ticked, stopping, jobs, lock, world, left, history>>

WakeTicker == /\ w = "select" /\ ticked
              /\ ticked' = FALSE /\ timer' = None
              /\ Go("tick")
              /\ UNCHANGED <<soak, mind, tickLeft, next, stopping, jobs, lock, world, left, history>>

WakeSoak == /\ w = "select" /\ timer = 0
            /\ timer' = None
            /\ Go("tick")
            /\ UNCHANGED <<soak, mind, tickLeft, ticked, next, stopping, jobs, lock, world, left,
                           history>>

StopWatching == /\ w \in {"jitter", "select"} /\ stopping
                /\ timer' = None
                /\ Go("stopped")
                /\ UNCHANGED <<soak, mind, tickLeft, ticked, next, stopping, jobs, lock, world, left,
                               history>>

--------------------------------------------------------------------------------
(* tick() *)

\* isBusy
SkipBusy == /\ w = "tick" /\ job # None
            /\ Go("arm")
            /\ UNCHANGED <<soak, mind, timers, stopping, jobs, lock, world, left, history>>

AskAgent == /\ w = "tick" /\ job = None
            /\ Go("asked")
            /\ UNCHANGED <<soak, mind, timers, stopping, jobs, lock, world, left, history>>

CheckBegins == /\ w = "asked" /\ lock = None
               /\ lock' = "check"
               /\ Go("asking")
               /\ UNCHANGED <<soak, mind, timers, stopping, jobs, world, left, history>>

\* 409 while something holds the agent's lock, 503 when the agent is full: not a failure.
RefusedMut == /\ w = "asked"
              /\ \/ lock # None /\ UNCHANGED left
                 \/ Spend("fault")
              /\ broken' = TRUE
              /\ Go("arm")
              /\ UNCHANGED <<soak, pending, mine, timers, stopping, jobs, lock, world, history>>
Refused == /\ w = "asked"
           /\ \/ lock # None /\ UNCHANGED left
              \/ Spend("fault")
           /\ Go("arm")
           /\ UNCHANGED <<soak, mind, timers, stopping, jobs, lock, world, history>>

\* An error, the check's own timeout, or the shutdown.  markBroken(true); nothing else changes.
CheckFails == /\ w \in {"asked", "asking"}
              /\ \/ Spend("fault")
                 \/ stopping /\ UNCHANGED left
              /\ broken' = TRUE /\ failing' = TRUE
              /\ Go("arm")
              /\ UNCHANGED <<soak, pending, mine, timers, stopping, jobs, lock, world,
                             newFor, imageFor, seen>>

\* The agent compares the registry with the stack and lets go of its lock.
CheckAnswers ==
  /\ w = "asking"
  /\ lock' = None
  /\ IF offered = deployed
     THEN newFor' = None /\ imageFor' = None /\ seen' = None
     ELSE /\ newFor' = IF newFor = None THEN 0 ELSE newFor
          /\ imageFor' = IF seen = offered THEN imageFor ELSE 0
          /\ seen' = offered
  /\ failing' = FALSE
  /\ Go(IF offered = deployed THEN "current" ELSE "available")
  /\ UNCHANGED <<soak, pending, mine, broken, timers, stopping, jobs, world, left>>

\* markBroken(false), then clear when there is nothing new.
NothingNewMut == /\ w = "current"
                 /\ broken' = FALSE
                 /\ Go("arm")
                 /\ UNCHANGED <<soak, pending, mine, timers, stopping, jobs, lock, world,
                                left, history>>
NothingNew == /\ w = "current"
              /\ broken' = FALSE
              /\ pending' = None
              /\ Go("arm")
              /\ UNCHANGED <<soak, mine, timers, stopping, jobs, lock, world, left, history>>

\* mark: the first sighting opens the soak, and ends the tick unless the soak is zero; a
\* later one leaves the entry as it is.
MarkMut == /\ w = "available"
           /\ broken' = FALSE
           /\ pending' = 0
           /\ mine' = 0
           /\ Go(IF pending = None /\ soak > 0 THEN "arm" ELSE "marked")
           /\ UNCHANGED <<soak, timers, stopping, jobs, lock, world, left, history>>
Mark == /\ w = "available"
        /\ broken' = FALSE
        /\ pending' = IF pending = None THEN 0 ELSE pending
        /\ mine' = pending'
        /\ Go(IF pending = None /\ soak > 0 THEN "arm" ELSE "marked")
        /\ UNCHANGED <<soak, timers, stopping, jobs, lock, world, left, history>>

\* time.Now().Before(ready), on the copy.
TooEarly == /\ w = "marked" /\ mine < soak
            /\ Go("arm")
            /\ UNCHANGED <<soak, mind, timers, stopping, jobs, lock, world, left, history>>

Soaked == /\ w = "marked" /\ mine = soak
          /\ Go("start")
          /\ UNCHANGED <<soak, mind, timers, stopping, jobs, lock, world, left, history>>

\* apply: Start, then clear when the store took the job.
StartAuto == /\ w = "start" /\ job = None
             /\ job' = [kind |-> "auto", at |-> "sent"]
             /\ Go("clear")
             /\ UNCHANGED <<soak, mind, timers, stopping, finished, lock, world, left, history>>

StartRefused == /\ w = "start" /\ job # None
                /\ Go("arm")
                /\ UNCHANGED <<soak, mind, timers, stopping, jobs, lock, world, left, history>>

ClearStarted == /\ w = "clear"
                /\ pending' = None
                /\ Go("arm")
                /\ UNCHANGED <<soak, mine, broken, timers, stopping, jobs, lock, world, left,
                               history>>

--------------------------------------------------------------------------------
(* The job manager and the agent, as the scheduler meets them *)

\* Somebody runs `dup update`, for real or as a dry run.
StartManual(k) == /\ job = None /\ w # "stopped"
                  /\ Spend("manual")
                  /\ job' = [kind |-> k, at |-> "sent"]
                  /\ UNCHANGED <<soak, w, mind, timers, stopping, finished, lock, world, history>>

\* The agent takes the update, or refuses it because it is busy with the stack.
JobReaches == /\ job # None /\ job.at = "sent"
              /\ \/ /\ lock = None
                    /\ lock' = job.kind /\ job' = [job EXCEPT !.at = "working"]
                 \/ /\ lock # None
                    /\ job' = [job EXCEPT !.at = "other"] /\ UNCHANGED lock
              /\ UNCHANGED <<soak, w, mind, timers, stopping, finished, world, left, history>>

\* The agent is done: it has applied what the registry offers, or failed and rolled back.
\* It works on for a caller that is gone, and abandons a check nobody waits for.
Told(at) == job' = IF job # None /\ job.at = "working" THEN [job EXCEPT !.at = at] ELSE job

AgentApplies == /\ lock \in {"auto", "manual"}
                /\ lock' = None
                /\ deployed' = offered
                /\ Told(IF offered = deployed THEN "other" ELSE "applied")
                /\ UNCHANGED <<soak, w, mind, timers, stopping, finished, offered, left, history>>

AgentLeavesAlone == /\ lock # None
                    /\ \/ lock = "dry" /\ UNCHANGED left
                       \/ lock = "check" /\ w # "asking" /\ UNCHANGED left
                       \/ lock \in {"auto", "manual"} /\ Spend("fault")
                    /\ lock' = None
                    /\ Told("other")
                    /\ UNCHANGED <<soak, w, mind, timers, stopping, finished, world, history>>

\* JobTimeout: the service gives up, the agent does not.
JobTimesOut == /\ job # None /\ job.at = "working"
               /\ Spend("fault")
               /\ job' = [job EXCEPT !.at = "other"]
               /\ UNCHANGED <<soak, w, mind, timers, stopping, finished, lock, world, history>>

\* Store.Complete frees the target; OnComplete comes later.
Complete == /\ job # None /\ job.at \in {"applied", "other"}
            /\ finished' = [finished EXCEPT ![job.at] = @ + 1]
            /\ job' = None
            /\ UNCHANGED <<soak, w, mind, timers, stopping, lock, world, left, history>>

\* OnComplete: ClearPending, whatever the outcome.
ClearPending(o) == /\ finished[o] > 0
                   /\ finished' = [finished EXCEPT ![o] = @ - 1]
                   /\ pending' = None
                   /\ UNCHANGED <<soak, w, mine, broken, timers, stopping, job, lock, world,
                                  left, history>>

--------------------------------------------------------------------------------
(* The environment *)

Publish(i) == /\ i # offered /\ Spend("publish")
              /\ offered' = i
              /\ UNCHANGED <<soak, w, mind, timers, stopping, jobs, lock, deployed, history>>

Shutdown == /\ ~stopping /\ left["restart"] > 0
            /\ stopping' = TRUE
            /\ UNCHANGED <<soak, w, mind, timers, jobs, lock, world, left, history>>

\* The process is gone and starts again: the soak starts over.
Restart == /\ stopping /\ Spend("restart")
           /\ Fresh
           /\ UNCHANGED <<soak, lock, world>>

--------------------------------------------------------------------------------
Watch == \/ FirstWake \/ Arm \/ WakeTicker \/ WakeSoak \/ StopWatching
         \/ SkipBusy \/ AskAgent \/ CheckBegins \/ CheckAnswers \/ NothingNew \/ Mark
         \/ TooEarly \/ Soaked \/ StartAuto \/ StartRefused \/ ClearStarted
         \/ (lock # None /\ Refused)

Work == JobReaches \/ AgentApplies \/ AgentLeavesAlone \/ Complete
        \/ \E o \in {"applied", "other"} : ClearPending(o)

Environment == \/ Refused \/ CheckFails \/ JobTimesOut \/ Shutdown \/ Restart
               \/ \E k \in {"manual", "dry"} : StartManual(k)
               \/ \E i \in Images : Publish(i)

Next == Advance \/ Watch \/ Work \/ Environment

\* Time passes, the goroutines run, and the agent finishes what it began (every command it
\* runs has a deadline).  Nothing is assumed of people, the registry, failures or restarts,
\* except that a process told to stop is started again.
Fairness == /\ WF_vars(Advance)
            /\ WF_vars(Watch)
            /\ WF_vars(JobReaches \/ Complete)
            /\ WF_vars(AgentApplies \/ AgentLeavesAlone)
            /\ \A o \in {"applied", "other"} : WF_vars(ClearPending(o))
            /\ WF_vars(Restart)

Spec == Init /\ [][Next]_vars
FairSpec == Spec /\ Fairness

--------------------------------------------------------------------------------
(* Properties *)

\* An automatic update starts only after a whole soak during which every check the agent
\* answered found something new: a withdrawn image starts the wait again, and a failed,
\* skipped or raced check never shortens it.
SoakObserved == w = "start" => newFor = soak

\* While watch sleeps, an unfinished soak has a timer for the moment it ends, so that it is
\* not left to the next check_interval.
WakesForTheSoak == w = "select" /\ pending # None /\ pending < soak => timer = soak - pending

\* What was announced about checks is true: contention with a running update is neither a
\* failure nor a recovery.
AlertsTellTheTruth == w = "select" => broken = failing

\* Whatever is published, withdrawn, refused, timed out, dry-run or restarted in between, once
\* the disturbances end the stack runs what the registry offers and no soak is advertised.
Converges == <>[](deployed = offered /\ pending = None)

\* DOCUMENTATION.md: "If the new image is withdrawn or replaced during the soak, the timer
\* clears on the next check and starts again next time it appears".
ReplacedImageSoaks == w = "start" => imageFor = soak

\* ClearPending's comment: it drops a soak "because the update it was waiting on has been
\* applied".
DroppedOnlyIfApplied ==
  [][finished'["other"] < finished["other"] /\ pending # None /\ deployed # offered
       => pending' # None]_vars
================================================================================
