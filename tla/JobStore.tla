------------------------------- MODULE JobStore -------------------------------
(***************************************************************************)
(* The service's job store and manager (internal/job), the callers that    *)
(* start jobs (the HTTP handler of POST /update and the scheduler's tick)  *)
(* and the graceful shutdown of `dup serve` (internal/cli/serve.go).       *)
(*                                                                         *)
(* One action per critical section or channel operation, so every          *)
(* interleaving of the run goroutines, the callers and the shutdown        *)
(* sequence is a behaviour.  The backend (the agent client) is abstract    *)
(* here: it reports steps and returns any outcome.                         *)
(***************************************************************************)
EXTENDS Naturals, Sequences, FiniteSets

CONSTANTS Targets,   \* names of the configured stacks
          Jobs,      \* job ids newID can return; they are never reused
          None,      \* stands for a nil *Job and for an unset field
          Handlers,  \* HTTP handler goroutines of POST /v1/targets/{target}/update
          Tickers,   \* scheduler goroutines, one per auto-updated stack
          Outcomes,  \* the final states the backend may report
          History,   \* Store.history
          MaxSteps   \* bound on the step log of one job

ASSUME HistoryAssumption == History \in Nat \ {0}
ASSUME MaxStepsAssumption == MaxSteps \in Nat

VARIABLES
  jobs,      \* Store.jobs: the ids GET /v1/jobs/{id} finds
  order,     \* Store.order: the same ids, oldest first
  running,   \* Store.running: target -> job
  state,     \* Job.state, "unborn" before newJob
  target,    \* Job.target
  starter,   \* the caller that began the job
  steps,     \* Job.steps: each "running", "done" or "died"
  done,      \* the jobs whose done channel is closed
  pc,        \* where the job's run goroutine is
  caller,    \* where each caller is
  awaits,    \* the job a waiting handler selects on
  answer,    \* the last response of each handler
  phase,     \* where `dup serve` is
  drainJob,  \* the job DrainRunning selects on
  timedOut   \* a shutdown budget ran out

jobVars   == <<state, target, starter, steps, done, pc>>
storeVars == <<jobs, order, running>>
callVars  == <<caller, awaits, answer>>
shutVars  == <<phase, drainJob, timedOut>>
vars == <<jobVars, storeVars, callVars, shutVars>>

Callers == Handlers \union Tickers

\* job.State and Terminal()
Terminal == {"succeeded", "no_change", "dry_run", "failed", "rolled_back", "rollback_failed"}
States == {"running"} \union Terminal

ASSUME NoneAssumption == None \notin Jobs
ASSUME CallersAssumption == Handlers \intersect Tickers = {}
ASSUME OutcomesAssumption == Outcomes \subseteq Terminal

RunPCs == {"none", "update", "close", "free", "record", "end"}
StepStates == {"running", "done", "died"}
Phases == {"serving", "http", "drain", "waiting", "drained", "exit", "failed"}

Answers == [kind : {"none", "busy", "accepted"}]
           \union [kind : {"finished"}, job : Jobs, state : States]

RangeOf(s) == {s[i] : i \in 1 .. Len(s)}

Alive == phase \notin {"exit", "failed"}

TypeOK == /\ jobs \in SUBSET Jobs
          /\ order \in Seq(Jobs) /\ Len(order) <= History
          /\ running \in [Targets -> Jobs \union {None}]
          /\ state \in [Jobs -> States \union {"unborn"}]
          /\ target \in [Jobs -> Targets \union {None}]
          /\ starter \in [Jobs -> Callers \union {None}]
          /\ steps \in [Jobs -> Seq(StepStates)]
          /\ done \in SUBSET Jobs
          /\ pc \in [Jobs -> RunPCs]
          /\ caller \in [Callers -> {"idle", "ready", "waiting"}]
          /\ awaits \in [Handlers -> Jobs \union {None}]
          /\ answer \in [Handlers -> Answers]
          /\ phase \in Phases
          /\ drainJob \in Jobs \union {None}
          /\ timedOut \in BOOLEAN

Init == /\ jobs = {}
        /\ order = << >>
        /\ running = [t \in Targets |-> None]
        /\ state = [j \in Jobs |-> "unborn"]
        /\ target = [j \in Jobs |-> None]
        /\ starter = [j \in Jobs |-> None]
        /\ steps = [j \in Jobs |-> << >>]
        /\ done = {}
        /\ pc = [j \in Jobs |-> "none"]
        /\ caller = [c \in Callers |-> "idle"]
        /\ awaits = [h \in Handlers |-> None]
        /\ answer = [h \in Handlers |-> [kind |-> "none"]]
        /\ phase = "serving"
        /\ drainJob = None
        /\ timedOut = FALSE

--------------------------------------------------------------------------------
(* The step log of a job *)

\* StartStep leaves a placeholder; AddStep replaces it, or appends when there is none.
Placeholder(log) == log # << >> /\ log[Len(log)] = "running"
Started(log) == Append(log, "running")
Added(log) == IF Placeholder(log)
              THEN [log EXCEPT ![Len(log)] = "done"]
              ELSE Append(log, "done")

\* finish() marks the step that never reported back.
ClosedMut(log) == log
Closed(log) == IF Placeholder(log) THEN [log EXCEPT ![Len(log)] = "died"] ELSE log

\* The agent's stream reports every step as a start followed by its result
\* (Pipeline.step, Pipeline.begin), and the last one may be cut off.
StartStep(j) == /\ pc[j] = "update"
                /\ ~Placeholder(steps[j])
                /\ Len(steps[j]) < MaxSteps
                /\ steps' = [steps EXCEPT ![j] = Started(@)]
                /\ UNCHANGED <<state, target, starter, done, pc, storeVars, callVars,
                               shutVars>>

AddStep(j) == /\ pc[j] = "update"
              /\ Placeholder(steps[j]) \/ Len(steps[j]) < MaxSteps
              /\ steps' = [steps EXCEPT ![j] = Added(@)]
              /\ UNCHANGED <<state, target, starter, done, pc, storeVars, callVars,
                             shutVars>>

--------------------------------------------------------------------------------
(* Store.Begin and Manager.Start *)

\* The ids kept and dropped once the order is longer than History.
KeptMut(o) == IF Len(o) > History + 1 THEN Tail(o) ELSE o
Kept(o) == IF Len(o) > History THEN SubSeq(o, Len(o) - History + 1, Len(o)) ELSE o
Evicted(o) == {o[i] : i \in 1 .. IF Len(o) > History THEN Len(o) - History ELSE 0}

BusyNever(t) == FALSE
Busy(t) == running[t] # None

\* newID: ids are random and opaque, so which unused one it returns does not matter.
NewID == CHOOSE j \in Jobs : state[j] = "unborn"

\* A successful Begin, with the goroutine Manager.Start launches for it.
Begin(c, t, j) == /\ ~Busy(t)
                  /\ state[j] = "unborn" /\ j = NewID
                  /\ state' = [state EXCEPT ![j] = "running"]
                  /\ target' = [target EXCEPT ![j] = t]
                  /\ starter' = [starter EXCEPT ![j] = c]
                  /\ pc' = [pc EXCEPT ![j] = "update"]
                  /\ running' = [running EXCEPT ![t] = j]
                  /\ order' = Kept(Append(order, j))
                  /\ jobs' = (jobs \union {j}) \ Evicted(Append(order, j))
                  /\ UNCHANGED <<steps, done>>

--------------------------------------------------------------------------------
(* Manager.run, one goroutine per job *)

\* backend.Update returns (an error becomes "failed") and finish() runs its
\* critical section: nothing shared is touched between the two.
Finish(j, s) == /\ pc[j] = "update"
                /\ state' = [state EXCEPT ![j] = s]
                /\ steps' = [steps EXCEPT ![j] = Closed(@)]
                /\ pc' = [pc EXCEPT ![j] = "close"]
                /\ UNCHANGED <<target, starter, done, storeVars, callVars, shutVars>>

\* finish() closes the done channel after it has released the job's mutex.
CloseDone(j) == /\ pc[j] = "close"
                /\ done' = done \union {j}
                /\ pc' = [pc EXCEPT ![j] = "free"]
                /\ UNCHANGED <<state, target, starter, steps, storeVars, callVars, shutVars>>

\* The second half of Complete: the target is free for the next job.
FreeNone(j) == /\ pc[j] = "free"
               /\ pc' = [pc EXCEPT ![j] = "record"]
               /\ UNCHANGED <<state, target, starter, steps, done, storeVars, callVars,
                              shutVars>>
Free(j) == /\ pc[j] = "free"
           /\ running' = IF running[target[j]] = j
                         THEN [running EXCEPT ![target[j]] = None]
                         ELSE running
           /\ pc' = [pc EXCEPT ![j] = "record"]
           /\ UNCHANGED <<state, target, starter, steps, done, jobs, order, callVars,
                          shutVars>>

\* What follows Complete: onDone (its effect is modelled in Scheduler), recorder.Append,
\* whose failure is only logged, and the best-effort notification.
Record(j) == /\ pc[j] = "record"
             /\ pc' = [pc EXCEPT ![j] = "end"]
             /\ UNCHANGED <<state, target, starter, steps, done, storeVars, callVars, shutVars>>

RunStep(j) == \/ \E s \in Outcomes : Finish(j, s)
              \/ CloseDone(j) \/ Free(j) \/ Record(j)

--------------------------------------------------------------------------------
(* Callers: handleUpdate and the scheduler's apply *)

\* Bound: a caller is let in only while every one already in can still get an id.
IdsLeft == Cardinality({j \in Jobs : state[j] = "unborn"})
             > Cardinality({c \in Callers : caller[c] = "ready"})

\* A request has been authorised and built, or a tick has decided to apply.
\* After the shutdown signal neither the listener nor a check lets a new one in.
Accept(c) == /\ phase = "serving"
             /\ caller[c] = "idle"
             /\ IdsLeft
             /\ caller' = [caller EXCEPT ![c] = "ready"]
             /\ UNCHANGED <<jobVars, storeVars, awaits, answer, shutVars>>

Respond(h, a) == answer' = [answer EXCEPT ![h] = a]

\* 409 with the snapshot of the job in progress.
StartBusy(h, t) == /\ caller[h] = "ready"
                   /\ Busy(t)
                   /\ Respond(h, [kind |-> "busy"])
                   /\ caller' = [caller EXCEPT ![h] = "idle"]
                   /\ UNCHANGED <<jobVars, storeVars, awaits, shutVars>>

\* 202 at once when ?wait= is absent.
StartNoWait(h, t, j) == /\ caller[h] = "ready"
                        /\ Begin(h, t, j)
                        /\ Respond(h, [kind |-> "accepted"])
                        /\ caller' = [caller EXCEPT ![h] = "idle"]
                        /\ UNCHANGED <<awaits, shutVars>>

StartAndWait(h, t, j) == /\ caller[h] = "ready"
                         /\ Begin(h, t, j)
                         /\ caller' = [caller EXCEPT ![h] = "waiting"]
                         /\ awaits' = [awaits EXCEPT ![h] = j]
                         /\ UNCHANGED <<answer, shutVars>>

\* The done channel fires: 200 or 500 with the final snapshot.
WaitDoneEarly(h) == /\ caller[h] = "waiting"
                    /\ Respond(h, [kind |-> "finished", job |-> awaits[h],
                                   state |-> state[awaits[h]]])
                    /\ caller' = [caller EXCEPT ![h] = "idle"]
                    /\ awaits' = [awaits EXCEPT ![h] = None]
                    /\ UNCHANGED <<jobVars, storeVars, shutVars>>
WaitDone(h) == /\ caller[h] = "waiting"
               /\ awaits[h] \in done
               /\ Respond(h, [kind |-> "finished", job |-> awaits[h], state |-> state[awaits[h]]])
               /\ caller' = [caller EXCEPT ![h] = "idle"]
               /\ awaits' = [awaits EXCEPT ![h] = None]
               /\ UNCHANGED <<jobVars, storeVars, shutVars>>

\* The wait timer fires: 202 with whatever the job is doing by then.
WaitTimeout(h) == /\ caller[h] = "waiting"
                  /\ Respond(h, [kind |-> "accepted"])
                  /\ caller' = [caller EXCEPT ![h] = "idle"]
                  /\ awaits' = [awaits EXCEPT ![h] = None]
                  /\ UNCHANGED <<jobVars, storeVars, shutVars>>

ClientGone(h) == /\ caller[h] = "waiting"
                 /\ Respond(h, [kind |-> "none"])
                 /\ caller' = [caller EXCEPT ![h] = "idle"]
                 /\ awaits' = [awaits EXCEPT ![h] = None]
                 /\ UNCHANGED <<jobVars, storeVars, shutVars>>

\* The scheduler starts and does not wait; a busy target is left for the next tick.
TickStart(s, t, j) == /\ caller[s] = "ready"
                      /\ Begin(s, t, j)
                      /\ caller' = [caller EXCEPT ![s] = "idle"]
                      /\ UNCHANGED <<awaits, answer, shutVars>>

TickBusy(s, t) == /\ caller[s] = "ready"
                  /\ Busy(t)
                  /\ caller' = [caller EXCEPT ![s] = "idle"]
                  /\ UNCHANGED <<jobVars, storeVars, awaits, answer, shutVars>>

HandlerStep(h) == \/ Accept(h)
                  \/ \E t \in Targets : StartBusy(h, t)
                  \/ \E t \in Targets, j \in Jobs : StartNoWait(h, t, j) \/ StartAndWait(h, t, j)
                  \/ WaitDone(h) \/ WaitTimeout(h) \/ ClientGone(h)

TickerStep(s) == \/ Accept(s)
                 \/ \E t \in Targets : TickBusy(s, t)
                 \/ \E t \in Targets, j \in Jobs : TickStart(s, t, j)

--------------------------------------------------------------------------------
(* Graceful shutdown of runServe *)

Signal == /\ phase = "serving"
          /\ phase' = "http"
          /\ UNCHANGED <<jobVars, storeVars, callVars, drainJob, timedOut>>

\* The listener fails: runServe returns its error at once, without shutdown or drain.
ServeFails == /\ phase = "serving"
              /\ phase' = "failed"
              /\ UNCHANGED <<jobVars, storeVars, callVars, drainJob, timedOut>>

\* httpServer.Shutdown returns once no handler is active ...
HTTPClosed == /\ phase = "http"
              /\ \A h \in Handlers : caller[h] = "idle"
              /\ phase' = "drain"
              /\ UNCHANGED <<jobVars, storeVars, callVars, drainJob, timedOut>>

\* ... or when its budget is spent.
HTTPTimeout == /\ phase = "http"
               /\ \E h \in Handlers : caller[h] # "idle"
               /\ phase' = "drain"
               /\ timedOut' = TRUE
               /\ UNCHANGED <<jobVars, storeVars, callVars, drainJob>>

\* DrainRunning picks any running job, in map order, and selects on it.
DrainPick == /\ phase = "drain"
             /\ \E t \in Targets : /\ running[t] # None
                                   /\ drainJob' = running[t]
             /\ phase' = "waiting"
             /\ UNCHANGED <<jobVars, storeVars, callVars, timedOut>>

DrainNext == /\ phase = "waiting"
             /\ drainJob \in done
             /\ phase' = "drain"
             /\ drainJob' = None
             /\ UNCHANGED <<jobVars, storeVars, callVars, timedOut>>

\* Nothing is running.
DrainEmptyMut == /\ phase = "drain"
                 /\ \E t \in Targets : running[t] = None
                 /\ phase' = "drained"
                 /\ UNCHANGED <<jobVars, storeVars, callVars, drainJob, timedOut>>
DrainEmpty == /\ phase = "drain"
              /\ \A t \in Targets : running[t] = None
              /\ phase' = "drained"
              /\ UNCHANGED <<jobVars, storeVars, callVars, drainJob, timedOut>>

DrainTimeout == /\ phase = "waiting"
                /\ phase' = "drained"
                /\ drainJob' = None
                /\ timedOut' = TRUE
                /\ UNCHANGED <<jobVars, storeVars, callVars>>

\* runServe returns, main returns, and every goroutine is gone.
Exit == /\ phase = "drained"
        /\ phase' = "exit"
        /\ UNCHANGED <<jobVars, storeVars, callVars, drainJob, timedOut>>

ShutdownStep == \/ Signal \/ ServeFails \/ HTTPClosed \/ HTTPTimeout
                \/ DrainPick \/ DrainNext \/ DrainEmpty \/ DrainTimeout \/ Exit

--------------------------------------------------------------------------------
JobStep(j) == StartStep(j) \/ AddStep(j) \/ RunStep(j)

\* The process stops for good: its goroutines stop with it.
Next == /\ Alive
        /\ \/ \E j \in Jobs : JobStep(j)
           \/ \E h \in Handlers : HandlerStep(h)
           \/ \E s \in Tickers : TickerStep(s)
           \/ ShutdownStep

(***************************************************************************)
(* Fairness.  The Go scheduler runs every runnable goroutine; the backend  *)
(* returns because its context carries JobTimeout.  No fairness is assumed *)
(* of requests, of timers, of clients, of the shutdown signal or of a      *)
(* listener that fails.                                                    *)
(***************************************************************************)
StartsOf(c) == \/ \E t \in Targets, j \in Jobs :
                    \/ c \in Handlers /\ (StartNoWait(c, t, j) \/ StartAndWait(c, t, j))
                    \/ c \in Tickers /\ TickStart(c, t, j)
               \/ \E t \in Targets : \/ c \in Handlers /\ StartBusy(c, t)
                                     \/ c \in Tickers /\ TickBusy(c, t)

Fairness == /\ \A j \in Jobs : WF_vars(Alive /\ RunStep(j))
            /\ \A c \in Callers : WF_vars(Alive /\ StartsOf(c))
            /\ \A h \in Handlers : WF_vars(Alive /\ WaitDone(h))
            /\ WF_vars(HTTPClosed)
            /\ WF_vars(DrainPick \/ DrainNext \/ DrainEmpty \/ Exit)

Spec == Init /\ [][Next]_vars
FairSpec == Spec /\ Fairness

--------------------------------------------------------------------------------
(* Properties *)

\* At most one job per target has its backend call in progress, however callers,
\* completions and the next Begin interleave (Store.Begin, Store.Complete).
OneUpdatePerTarget ==
  \A j, k \in Jobs : pc[j] = "update" /\ pc[k] = "update" /\ target[j] = target[k] => j = k

\* A response sent because the done channel fired carries a final state, and the one the
\* job keeps: the channel is closed only after finish() has published the outcome
\* (handleUpdate, finish).
AnswerIsFinal ==
  \A h \in Handlers : answer[h].kind = "finished" =>
     /\ answer[h].state \in Terminal
     /\ answer[h].state = state[answer[h].job]

\* A finished job reports no step as still running, even when the agent's stream was cut
\* off between a step's start and its result (finish).
NoStepOutlivesJob ==
  \A j \in Jobs : state[j] \in Terminal => "running" \notin RangeOf(steps[j])

\* A shutdown that ran out of no budget has waited for every update an HTTP request
\* started: one left in progress at exit was begun by a scheduler tick that was already
\* past its check (runServe, DrainRunning).
DrainWaitsForRequests ==
  phase = "exit" /\ ~timedOut =>
     \A j \in Jobs : pc[j] = "update" => starter[j] \in Tickers

\* manager.go: the recorder "is what makes history survive a restart".  A shutdown within
\* its budgets would leave every finished job recorded or refused by the disk; the code
\* waits for the running map only, and the record is written after a job leaves it.
FinishedIsRecordedAtExit ==
  phase = "exit" /\ ~timedOut =>
     \A j \in Jobs : state[j] \in Terminal => pc[j] = "end"

\* A job never holds its target for ever: the run goroutine always gets to the deletion
\* in Complete, unless the process has stopped.  And the shutdown sequence ends without the
\* help of its budgets: the drain loop does not spin for ever on a job that is done but not
\* yet deleted.
Progress ==
  /\ \A t \in Targets, j \in Jobs : running[t] = j ~> (running[t] # j \/ ~Alive)
  /\ phase = "http" ~> phase = "exit"

--------------------------------------------------------------------------------
(* Refinement *)

\* A job is in progress, for the promise, while its backend call is.
Exclusion == INSTANCE UpdateExclusion WITH
                Works <- Jobs,
                updating <- {<<target[j], j>> : j \in {k \in Jobs : pc[k] = "update"}},
                over <- {j \in Jobs : pc[j] \notin {"none", "update"}}

\* The store and the manager implement the promise of one update at a time per target.
ImplementsExclusion == Exclusion!Spec
================================================================================
