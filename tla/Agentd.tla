-------------------------------- MODULE Agentd --------------------------------
(***************************************************************************)
(* The root agent's request handling (internal/agentd) and the service's   *)
(* side of the same unix-socket connection (internal/agent).               *)
(*                                                                         *)
(* A request is an exec (run the update pipeline) or a check (is there a   *)
(* newer image).  Each takes the target's lock, then one of MaxConcurrent  *)
(* slots, works, and gives both back in the order of its deferred calls.   *)
(* Callers time out, vanish and retry; the agent is stopped, killed and    *)
(* restarted.  What the pipeline does is module Pipeline.                  *)
(***************************************************************************)
EXTENDS Naturals, FiniteSets

CONSTANTS Targets,        \* stacks the agent has loaded
          Requests,       \* requests made over the lifetime of the model
          Kind,           \* what each asks for: "exec" or "check"
          Target,         \* the target each names
          Outcomes,       \* results pipeline.Update can return
          MaxConcurrent,  \* agentd.maxConcurrent
          None

ASSUME KindAssumption == Kind \in [Requests -> {"exec", "check"}]
ASSUME TargetAssumption == Target \in [Requests -> Targets]
ASSUME MaxConcurrentAssumption == MaxConcurrent \in Nat \ {0}
ASSUME RequestsAssumption == IsFiniteSet(Requests)
ASSUME OutcomesAssumption == Outcomes \intersect {"checked", "cancelled"} = {}

VARIABLES
  srv,      \* where the agent's handler is
  outcome,  \* what the work returned, None before
  status,   \* the status line the handler wrote, None before
  conn,     \* "open" until the caller or the agent goes away
  cli,      \* what the caller has concluded
  running,  \* Server.running: the locked targets
  slots,    \* requests holding a slot of Server.slots
  agent     \* the process: up, stopping or down

vars == <<srv, outcome, status, conn, cli, running, slots, agent>>

Statuses == {200, 400, 409, 500, 503}   \* 400 stands for every refusal before the lock
Results == Outcomes \union {"checked", "cancelled"}
ASSUME NoneAssumption == None \notin Results /\ None \notin Statuses

Verdicts == {"none", "result", "refused", "lost"}

\* In the order a request meets them; "stuck" is work whose docker command or hook does not
\* return, "dead" a handler whose process died.
Stages == {"none", "arrived", "locked", "working", "stuck", "emitted", "unslotted",
           "released", "returned", "dead"}

HoldsLock(r) == srv[r] \in {"locked", "working", "stuck", "emitted", "unslotted"}
HoldsSlot(r) == srv[r] \in {"working", "stuck", "emitted"}

TypeOK == /\ srv \in [Requests -> Stages]
          /\ outcome \in [Requests -> Results \union {None}]
          /\ status \in [Requests -> Statuses \union {None}]
          /\ conn \in [Requests -> {"open", "cut"}]
          /\ cli \in [Requests -> Verdicts]
          /\ running \in SUBSET Targets
          /\ slots \in SUBSET Requests /\ Cardinality(slots) <= MaxConcurrent
          /\ agent \in {"up", "stopping", "down"}

Init == /\ srv = [r \in Requests |-> "none"]
        /\ outcome = [r \in Requests |-> None]
        /\ status = [r \in Requests |-> None]
        /\ conn = [r \in Requests |-> "open"]
        /\ cli = [r \in Requests |-> "none"]
        /\ running = {}
        /\ slots = {}
        /\ agent = "up"

--------------------------------------------------------------------------------
(* handleExec and handleCheck *)

Goto(r, stage) == srv' = [srv EXCEPT ![r] = stage]
Write(r, code) == status' = [status EXCEPT ![r] = code]

\* The socket accepts the connection.
Arrive(r) == /\ agent = "up"
             /\ srv[r] = "none" /\ cli[r] = "none"
             /\ Goto(r, "arrived")
             /\ UNCHANGED <<outcome, status, conn, cli, running, slots, agent>>

\* Peer, body, decoding, unknown target, bad tag: refused before anything is taken.
Refuse(r) == /\ srv[r] = "arrived"
             /\ Write(r, 400)
             /\ Goto(r, "returned")
             /\ UNCHANGED <<outcome, conn, cli, running, slots, agent>>

\* acquire(): test and set under one mutex.
AcquireUnchecked(r) == /\ srv[r] = "arrived"
                       /\ running' = running \union {Target[r]}
                       /\ Goto(r, "locked")
                       /\ UNCHANGED <<outcome, status, conn, cli, slots, agent>>
Acquire(r) == /\ srv[r] = "arrived"
              /\ Target[r] \notin running
              /\ running' = running \union {Target[r]}
              /\ Goto(r, "locked")
              /\ UNCHANGED <<outcome, status, conn, cli, slots, agent>>

Conflict(r) == /\ srv[r] = "arrived"
               /\ Target[r] \in running
               /\ Write(r, 409)
               /\ Goto(r, "returned")
               /\ UNCHANGED <<outcome, conn, cli, running, slots, agent>>

\* A free slot is taken without waiting; an exec commits its 200 and starts to stream.
TakeSlotMut(r) == /\ srv[r] = "locked"
                  /\ slots' = slots \union {r}
                  /\ Goto(r, "working")
                  /\ IF Kind[r] = "exec" THEN Write(r, 200) ELSE UNCHANGED status
                  /\ UNCHANGED <<outcome, conn, cli, running, agent>>
TakeSlot(r) == /\ srv[r] = "locked"
               /\ Cardinality(slots) < MaxConcurrent
               /\ slots' = slots \union {r}
               /\ Goto(r, "working")
               /\ IF Kind[r] = "exec" THEN Write(r, 200) ELSE UNCHANGED status
               /\ UNCHANGED <<outcome, conn, cli, running, agent>>

\* No slot: 503, and the deferred release still runs.
NoSlotMut(r) == /\ srv[r] = "locked"
                /\ Cardinality(slots) >= MaxConcurrent
                /\ Write(r, 503)
                /\ Goto(r, "returned")
                /\ UNCHANGED <<outcome, conn, cli, running, slots, agent>>
NoSlot(r) == /\ srv[r] = "locked"
             /\ Cardinality(slots) >= MaxConcurrent
             /\ Write(r, 503)
             /\ Goto(r, "unslotted")
             /\ UNCHANGED <<outcome, conn, cli, running, slots, agent>>

\* pipeline.Update returns under a context that outlives the caller, and the result is the
\* last event of the stream.
FinishExec(r) == /\ srv[r] = "working" /\ Kind[r] = "exec"
                 /\ \E o \in Outcomes : outcome' = [outcome EXCEPT ![r] = o]
                 /\ Goto(r, "emitted")
                 /\ UNCHANGED <<status, conn, cli, running, slots, agent>>

\* checker.Check runs under the request's own context: a caller that goes away cancels it.
\* A check that fails for another reason ends the same way.
FinishCheck(r) == /\ srv[r] = "working" /\ Kind[r] = "check"
                  /\ \/ /\ conn[r] = "open"
                        /\ outcome' = [outcome EXCEPT ![r] = "checked"]
                        /\ Write(r, 200)
                     \/ /\ outcome' = [outcome EXCEPT ![r] = "cancelled"]
                        /\ Write(r, 500)
                  /\ Goto(r, "emitted")
                  /\ UNCHANGED <<conn, cli, running, slots, agent>>

\* A deadline kills the command the work waits for, but Run also waits for the end of its
\* output, which a process the command left behind can keep open: exec.CommandContext
\* without a WaitDelay.
Stall(r) == /\ srv[r] = "working"
            /\ Goto(r, "stuck")
            /\ UNCHANGED <<outcome, status, conn, cli, running, slots, agent>>

Resume(r) == /\ srv[r] = "stuck"
             /\ Goto(r, "working")
             /\ UNCHANGED <<outcome, status, conn, cli, running, slots, agent>>

\* The deferred calls, last deferred first: the slot, then the target's lock.
FreeSlot(r) == /\ srv[r] = "emitted"
               /\ slots' = slots \ {r}
               /\ Goto(r, "unslotted")
               /\ UNCHANGED <<outcome, status, conn, cli, running, agent>>

ReleaseMut(r) == /\ srv[r] = "unslotted" /\ conn[r] = "open"
                 /\ running' = running \ {Target[r]}
                 /\ Goto(r, "released")
                 /\ UNCHANGED <<outcome, status, conn, cli, slots, agent>>
Release(r) == /\ srv[r] = "unslotted"
              /\ running' = running \ {Target[r]}
              /\ Goto(r, "released")
              /\ UNCHANGED <<outcome, status, conn, cli, slots, agent>>

\* The handler has returned and the HTTP server ends the response body.
EndResponse(r) == /\ srv[r] = "released"
                  /\ Goto(r, "returned")
                  /\ UNCHANGED <<outcome, status, conn, cli, running, slots, agent>>

Handle(r) == \/ Refuse(r) \/ Acquire(r) \/ Conflict(r) \/ TakeSlot(r) \/ NoSlot(r)
             \/ FinishExec(r) \/ FinishCheck(r) \/ FreeSlot(r) \/ Release(r) \/ EndResponse(r)

--------------------------------------------------------------------------------
(* agent.Client: Update, consume and Check *)

Conclude(r, verdict) == cli' = [cli EXCEPT ![r] = verdict]

\* consume reads to the end of the body before it returns a result it has seen.  Refusals and
\* the answers to checks are read to their end when they are short.
ReceiveEarly(r) == /\ cli[r] = "none" /\ conn[r] = "open"
                   /\ status[r] # None
                   /\ status[r] = 200 => outcome[r] # None
                   /\ Conclude(r, IF status[r] = 200 THEN "result" ELSE "refused")
                   /\ UNCHANGED <<srv, outcome, status, conn, running, slots, agent>>
Receive(r) == /\ cli[r] = "none" /\ conn[r] = "open"
              /\ srv[r] = "returned"
              /\ Conclude(r, IF status[r] = 200 THEN "result" ELSE "refused")
              /\ UNCHANGED <<srv, outcome, status, conn, running, slots, agent>>

\* Check drops the error of a read that was cut and stops at maxErrorBytes: once the handler
\* has written its answer, Check may conclude from a part of it, whether the handler returned
\* or not.  A part of a 500 is a refusal; of a 200 it may be the whole of the JSON or not.
ReceivePrefix(r) == /\ cli[r] = "none"
                    /\ Kind[r] = "check"
                    /\ status[r] \in {200, 500}
                    /\ \E verdict \in IF status[r] = 200 THEN {"result", "lost"} ELSE {"refused"} :
                          Conclude(r, verdict)
                    /\ UNCHANGED <<srv, outcome, status, conn, running, slots, agent>>

\* JobTimeout, the deadline of a check, or the service itself going away: the caller drops
\* the connection.
GiveUp(r) == /\ cli[r] = "none" /\ conn[r] = "open" /\ srv[r] # "none"
             /\ conn' = [conn EXCEPT ![r] = "cut"]
             /\ Conclude(r, "lost")
             /\ UNCHANGED <<srv, outcome, status, running, slots, agent>>

\* The connection was cut from the other side, or the socket refuses: no clean end of body.
LoseContactMut(r) == /\ cli[r] = "none"
                     /\ srv[r] = "none" /\ agent # "up"
                     /\ Conclude(r, "lost")
                     /\ UNCHANGED <<srv, outcome, status, conn, running, slots, agent>>
CutIsResultMut(r) == /\ cli[r] = "none"
                     /\ conn[r] = "cut" \/ (srv[r] = "none" /\ agent # "up")
                     /\ Conclude(r, IF outcome[r] \in Outcomes THEN "result" ELSE "lost")
                     /\ UNCHANGED <<srv, outcome, status, conn, running, slots, agent>>
LoseContact(r) == /\ cli[r] = "none"
                  /\ conn[r] = "cut" \/ (srv[r] = "none" /\ agent # "up")
                  /\ Conclude(r, "lost")
                  /\ UNCHANGED <<srv, outcome, status, conn, running, slots, agent>>

Call(r) == Receive(r) \/ ReceivePrefix(r) \/ GiveUp(r) \/ LoseContact(r)

--------------------------------------------------------------------------------
(* The agent process *)

\* SIGTERM: the listener closes, requests in flight get a grace period.
Stop == /\ agent = "up"
        /\ agent' = "stopping"
        /\ UNCHANGED <<srv, outcome, status, conn, cli, running, slots>>

\* The grace period ends, or the process is killed: locks and slots die with it.
InFlight(r) == srv[r] \notin {"none", "returned", "dead"}
Die == /\ agent \in {"up", "stopping"}
       /\ agent' = "down"
       /\ srv' = [r \in Requests |-> IF InFlight(r) THEN "dead" ELSE srv[r]]
       /\ conn' = [r \in Requests |-> IF InFlight(r) THEN "cut" ELSE conn[r]]
       /\ running' = {}
       /\ slots' = {}
       /\ UNCHANGED <<outcome, status, cli>>

Restart == /\ agent = "down"
           /\ agent' = "up"
           /\ UNCHANGED <<srv, outcome, status, conn, cli, running, slots>>

--------------------------------------------------------------------------------
Next == \/ \E r \in Requests : Arrive(r) \/ Handle(r) \/ Call(r) \/ Stall(r) \/ Resume(r)
        \/ Stop \/ Die \/ Restart

\* The Go scheduler runs every handler on, and pipeline.Update and Check return when the
\* commands they run do: their deadlines kill a command but do not make Run return, so
\* nothing is assumed of Stall and Resume.  A caller concludes: its own context ends
\* (Manager.run, Scheduler.tick).  Nothing makes a request arrive or the process live or die.
Fairness == \A r \in Requests : WF_vars(Handle(r)) /\ WF_vars(Call(r))

Spec == Init /\ [][Next]_vars
FairSpec == Spec /\ Fairness

--------------------------------------------------------------------------------
(* Properties *)

\* The lock table and the slot channel say exactly who holds them: no path through the
\* handlers leaks a target or a slot, the 503 path and the restarts of the agent included
\* (the deferred calls of handleExec and handleCheck).
NothingLeaks == /\ running = {Target[r] : r \in {q \in Requests : HoldsLock(q)}}
                /\ slots = {r \in Requests : HoldsSlot(r)}

\* A caller that has the result of an update, and so may free the target and start the next
\* job, finds the target unlocked: the response body ends after the deferred release, and
\* consume reads to its end.  A refusal holds nothing either, but for the 500 of a failed
\* check, of which Client.Check may have read only a part.
AnsweredMeansReleased ==
  \A r \in Requests :
     (cli[r] = "result" /\ Kind[r] = "exec") \/ (cli[r] = "refused" /\ status[r] # 500)
       => ~HoldsLock(r) /\ ~HoldsSlot(r)

\* The result of an update is never made of a stream that was cut: the work had ended and its
\* handler returned, whatever became of the agent and the connection (consume's gotResult and
\* the error of a body without a clean end).  A check, whose client drops that error, has a
\* result only of a check that gave one.
ResultIsWhole ==
  \A r \in Requests :
     cli[r] = "result" => IF Kind[r] = "exec" THEN outcome[r] \in Outcomes /\ srv[r] = "returned"
                                              ELSE outcome[r] = "checked"

\* A target taken by a request is given back, whatever became of the caller, unless a docker
\* command never returns: then the lock and the slot stay taken until the agent dies.
LockReleased == \A r \in Requests : HoldsLock(r) ~> (~HoldsLock(r) \/ srv[r] = "stuck")

\* Every caller whose request was accepted ends with a verdict: a result, a refusal or lost
\* contact; it does not wait for an agent that died, or for a handler that is stuck.
CallerConcludes == \A r \in Requests : srv[r] # "none" ~> cli[r] # "none"

--------------------------------------------------------------------------------
(* Refinement *)

\* For the promise, a request is in progress from the lock to its release.
Exclusion == INSTANCE UpdateExclusion WITH
                Works <- Requests,
                updating <- {<<Target[r], r>> : r \in {q \in Requests : HoldsLock(q)}},
                over <- {r \in Requests : srv[r] \in {"released", "returned", "dead"}}

\* The agent on its own implements the promise of one update at a time per target: acquire,
\* the deferred release and a crash are the only steps the promise sees (Server.running).
ImplementsExclusion == Exclusion!Spec
================================================================================
