------------------------------- MODULE Pipeline -------------------------------
(***************************************************************************)
(* One update, or one check, of one stack by the root agent                *)
(* (internal/pipeline) over the docker commands it runs                    *)
(* (internal/compose).                                                     *)
(*                                                                         *)
(* Docker's world is what the pipeline's correctness is about: which image *)
(* each container runs, which image each reference names locally, which    *)
(* images are present.  Every command may fail, alone or because the job's *)
(* deadline has passed; pull and up may fail half way.  Containers become  *)
(* healthy, stay unhealthy or die as they please, and somebody may prune   *)
(* an unused image at any moment.                                          *)
(***************************************************************************)
EXTENDS Integers, FiniteSets

CONSTANTS
  Services,   \* services of the compose file
  Images,     \* image IDs
  Refs,       \* image references, "repo:tag"
  Tags,       \* image tags a request may ask for
  None,       \* no tag, no reference, no image, not set
  RefOf,      \* RefOf[s][g]: what compose resolves for s with the tag variable set to g
  Needs,      \* Needs[s]: the services s depends on in the compose file, directly or not
  RepoOf,     \* repository(): a reference without its tag
  TagOf,      \* refTag(): the tag of a reference, None when it has none
  Worlds,     \* docker states a run may start from
  Confs,      \* target configurations
  Orders,     \* requests
  Window,     \* stability_window, in polls
  Deadline,   \* health_timeout, in polls
  Grace,      \* failFastGrace, in polls
  MaxPrunes   \* bound on images pruned during the run

Conditions == {"healthy", "starting", "exited", "absent"}
Containers == [ref : Refs \union {None}, id : Images \union {None}, cond : Conditions]
WorldType == [cont : [Services -> Containers], names : [Refs -> Images \union {None}],
              local : SUBSET Images, registry : [Refs -> Images]]
ConfType == [services : SUBSET Services, rollback : BOOLEAN, tagEnv : BOOLEAN,
             hook : {"none", "optional", "required"}]
OrderType == [op : {"update", "check"}, tag : Tags \union {None},
              dryRun : BOOLEAN, force : BOOLEAN]

ASSUME RefOfAssumption == RefOf \in [Services -> [Tags \union {None} -> Refs]]
ASSUME NeedsAssumption == /\ Needs \in [Services -> SUBSET Services]
                          /\ \A s \in Services : \A d \in Needs[s] : Needs[d] \subseteq Needs[s]
ASSUME RepoOfAssumption == DOMAIN RepoOf = Refs
ASSUME TagOfAssumption == TagOf \in [Refs -> Tags \union {None}]
ASSUME WorldsAssumption == Worlds \subseteq WorldType
ASSUME ConfsAssumption == Confs \subseteq ConfType
ASSUME OrdersAssumption == Orders \subseteq OrderType
ASSUME TimesAssumption == {Window, Deadline, Grace, MaxPrunes} \subseteq Nat /\ Window < Deadline

VARIABLES
  pc,          \* the next thing the pipeline does
  conf,        \* the target's configuration
  order,       \* the request
  tag,         \* the tag in the environment of the docker commands
  cont,        \* the container of each service
  names,       \* local references: ref -> image ID
  local,       \* images present locally
  registry,    \* ref -> image ID, as a pull would find it
  before,      \* the snapshot taken by inspect-before, None until then
  desired,     \* resolveImages' map
  expired,     \* the current context is past its deadline
  todo,        \* services the rollback loop has not come to yet
  missing, retagFailed,   \* services the rollback could not restore
  elapsed,     \* polls since waitHealthy began
  settledAt,   \* settledSince, None when zero
  result,      \* the outcome, None while running
  lastBad,     \* history variable: the last poll that saw an unsettled stack, -1 if none
  guessed,     \* history variable: the last resolveImages fell back
  pruned,      \* images pruned so far
  stuck        \* a docker command, or the hook, does not return

progress == <<pc, conf, order, tag, before, desired>>
docker   == <<cont, names, local, registry, pruned>>
undo     == <<todo, missing, retagFailed, guessed>>
health   == <<elapsed, settledAt, lastBad>>
run      == <<progress, docker, undo, health, expired, result>>
vars == <<run, stuck>>

Steps == {"validate", "inspect", "resolve", "tagcheck", "pull", "compare", "hook", "up",
          "health", "rbresolve", "rbtag", "rbhealth", "done"}
Outcomes == {"succeeded", "no_change", "dry_run", "failed", "rolled_back", "rollback_failed",
             "available", "current", "check_failed"}
ASSUME NoneAssumption == /\ None \notin Refs /\ None \notin Images /\ None \notin Outcomes
                         /\ None \notin 0 .. Deadline + 1 /\ None \notin [Services -> Containers]

RunTypeOK == /\ pc \in Steps
             /\ conf \in ConfType
             /\ order \in OrderType
             /\ tag \in Tags \union {None}
             /\ cont \in [Services -> Containers]
             /\ names \in [Refs -> Images \union {None}]
             /\ local \in SUBSET Images
             /\ registry \in [Refs -> Images]
             /\ before \in [Services -> Containers] \union {None}
             /\ desired \in [Services -> Refs \union {None}]
             /\ expired \in BOOLEAN
             /\ todo \in SUBSET Services
             /\ missing \in SUBSET Services
             /\ retagFailed \in SUBSET Services
             /\ guessed \in BOOLEAN
             /\ elapsed \in 0 .. Deadline + 1
             /\ settledAt \in (0 .. Deadline + 1) \union {None}
             /\ lastBad \in -1 .. Deadline + 1
             /\ result \in Outcomes \union {None}
             /\ pruned \in SUBSET Images
TypeOK == RunTypeOK /\ stuck \in BOOLEAN

Init == /\ pc = "validate"
        /\ conf \in Confs
        /\ order \in Orders /\ tag = order.tag
        /\ order.tag # None => conf.tagEnv   \* the agent's validateTag has passed
        /\ \E w \in Worlds : /\ cont = w.cont /\ names = w.names
                             /\ local = w.local /\ registry = w.registry
        /\ before = None
        /\ desired = [s \in Services |-> None]
        /\ expired = FALSE
        /\ todo = {} /\ missing = {} /\ retagFailed = {}
        /\ guessed = FALSE
        /\ elapsed = 0 /\ settledAt = None /\ lastBad = -1
        /\ result = None
        /\ pruned = {}
        /\ stuck = FALSE

--------------------------------------------------------------------------------
(* Helpers of the pipeline *)

Goto(step) == pc' = step
End(state) == pc' = "done" /\ result' = state

\* The services docker is told about: all of them when the target lists none.
Wanted == IF conf.services = {} THEN Services ELSE conf.services

\* targetEnv: the tag reaches compose only through the target's tag variable.
EnvTag(g) == IF conf.tagEnv THEN g ELSE None

\* compose config, and the fall-back to the containers' own references.
Resolved(g) == [s \in Services |-> RefOf[s][EnvTag(g)]]
FallBack == [s \in Services |-> before[s].ref]
ImageRef(want, s) == IF want[s] # None THEN want[s] ELSE before[s].ref

Exists(s) == before[s].cond # "absent"

\* healthTargets
Watched == IF conf.services # {} THEN conf.services
           ELSE {s \in Services : before[s].cond \in {"healthy", "starting"}}

Settled(cs, watched) == IF watched = {} THEN \E s \in Services : cs[s].cond = "healthy"
                                        ELSE \A s \in watched : cs[s].cond = "healthy"
Crashed(cs, watched) == \E s \in watched : cs[s].cond \in {"exited", "absent"}

\* changedServices: another reference, or another image behind the same one; a reference
\* that cannot be inspected counts as changed.
ChangedServicesMut(readable) ==
  {s \in Wanted : /\ Exists(s) /\ ImageRef(desired, s) # None
                  /\ before[s].ref # None /\ before[s].ref # ImageRef(desired, s)}
ChangedServices(readable) ==
  {s \in Wanted : /\ Exists(s) /\ ImageRef(desired, s) # None
                  /\ \/ before[s].ref # None /\ before[s].ref # ImageRef(desired, s)
                     \/ ~readable \/ names[ImageRef(desired, s)] \notin {before[s].id} \ {None}}

\* previousTag: the tag of the first wanted container that has one, in docker's order.
PreviousTags ==
  LET tags == {TagOf[before[s].ref] : s \in {x \in Wanted : Exists(x) /\ before[x].ref # None}}
              \ {None}
  IN  IF tags = {} THEN {None} ELSE tags

--------------------------------------------------------------------------------
(* docker, as the pipeline uses it *)

\* pull fetches the references of the services it is given; a failure may leave some done.
PulledNames(ss) == [r \in Refs |-> IF \E s \in ss : Resolved(tag)[s] = r THEN registry[r]
                                                                          ELSE names[r]]
PulledImages(ss) == local \union {registry[Resolved(tag)[s]] : s \in ss}

\* up recreates what differs from the compose file, or everything when forced, and fetches
\* an image that is not there.
UpImage(r) == IF names[r] # None THEN names[r] ELSE registry[r]
Differs(s, want) == \/ cont[s].cond \in {"absent", "exited"}
                    \/ cont[s].ref # want[s] \/ cont[s].id # UpImage(want[s])
Recreated(ss, want) ==
  [s \in Services |-> IF s \in ss
                      THEN [ref |-> want[s], id |-> UpImage(want[s]), cond |-> "starting"]
                      ELSE cont[s]]
\* Given services, up also recreates the services they need, where those differ.
UpScope == Wanted \union UNION {Needs[s] : s \in Wanted}
Diverged == {s \in UpScope : Differs(s, Resolved(tag))}

Up(ss, want) == /\ cont' = Recreated(ss, want)
                /\ names' = [r \in Refs |-> IF \E s \in ss : want[s] = r THEN UpImage(r)
                                                                        ELSE names[r]]
                /\ local' = local \union {UpImage(want[s]) : s \in ss}
                /\ UNCHANGED <<registry, pruned>>

\* Somebody prunes an image no container uses.
Prune(i) == /\ pc # "done" /\ Cardinality(pruned \union {i}) <= MaxPrunes
            /\ i \in local /\ \A s \in Services : cont[s].id # i
            /\ local' = local \ {i}
            /\ names' = [r \in Refs |-> IF names[r] = i THEN None ELSE names[r]]
            /\ pruned' = pruned \union {i}
            /\ UNCHANGED <<progress, undo, health, expired, result, cont, registry>>

\* The deadline of the current context passes: JobTimeout, or the rollback's own budget.
Expire == /\ pc # "done" /\ ~expired
          /\ expired' = TRUE
          /\ UNCHANGED <<progress, docker, undo, health, result>>

--------------------------------------------------------------------------------
(* pipeline() up to the point where containers are replaced; Check shares it *)

Refused == End(IF order.op = "check" THEN "check_failed" ELSE "failed")

ValidateOK == /\ pc = "validate" /\ ~expired
              /\ Goto("inspect")
              /\ UNCHANGED <<conf, order, tag, before, desired, docker, undo, health,
                             expired, result>>

InspectOK == /\ pc = "inspect" /\ ~expired
             /\ before' = cont
             /\ Goto("resolve")
             /\ UNCHANGED <<conf, order, tag, desired, docker, undo, health, expired, result>>

\* Any of these commands may fail: nothing has been touched yet.
EarlyFailure == /\ pc \in {"validate", "inspect"}
                /\ Refused
                /\ UNCHANGED <<conf, order, tag, before, desired, docker, undo, health,
                               expired>>

\* resolveImages never fails: without an answer it uses what the containers say.
Resolve == /\ pc = "resolve"
           /\ \/ ~expired /\ desired' = Resolved(tag) /\ guessed' = FALSE
              \/ desired' = FallBack /\ guessed' = TRUE
           /\ Goto(IF order.op = "check" THEN "pull" ELSE "tagcheck")
           /\ UNCHANGED <<conf, order, tag, before, docker, todo, missing, retagFailed,
                          health, expired, result>>

\* tagChangesMoreThanTheTag: a tag may choose a version, not an image.
TagCheck == /\ pc = "tagcheck"
            /\ LET base == Resolved(None)
                   same == \A s \in Wanted : desired[s] # None =>
                              RepoOf[base[s]] = RepoOf[desired[s]]
               IN  \/ /\ EnvTag(tag) = None \/ (~expired /\ same)
                      /\ Goto("pull")
                      /\ UNCHANGED result
                   \/ /\ EnvTag(tag) # None   \* the second compose config failed, or a move
                      /\ End("failed")
            /\ UNCHANGED <<conf, order, tag, before, desired, docker, undo, health, expired>>

Pull == /\ pc = "pull" /\ ~expired
        /\ names' = PulledNames(Wanted) /\ local' = PulledImages(Wanted)
        /\ Goto("compare")
        /\ UNCHANGED <<conf, order, tag, before, desired, cont, registry, pruned, undo,
                       health, expired, result>>

PullFails == /\ pc = "pull"
             /\ \E ss \in SUBSET Wanted :
                  names' = PulledNames(ss) /\ local' = PulledImages(ss)
             /\ Refused
             /\ UNCHANGED <<conf, order, tag, before, desired, cont, registry, pruned, undo,
                            health, expired>>

\* Compare, then stop if there is nothing to do: a check or a dry run always stops here.
Verdict(diff) ==
  CASE order.op = "check" -> End(IF diff = {} THEN "current" ELSE "available")
    [] order.op = "update" /\ order.dryRun -> End("dry_run")
    [] order.op = "update" /\ ~order.dryRun /\ diff = {} /\ ~order.force
         /\ Settled(before, Watched) -> End("no_change")
    [] OTHER -> Goto("hook") /\ UNCHANGED result

Compare == /\ pc = "compare"
           /\ \E readable \in {~expired, FALSE} :
                Verdict(ChangedServices(readable))
           /\ UNCHANGED <<conf, order, tag, before, desired, docker, undo, health, expired>>

\* runPreUpdate: a required hook that fails stops the update.
HookOK == /\ pc = "hook"
          /\ conf.hook = "none" \/ ~expired \/ conf.hook = "optional"
          /\ Goto("up")
          /\ UNCHANGED <<conf, order, tag, before, desired, docker, undo, health, expired,
                         result>>

HookFails == /\ pc = "hook" /\ conf.hook = "required"
             /\ End("failed")
             /\ UNCHANGED <<conf, order, tag, before, desired, docker, undo, health, expired>>

--------------------------------------------------------------------------------
(* up and waitHealthy *)

StartHealth == elapsed' = 0 /\ settledAt' = None /\ lastBad' = -1

UpOK == /\ pc = "up" /\ ~expired
        /\ Up(Diverged, Resolved(tag))
        /\ Goto("health") /\ StartHealth
        /\ UNCHANGED <<conf, order, tag, before, desired, undo, expired, result>>

\* rollback(): its own context unless rollback is off.
RollBackMut == End("failed") /\ UNCHANGED expired
RollBack == IF conf.rollback
            THEN /\ Goto("rbresolve") /\ expired' = FALSE /\ UNCHANGED result
            ELSE /\ End("failed") /\ UNCHANGED expired

UpFails == /\ pc = "up"
           /\ \E ss \in SUBSET Diverged : Up(ss, Resolved(tag))
           /\ RollBack
           /\ UNCHANGED <<conf, order, tag, before, desired, undo, health>>

\* Where waitHealthy's two callers go next.
HealthPassed == /\ End(IF pc = "health" THEN "succeeded" ELSE "rolled_back")
                /\ UNCHANGED expired
HealthFailed == IF pc = "health" THEN RollBack
                                 ELSE End("rollback_failed") /\ UNCHANGED expired

\* The tail of the loop: the deadline, then the context, then the next tick.
NextPollMut == \/ /\ expired
                  /\ HealthFailed /\ UNCHANGED elapsed
               \/ /\ ~expired
                  /\ elapsed' = elapsed + 1 /\ UNCHANGED <<pc, result, expired>>
NextPoll == \/ /\ elapsed > Deadline \/ expired
               /\ HealthFailed /\ UNCHANGED elapsed
            \/ /\ elapsed <= Deadline /\ ~expired
               /\ elapsed' = elapsed + 1 /\ UNCHANGED <<pc, result, expired>>

\* settledSince: set by the first settled poll, zeroed by an unsettled one.
SinceMut(ok) == IF settledAt = None /\ ok THEN elapsed ELSE settledAt
Since(ok) == IF ~ok THEN None ELSE IF settledAt = None THEN elapsed ELSE settledAt

\* A poll that docker answered.  The containers are in whatever condition they have reached.
Poll == /\ pc \in {"health", "rbhealth"} /\ ~expired
        /\ \E cs \in [Services -> {"healthy", "starting", "exited"}] :
             LET seen == [s \in Services |->
                            IF cont[s].cond = "absent" THEN cont[s]
                                                       ELSE [cont[s] EXCEPT !.cond = cs[s]]]
                 ok == Settled(seen, Watched)
             IN  /\ cont' = seen
                 /\ settledAt' = Since(ok)
                 /\ lastBad' = IF ok THEN lastBad ELSE elapsed
                 /\ CASE ok /\ elapsed - Since(ok) >= Window -> HealthPassed /\ UNCHANGED elapsed
                      [] ~ok /\ elapsed > Grace /\ Crashed(seen, Watched) ->
                           HealthFailed /\ UNCHANGED elapsed
                      [] OTHER -> NextPoll
        /\ UNCHANGED <<conf, order, tag, before, desired, names, local, registry, pruned, undo>>

\* A poll that docker did not answer leaves settledSince as it is.
PollFailsMut == /\ pc \in {"health", "rbhealth"}
                /\ elapsed <= Deadline
                /\ elapsed' = elapsed + 1
                /\ UNCHANGED <<progress, docker, undo, settledAt, lastBad, expired, result>>
PollFails == /\ pc \in {"health", "rbhealth"}
             /\ NextPoll
             /\ UNCHANGED <<conf, order, tag, before, desired, docker, undo, settledAt, lastBad>>

--------------------------------------------------------------------------------
(* rollback() *)

\* The environment of the rollback carries the previous tag.
RBResolve == /\ pc = "rbresolve"
             /\ tag' \in PreviousTags
             /\ \/ ~expired /\ desired' = Resolved(tag') /\ guessed' = FALSE
                \/ desired' = FallBack /\ guessed' = TRUE
             /\ todo' = {s \in Services : Exists(s)}
             /\ Goto("rbtag")
             /\ UNCHANGED <<conf, order, before, docker, missing, retagFailed, health,
                            expired, result>>

\* One iteration of the loop over every container that was there, in docker's order.
RetagDone(s) == /\ todo' = todo \ {s}
                /\ UNCHANGED <<progress, cont, local, registry, pruned, guessed, health, expired,
                               result>>

Retaggable(s) == /\ pc = "rbtag" /\ s \in todo
                 /\ ImageRef(desired, s) # None /\ before[s].id # None

\* Nothing to restore, or the reference still names the image.
RetagSkip(s) == /\ pc = "rbtag" /\ s \in todo
                /\ \/ ~Retaggable(s)
                   \/ ~expired /\ before[s].id \in local
                      /\ names[ImageRef(desired, s)] = before[s].id
                /\ RetagDone(s)
                /\ UNCHANGED <<names, missing, retagFailed>>

\* ImageExists says no: the image is gone, or docker did not answer.
RetagMissing(s) == /\ Retaggable(s)
                   /\ missing' = missing \union {s}
                   /\ RetagDone(s)
                   /\ UNCHANGED <<names, retagFailed>>

RetagMut(s) == /\ Retaggable(s) /\ ~expired /\ before[s].id \in local
               /\ before[s].ref # None
               /\ names' = [names EXCEPT ![before[s].ref] = before[s].id]
               /\ RetagDone(s)
               /\ UNCHANGED <<missing, retagFailed>>
Retag(s) == /\ Retaggable(s) /\ ~expired /\ before[s].id \in local
            /\ names' = [names EXCEPT ![ImageRef(desired, s)] = before[s].id]
            /\ RetagDone(s)
            /\ UNCHANGED <<missing, retagFailed>>

RetagFails(s) == /\ Retaggable(s)
                 /\ retagFailed' = retagFailed \union {s}
                 /\ RetagDone(s)
                 /\ UNCHANGED <<names, missing>>

\* rollback-up recreates the updated services by force, whatever the retagging did; the
\* services they need only where they differ.
RBUpServices == Wanted \union Diverged

RBUpOK == /\ pc = "rbtag" /\ todo = {} /\ ~expired
          /\ Up(RBUpServices, Resolved(tag))
          /\ IF retagFailed # {} THEN End("rollback_failed") /\ UNCHANGED health
                                 ELSE Goto("rbhealth") /\ StartHealth /\ UNCHANGED result
          /\ UNCHANGED <<conf, order, tag, before, desired, undo, expired>>

RBUpFails == /\ pc = "rbtag" /\ todo = {}
             /\ \E ss \in SUBSET RBUpServices : Up(ss, Resolved(tag))
             /\ End("rollback_failed")
             /\ UNCHANGED <<conf, order, tag, before, desired, undo, health, expired>>

--------------------------------------------------------------------------------
Retagging(s) == RetagSkip(s) \/ RetagMissing(s) \/ Retag(s) \/ RetagFails(s)

PipelineStep == \/ ValidateOK \/ InspectOK \/ EarlyFailure \/ Resolve \/ TagCheck
                \/ Pull \/ PullFails \/ Compare \/ HookOK \/ HookFails
                \/ UpOK \/ UpFails \/ Poll \/ PollFails
                \/ RBResolve \/ RBUpOK \/ RBUpFails
                \/ \E s \in Services : Retagging(s)

\* The deadline of a context kills the command, but Run also waits for the end of its output,
\* which a process the command left behind can keep open: exec.CommandContext without a
\* WaitDelay, in Runner.exec and runPreUpdate.  The pull and the hook have deadlines of their
\* own; `expired` is the deadline of the others.
Stall == /\ pc # "done" /\ ~stuck
         /\ expired \/ pc \in {"pull", "hook"}
         /\ stuck' = TRUE
         /\ UNCHANGED run

Resume == /\ stuck
          /\ stuck' = FALSE
          /\ UNCHANGED run

Advance == ~stuck /\ PipelineStep /\ UNCHANGED stuck
World == (Expire \/ \E i \in Images : Prune(i)) /\ UNCHANGED stuck

Next == Advance \/ World \/ Stall \/ Resume

\* The handler goroutine runs on whenever the command it waits for has returned.  Nothing
\* is assumed of the commands, of deadlines, pruning or the containers.
Spec == Init /\ [][Next]_vars
FairSpec == Spec /\ WF_vars(Advance)

--------------------------------------------------------------------------------
(* Properties *)

\* A check, a dry run, a no-op and every failure before `up` (with rollback on, that is every
\* "failed") leave each container on the image and reference it had: pulling moves
\* references, never containers, and a required hook that fails stops in time.
UntouchedUnlessReported ==
  /\ result \in {"dry_run", "no_change", "available", "current", "check_failed"}
     \/ (result = "failed" /\ conf.rollback)
  => before = None \/ \A s \in Services : cont[s] = before[s]

\* "succeeded" and "rolled_back" are reported only after a whole stability window in which
\* no poll saw the stack unsettled, with every watched service running and healthy at the
\* end of it; polls that got no answer prove nothing either way (waitHealthy).
StableForTheWindow ==
  result \in {"succeeded", "rolled_back"} =>
     /\ elapsed - lastBad > Window
     /\ Settled(cont, Watched)

\* A finished update means what it says: every updated service runs the image the registry
\* had for the reference compose resolves, and a "no_change" that could ask compose means the
\* same of every container there was.
FinishedMeansCurrent ==
  LET current(s) == cont[s].id = registry[Resolved(tag)[s]]
  IN  /\ result = "succeeded" => \A s \in Wanted : current(s)
      /\ result = "no_change" /\ ~guessed => \A s \in Wanted : Exists(s) => current(s)

\* Another container of the stack ran a different image under the reference of s.
SharesRef(s) == \E q \in Services : /\ Exists(q) /\ before[q].id # before[s].id
                                     /\ ImageRef(desired, q) = ImageRef(desired, s)

\* The rollback could restore s: it found the previous image, which nobody pruned, and
\* retagged the reference that compose resolves.
Restorable(s) == /\ Exists(s) /\ s \notin missing /\ before[s].id \notin pruned \union {None}
                 /\ ImageRef(desired, s) = Resolved(tag)[s]

\* "rolled_back" puts every service that `up` may have recreated, the updated ones and those
\* they need, back on the image ID it ran before, service by service, wherever the previous
\* image was found and kept and no other container ran a different image under the same
\* reference (rollback's retag loop and forced up).
RolledBackRestores ==
  result = "rolled_back" =>
     \A s \in UpScope : Restorable(s) /\ ~SharesRef(s) => cont[s].id = before[s].id

\* DOCUMENTATION.md: rolled_back means "The previous images are running again", and "The one
\* case it cannot save is a previous image that has already been pruned locally".
RolledBackAlwaysRestores ==
  result = "rolled_back" => \A s \in Wanted : Restorable(s) => cont[s].id = before[s].id

\* Every run ends, whatever docker answers and the deadlines and the containers do, unless
\* it keeps waiting for a command that does not return.
Terminates == <>(pc = "done") \/ []<>stuck
================================================================================
