----------------------------- MODULE PipelineProofs ----------------------------
(***************************************************************************)
(* Proofs about Pipeline, for any services, images, references and         *)
(* configurations, and any deadlines, failures and pruning.                *)
(***************************************************************************)
EXTENDS Pipeline, TLAPS

--------------------------------------------------------------------------------
(* The inductive invariant *)

\* The snapshot is there from inspect on, and a run has an outcome once it is done.
Phased == /\ pc \in {"validate", "inspect"} => before = None
          /\ pc \notin {"validate", "inspect", "done"} => before # None
          /\ pc = "done" <=> result # None

\* Until `up` nothing has moved a container.
NotYet == pc \in {"resolve", "tagcheck", "pull", "compare", "hook", "up"} => cont = before

\* What compose was asked for is what is compared.
AsAsked == pc \in {"tagcheck", "pull", "compare"} /\ ~guessed => desired = Resolved(tag)

\* After the pull a wanted reference names what the registry has, unless it was pruned.
Ref(s) == Resolved(tag)[s]
Pulled == pc \in {"compare", "hook", "up"} =>
            \A s \in Wanted : names[Ref(s)] \in {registry[Ref(s)], None}
Current == pc = "health" => \A s \in Wanted : cont[s].id = registry[Ref(s)]

\* settledSince lies after every unsettled poll.
Settling == pc \in {"health", "rbhealth"} =>
              /\ lastBad < elapsed
              /\ settledAt # None => lastBad < settledAt /\ settledAt <= elapsed

Promises == UntouchedUnlessReported /\ StableForTheWindow /\ FinishedMeansCurrent
IInv == RunTypeOK /\ Phased /\ NotYet /\ AsAsked /\ Pulled /\ Current /\ Settling /\ Promises

--------------------------------------------------------------------------------
(* Docker *)

LEMMA ResolvedType ==
  ASSUME RunTypeOK, NEW g \in Tags \union {None}
  PROVE  Resolved(g) \in [Services -> Refs] /\ Wanted \subseteq Services
<1>1. EnvTag(g) \in Tags \union {None}
  BY DEF EnvTag
<1>2. Wanted \subseteq Services
  BY DEF RunTypeOK, ConfType, Wanted
<1> QED BY <1>1, <1>2, RefOfAssumption DEF Resolved

LEMMA Scopes ==
  ASSUME RunTypeOK
  PROVE  Wanted \subseteq UpScope /\ UpScope \subseteq Services /\ Diverged \subseteq UpScope
<1>1. Wanted \subseteq Services
  BY DEF RunTypeOK, ConfType, Wanted
<1> QED BY <1>1, NeedsAssumption DEF UpScope, Diverged

\* up leaves the services it is not given, and runs the others on their reference's image.
LEMMA UpEffect ==
  ASSUME RunTypeOK, NEW ss \in SUBSET Services, NEW want \in [Services -> Refs], Up(ss, want)
  PROVE  /\ cont' \in [Services -> Containers]
         /\ names' \in [Refs -> Images \union {None}]
         /\ local' \in SUBSET Images
         /\ registry' = registry /\ pruned' = pruned
         /\ \A s \in Services \ ss : cont'[s] = cont[s]
         /\ \A s \in ss : cont'[s].id = UpImage(want[s])
<1>1. \A r \in Refs : UpImage(r) \in Images
  BY DEF RunTypeOK, UpImage
<1>2. cont' \in [Services -> Containers]
  BY <1>1 DEF Up, Recreated, RunTypeOK, Containers, Conditions
<1>3. names' \in [Refs -> Images \union {None}]
  BY <1>1 DEF Up, RunTypeOK
<1>4. local' \in SUBSET Images
  BY <1>1 DEF Up, RunTypeOK
<1>5. /\ \A s \in Services \ ss : cont'[s] = cont[s]
      /\ \A s \in ss : cont'[s].id = UpImage(want[s])
  BY DEF Up, Recreated
<1> QED BY <1>2, <1>3, <1>4, <1>5 DEF Up

\* The conditions a poll finds change nothing else of a container.
LEMMA PollEffect ==
  ASSUME RunTypeOK, NEW cs \in [Services -> {"healthy", "starting", "exited"}],
         cont' = [s \in Services |->
                    IF cont[s].cond = "absent" THEN cont[s] ELSE [cont[s] EXCEPT !.cond = cs[s]]]
  PROVE  /\ cont' \in [Services -> Containers]
         /\ \A s \in Services : cont'[s].id = cont[s].id /\ cont'[s].ref = cont[s].ref
BY DEF RunTypeOK, Containers, Conditions

LEMMA PullEffect ==
  ASSUME RunTypeOK, NEW ss \in SUBSET Wanted
  PROVE  /\ PulledNames(ss) \in [Refs -> Images \union {None}] /\ PulledImages(ss) \in SUBSET Images
         /\ \A s \in ss : PulledNames(ss)[Ref(s)] = registry[Ref(s)]
<1>1. Resolved(tag) \in [Services -> Refs] /\ Wanted \subseteq Services
  BY ResolvedType DEF RunTypeOK
<1> QED BY <1>1 DEF RunTypeOK, PulledNames, PulledImages, Ref

--------------------------------------------------------------------------------
(* Steps *)

\* What ends without an update, with every container as it was.
LEMMA FirstSteps ==
  ASSUME IInv, ValidateOK \/ InspectOK \/ EarlyFailure \/ Resolve \/ TagCheck \/ HookOK \/ HookFails
  PROVE  IInv'
<1> USE NoneAssumption
<1> USE DEF IInv, Phased, NotYet, AsAsked, Pulled, Current, Settling, Promises, Ref, Wanted, Resolved,
            EnvTag, UntouchedUnlessReported, StableForTheWindow, FinishedMeansCurrent, Watched, Exists,
            Goto, End, Refused, Outcomes, Steps, docker, undo, health
<1>1. CASE ValidateOK
  BY <1>1 DEF RunTypeOK, ValidateOK
<1>2. CASE InspectOK
  BY <1>2 DEF RunTypeOK, InspectOK
<1>3. CASE EarlyFailure
  BY <1>3 DEF RunTypeOK, EarlyFailure
<1>4. CASE Resolve
  <2>1. FallBack \in [Services -> Refs \union {None}]
    BY <1>4 DEF RunTypeOK, Resolve, FallBack, Containers
  <2>2. Resolved(tag) \in [Services -> Refs]
    BY <1>4, ResolvedType DEF RunTypeOK
  <2>3. desired' \in [Services -> Refs \union {None}] /\ guessed' \in BOOLEAN
    BY <1>4, <2>1, <2>2 DEF Resolve
  <2>4. RunTypeOK'
    BY <1>4, <2>3 DEF RunTypeOK, Resolve
  <2>5. /\ UNCHANGED <<conf, order, tag, before, cont, result, elapsed, settledAt, lastBad>>
        /\ pc = "resolve" /\ pc' \in {"pull", "tagcheck"}
        /\ ~guessed' => desired' = Resolved(tag)
    BY <1>4 DEF Resolve
  <2> HIDE DEF IInv, Exists
  <2>6. Phased' /\ NotYet'
    BY <2>5 DEF IInv
  <2>7. AsAsked'
    BY <2>5
  <2>8. Pulled' /\ Current' /\ Settling'
    BY <2>5
  <2>9. result' = None
    BY <2>5 DEF IInv
  <2>10. Promises'
    BY <2>9
  <2> QED BY <2>4, <2>6, <2>7, <2>8, <2>10 DEF IInv
<1>5. CASE TagCheck
  <2>1. /\ UNCHANGED <<conf, order, tag, before, cont, desired, guessed, names, local, registry,
                       pruned, expired, todo, missing, retagFailed, elapsed, settledAt, lastBad>>
        /\ pc = "tagcheck"
        /\ \/ pc' = "pull" /\ result' = result
           \/ pc' = "done" /\ result' = "failed"
    BY <1>5 DEF TagCheck
  <2>2. RunTypeOK'
    BY <2>1 DEF RunTypeOK
  <2>3. Phased' /\ NotYet' /\ AsAsked' /\ Pulled' /\ Current' /\ Settling'
    BY <2>1
  <2>4. Promises'
    BY <2>1
  <2> QED BY <2>2, <2>3, <2>4
<1>6. CASE HookOK \/ HookFails
  <2>1. /\ UNCHANGED <<conf, order, tag, before, cont, desired, guessed, names, local, registry,
                       pruned, expired, todo, missing, retagFailed, elapsed, settledAt, lastBad>>
        /\ pc = "hook"
        /\ \/ pc' = "up" /\ result' = result
           \/ pc' = "done" /\ result' = "failed"
    BY <1>6 DEF HookOK, HookFails
  <2>2. RunTypeOK'
    BY <2>1 DEF RunTypeOK
  <2>3. Pulled'
    <3> HIDE DEF Promises
    <3> QED BY <2>1
  <2>4. Phased' /\ NotYet' /\ AsAsked' /\ Pulled' /\ Current' /\ Settling'
    <3> HIDE DEF Promises, Pulled
    <3> QED BY <2>1, <2>3
  <2>5. Promises'
    BY <2>1
  <2> QED BY <2>2, <2>4, <2>5
<1> QED BY <1>1, <1>2, <1>3, <1>4, <1>5, <1>6

\* A pull moves references, never containers.
LEMMA PullSteps == ASSUME IInv, Pull \/ PullFails \/ Compare PROVE IInv'
<1> USE NoneAssumption
<1> USE DEF IInv, Phased, NotYet, AsAsked, Current, Settling, Promises,
            UntouchedUnlessReported, StableForTheWindow, Goto, End, Refused, Steps, undo, health
<1>1. CASE Pull
  <2>1. names' \in [Refs -> Images \union {None}] /\ local' \in SUBSET Images
    BY <1>1, PullEffect DEF Pull
  <2>2. Pulled'
    BY <1>1, PullEffect DEF Pull, Pulled, Ref, Wanted, Resolved, EnvTag
  <2>3. RunTypeOK'
    BY <1>1, <2>1 DEF RunTypeOK, Pull
  <2>4. result' = None
    BY <1>1 DEF Pull
  <2>5. Promises'
    BY <2>4 DEF FinishedMeansCurrent, Outcomes
  <2>6. Phased' /\ NotYet' /\ AsAsked' /\ Current' /\ Settling'
    BY <1>1 DEF Pull, Resolved, EnvTag
  <2> QED BY <2>2, <2>3, <2>5, <2>6
<1>2. CASE PullFails
  <2>1. names' \in [Refs -> Images \union {None}] /\ local' \in SUBSET Images
    BY <1>2, PullEffect DEF PullFails
  <2>2. RunTypeOK'
    BY <1>2, <2>1 DEF RunTypeOK, PullFails, Outcomes
  <2> QED BY <1>2, <2>2 DEF PullFails, FinishedMeansCurrent, Pulled, Outcomes
<1>3. CASE Compare
  <2>1. PICK readable \in {~expired, FALSE} : Verdict(ChangedServices(readable))
    BY <1>3 DEF Compare
  <2> DEFINE diff == ChangedServices(readable)
  <2>2. /\ result = None /\ before # None /\ cont = before /\ pc = "compare"
        /\ before \in [Services -> Containers]
        /\ UNCHANGED <<conf, order, tag, before, desired, docker, undo, health, expired>>
    BY <1>3 DEF Compare, RunTypeOK
  <2>3. \/ pc' = "done" /\ result' \in {"current", "available", "dry_run"}
        \/ pc' = "done" /\ result' = "no_change" /\ diff = {}
        \/ pc' = "hook" /\ result' = None
    BY <2>1, <2>2 DEF Verdict
  <2>4. ASSUME diff = {}, ~guessed, NEW s \in Wanted, Exists(s)
        PROVE  cont[s].id = registry[Ref(s)]
    <3>1. Resolved(tag) \in [Services -> Refs] /\ Wanted \subseteq Services
      BY ResolvedType DEF RunTypeOK
    <3>2. ImageRef(desired, s) = Ref(s) /\ Ref(s) \in Refs
      BY <2>2, <2>4, <3>1 DEF ImageRef, Ref
    <3>3. names[Ref(s)] \in {before[s].id} \ {None}
      BY <2>4, <3>2 DEF ChangedServices
    <3> QED BY <2>2, <3>3 DEF Pulled
  <2>5. FinishedMeansCurrent'
    <3>1. result' # "succeeded" /\ (result' = "no_change" => diff = {})
      BY <2>3 DEF Outcomes
    <3>2. guessed' = guessed /\ cont' = cont /\ before' = before /\ registry' = registry
          /\ Resolved(tag)' = Resolved(tag) /\ Wanted' = Wanted
      BY <2>2 DEF docker, Resolved, EnvTag, Wanted
    <3>3. diff = {} /\ ~guessed =>
            \A s \in Wanted : before[s].cond # "absent" => cont[s].id = registry[Resolved(tag)[s]]
      BY <2>4 DEF Exists, Ref
    <3> HIDE DEF IInv, Phased, NotYet, AsAsked, Promises, diff
    <3> QED BY <3>1, <3>2, <3>3 DEF FinishedMeansCurrent, Exists
  <2>6. RunTypeOK'
    BY <2>2, <2>3 DEF RunTypeOK, Outcomes, docker
  <2>7. Phased' /\ NotYet' /\ AsAsked' /\ Current' /\ Settling'
    BY <2>2, <2>3, NoneAssumption DEF docker, Outcomes
  <2>8. Pulled'
    <3>1. names' = names /\ registry' = registry /\ conf' = conf /\ tag' = tag /\ pc = "compare"
      BY <2>2 DEF docker
    <3> HIDE DEF IInv
    <3>2. Pulled /\ Wanted' = Wanted /\ \A s : Ref(s)' = Ref(s)
      BY <3>1 DEF IInv, Ref, Wanted, Resolved, EnvTag
    <3> QED BY <3>1, <3>2 DEF Pulled
  <2>9. UntouchedUnlessReported' /\ StableForTheWindow'
    BY <2>2, <2>3 DEF docker, Outcomes
  <2> QED BY <2>5, <2>6, <2>7, <2>8, <2>9
<1> QED BY <1>1, <1>2, <1>3

\* up recreates what differs, and leaves every wanted service on the registry's image.
LEMMA UpSteps == ASSUME IInv, UpOK \/ UpFails PROVE IInv'
<1> USE NoneAssumption
<1>1. /\ Resolved(tag) \in [Services -> Refs] /\ Wanted \subseteq UpScope
      /\ UpScope \subseteq Services /\ Diverged \in SUBSET Services
  BY ResolvedType, Scopes DEF IInv, RunTypeOK
<1>2. CASE UpOK
  <2>1. Up(Diverged, Resolved(tag)) /\ pc = "up"
    BY <1>2 DEF UpOK
  <2>2. /\ cont' \in [Services -> Containers]
        /\ names' \in [Refs -> Images \union {None}] /\ local' \in SUBSET Images
        /\ registry' = registry /\ pruned' = pruned
        /\ \A s \in Services \ Diverged : cont'[s] = cont[s]
        /\ \A s \in Diverged : cont'[s].id = UpImage(Ref(s))
    BY <1>1, <2>1, UpEffect DEF IInv, Ref
  <2>3. ASSUME NEW s \in Wanted PROVE cont'[s].id = registry[Ref(s)]
    <3>1. UpImage(Ref(s)) = registry[Ref(s)]
      BY <2>1 DEF IInv, Pulled, UpImage
    <3>2. cont'[s].id = UpImage(Ref(s))
      BY <1>1, <2>2 DEF Diverged, Differs, Ref
    <3> QED BY <3>1, <3>2
  <2>4. RunTypeOK'
    BY <1>2, <2>2, TimesAssumption DEF IInv, RunTypeOK, UpOK, Goto, StartHealth, Steps, undo
  <2>5. Current'
    BY <1>2, <2>2, <2>3 DEF UpOK, Current, Ref, Wanted, Resolved, EnvTag
  <2>6. Phased' /\ NotYet' /\ AsAsked' /\ Pulled' /\ Settling'
    BY <1>2 DEF IInv, UpOK, Phased, NotYet, AsAsked, Pulled, Settling, Goto, StartHealth
  <2>7. result' = None
    BY <1>2 DEF UpOK, IInv, Phased
  <2>8. Promises'
    BY <2>7 DEF Promises, UntouchedUnlessReported, StableForTheWindow, FinishedMeansCurrent, Outcomes
  <2> QED BY <2>4, <2>5, <2>6, <2>8 DEF IInv
<1>3. CASE UpFails
  <2>1. PICK ss \in SUBSET Diverged : Up(ss, Resolved(tag))
    BY <1>3 DEF UpFails
  <2>2. /\ cont' \in [Services -> Containers]
        /\ names' \in [Refs -> Images \union {None}] /\ local' \in SUBSET Images
        /\ registry' = registry /\ pruned' = pruned
    BY <1>1, <2>1, UpEffect DEF IInv
  <2>3. RunTypeOK'
    BY <1>3, <2>2 DEF IInv, RunTypeOK, UpFails, RollBack, End, Goto, Steps, Outcomes, undo, health
  <2>4. Phased' /\ NotYet' /\ AsAsked' /\ Pulled' /\ Current' /\ Settling'
    BY <1>3 DEF IInv, UpFails, RollBack, End, Goto, Phased, NotYet, AsAsked, Pulled, Current,
                Settling, Outcomes
  <2>5. result' = None \/ (result' = "failed" /\ ~conf'.rollback)
    BY <1>3 DEF UpFails, RollBack, End, IInv, Phased
  <2>6. Promises'
    BY <2>5 DEF Promises, UntouchedUnlessReported, StableForTheWindow, FinishedMeansCurrent, Outcomes
  <2> QED BY <2>3, <2>4, <2>6 DEF IInv
<1> QED BY <1>2, <1>3

\* A check of health ends the wait one way or the other, or goes on to the next poll.
LEMMA NextPollEffect ==
  ASSUME IInv, pc \in {"health", "rbhealth"}, (HealthFailed /\ UNCHANGED elapsed) \/ NextPoll
  PROVE  /\ expired' \in BOOLEAN /\ elapsed' \in 0 .. Deadline + 1
         /\ \/ pc' = pc /\ result' = None /\ elapsed' = elapsed + 1
            \/ pc' = "rbresolve" /\ result' = None /\ elapsed' = elapsed
            \/ /\ pc' = "done" /\ elapsed' = elapsed
               /\ result' = "rollback_failed" \/ (result' = "failed" /\ ~conf.rollback)
<1>1. elapsed \in 0 .. Deadline + 1 /\ Deadline \in Nat /\ expired \in BOOLEAN /\ result = None
  BY TimesAssumption DEF IInv, RunTypeOK, Phased
<1>2. ASSUME HealthFailed
      PROVE  /\ expired' = expired \/ expired' = FALSE
             /\ \/ pc' = "rbresolve" /\ result' = None
                \/ pc' = "done" /\ (result' = "rollback_failed" \/ (result' = "failed" /\ ~conf.rollback))
  BY <1>1, <1>2 DEF HealthFailed, RollBack, End, Goto
<1>3. CASE HealthFailed /\ UNCHANGED elapsed
  BY <1>1, <1>2, <1>3
<1>4. CASE NextPoll
  <2>1. \/ HealthFailed /\ elapsed' = elapsed
        \/ /\ elapsed <= Deadline /\ elapsed' = elapsed + 1
           /\ pc' = pc /\ result' = result /\ expired' = expired
    BY <1>4 DEF NextPoll
  <2>2. CASE HealthFailed /\ elapsed' = elapsed
    BY <1>1, <1>2, <2>2
  <2>3. CASE /\ elapsed <= Deadline /\ elapsed' = elapsed + 1
             /\ pc' = pc /\ result' = result /\ expired' = expired
    <3>1. elapsed' \in 0 .. Deadline + 1
      BY <1>1, <2>3
    <3> QED BY <1>1, <2>3, <3>1
  <2> QED BY <2>1, <2>2, <2>3
<1> QED BY <1>3, <1>4

\* A whole window of polls passes before the pipeline calls a stack well.
LEMMA PollSteps == ASSUME IInv, Poll \/ PollFails PROVE IInv'
<1> USE NoneAssumption
<1>1. CASE Poll
  <2> DEFINE seen(cs) == [s \in Services |->
                            IF cont[s].cond = "absent" THEN cont[s]
                                                       ELSE [cont[s] EXCEPT !.cond = cs[s]]]
  <2>1. PICK cs \in [Services -> {"healthy", "starting", "exited"}] :
          LET ok == Settled(seen(cs), Watched)
          IN  /\ cont' = seen(cs)
              /\ settledAt' = Since(ok)
              /\ lastBad' = IF ok THEN lastBad ELSE elapsed
              /\ CASE ok /\ elapsed - Since(ok) >= Window -> HealthPassed /\ UNCHANGED elapsed
                   [] ~ok /\ elapsed > Grace /\ Crashed(seen(cs), Watched) ->
                        HealthFailed /\ UNCHANGED elapsed
                   [] OTHER -> NextPoll
    BY <1>1 DEF Poll
  <2> DEFINE ok == Settled(seen(cs), Watched)
  <2>2. cont' = seen(cs) /\ settledAt' = Since(ok) /\ lastBad' = IF ok THEN lastBad ELSE elapsed
    BY <2>1
  <2>3. \/ ok /\ elapsed - Since(ok) >= Window /\ HealthPassed /\ UNCHANGED elapsed
        \/ (HealthFailed /\ UNCHANGED elapsed) \/ NextPoll
    BY <2>1
  <2>4. /\ pc \in {"health", "rbhealth"} /\ result = None
        /\ UNCHANGED <<conf, order, tag, before, desired, names, local, registry, pruned, undo>>
    BY <1>1 DEF Poll, IInv, Phased
  <2>5. cont' \in [Services -> Containers] /\ \A s \in Services : cont'[s].id = cont[s].id
    BY <2>2, PollEffect DEF IInv
  <2> HIDE DEF seen, ok
  <2>6. /\ elapsed \in 0 .. Deadline + 1 /\ Deadline \in Nat /\ Window \in Nat
        /\ lastBad \in -1 .. Deadline + 1 /\ lastBad < elapsed
        /\ settledAt \in (0 .. Deadline + 1) \union {None}
        /\ settledAt # None => lastBad < settledAt /\ settledAt <= elapsed
    BY <2>4, TimesAssumption DEF IInv, RunTypeOK, Settling
  <2>7. /\ lastBad' \in -1 .. Deadline + 1 /\ lastBad' <= elapsed
        /\ settledAt' \in (0 .. Deadline + 1) \union {None}
        /\ settledAt' # None => lastBad' < settledAt' /\ settledAt' <= elapsed
    BY <2>2, <2>6 DEF Since
  <2>8. \/ /\ pc' = "done" /\ elapsed' = elapsed /\ expired' = expired
           /\ result' = IF pc = "health" THEN "succeeded" ELSE "rolled_back"
           /\ ok /\ elapsed - lastBad' > Window
        \/ pc' = pc /\ result' = None /\ elapsed' = elapsed + 1
        \/ pc' = "rbresolve" /\ result' = None /\ elapsed' = elapsed
        \/ /\ pc' = "done" /\ elapsed' = elapsed
           /\ result' = "rollback_failed" \/ (result' = "failed" /\ ~conf.rollback)
    <3>1. CASE ok /\ elapsed - Since(ok) >= Window /\ HealthPassed /\ UNCHANGED elapsed
      <4>1. settledAt' \in 0 .. Deadline + 1 /\ lastBad' < settledAt'
        BY <2>2, <2>6, <3>1 DEF Since
      <4>2. elapsed - lastBad' > Window
        <5>1. elapsed - settledAt' >= Window
          BY <2>2, <3>1
        <5>2. {elapsed, Window, lastBad', settledAt'} \subseteq Int
          BY <2>6, <2>7, <4>1
        <5> QED BY <4>1, <5>1, <5>2
      <4>3. pc' = "done" /\ expired' = expired /\ elapsed' = elapsed
            /\ result' = IF pc = "health" THEN "succeeded" ELSE "rolled_back"
        BY <3>1 DEF HealthPassed, End
      <4>4. ok
        BY <3>1
      <4> QED BY <4>2, <4>3, <4>4
    <3> QED BY <2>3, <2>4, <3>1, NextPollEffect
  <2>9. expired' \in BOOLEAN /\ elapsed' \in 0 .. Deadline + 1
    BY <2>3, <2>4, <2>6, NextPollEffect DEF HealthPassed, IInv, RunTypeOK
  <2>10. RunTypeOK'
    BY <2>4, <2>5, <2>7, <2>8, <2>9 DEF IInv, RunTypeOK, Steps, Outcomes, undo
  <2>11. Phased' /\ NotYet' /\ AsAsked' /\ Pulled'
    BY <2>4, <2>8 DEF IInv, Phased, NotYet, AsAsked, Pulled, Outcomes
  <2>12. Current'
    BY <2>4, <2>5, <2>8, ResolvedType
       DEF IInv, RunTypeOK, Current, Ref, Wanted, Resolved, EnvTag
  <2>13. Settling'
    BY <2>6, <2>7, <2>8 DEF Settling
  <2>14. StableForTheWindow'
    <3>1. Settled(cont, Watched)' <=> ok
      BY <2>2, <2>4 DEF ok, Settled, Watched
    <3> QED BY <2>8, <3>1 DEF StableForTheWindow, Outcomes
  <2>15. FinishedMeansCurrent'
    <3>1. pc = "health" => \A s \in Wanted : cont'[s].id = registry[Resolved(tag)[s]]
      <4>1. Wanted \subseteq Services
        BY ResolvedType DEF IInv, RunTypeOK
      <4> QED BY <2>5, <4>1 DEF IInv, Current, Ref
    <3>2. result' = "succeeded" => pc = "health"
      BY <2>8 DEF Outcomes
    <3> QED BY <2>4, <2>8, <3>1, <3>2
            DEF FinishedMeansCurrent, Wanted, Resolved, EnvTag, Outcomes
  <2>16. UntouchedUnlessReported'
    BY <2>4, <2>8 DEF UntouchedUnlessReported, Outcomes
  <2> QED BY <2>10, <2>11, <2>12, <2>13, <2>14, <2>15, <2>16 DEF IInv, Promises
<1>2. CASE PollFails
  <2>1. /\ pc \in {"health", "rbhealth"} /\ result = None /\ NextPoll
        /\ UNCHANGED <<conf, order, tag, before, desired, docker, undo, settledAt, lastBad>>
    BY <1>2 DEF PollFails, IInv, Phased
  <2>2. /\ expired' \in BOOLEAN /\ elapsed' \in 0 .. Deadline + 1
        /\ \/ pc' = pc /\ result' = None /\ elapsed' = elapsed + 1
           \/ pc' = "rbresolve" /\ result' = None /\ elapsed' = elapsed
           \/ /\ pc' = "done" /\ elapsed' = elapsed
              /\ result' = "rollback_failed" \/ (result' = "failed" /\ ~conf.rollback)
    BY <2>1, NextPollEffect
  <2>3. RunTypeOK'
    BY <2>1, <2>2 DEF IInv, RunTypeOK, Steps, Outcomes, undo, docker
  <2>4. Phased' /\ NotYet' /\ AsAsked' /\ Pulled' /\ Current'
    BY <2>1, <2>2
       DEF IInv, Phased, NotYet, AsAsked, Pulled, Current, Ref, Wanted, Resolved, EnvTag,
           Outcomes, docker
  <2>5. Settling'
    BY <2>1, <2>2 DEF IInv, RunTypeOK, Settling
  <2>6. Promises'
    BY <2>1, <2>2 DEF Promises, UntouchedUnlessReported, StableForTheWindow,
                      FinishedMeansCurrent, Outcomes
  <2> QED BY <2>3, <2>4, <2>5, <2>6 DEF IInv
<1> QED BY <1>1, <1>2

\* The rollback moves references back, then containers, and reports only after the wait.
LEMMA RollbackSteps ==
  ASSUME IInv, RBResolve \/ RBUpOK \/ RBUpFails \/ \E s \in Services : Retagging(s)
  PROVE  IInv'
<1> USE NoneAssumption
<1>1. CASE RBResolve
  <2>1. before \in [Services -> Containers] /\ pc = "rbresolve" /\ result = None
    BY <1>1 DEF RBResolve, IInv, RunTypeOK, Phased
  <2>2. tag' \in Tags \union {None}
    BY <1>1, <2>1, TagOfAssumption DEF RBResolve, PreviousTags, Containers, IInv, RunTypeOK, Wanted, ConfType
  <2>3. Resolved(tag') \in [Services -> Refs] /\ FallBack \in [Services -> Refs \union {None}]
    BY <2>1, <2>2, ResolvedType DEF IInv, FallBack, Containers
  <2>4. desired' \in [Services -> Refs \union {None}] /\ guessed' \in BOOLEAN
    BY <1>1, <2>3 DEF RBResolve
  <2>5. RunTypeOK'
    BY <1>1, <2>2, <2>4 DEF RBResolve, IInv, RunTypeOK, Goto, Steps, docker, health
  <2>6. pc' = "rbtag" /\ result' = None /\ before' = before
    BY <1>1, <2>1 DEF RBResolve, Goto
  <2>7. Phased' /\ NotYet' /\ AsAsked' /\ Pulled' /\ Current' /\ Settling' /\ Promises'
    BY <2>1, <2>6 DEF IInv, Phased, NotYet, AsAsked, Pulled, Current, Settling, Promises, Outcomes,
                      UntouchedUnlessReported, StableForTheWindow, FinishedMeansCurrent
  <2> QED BY <2>5, <2>7 DEF IInv
<1>2. CASE RBUpOK \/ RBUpFails
  <2>1. PICK ss \in SUBSET Services : Up(ss, Resolved(tag))
    BY <1>2, Scopes DEF RBUpOK, RBUpFails, RBUpServices, IInv
  <2>2. /\ cont' \in [Services -> Containers]
        /\ names' \in [Refs -> Images \union {None}] /\ local' \in SUBSET Images
        /\ registry' = registry /\ pruned' = pruned
    BY <2>1, UpEffect, ResolvedType DEF IInv, RunTypeOK
  <2>3. /\ UNCHANGED <<conf, order, tag, before, desired, undo, expired>>
        /\ \/ pc' = "done" /\ result' = "rollback_failed" /\ UNCHANGED health
           \/ pc' = "rbhealth" /\ result' = None /\ StartHealth
        /\ before # None
    BY <1>2 DEF RBUpOK, RBUpFails, Goto, End, IInv, Phased
  <2>4. RunTypeOK'
    BY <2>2, <2>3, TimesAssumption
       DEF IInv, RunTypeOK, Steps, Outcomes, undo, health, StartHealth
  <2>5. Phased' /\ NotYet' /\ AsAsked' /\ Pulled' /\ Current' /\ Settling' /\ Promises'
    BY <2>3 DEF Phased, NotYet, AsAsked, Pulled, Current, Settling, Promises, Outcomes,
                UntouchedUnlessReported, StableForTheWindow, FinishedMeansCurrent, StartHealth
  <2> QED BY <2>4, <2>5 DEF IInv
<1>3. CASE \E s \in Services : Retagging(s)
  <2>1. PICK s \in Services : Retagging(s)
    BY <1>3
  <2>2. /\ pc = "rbtag" /\ RetagDone(s)
        /\ names' \in [Refs -> Images \union {None}]
        /\ missing' \in SUBSET Services /\ retagFailed' \in SUBSET Services
    BY <2>1 DEF Retagging, RetagSkip, RetagMissing, Retag, RetagFails, Retaggable, IInv, RunTypeOK
  <2>3. RunTypeOK'
    BY <2>2 DEF RetagDone, IInv, RunTypeOK, progress, health
  <2>4. pc' = "rbtag" /\ result' = None /\ before' = before /\ before # None
    BY <2>2 DEF RetagDone, IInv, Phased, progress
  <2>5. Phased' /\ NotYet' /\ AsAsked' /\ Pulled' /\ Current' /\ Settling' /\ Promises'
    BY <2>4 DEF Phased, NotYet, AsAsked, Pulled, Current, Settling, Promises, Outcomes,
                UntouchedUnlessReported, StableForTheWindow, FinishedMeansCurrent
  <2> QED BY <2>3, <2>5 DEF IInv
<1> QED BY <1>1, <1>2, <1>3

\* A deadline that passes changes nothing else; neither does a pruned image but for its names.
LEMMA WorldSteps == ASSUME IInv, Expire \/ \E i \in Images : Prune(i) PROVE IInv'
<1> USE NoneAssumption
<1>1. /\ UNCHANGED <<progress, undo, health, result, cont, registry>>
      /\ names' \in [Refs -> Images \union {None}] /\ local' \in SUBSET Images
      /\ expired' \in BOOLEAN /\ pruned' \in SUBSET Images
      /\ \A r \in Refs : names'[r] \in {names[r], None}
  <2>1. CASE Expire
    BY <2>1 DEF Expire, IInv, RunTypeOK, docker
  <2>2. ASSUME NEW i \in Images, Prune(i)
        PROVE  /\ UNCHANGED <<progress, undo, health, result, cont, registry>>
               /\ names' \in [Refs -> Images \union {None}] /\ local' \in SUBSET Images
               /\ expired' \in BOOLEAN /\ pruned' \in SUBSET Images
               /\ \A r \in Refs : names'[r] \in {names[r], None}
    BY <2>2, TimesAssumption DEF Prune, IInv, RunTypeOK
  <2> QED BY <2>1, <2>2
<1>2. RunTypeOK'
  BY <1>1 DEF IInv, RunTypeOK, progress, undo, health
<1>3. Pulled'
  <2>1. Resolved(tag) \in [Services -> Refs] /\ Wanted \subseteq Services
    BY ResolvedType DEF IInv, RunTypeOK
  <2>2. \A s \in Wanted : Ref(s) \in Refs
    BY <2>1 DEF Ref
  <2>3. pc' = pc /\ registry' = registry /\ Wanted' = Wanted /\ Resolved(tag)' = Resolved(tag)
    BY <1>1 DEF progress, Wanted, Resolved, EnvTag
  <2> QED BY <1>1, <2>2, <2>3 DEF IInv, Pulled, Ref
<1>4. Phased' /\ NotYet' /\ AsAsked' /\ Current' /\ Settling'
  <2>1. AsAsked'
    BY <1>1 DEF IInv, AsAsked, Resolved, EnvTag, progress, undo
  <2>2. Current'
    BY <1>1 DEF IInv, Current, Ref, Wanted, Resolved, EnvTag, progress
  <2>3. Phased' /\ NotYet'
    BY <1>1 DEF IInv, Phased, NotYet, progress
  <2>4. Settling'
    BY <1>1 DEF IInv, Settling, progress, health
  <2> QED BY <2>1, <2>2, <2>3, <2>4
<1>5. Promises'
  <2>1. UntouchedUnlessReported'
    BY <1>1 DEF IInv, Promises, UntouchedUnlessReported, progress
  <2>2. StableForTheWindow'
    <3>1. Settled(cont, Watched)' <=> Settled(cont, Watched)
      BY <1>1 DEF Settled, Watched, progress
    <3> QED BY <1>1, <3>1 DEF IInv, Promises, StableForTheWindow, health
  <2>3. FinishedMeansCurrent'
    BY <1>1 DEF IInv, Promises, FinishedMeansCurrent, Wanted, Resolved, EnvTag, Exists, progress, undo
  <2> QED BY <2>1, <2>2, <2>3 DEF Promises
<1> QED BY <1>2, <1>3, <1>4, <1>5 DEF IInv

LEMMA Initially == Init => IInv
<1> SUFFICES ASSUME Init PROVE IInv
  OBVIOUS
<1> USE NoneAssumption
<1>1. RunTypeOK
  <2>1. PICK w \in Worlds : /\ cont = w.cont /\ names = w.names
                            /\ local = w.local /\ registry = w.registry
    BY DEF Init
  <2>2. w \in WorldType /\ conf \in ConfType /\ order \in OrderType
    BY WorldsAssumption, ConfsAssumption, OrdersAssumption DEF Init
  <2>3. /\ cont \in [Services -> Containers] /\ names \in [Refs -> Images \union {None}]
        /\ local \in SUBSET Images /\ registry \in [Refs -> Images]
    BY <2>1, <2>2 DEF WorldType
  <2>4. tag \in Tags \union {None}
    BY <2>2 DEF Init, OrderType
  <2>5. 0 \in 0 .. Deadline + 1 /\ -1 \in -1 .. Deadline + 1
    BY TimesAssumption
  <2>6. desired \in [Services -> Refs \union {None}] /\ pc \in Steps
    BY DEF Init, Steps
  <2> QED BY <2>2, <2>3, <2>4, <2>5, <2>6 DEF Init, RunTypeOK
<1>2. Phased /\ NotYet /\ AsAsked /\ Pulled /\ Current /\ Settling
  BY DEF Init, Phased, NotYet, AsAsked, Pulled, Current, Settling
<1>3. Promises
  BY DEF Init, Promises, UntouchedUnlessReported, StableForTheWindow, FinishedMeansCurrent, Outcomes
<1> QED BY <1>1, <1>2, <1>3 DEF IInv

\* The invariant holds for any services, images, docker states, failures and deadlines.
THEOREM Invariance == Spec => []IInv
<1>1. IInv /\ [Next]_vars => IInv'
  <2> SUFFICES ASSUME IInv, [Next]_vars PROVE IInv'
    OBVIOUS
  <2>1. CASE Advance
    BY <2>1, FirstSteps, PullSteps, UpSteps, PollSteps, RollbackSteps DEF Advance, PipelineStep
  <2>2. CASE World
    BY <2>2, WorldSteps DEF World
  <2>3. CASE UNCHANGED run
    <3>1. names' = names /\ UNCHANGED <<progress, undo, health, result, cont, registry, expired>>
          /\ local' = local /\ pruned' = pruned
      BY <2>3 DEF run, docker
    <3>2. RunTypeOK'
      BY <3>1 DEF IInv, RunTypeOK, progress, undo, health
    <3>3. Phased' /\ NotYet' /\ AsAsked' /\ Pulled' /\ Current' /\ Settling'
      BY <3>1 DEF IInv, Phased, NotYet, AsAsked, Pulled, Current, Settling, Ref, Wanted, Resolved,
                  EnvTag, progress, health, undo
    <3>4. UntouchedUnlessReported'
      BY <3>1 DEF IInv, Promises, UntouchedUnlessReported, progress
    <3>5. StableForTheWindow'
      BY <3>1 DEF IInv, Promises, StableForTheWindow, Settled, Watched, progress, health
    <3>6. FinishedMeansCurrent'
      BY <3>1 DEF IInv, Promises, FinishedMeansCurrent, Wanted, Resolved, EnvTag, Exists,
                  progress, undo
    <3>7. Promises'
      BY <3>4, <3>5, <3>6 DEF Promises
    <3> QED BY <3>2, <3>3, <3>7 DEF IInv
  <2> QED BY <2>1, <2>2, <2>3 DEF Next, Stall, Resume, vars
<1> QED BY <1>1, Initially, PTL DEF Spec

--------------------------------------------------------------------------------
(* The rollback *)

\* What RolledBackRestores promises a service, if it does.
Owed(s) == Restorable(s) /\ ~SharesRef(s)

\* The loop has left the reference of each service it has passed on its previous image, and
\* the forced up has started it.
Restoring ==
  /\ pc = "rbtag" =>
       /\ \A s \in todo : Exists(s)
       /\ \A s \in UpScope \ (todo \union retagFailed) :
            Owed(s) => names[ImageRef(desired, s)] = before[s].id
  /\ pc = "rbhealth" \/ result = "rolled_back" =>
       \A s \in UpScope : Owed(s) => cont[s].id = before[s].id

\* Where the rollback is not under way there is nothing to show.
LEMMA RestoringElsewhere ==
  ASSUME IInv, ValidateOK \/ InspectOK \/ EarlyFailure \/ Resolve \/ TagCheck \/ Pull \/ PullFails
               \/ Compare \/ HookOK \/ HookFails \/ UpOK \/ UpFails \/ RBUpFails
  PROVE  Restoring'
<1> USE NoneAssumption
<1>1. result = None
  BY DEF ValidateOK, InspectOK, EarlyFailure, Resolve, TagCheck, Pull, PullFails, Compare, HookOK,
         HookFails, UpOK, UpFails, RBUpFails, IInv, Phased
<1>2. pc' \notin {"rbtag", "rbhealth"} /\ result' # "rolled_back"
  <2>1. CASE ValidateOK \/ InspectOK \/ EarlyFailure \/ Resolve \/ TagCheck \/ Pull \/ PullFails
             \/ HookOK \/ HookFails
    BY <1>1, <2>1 DEF ValidateOK, InspectOK, EarlyFailure, Resolve, TagCheck, Pull, PullFails,
                      HookOK, HookFails, Goto, End, Refused, Outcomes
  <2>2. CASE Compare
    BY <1>1, <2>2 DEF Compare, Verdict, Goto, End, Outcomes
  <2>3. CASE UpOK \/ UpFails \/ RBUpFails
    BY <1>1, <2>3 DEF UpOK, UpFails, RBUpFails, RollBack, Goto, End, Outcomes
  <2> QED BY <2>1, <2>2, <2>3
<1> QED BY <1>2 DEF Restoring

\* A service that is owed its image has a reference of its own to name it.
LEMMA OwedHasRef ==
  ASSUME IInv, NEW s \in UpScope, Owed(s)
  PROVE  /\ s \in Services /\ Exists(s) /\ before[s].id # None /\ before[s].id \notin pruned
         /\ s \notin missing /\ ImageRef(desired, s) = Resolved(tag)[s]
         /\ ImageRef(desired, s) \in Refs /\ ImageRef(desired, s) # None
         /\ \A q \in Services : Exists(q) /\ ImageRef(desired, q) = ImageRef(desired, s)
                                  => before[q].id = before[s].id
<1>1. Resolved(tag) \in [Services -> Refs] /\ UpScope \subseteq Services
  BY ResolvedType, Scopes DEF IInv, RunTypeOK
<1> QED BY <1>1, NoneAssumption DEF Owed, Restorable, SharesRef

LEMMA RestoringTags ==
  ASSUME IInv, Restoring, NEW q \in Services, Retagging(q)
  PROVE  Restoring'
<1>1. /\ pc = "rbtag" /\ pc' = "rbtag" /\ result = None /\ result' = None /\ q \in todo /\ Exists(q)
      /\ UNCHANGED <<conf, order, tag, before, desired, cont, pruned>>
      /\ todo' = todo \ {q}
  BY DEF Retagging, RetagSkip, RetagMissing, Retag, RetagFails, Retaggable, RetagDone, progress,
         IInv, Phased, Restoring
<1>2. ASSUME NEW s \in UpScope, s \notin todo', s \notin retagFailed', Owed(s)'
      PROVE  names'[ImageRef(desired, s)] = before[s].id
  <2>1. missing \subseteq missing' /\ retagFailed \subseteq retagFailed'
    BY DEF Retagging, RetagSkip, RetagMissing, Retag, RetagFails
  <2>2. Owed(s)
    BY <1>1, <1>2, <2>1 DEF Owed, Restorable, SharesRef, Exists, ImageRef, Resolved, EnvTag
  <2>3. /\ s \in Services /\ before[s].id # None /\ ImageRef(desired, s) \in Refs
        /\ ImageRef(desired, s) # None
        /\ ImageRef(desired, q) = ImageRef(desired, s) => before[q].id = before[s].id
    BY <1>1, <2>2, OwedHasRef
  <2>4. s \notin missing'
    BY <1>2 DEF Owed, Restorable
  <2>5. names \in [Refs -> Images \union {None}]
    BY DEF IInv, RunTypeOK
  <2>6. CASE s = q
    <3>1. Retaggable(q)
      BY <1>1, <2>3, <2>6 DEF Retaggable
    <3>2. RetagSkip(q) \/ Retag(q)
      BY <1>2, <2>4, <2>6 DEF Retagging, RetagMissing, RetagFails
    <3> QED BY <2>3, <2>5, <2>6, <3>1, <3>2 DEF RetagSkip, Retag
  <2>7. CASE s # q
    <3>1. names[ImageRef(desired, s)] = before[s].id
      BY <1>1, <1>2, <2>1, <2>2, <2>7 DEF Restoring
    <3>2. names' = names \/ names' = [names EXCEPT ![ImageRef(desired, q)] = before[q].id]
      BY DEF Retagging, RetagSkip, RetagMissing, Retag, RetagFails
    <3> QED BY <2>3, <2>5, <3>1, <3>2
  <2> QED BY <2>6, <2>7
<1>3. UpScope' = UpScope /\ \A s \in Services : ImageRef(desired, s)' = ImageRef(desired, s)
  BY <1>1 DEF UpScope, Wanted, ImageRef
<1>4. \A s \in todo' : Exists(s)'
  BY <1>1 DEF Restoring, Exists
<1>5. UpScope \subseteq Services
  BY Scopes DEF IInv
<1> QED BY <1>1, <1>2, <1>3, <1>4, <1>5, NoneAssumption DEF Restoring, Outcomes

LEMMA RestoringUp ==
  ASSUME IInv, Restoring, RBResolve \/ RBUpOK \/ Poll \/ PollFails
  PROVE  Restoring'
<1> USE NoneAssumption
<1>1. CASE RBResolve
  <2>1. /\ pc' = "rbtag" /\ result' = None /\ before' = before
        /\ todo' = {s \in Services : Exists(s)} /\ conf' = conf
    BY <1>1 DEF RBResolve, Goto, IInv, Phased
  <2>2. UpScope' \subseteq Services
    BY <2>1, Scopes DEF UpScope, Wanted, IInv
  <2> QED BY <2>1, <2>2 DEF Restoring, Owed, Restorable, Exists, Outcomes
<1>2. CASE RBUpOK
  <2>1. /\ pc = "rbtag" /\ todo = {} /\ Up(RBUpServices, Resolved(tag)) /\ result = None
        /\ UNCHANGED <<conf, order, tag, before, desired, undo>> /\ pruned' = pruned
        /\ \/ pc' = "done" /\ result' = "rollback_failed"
           \/ pc' = "rbhealth" /\ retagFailed = {} /\ result' = None
    BY <1>2 DEF RBUpOK, Up, End, Goto, IInv, Phased
  <2>2. /\ Resolved(tag) \in [Services -> Refs] /\ UpScope \subseteq Services
        /\ RBUpServices \subseteq UpScope
    BY ResolvedType, Scopes DEF RBUpServices, IInv, RunTypeOK
  <2>3. \A s \in UpScope : cont'[s].id = UpImage(Resolved(tag)[s])
    <3>1. /\ \A s \in Services \ RBUpServices : cont'[s] = cont[s]
          /\ \A s \in RBUpServices : cont'[s].id = UpImage(Resolved(tag)[s])
      BY <2>1, <2>2, UpEffect DEF IInv
    <3>2. \A s \in UpScope \ RBUpServices : cont[s].id = UpImage(Resolved(tag)[s])
      BY DEF RBUpServices, Diverged, Differs
    <3> QED BY <2>2, <3>1, <3>2
  <2>4. ASSUME NEW s \in UpScope, Owed(s), retagFailed = {} PROVE cont'[s].id = before[s].id
    <3>1. names[ImageRef(desired, s)] = before[s].id
      BY <2>1, <2>4 DEF Restoring
    <3>2. ImageRef(desired, s) = Resolved(tag)[s] /\ before[s].id # None
      BY <2>4, OwedHasRef
    <3> QED BY <2>3, <3>1, <3>2 DEF UpImage
  <2>5. UpScope' = UpScope /\ \A s \in UpScope : Owed(s)' = Owed(s)
    BY <2>1 DEF UpScope, Wanted, Owed, Restorable, SharesRef, Exists, ImageRef, Resolved, EnvTag, undo
  <2> QED BY <2>1, <2>4, <2>5 DEF Restoring, Outcomes
<1>3. CASE Poll \/ PollFails
  <2>1. /\ pc \in {"health", "rbhealth"} /\ result = None
        /\ UNCHANGED <<conf, order, tag, before, desired, undo, pruned>>
    BY <1>3 DEF Poll, PollFails, docker, IInv, Phased
  <2>2. \A s \in Services : cont'[s].id = cont[s].id
    BY <1>3, PollEffect DEF Poll, PollFails, docker, IInv
  <2>3. pc' # "rbtag" /\ (pc' = "rbhealth" \/ result' = "rolled_back" => pc = "rbhealth")
    BY <1>3, <2>1 DEF Poll, PollFails, NextPoll, HealthPassed, HealthFailed, RollBack, Goto, End,
                      Outcomes
  <2>4. UpScope' = UpScope /\ UpScope \subseteq Services /\ \A s \in UpScope : Owed(s)' = Owed(s)
    BY <2>1, Scopes DEF UpScope, Wanted, Owed, Restorable, SharesRef, Exists, ImageRef, Resolved,
                              EnvTag, undo, IInv
  <2>5. before' = before
    BY <2>1
  <2> QED BY <2>2, <2>3, <2>4, <2>5 DEF Restoring
<1> QED BY <1>1, <1>2, <1>3

\* Whoever prunes meanwhile takes a name off no image but the one pruned.
LEMMA RestoringWorld ==
  ASSUME IInv, Restoring, Expire \/ (\E i \in Images : Prune(i)) \/ UNCHANGED run
  PROVE  Restoring'
<1>1. /\ UNCHANGED <<progress, undo, result, cont>> /\ pruned \subseteq pruned'
      /\ \A r \in Refs : names'[r] = names[r] \/ names[r] \in pruned'
  BY DEF Expire, Prune, run, docker, IInv, RunTypeOK
<1>2. UpScope' = UpScope /\ \A s \in UpScope : Owed(s)' => Owed(s)
  BY <1>1 DEF UpScope, Wanted, Owed, Restorable, SharesRef, Exists, ImageRef, Resolved, EnvTag, undo, progress
<1>3. ASSUME NEW s \in UpScope, Owed(s)', names[ImageRef(desired, s)] = before[s].id
      PROVE  names'[ImageRef(desired, s)'] = before'[s].id
  <2>1. ImageRef(desired, s) \in Refs /\ ImageRef(desired, s)' = ImageRef(desired, s)
    BY <1>1, <1>2, <1>3, OwedHasRef DEF ImageRef, progress
  <2>2. before[s].id \notin pruned'
    BY <1>1, <1>3 DEF Owed, Restorable, progress
  <2> QED BY <1>1, <1>3, <2>1, <2>2 DEF progress
<1> QED BY <1>1, <1>2, <1>3 DEF Restoring, Exists, progress, undo

--------------------------------------------------------------------------------
(* What a reader should know of *)

\* Every variable keeps its type, however a run fails, expires, hangs or is undone.
THEOREM TypeCorrect == Spec => []TypeOK
<1>1. Init => TypeOK
  BY Initially DEF Init, IInv, TypeOK
<1>2. IInv /\ IInv' /\ TypeOK /\ [Next]_vars => TypeOK'
  BY DEF Next, Advance, World, Stall, Resume, vars, IInv, TypeOK
<1> QED BY <1>1, <1>2, Invariance, PTL DEF Spec

\* A run that reports no update has left each container on its image and reference.
THEOREM Untouched == Spec => []UntouchedUnlessReported
<1>1. IInv => UntouchedUnlessReported
  BY DEF IInv, Promises
<1> QED BY <1>1, Invariance, PTL

\* "succeeded" and "rolled_back" come after a whole window of polls without an unsettled one.
THEOREM StableWindow == Spec => []StableForTheWindow
<1>1. IInv => StableForTheWindow
  BY DEF IInv, Promises
<1> QED BY <1>1, Invariance, PTL

\* "succeeded", and a "no_change" that asked compose, mean the registry's image is running.
THEOREM FinishedIsCurrent == Spec => []FinishedMeansCurrent
<1>1. IInv => FinishedMeansCurrent
  BY DEF IInv, Promises
<1> QED BY <1>1, Invariance, PTL

\* "rolled_back" means the previous images for any stack, in whatever order the loop goes, with
\* retags and commands that fail, and with images pruned at any moment.
THEOREM RolledBackIsRestored == Spec => []RolledBackRestores
<1>1. Init => Restoring
  BY NoneAssumption DEF Init, Restoring, Outcomes
<1>2. IInv /\ Restoring /\ [Next]_vars => Restoring'
  BY RestoringElsewhere, RestoringTags, RestoringUp, RestoringWorld
     DEF Next, Advance, World, Stall, Resume, PipelineStep, vars, run
<1>3. Restoring => RolledBackRestores
  BY DEF Restoring, Owed, RolledBackRestores
<1> QED BY <1>1, <1>2, <1>3, Invariance, PTL DEF Spec
================================================================================
