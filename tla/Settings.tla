-------------------------------- MODULE Settings -------------------------------
(***************************************************************************)
(* One configuration file and the processes that each load it when they    *)
(* start: `dup serve` (LoadService), `dup-agent` (LoadAgent) and every     *)
(* `dup auth` (LoadBasic).  People edit the file at any time and restart   *)
(* what they think of.                                                     *)
(*                                                                         *)
(* A request is validated twice, by the service with the configuration it  *)
(* has and by the agent with its own; the two validations are written      *)
(* separately.  When the service starts it compares fingerprints with the  *)
(* agent and warns of a difference.                                        *)
(***************************************************************************)
EXTENDS Config, Credentials

CONSTANTS Edits,     \* the files people write
          Worlds,    \* what loading may find on the disk
          Asks,      \* what clients ask for
          Down, Nothing,
          MaxEvents  \* bound on the edits, starts and commands

ASSUME EventAssumption == MaxEvents \in Nat
ASSUME AskAssumption == \A a \in Asks : a.kind \in {"api", "github", "auto"}
ASSUME StoreAssumption ==
  \A c \in Edits : LoadBasic(c) => \A i \in DOMAIN c.targets : StoreDir(c, c.targets[i]) \in Dirs

VARIABLES
  disk,      \* the file
  events,    \* events, starts and commands so far
  service,   \* the configuration `dup serve` runs with, or Down
  agent,     \* the configuration dup-agent runs with, or Down
  quiet,     \* the service's start raised no warning, and the file was not edited since
  request,   \* a request the service has accepted, on its way to the agent
  answer     \* what the agent said to it

procVars == <<disk, events, service, agent, quiet, request, answer>>
vars == <<procVars, authVars>>

Answers == {"none", "ran", "bad tag", "unknown", "not in the file", "changed but not listed",
            "restart the agent"}

TypeOK == /\ AuthTypeOK
          /\ disk \in Edits
          /\ events \in 0 .. MaxEvents
          /\ service \in Edits \union {Down}
          /\ agent \in Edits \union {Down}
          /\ quiet \in BOOLEAN
          /\ request = Nothing \/ (DOMAIN request = {"target", "tag"} /\ request.target \in Names)
          /\ answer \in Answers

Init == /\ AuthInit
        /\ disk \in Edits
        /\ events = 0
        /\ service = Down
        /\ agent = Down
        /\ quiet = FALSE
        /\ request = Nothing
        /\ answer = "none"

--------------------------------------------------------------------------------
(* The file and the processes *)

Happens == events < MaxEvents /\ events' = events + 1

Edit == /\ Happens
        /\ \E c \in Edits \ {disk} : disk' = c
        /\ quiet' = FALSE
        /\ UNCHANGED <<service, agent, request, answer, authVars>>

Lost == request' = Nothing /\ answer' = "none"

\* runServe: the agent's health may not be had in time, which is a warning too.
StartService ==
  /\ Happens
  /\ service = Down
  /\ \E w \in Worlds : LoadService(disk, w)
  /\ service' = disk
  /\ \E reached \in BOOLEAN : /\ reached => agent # Down
                              /\ quiet' = (reached /\ agent = disk)
  /\ UNCHANGED <<disk, agent, request, answer, authVars>>

StopService == /\ service # Down
               /\ service' = Down
               /\ quiet' = FALSE
               /\ Lost
               /\ UNCHANGED <<disk, events, agent, authVars>>

StartAgent == /\ Happens
              /\ agent = Down
              /\ \E w \in Worlds : LoadAgent(disk, w)
              /\ agent' = disk
              /\ UNCHANGED <<disk, service, quiet, request, answer, authVars>>

StopAgent == /\ agent # Down
             /\ agent' = Down
             /\ Lost
             /\ UNCHANGED <<disk, events, service, quiet, authVars>>

--------------------------------------------------------------------------------
(* The service: handleUpdate, buildRequest, githubRequest; the scheduler *)

\* validateTag of the service.
TagOK(t, tag) == tag = "" \/ (t.tagEnv # Unset /\ ValidImageTag(tag))

\* A published release becomes the tag of stacks that take one; anything else GitHub sends
\* is acknowledged and ignored.
IsRelease(t, a) == /\ a.event = "release" /\ a.action = "published" /\ ~a.draft
                   /\ ~a.prerelease \/ t.prereleases
TrimV(tag) == IF tag = "v1.2" THEN "1.2" ELSE tag
ReleaseTag(t, a) == IF t.tagEnv # Unset THEN TrimV(a.tag) ELSE ""

AcceptedMut(t, a) == CASE a.kind = "github" -> IsRelease(t, a)
                       [] a.kind = "api"    -> TagOK(t, a.tag)
                       [] a.kind = "auto"   -> t.auto
Accepted(t, a) == CASE a.kind = "github" -> /\ IsRelease(t, a)
                                            /\ t.tagEnv # Unset => ValidImageTag(TrimV(a.tag))
                    [] a.kind = "api"    -> TagOK(t, a.tag)
                    [] a.kind = "auto"   -> t.auto
Tag(t, a) == CASE a.kind = "github" -> ReleaseTag(t, a)
               [] a.kind = "api"    -> a.tag
               [] a.kind = "auto"   -> ""

Forward == /\ service # Down
           /\ request = Nothing
           /\ \E a \in Asks :
                /\ a.target \in TargetNames(service)
                /\ LET t == Target(service, a.target)
                   IN /\ Accepted(t, a)
                      /\ request' = [target |-> a.target, tag |-> Tag(t, a)]
           /\ UNCHANGED <<disk, events, service, agent, quiet, answer, authVars>>

--------------------------------------------------------------------------------
(* The agent: handleExec and handleCheck up to the lock *)

\* validateTag of the agent, which has a text of its own.
AgentTagOK(t, tag) == tag = "" \/ (t.tagEnv # Unset /\ ValidImageTag(tag))

\* unknownTarget reads the file again to explain itself.
Advice(name) == IF disk = agent THEN "not in the file"
                ELSE IF name \notin TargetNames(disk) THEN "changed but not listed"
                ELSE "restart the agent"

Answer == /\ agent # Down
          /\ request # Nothing /\ answer = "none"
          /\ IF request.target \notin TargetNames(agent)
             THEN \E w \in Worlds :
                    answer' = IF LoadAgent(disk, w) THEN Advice(request.target) ELSE "unknown"
             ELSE answer' = IF AgentTagOK(Target(agent, request.target), request.tag)
                            THEN "ran" ELSE "bad tag"
          /\ UNCHANGED <<disk, events, service, agent, quiet, request, authVars>>

Conclude == /\ answer # "none"
            /\ Lost
            /\ UNCHANGED <<disk, events, service, agent, quiet, authVars>>

--------------------------------------------------------------------------------
(* dup auth *)

\* The registries the agent names, or one that is typed; a stack from the file.
Auth(c) == \/ /\ Happens
              /\ LoadBasic(disk)
              /\ \E name \in TargetNames(disk), asked \in {"add", "force", "remove"}, inputs \in Lists :
                   AuthStart(c, asked, StoreDir(disk, Target(disk, name)), inputs)
              /\ UNCHANGED <<disk, service, agent, quiet, request, answer>>
           \/ AuthStep(c) /\ UNCHANGED procVars

Next == \/ Edit \/ StartService \/ StopService \/ StartAgent \/ StopAgent
        \/ Forward \/ Answer \/ Conclude
        \/ \E c \in Commands : Auth(c)

Spec == Init /\ [][Next]_vars

--------------------------------------------------------------------------------
(* Properties *)

\* What the service accepts under a configuration its start did not warn about, the agent
\* does not turn down: neither the stack nor the tag.  Both sides validate, and neither
\* asks the other (buildRequest and validateTag, against handleExec and its validateTag;
\* the warning in runServe).
Refusal == answer \notin {"none", "ran"}
QuietStartIsHonoured == Refusal => ~quiet
================================================================================
