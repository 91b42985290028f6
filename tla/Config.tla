--------------------------------- MODULE Config --------------------------------
(***************************************************************************)
(* Loading the configuration (internal/config): defaults and validation.   *)
(*                                                                         *)
(* A file is a record of what its text sets, each setting reduced to what  *)
(* the validation can tell apart: a path is Unset, Relative or one of      *)
(* Paths; a duration is an integer, and one that is not positive is unset. *)
(* A loaded configuration is the file it came from, read through the       *)
(* operators below, so two have one fingerprint when they are equal.       *)
(* What loading finds on the disk is a world: what is at each path.        *)
(***************************************************************************)
EXTENDS Integers, Sequences, FiniteSets

CONSTANTS Paths,             \* absolute, clean paths
          BaseOf,            \* the last element of each
          Shallow,           \* those with one element
          TooLong,           \* those longer than a unix socket's limit
          Names,             \* stack names that match targetNameRe
          MinCheckInterval,
          Builtin,           \* the durations applyDefaults falls back to
          Unset              \* a setting the file leaves out

Relative == "relative"

ASSUME PathAssumption == /\ Paths \intersect {Unset, Relative} = {}
                         /\ Shallow \subseteq Paths /\ TooLong \subseteq Paths
                         /\ BaseOf \in [Paths -> STRING]
Durations == {"pull", "health", "job", "window", "interval"}
ASSUME BuiltinAssumption == /\ Builtin \in [Durations \union {"soak"} -> Nat]
                            /\ \A d \in Durations : Builtin[d] > 0
                            /\ MinCheckInterval \in Nat

--------------------------------------------------------------------------------
(* applyDefaults *)

Or(value, fallback) == IF value > 0 THEN value ELSE fallback
DefaultOf(c, d) == Or(c.defaults[d], Builtin[d])

\* A soak of zero is a setting of its own.
DefaultSoak(c) == IF c.defaults.soak = Unset THEN Builtin.soak ELSE c.defaults.soak

IsEnabled(tls) == IF tls.enabled # Unset THEN tls.enabled = "yes"
                  ELSE tls.cert # Unset \/ tls.key # Unset \/ tls.selfSigned

\* self_signed names a pair of files when there is none.
Pair(tls) == {IF f = Unset /\ tls.selfSigned THEN "generated" ELSE f : f \in {tls.cert, tls.key}}
TLSOK(tls) == /\ Unset \in Pair(tls) => Pair(tls) = {Unset}
              /\ IsEnabled(tls) => Pair(tls) # {Unset}

SettingsOK(c) == /\ Relative \notin {c.dockerDir, c.logFile, c.historyFile, c.socket}
                 /\ c.socket \notin TooLong
                 /\ DefaultSoak(c) >= 0
                 /\ TLSOK(c.tls)

--------------------------------------------------------------------------------
(* resolveSecrets, validateNetworks, validateNotify *)

\* The environment, then the file, then the text; a file's own content is in the world, as
\* "exposed" when somebody else could read or replace it.
Secret(s, world) == IF s.env # Unset THEN s.env
                    ELSE IF s.file = Unset THEN s.text
                    ELSE IF s.file = Relative THEN "refused"
                    ELSE world[s.file]

SecretsOK(c, world) ==
  LET found == {Secret(c.bearer, world), Secret(c.github, world)}
  IN found \subseteq {Unset, "blank", "long"} /\ "long" \in found

NetworksOK(c) == /\ c.networks \subseteq {"address", "cidr", "blank"}
                 /\ c.origins \subseteq {"origin"}

Events == {"update_available", "update_withdrawn", "update_started", "update_succeeded",
           "update_no_change", "update_dry_run", "update_failed", "update_rolled_back",
           "update_rollback_failed", "check_failed", "check_recovered"}
NotifyOK(n) == n.url = Unset \/ (/\ n.url \in {"http", "https"}
                                 /\ n.format \in {Unset, "known"}
                                 /\ DOMAIN n.events \subseteq Events)

--------------------------------------------------------------------------------
(* validateTargets *)

\* A target's own setting, or the default.
Duration(c, t, d) == Or(t[d], DefaultOf(c, d))
SoakWindow(c, t) == IF t.soak = Unset THEN DefaultSoak(c) ELSE t.soak
StoreDir(c, t) == <<IF c.dockerDir = Unset THEN "default" ELSE c.dockerDir, t.name>>

WindowFits(c, t) == Duration(c, t, "window") < Duration(c, t, "health")

TargetOK(c, t) == /\ t.name \in Names
                  /\ c.dockerDir \notin Shallow
                  /\ t.dir \in Paths
                  /\ {t.compose, t.envFile} \subseteq {Unset, "bare"}
                  /\ t.services \subseteq {"valid"}
                  /\ t.tagEnv \in {Unset, "valid"}
                  /\ SoakWindow(c, t) >= 0
                  /\ t.hook # Relative
                  /\ t.auto => Duration(c, t, "interval") >= MinCheckInterval
                  /\ WindowFits(c, t)

\* LoadAgent looks at the stacks: a directory that is not there is only a warning, a file
\* that is named but missing or linked from elsewhere, and a hook that cannot run, are not.
PathsOK(t, world) ==
  /\ world[t.dir] # "not a directory"
  /\ world[t.dir] # "absent" =>
       /\ t.compose = Unset => world[t.dir] # "no compose file"
       /\ {t.compose, t.envFile} # {Unset} => world[t.dir] # "missing or linked"
  /\ t.hook # Unset => world[t.hook] = "executable"

\* Neither a name nor a compose project is shared.
Project(t) == BaseOf[t.dir]
Distinct(c) == \A i, j \in DOMAIN c.targets :
                 i # j => /\ c.targets[i].name # c.targets[j].name
                          /\ Project(c.targets[i]) # Project(c.targets[j])

TargetsOK(c) == /\ \A i \in DOMAIN c.targets : TargetOK(c, c.targets[i])
                /\ Distinct(c)

--------------------------------------------------------------------------------
(* LoadBasic, LoadService, LoadAgent *)

LoadBasic(c) == SettingsOK(c) /\ NotifyOK(c.notify) /\ NetworksOK(c) /\ TargetsOK(c)
LoadService(c, world) == LoadBasic(c) /\ SecretsOK(c, world)
LoadAgent(c, world) == LoadBasic(c) /\ \A i \in DOMAIN c.targets : PathsOK(c.targets[i], world)

TargetNames(c) == {c.targets[i].name : i \in DOMAIN c.targets}
Target(c, name) == CHOOSE t \in {c.targets[i] : i \in DOMAIN c.targets} : t.name = name

\* A tag the service or the agent may be asked for.
ValidImageTag(tag) == tag \in {"1.2", "latest"}
================================================================================
