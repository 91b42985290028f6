------------------------------- MODULE MCSettings ------------------------------
(* A sound file, sound ones a person may turn it into, and files each with one  *)
(* mistake; every kind of thing that may be found at the paths they name.       *)
EXTENDS Settings, TLC

Symmetry == Permutations(Commands)

MCBaseOf == [p \in Paths |-> CASE p \in {"/srv/web", "/old/web"} -> "web"
                               [] p = "/srv/db" -> "db"
                               [] OTHER -> "file"]
MCBuiltin == [d \in Durations \union {"soak"} |-> CASE d = "window" -> 1 [] d = "soak" -> 2
                                                    [] d = "interval" -> 4 [] OTHER -> 3]
MCLists == {<< >>, <<"ghcr.io">>, <<"docker.io", "ghcr.io">>, <<"not a host", "docker.io">>, <<"not a host">>}
MCDirs == {"default"} \X {"web", "db"}
MCKeyOf == [i \in Inputs |-> CASE i = "docker.io" -> "hub" [] i = "ghcr.io" -> "ghcr"
                               [] i = "not a host" -> Refused]

Plain(name, where) ==
  [name |-> name, dir |-> where, compose |-> Unset, envFile |-> Unset, services |-> {},
   tagEnv |-> Unset, pull |-> 0, health |-> 0, job |-> 0, window |-> 0, interval |-> 0,
   soak |-> Unset, hook |-> Unset, auto |-> FALSE, prereleases |-> FALSE]
Web == Plain("web", "/srv/web")
Tagged == [Web EXCEPT !.tagEnv = "valid", !.compose = "bare", !.hook = "/bin/dump",
                      !.prereleases = TRUE]
Auto == [Web EXCEPT !.auto = TRUE, !.soak = 0, !.interval = 5]
Db == Plain("db", "/srv/db")

NoDefaults == [d \in Durations |-> 0] @@ [soak |-> Unset]
Secretless == [env |-> Unset, file |-> Unset, text |-> Unset]
Base == [dockerDir |-> Unset, logFile |-> Unset, historyFile |-> "/var/log/h", socket |-> Unset,
         defaults |-> NoDefaults,
         tls |-> [enabled |-> Unset, cert |-> Unset, key |-> Unset, selfSigned |-> FALSE],
         bearer |-> [Secretless EXCEPT !.file = "/etc/token"],
         github |-> [Secretless EXCEPT !.env = "blank"],
         networks |-> {"cidr", "blank"}, origins |-> {"origin"},
         notify |-> [url |-> "https", format |-> "known", events |-> [check_failed |-> TRUE]],
         targets |-> <<Web>>]

With(t) == [Base EXCEPT !.targets = <<t>>]
Sound == {Base, With(Tagged),
          [Base EXCEPT !.targets = <<Auto, Db>>,
                       !.tls = [@ EXCEPT !.selfSigned = TRUE], !.notify.url = Unset]}
Mistaken == {With([Web EXCEPT !.window = 3]),
             With([Web EXCEPT !.health = 1]),
             With([Auto EXCEPT !.interval = 1]),
             With([Web EXCEPT !.soak = -1]),
             [Base EXCEPT !.targets = <<Web, [Db EXCEPT !.dir = "/old/web"]>>],
             [Base EXCEPT !.targets = <<Web, [Db EXCEPT !.name = "web"]>>],
             [Base EXCEPT !.dockerDir = Relative],
             [Base EXCEPT !.bearer.file = Unset],
             [Base EXCEPT !.tls.cert = "/etc/cert"]}
MCEdits == Sound \union Mistaken

Usual == [p \in Paths |-> CASE p = "/etc/token" -> "long" [] p = "/bin/dump" -> "executable"
                            [] OTHER -> "directory"]
MCWorlds == {Usual, [Usual EXCEPT !["/srv/web"] = "absent"],
             [Usual EXCEPT !["/srv/web"] = "no compose file", !["/etc/token"] = "exposed"]}

Asking == [target |-> "web", tag |-> "", event |-> "release", action |-> "published",
           draft |-> FALSE, prerelease |-> FALSE]
MCAsks == {Asking @@ [kind |-> k] : k \in {"api", "github", "auto"}}
          \union {[Asking EXCEPT !.tag = "1.2"] @@ [kind |-> "api"],
                  [Asking EXCEPT !.tag = "v1.2", !.prerelease = TRUE] @@ [kind |-> "github"],
                  [Asking EXCEPT !.tag = "bad tag"] @@ [kind |-> "github"],
                  [Asking EXCEPT !.target = "db"] @@ [kind |-> "api"]}
================================================================================
