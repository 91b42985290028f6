------------------------------- MODULE SelfUpdate -------------------------------
(***************************************************************************)
(* The check for a newer release of dup (internal/selfupdate): the service *)
(* checks on a ticker, `dup version` checks when somebody runs it, and all *)
(* of them share one cache file that each reads before it asks GitHub and  *)
(* writes after.                                                           *)
(*                                                                         *)
(* Reading the cache, being answered by GitHub and writing the cache are   *)
(* separate steps: other processes and time come between them.             *)
(***************************************************************************)
EXTENDS Semver, FiniteSets

CONSTANTS Service,    \* the process of watchForNewRelease
          Commands,   \* runs of `dup version`
          Writers,    \* those of them that may write the cache: not an ordinary user's
          Disabled,   \* those whose environment turns checks off
          Builds,     \* the versions dup may have been built as
          Releases,   \* the tags GitHub can report, in the order they are published
          TTL,        \* Checker.TTL
          Timeout,    \* the longest a check takes
          Reset,      \* how long GitHub keeps refusing
          MaxTime     \* bound on the clock

ASSUME TimeAssumption == TTL \in Nat /\ Timeout \in Nat /\ Reset \in Nat \ {0} /\ MaxTime \in Nat
ASSUME ReleaseAssumption == Releases \in Seq(Versions) /\ \A i \in DOMAIN Releases : Valid(Releases[i])
ASSUME BuildAssumption == Builds \subseteq Versions /\ \A v \in Builds : Valid(v)
ASSUME ServiceAssumption == Service \notin Commands /\ IsFiniteSet(Commands)
ASSUME WritersAssumption == Writers \subseteq Commands \union {Service}

VARIABLES
  now,
  latest,        \* the newest published release, 0 before the first
  limitedUntil,  \* GitHub refuses requests before this
  cache,         \* the cache file
  pc,            \* where each check is
  began,         \* when it began
  cached,        \* what it read and may write back: the release and its time
  reply,         \* what GitHub answered
  published,     \* published[i]: when release i came out
  refused,       \* requests of Writers refused since GitHub last began to refuse, until lost
  lost           \* since then, a Writer's write failed or was not told when to come back

checkVars == <<pc, began, cached, reply>>
vars == <<now, latest, limitedUntil, cache, checkVars, published, refused, lost>>

Checkers == Commands \union {Service}
Tags == DOMAIN Releases
Times == 0 .. MaxTime + Reset

\* cacheFile; without a release it was never checked, and an absent file reads the same.
CacheType == [release : {0} \union Tags, checkedAt : Times, retryAfter : Times]
NoCache == [release |-> 0, checkedAt |-> 0, retryAfter |-> 0]
Replies == {0} \union Tags

TypeOK == /\ now \in 0 .. MaxTime
          /\ latest \in {0} \union Tags
          /\ limitedUntil \in Times
          /\ cache \in CacheType
          /\ pc \in [Checkers -> {"idle", "request", "release", "limited"}]
          /\ began \in [Checkers -> 0 .. MaxTime]
          /\ cached \in [Checkers -> CacheType]
          /\ reply \in [Checkers -> Replies \union Times]
          /\ published \in [Tags -> Times]
          /\ refused \in Nat
          /\ lost \in BOOLEAN

Init == /\ now = 0
        /\ latest = 0
        /\ limitedUntil = 0
        /\ cache = NoCache
        /\ pc = [c \in Checkers |-> "idle"]
        /\ began = [c \in Checkers |-> 0]
        /\ cached = [c \in Checkers |-> NoCache]
        /\ reply = [c \in Checkers |-> 0]
        /\ published = [i \in Tags |-> 0]
        /\ refused = 0
        /\ lost = FALSE

--------------------------------------------------------------------------------
(* Check *)

IsFresh(cf) == cf.release # 0 /\ now - cf.checkedAt < TTL
\* status: the release on file is newer than v.  Check comes to it only for a build that
\* is Checkable, Cached for any build.
Newer(cf, v) == Compare(Releases[cf.release], v) > 0
Cached(v) == cache.release # 0 /\ Newer(cache, v)

Suppressed(cf) == now < cf.retryAfter

\* A check by a build of version v.  The cache is read, and answers by itself unless it is
\* stale, or the caller forces the check; a reset in the future suppresses the request
\* whatever the caller asks.
Begin(c, v, force) ==
  /\ pc[c] = "idle"
  /\ c \notin Disabled
  /\ Checkable(v)
  /\ force => c # Service
  /\ force \/ ~IsFresh(cache)
  /\ ~Suppressed(cache)
  /\ pc' = [pc EXCEPT ![c] = "request"]
  /\ began' = [began EXCEPT ![c] = now]
  /\ cached' = [cached EXCEPT ![c] = [cache EXCEPT !.retryAfter = 0]]
  /\ UNCHANGED <<now, latest, limitedUntil, cache, reply, published, refused, lost>>

Done(c) == /\ pc' = [pc EXCEPT ![c] = "idle"]
           /\ began' = [began EXCEPT ![c] = 0]
           /\ cached' = [cached EXCEPT ![c] = NoCache]
           /\ reply' = [reply EXCEPT ![c] = 0]

\* GitHub reports its newest release.
Answered(c) == /\ pc[c] = "request"
               /\ now >= limitedUntil
               /\ latest # 0
               /\ pc' = [pc EXCEPT ![c] = "release"]
               /\ reply' = [reply EXCEPT ![c] = latest]
               /\ UNCHANGED <<now, latest, limitedUntil, cache, began, cached, published, refused, lost>>

\* GitHub refuses, saying that nothing remains and until when, from now on or still; without
\* a usable reset the checker takes an hour from when it writes.  When GitHub begins to
\* refuse, the count begins.
Limited(c) == /\ pc[c] = "request"
              /\ \/ now < limitedUntil /\ UNCHANGED limitedUntil
                 \/ now >= limitedUntil /\ limitedUntil' = now + Reset
              /\ pc' = [pc EXCEPT ![c] = "limited"]
              /\ \E told \in BOOLEAN :
                   /\ reply' = [reply EXCEPT ![c] = IF told THEN limitedUntil' ELSE 0]
                   /\ lost' = ((lost /\ now < limitedUntil) \/ (~told /\ c \in Writers))
              /\ refused' = IF lost' THEN 0
                            ELSE (IF now < limitedUntil THEN refused ELSE 0)
                                 + (IF c \in Writers THEN 1 ELSE 0)
              /\ UNCHANGED <<now, latest, cache, began, cached, published>>

\* No release, no connection, a response that does not parse, and a 403 or 429 that does
\* not say that nothing remains: nothing is written, and nothing keeps the next check back.
Fails(c) == /\ pc[c] = "request"
            /\ Done(c)
            /\ UNCHANGED <<now, latest, limitedUntil, cache, published, refused, lost>>

\* writeCache renames a finished file into place, or does nothing: it is best effort, and
\* never works for one who may not write the directory.
Writes(c, cf) == \/ c \in Writers /\ cache' = cf /\ UNCHANGED lost
                 \/ c \in Writers /\ UNCHANGED cache /\ lost' = TRUE
                 \/ c \notin Writers /\ UNCHANGED <<cache, lost>>
Counted == refused' = IF lost' THEN 0 ELSE refused

SaveRelease(c) == /\ pc[c] = "release"
                  /\ Writes(c, [release |-> reply[c], checkedAt |-> now, retryAfter |-> 0])
                  /\ Done(c)
                  /\ Counted
                  /\ UNCHANGED <<now, latest, limitedUntil, published>>

RetryAfterMut(c) == now + (IF reply[c] # 0 THEN reply[c] ELSE Reset)
RetryAfter(c) == IF reply[c] # 0 THEN reply[c] ELSE now + Reset
SaveLimitMut(c) == /\ pc[c] = "limited"
                   /\ Writes(c, [cached[c] EXCEPT !.retryAfter = RetryAfter(c), !.checkedAt = now])
                   /\ Done(c)
                   /\ Counted
                   /\ UNCHANGED <<now, latest, limitedUntil, published>>
SaveLimitNot(c) == /\ pc[c] = "limited"
                   /\ Done(c)
                   /\ UNCHANGED <<now, latest, limitedUntil, cache, published, refused, lost>>
SaveLimit(c) == /\ pc[c] = "limited"
                /\ Writes(c, [cached[c] EXCEPT !.retryAfter = RetryAfter(c)])
                /\ Done(c)
                /\ Counted
                /\ UNCHANGED <<now, latest, limitedUntil, published>>

--------------------------------------------------------------------------------
(* GitHub and time *)

Publish == /\ latest < Len(Releases)
           /\ latest' = latest + 1
           /\ published' = [published EXCEPT ![latest + 1] = now]
           /\ UNCHANGED <<now, limitedUntil, cache, checkVars, refused, lost>>

\* A check has a deadline, and the cache is written as soon as it ends.
Tick == /\ now < MaxTime
        /\ \A c \in Checkers : pc[c] # "idle" => now - began[c] < Timeout
        /\ now' = now + 1
        /\ UNCHANGED <<latest, limitedUntil, cache, checkVars, published, refused, lost>>

Next == \/ Publish \/ Tick
        \/ \E c \in Checkers :
             \/ \E v \in Builds, force \in BOOLEAN : Begin(c, v, force)
             \/ Answered(c) \/ Limited(c) \/ Fails(c) \/ SaveRelease(c) \/ SaveLimit(c)

Spec == Init /\ [][Next]_vars

--------------------------------------------------------------------------------
(* Properties *)

\* Whatever order the writers come in, the release and the time on file belong
\* together: no newer release had come out by the time the check that is named as
\* the last one began.
CheckedAtIsTruthful ==
  cache.release # 0 =>
     /\ published[cache.release] <= cache.checkedAt
     /\ \A i \in Tags : (i > cache.release /\ i <= latest) => published[i] + Timeout >= cache.checkedAt

\* Once GitHub refuses, the processes that may write the cache stop asking: an answer from
\* before the refusal that is written after it erases the suppression, each process can
\* have one such answer, and each erasure lets the idle ones ask once.  The count ends,
\* until GitHub refuses anew, when one of their writes fails or one is not told when to
\* come back.  Whoever may not write the cache is refused as often as it asks.
N == Cardinality(Writers)
RefusalsBounded == 2 * refused <= N * (N + 1)

\* What Cached says of the release on file is consistent for the builds that Check would
\* compare: a build it tells to upgrade is older than the release, and older than every
\* build it does not tell, the odd versions (a number with a zero in front or too large for
\* an int) included.  A git-describe build is ahead of the tag it names, and Cached compares
\* it all the same: it is left out.
AdviceIsOrdered ==
  LET compared == {b \in Builds : Checkable(b)}
      advised == {b \in compared : Cached(b)}
  IN  \A v \in advised : /\ Compare(v, Releases[cache.release]) = -1
                         /\ \A w \in compared \ advised : Compare(v, w) = -1
================================================================================
