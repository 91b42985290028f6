---------------------------------- MODULE Api ----------------------------------
(***************************************************************************)
(* How `dup serve` decides whether a request reaches a handler             *)
(* (internal/server: access.go, auth.go and Server.protected): the source  *)
(* rules, CORS, the throttle of failed authentications, the body limit and *)
(* the two kinds of credentials.                                           *)
(*                                                                         *)
(* Requests run concurrently.  Asking the throttle, comparing the          *)
(* credentials and counting a failure are separate steps, with only the    *)
(* first and the last under the throttle's mutex.                          *)
(***************************************************************************)
EXTENDS Naturals, Sequences, FiniteSets

CONSTANTS Handlers,         \* request goroutines
          Requests,         \* the requests clients send
          NoRequest,        \* what an idle goroutine holds
          Addresses,        \* the IP addresses that parse
          Unparsable,       \* a hop or a peer that does not
          TrustedProxies, AllowFrom,   \* Config.TrustedProxies, Config.AllowFrom
          TokenSet, SecretSet,         \* which credentials the config has
          MaxFailures,      \* maxAuthFailures
          MaxKeys,          \* maxThrottleKeys
          Window,           \* authWindow
          MaxTime           \* bound on the clock

ASSUME HandlersAssumption == IsFiniteSet(Handlers)
ASSUME AddressAssumption == /\ Unparsable \notin Addresses
                            /\ TrustedProxies \subseteq Addresses
                            /\ AllowFrom \subseteq Addresses
ASSUME ThrottleAssumption == /\ MaxFailures \in Nat \ {0}
                             /\ MaxKeys \in Nat \ {0}
                             /\ Window \in Nat /\ MaxTime \in Nat

Hops == Addresses \union {Unparsable}
Marks == {"none", "good", "bad"}
RequestType == [peer : Hops, chain : Seq(Hops), origin : {"none", "listed", "other"},
                preflight : BOOLEAN, route : {"health", "protected"}, large : BOOLEAN,
                signature : Marks, token : Marks]
ASSUME RequestAssumption == Requests \subseteq RequestType /\ NoRequest \notin RequestType

VARIABLES
  entries,   \* authThrottle.entries
  now,
  pc,        \* where each request is
  req,       \* what it asks
  since      \* since[k][i]: how long ago the i-th latest failure of source k was

vars == <<entries, now, pc, req, since>>

--------------------------------------------------------------------------------
(* access.go *)

Forwarded(r) == {i \in 1 .. Len(r.chain) : r.chain[i] \in Addresses \ TrustedProxies}
Nearest(S) == CHOOSE i \in S : \A j \in S : j <= i

\* The nearest hop that is not a proxy of ours; hops that do not parse are skipped.
clientIP(r) == IF r.peer \notin TrustedProxies \/ Forwarded(r) = {}
               THEN r.peer
               ELSE r.chain[Nearest(Forwarded(r))]

allowedSource(r) == AllowFrom = {} \/ clientIP(r) \in AllowFrom

\* "unknown" is Unparsable: every source without an address shares one budget.
throttleKeyMut(r) == Unparsable
throttleKey(r) == clientIP(r)

--------------------------------------------------------------------------------
(* authThrottle *)

EntryType == [failures : Nat, windowStart : 0 .. MaxTime]
Fresh == [failures |-> 0, windowStart |-> now]
Over(e) == now - e.windowStart > Window
Live == {k \in DOMAIN entries : ~Over(entries[k])}   \* what sweep keeps

\* The table entry() leaves: room is made for a key that is not in it by sweeping,
\* and when that is not enough by dropping everything.
RoomUnbounded == DOMAIN entries
RoomUnswept == IF Cardinality(DOMAIN entries) < MaxKeys THEN DOMAIN entries ELSE {}
Room == IF Cardinality(DOMAIN entries) < MaxKeys THEN DOMAIN entries
        ELSE IF Cardinality(Live) < MaxKeys THEN Live
        ELSE {}
Table(k) == LET kept == IF k \in DOMAIN entries THEN DOMAIN entries ELSE Room
            IN [x \in kept \union {k} |->
                  IF x # k THEN entries[x]
                  ELSE IF k \in DOMAIN entries /\ ~Over(entries[k]) THEN entries[k]
                  ELSE Fresh]

\* Ages beyond the window are all one.
Ages == 0 .. Window + 1
Older(age) == IF age > Window THEN age ELSE age + 1
AnotherFailure(ages) == [i \in 1 .. MaxFailures |-> IF i = 1 THEN 0 ELSE ages[i - 1]]

--------------------------------------------------------------------------------

TypeOK == /\ DOMAIN entries \subseteq Hops
          /\ \A k \in DOMAIN entries : entries[k] \in EntryType
          /\ Cardinality(DOMAIN entries) <= MaxKeys
          /\ now \in 0 .. MaxTime
          /\ pc \in [Handlers -> {"idle", "allow", "authenticate", "fail"}]
          /\ req \in [Handlers -> Requests \union {NoRequest}]
          /\ \A h \in Handlers : pc[h] = "idle" <=> req[h] = NoRequest
          /\ since \in [Hops -> [1 .. MaxFailures -> Ages]]

Init == /\ entries = << >>
        /\ now = 0
        /\ pc = [h \in Handlers |-> "idle"]
        /\ req = [h \in Handlers |-> NoRequest]
        /\ since = [k \in Hops |-> [i \in 1 .. MaxFailures |-> Window + 1]]

\* A response is written: a status of this layer, or whatever the handler answers.
Answer(h) == /\ pc' = [pc EXCEPT ![h] = "idle"]
             /\ req' = [req EXCEPT ![h] = NoRequest]
Goes(h, to) == /\ pc' = [pc EXCEPT ![h] = to]
               /\ UNCHANGED req

\* restrictSource, cors and the mux.  403 for another source, 204 or 403 for a
\* preflight, and GET /healthz asks no further: none of them touches the throttle.
EndsEarly(r) == ~allowedSource(r) \/ (r.preflight /\ r.origin # "none") \/ r.route = "health"

Arrive(h) ==
  /\ pc[h] = "idle"
  /\ \E r \in Requests :
       IF EndsEarly(r) THEN Answer(h)
       ELSE pc' = [pc EXCEPT ![h] = "allow"] /\ req' = [req EXCEPT ![h] = r]
  /\ UNCHANGED <<entries, now, since>>

\* throttle.allow: 429 at the limit.
AllowMut(h) ==
  /\ pc[h] = "allow"
  /\ LET k == throttleKey(req[h])
     IN /\ entries' = Table(k)
        /\ IF entries'[k].failures <= MaxFailures THEN Goes(h, "authenticate") ELSE Answer(h)
  /\ UNCHANGED <<now, since>>
Allow(h) ==
  /\ pc[h] = "allow"
  /\ LET k == throttleKey(req[h])
     IN /\ entries' = Table(k)
        /\ IF entries'[k].failures < MaxFailures THEN Goes(h, "authenticate") ELSE Answer(h)
  /\ UNCHANGED <<now, since>>

\* A signature, when there is one, decides alone.
Authentic(r) == IF r.signature # "none" THEN SecretSet /\ r.signature = "good"
                ELSE TokenSet /\ r.token = "good"

\* The body is read before the credentials are looked at: 413 is no failure.
Passes(r) == r.large \/ Authentic(r)

Authenticate(h) ==
  /\ pc[h] = "authenticate"
  /\ IF Passes(req[h]) THEN Answer(h) ELSE Goes(h, "fail")
  /\ UNCHANGED <<entries, now, since>>

\* throttle.fail, and 401.
Fail(h) ==
  /\ pc[h] = "fail"
  /\ LET k == throttleKey(req[h])
     IN entries' = [Table(k) EXCEPT ![k].failures = @ + 1]
  /\ since' = [since EXCEPT ![clientIP(req[h])] = AnotherFailure(@)]
  /\ Answer(h)
  /\ UNCHANGED now

Tick == /\ now < MaxTime
        /\ now' = now + 1
        /\ since' = [k \in Hops |-> [i \in 1 .. MaxFailures |-> Older(since[k][i])]]
        /\ UNCHANGED <<entries, pc, req>>

Next == Tick \/ \E h \in Handlers : Arrive(h) \/ Allow(h) \/ Authenticate(h) \/ Fail(h)

Spec == Init /\ [][Next]_vars

--------------------------------------------------------------------------------
(* Properties *)

\* The count a source is turned away for is its own and recent: at the limit, that source
\* itself failed MaxFailures times within the last window.  Requests let through before the
\* limit was reached may still fail after it, so the count passes the limit, by at most the
\* other requests in flight (allow and fail, with the comparison between them).
InFlight(k) == {h \in Handlers : pc[h] \in {"authenticate", "fail"} /\ throttleKey(req[h]) = k}
CountIsRight ==
  \A k \in Live :
    /\ entries[k].failures >= MaxFailures => since[k][MaxFailures] <= Window
    /\ entries[k].failures + Cardinality(InFlight(k)) < MaxFailures + Cardinality(Handlers)

\* Nothing takes a failure off a source's count within its window, a success in
\* particular: only making room does, when every entry of a full table is in its
\* window.
BudgetKept ==
  [][\A k \in Live :
       \/ k \in DOMAIN entries' /\ entries'[k].failures >= entries[k].failures
       \/ Cardinality(Live) = MaxKeys]_vars
================================================================================
