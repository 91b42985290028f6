----------------------------- MODULE SettingsProofs ----------------------------
(***************************************************************************)
(* Proofs about Settings and the modules it is built from, for any files,  *)
(* any requests and any number of commands that run at the same time.      *)
(***************************************************************************)
EXTENDS Settings, TLAPS

--------------------------------------------------------------------------------
(* Configurations *)

Loaded(c) == c # Down => LoadBasic(c)

--------------------------------------------------------------------------------
(* Requests *)

\* What the service accepts, it sends on in a form its own validation allows.
LEMMA ForwardedIsValid ==
  ASSUME NEW t, NEW a \in Asks, Accepted(t, a)
  PROVE  TagOK(t, Tag(t, a))
BY AskAssumption DEF Accepted, TagOK, Tag, ReleaseTag

\* The agent's validation turns down no tag that the service's allows.
LEMMA ValidationsAgree ==
  ASSUME NEW t, NEW tag, TagOK(t, tag)
  PROVE  AgentTagOK(t, tag)
BY DEF TagOK, AgentTagOK

--------------------------------------------------------------------------------
(* Credential files *)

\* A command's copy differs from the file only at the registry it is to change and at
\* those others wrote since it read.
CopiesAgree ==
  \A c \in Commands : pc[c] \in {"prompt", "write"} =>
    /\ todo[c] # << >> /\ Key(c) \in Keys
    /\ \A k \in Keys \ since[c] :
         pc[c] = "prompt" \/ k # Key(c) => k \notin Differ(Read(dir[c]), copy[c])

AuthInv == AuthTypeOK /\ CopiesAgree

LEMMA EmptyIsFile == Empty \in Files /\ DOMAIN Empty = {}
<1>1. Empty \in [{} -> Commands \union {Stored}] /\ DOMAIN Empty = {}
  BY DEF Empty
<1>2. {} \in SUBSET Keys
  OBVIOUS
<1> QED BY <1>1, <1>2 DEF Files

LEMMA ReadsFile == ASSUME AuthTypeOK, NEW d \in Dirs PROVE Read(d) \in Files
BY EmptyIsFile DEF AuthTypeOK, StoreType, Read, Exists

\* A file with one entry more, or one less, is a file.
LEMMA ChangedIsFile ==
  ASSUME NEW f \in Files, NEW k \in Keys
  PROVE  /\ Remove(f, k) \in Files
         /\ \A c \in Commands : Set(f, k, c) \in Files
         /\ \A x \in Keys \ {k} : /\ x \notin Differ(f, Remove(f, k))
                                  /\ \A c \in Commands : x \notin Differ(f, Set(f, k, c))
<1>1. PICK K \in SUBSET Keys : f \in [K -> Commands \union {Stored}]
  BY DEF Files
<1>2. Remove(f, k) \in [K \ {k} -> Commands \union {Stored}]
  BY <1>1 DEF Remove
<1>3. ASSUME NEW c \in Commands
      PROVE  Set(f, k, c) \in [K \union {k} -> Commands \union {Stored}]
  BY <1>1 DEF Set
<1>4. K \ {k} \in SUBSET Keys /\ K \union {k} \in SUBSET Keys
  OBVIOUS
<1>5. \A x \in Keys \ {k} : /\ x \notin Differ(f, Remove(f, k))
                            /\ \A c \in Commands : x \notin Differ(f, Set(f, k, c))
  BY <1>1 DEF Differ, Has, Remove, Set
<1>6. \A K2 \in SUBSET Keys : [K2 -> Commands \union {Stored}] \subseteq Files
  BY DEF Files
<1> QED BY <1>2, <1>3, <1>4, <1>5, <1>6

\* After a write every reader sees what was written, the removed file as an empty one.
LEMMA Written ==
  ASSUME AuthTypeOK, NEW c \in Commands, NEW f \in Files, Put(c, f)
  PROVE  /\ store' \in StoreType
         /\ \A d \in Dirs : Read(d)' = IF d = dir[c] THEN f ELSE Read(d)
<1>1. f # NoFile
  BY FileAssumption DEF Files
<1>2. dir[c] \in Dirs
  BY DEF AuthTypeOK
<1> QED BY <1>1, <1>2 DEF AuthTypeOK, StoreType, Put, Read, Exists

\* Steps that leave the files and what other commands hold alone.
LEMMA StartKeeps ==
  ASSUME AuthInv, NEW c \in Commands, NEW asked \in {"add", "force", "remove"},
         NEW d \in Dirs, NEW inputs \in Lists, AuthStart(c, asked, d, inputs)
  PROVE  AuthInv'
<1> USE DEF AuthInv
<1>1. AuthTypeOK'
  BY ListAssumption DEF AuthTypeOK, AuthStart, Goto
<1>2. ASSUME NEW b \in Commands, pc'[b] \in {"prompt", "write"}
      PROVE  b # c /\ pc[b] = pc'[b] /\ dir'[b] = dir[b] /\ todo'[b] = todo[b]
  BY <1>2 DEF AuthTypeOK, AuthStart, Goto
<1>3. UNCHANGED <<store, copy, since>>
  BY DEF AuthStart
<1>4. CopiesAgree'
  BY <1>2, <1>3 DEF CopiesAgree, Key, Read, Exists
<1> QED BY <1>1, <1>4

\* Going on to the next registry, or ending, keeps the types.
LEMMA GoingOn ==
  ASSUME AuthTypeOK, NEW c \in Commands
  PROVE  /\ todo[c] # << >> /\ NextHost(c) =>
              /\ todo' \in [Commands -> Seq(Inputs)]
              /\ copy' = copy /\ since' = since
         /\ Over(c) => /\ pc' \in [Commands -> {"new", "next", "prompt", "write", "over"}]
                       /\ todo' \in [Commands -> Seq(Inputs)]
                       /\ copy' \in [Commands -> Files]
<1>1. ASSUME todo[c] # << >>, NextHost(c) PROVE todo' \in [Commands -> Seq(Inputs)]
  <2>1. Tail(todo[c]) \in Seq(Inputs)
    BY <1>1 DEF AuthTypeOK
  <2> QED BY <1>1, <2>1 DEF AuthTypeOK, NextHost
<1>2. ASSUME Over(c)
      PROVE  /\ pc' \in [Commands -> {"new", "next", "prompt", "write", "over"}]
             /\ todo' \in [Commands -> Seq(Inputs)]
             /\ copy' \in [Commands -> Files]
  BY <1>2, EmptyIsFile DEF AuthTypeOK, Over, Goto
<1> QED BY <1>1, <1>2 DEF NextHost

LEMMA StepKeeps == ASSUME AuthInv, NEW c \in Commands, AuthStep(c) PROVE AuthInv'
<1> USE DEF AuthInv
<1>1. CASE AuthDone(c) \/ BadHost(c) \/ LeftAlone(c) \/ AuthFails(c)
  <2>1. AuthTypeOK'
    <3>1. CASE AuthDone(c) \/ AuthFails(c)
      BY <3>1, GoingOn DEF AuthTypeOK, AuthDone, AuthFails
    <3>2. CASE BadHost(c) \/ LeftAlone(c)
      <4>1. todo[c] # << >> /\ NextHost(c)
        BY <3>2 DEF CopiesAgree, BadHost, LeftAlone
      <4>2. /\ pc' \in [Commands -> {"new", "next", "prompt", "write", "over"}]
            /\ UNCHANGED <<store, op, dir>>
        BY <3>2 DEF AuthTypeOK, BadHost, LeftAlone, Goto
      <4> QED BY <4>1, <4>2, GoingOn DEF AuthTypeOK
    <3> QED BY <1>1, <3>1, <3>2
  <2>2. ASSUME NEW b \in Commands, pc'[b] \in {"prompt", "write"}
        PROVE  /\ pc[b] = pc'[b] /\ todo'[b] = todo[b] /\ copy'[b] = copy[b]
    BY <1>1, <2>2 DEF AuthTypeOK, AuthDone, BadHost, LeftAlone, AuthFails, Over, NextHost, Goto
  <2>3. UNCHANGED <<store, dir, since>>
    BY <1>1 DEF AuthDone, BadHost, LeftAlone, AuthFails, NextHost
  <2>4. CopiesAgree'
    BY <2>2, <2>3 DEF CopiesAgree, Key, Read, Exists
  <2> QED BY <2>1, <2>4
<1>2. CASE ReadStore(c)
  <2>1. Key(c) \in Keys
    BY <1>2, KeyAssumption DEF AuthTypeOK, ReadStore, Key
  <2>2. Read(dir[c]) \in Files /\ dir[c] \in Dirs
    BY ReadsFile DEF AuthTypeOK
  <2>3. AuthTypeOK'
    <3>1. todo[c] # << >> /\ UNCHANGED <<store, op, dir>>
      BY <1>2 DEF ReadStore
    <3>2. CASE NextHost(c) /\ UNCHANGED pc
      BY <3>1, <3>2, GoingOn DEF AuthTypeOK
    <3>3. CASE Over(c) /\ UNCHANGED since
      BY <3>1, <3>3, GoingOn DEF AuthTypeOK
    <3>4. CASE /\ copy' = [copy EXCEPT ![c] = Read(dir[c])]
               /\ since' = [since EXCEPT ![c] = {}]
               /\ Goto(c, "prompt") /\ UNCHANGED todo
      BY <2>2, <3>1, <3>4 DEF AuthTypeOK, Goto
    <3>5. CASE /\ copy' = [copy EXCEPT ![c] = Remove(Read(dir[c]), Key(c))]
               /\ since' = [since EXCEPT ![c] = {}]
               /\ Goto(c, "write") /\ UNCHANGED todo
      BY <2>1, <2>2, <3>1, <3>5, ChangedIsFile DEF AuthTypeOK, Goto
    <3> QED BY <1>2, <3>2, <3>3, <3>4, <3>5 DEF ReadStore, Seen
  <2>4. ASSUME NEW b \in Commands, b # c, pc'[b] \in {"prompt", "write"}
        PROVE  pc[b] = pc'[b] /\ todo'[b] = todo[b] /\ copy'[b] = copy[b] /\ since'[b] = since[b]
    BY <1>2, <2>4 DEF AuthTypeOK, ReadStore, NextHost, Over, Goto
  <2>5. UNCHANGED <<store, dir>>
    BY <1>2 DEF ReadStore
  <2>6. ASSUME pc'[c] = "prompt"
        PROVE  todo'[c] = todo[c] /\ todo[c] # << >> /\ copy'[c] = Read(dir[c])
    BY <1>2, <2>6 DEF AuthTypeOK, ReadStore, Seen, NextHost, Over, Goto
  <2>7. ASSUME pc'[c] = "write"
        PROVE  todo'[c] = todo[c] /\ todo[c] # << >> /\ copy'[c] = Remove(Read(dir[c]), Key(c))
    BY <1>2, <2>7 DEF AuthTypeOK, ReadStore, Seen, NextHost, Over, Goto
  <2>8. \A k \in Keys : k \notin Differ(Read(dir[c]), Read(dir[c]))
    BY DEF Differ
  <2> DEFINE Agrees(b) == /\ todo[b] # << >> /\ Key(b) \in Keys
                          /\ \A k \in Keys \ since[b] : pc[b] = "prompt" \/ k # Key(b)
                                => k \notin Differ(Read(dir[b]), copy[b])
  <2>9. ASSUME NEW b \in Commands, b # c, pc'[b] \in {"prompt", "write"} PROVE Agrees(b)'
    BY <2>4, <2>5, <2>9 DEF CopiesAgree, Key, Read, Exists
  <2>10. ASSUME pc'[c] \in {"prompt", "write"} PROVE Agrees(c)'
    BY <2>1, <2>2, <2>5, <2>6, <2>7, <2>8, <2>10, ChangedIsFile DEF Key, Read, Exists
  <2>11. CopiesAgree'
    BY <2>9, <2>10 DEF CopiesAgree
  <2> QED BY <2>3, <2>11
<1>3. CASE Verified(c)
  <2>1. /\ pc[c] = "prompt" /\ todo[c] # << >> /\ copy[c] \in Files
        /\ UNCHANGED <<store, op, dir, todo, since>>
        /\ pc' = [pc EXCEPT ![c] = "write"]
        /\ copy' = [copy EXCEPT ![c] = Set(copy[c], Key(c), c)]
    BY <1>3 DEF AuthTypeOK, CopiesAgree, Verified, Goto
  <2>2. Key(c) \in Keys
    BY <1>3 DEF CopiesAgree, Verified
  <2>3. Set(copy[c], Key(c), c) \in Files
    BY <2>1, <2>2, ChangedIsFile
  <2>4. AuthTypeOK'
    BY <2>1, <2>3 DEF AuthTypeOK
  <2>5. ASSUME NEW k \in Keys \ since[c], k # Key(c)
        PROVE  k \notin Differ(Read(dir[c]), Set(copy[c], Key(c), c))
    <3>1. k \notin Differ(Read(dir[c]), copy[c])
      BY <2>1, <2>5 DEF CopiesAgree
    <3>2. k \notin Differ(copy[c], Set(copy[c], Key(c), c))
      BY <2>1, <2>2, <2>5, ChangedIsFile
    <3> QED BY <3>1, <3>2 DEF Differ
  <2>6. CopiesAgree'
    <3> HIDE DEF Differ, Set
    <3>1. /\ copy'[c] = Set(copy[c], Key(c), c) /\ pc'[c] = "write"
          /\ \A b \in Commands \ {c} : copy'[b] = copy[b] /\ pc'[b] = pc[b]
      BY <2>1 DEF AuthTypeOK
    <3> QED BY <2>1, <2>2, <2>5, <3>1 DEF CopiesAgree, Key, Read, Exists
  <2> QED BY <2>4, <2>6
<1>4. CASE SaveHost(c) \/ RemoveHost(c)
  <2>1. /\ pc[c] = "write" /\ todo[c] # << >> /\ copy[c] \in Files /\ dir[c] \in Dirs
        /\ Put(c, copy[c]) /\ UNCHANGED <<op, dir>>
    BY <1>4 DEF AuthTypeOK, CopiesAgree, SaveHost, RemoveHost
  <2>2. /\ store' \in StoreType
        /\ \A d \in Dirs : Read(d)' = IF d = dir[c] THEN copy[c] ELSE Read(d)
    BY <2>1, Written
  <2>3. /\ pc' \in [Commands -> {"new", "next", "prompt", "write", "over"}]
        /\ todo' \in [Commands -> Seq(Inputs)] /\ copy' \in [Commands -> Files]
        /\ pc'[c] \in {"next", "over"}
        /\ \A b \in Commands \ {c} : pc'[b] = pc[b] /\ todo'[b] = todo[b] /\ copy'[b] = copy[b]
    <3>1. CASE SaveHost(c)
      <4>1. Tail(todo[c]) \in Seq(Inputs)
        BY <2>1 DEF AuthTypeOK
      <4> QED BY <3>1, <4>1 DEF AuthTypeOK, SaveHost, Goto
    <3>2. CASE RemoveHost(c)
      BY <3>2, GoingOn DEF AuthTypeOK, RemoveHost, Over, Goto
    <3> QED BY <1>4, <3>1, <3>2
  <2>4. /\ since' \in [Commands -> SUBSET Keys]
        /\ \A b \in Commands \ {c} :
             since'[b] = IF dir[b] = dir[c] /\ pc[b] \in {"prompt", "write"}
                         THEN since[b] \union Differ(Read(dir[c]), copy[c])
                         ELSE since[b]
    BY <2>1 DEF AuthTypeOK, Put, Noticed, Differ
  <2>5. AuthTypeOK'
    BY <2>1, <2>2, <2>3, <2>4 DEF AuthTypeOK
  <2>6. ASSUME NEW b \in Commands, pc'[b] \in {"prompt", "write"},
               NEW k \in Keys \ since'[b], pc'[b] = "prompt" \/ k # Key(b)'
        PROVE  k \notin Differ(Read(dir[b])', copy'[b])
    <3>1. /\ b # c /\ pc'[b] = pc[b] /\ copy'[b] = copy[b] /\ dir'[b] = dir[b]
          /\ Key(b)' = Key(b) /\ dir[b] \in Dirs
      BY <2>1, <2>3, <2>6 DEF AuthTypeOK, Key
    <3>2. k \notin Differ(Read(dir[b]), copy[b])
      BY <2>4, <2>6, <3>1 DEF CopiesAgree
    <3>3. Read(dir[b])' = IF dir[b] = dir[c] THEN copy[c] ELSE Read(dir[b])
      BY <2>1, <2>2, <3>1 DEF Read, Exists
    <3>4. dir[b] = dir[c] => k \notin Differ(Read(dir[c]), copy[c])
      BY <2>4, <2>6, <3>1
    <3> QED BY <3>1, <3>2, <3>3, <3>4 DEF Differ
  <2>7. CopiesAgree'
    BY <2>3, <2>6 DEF CopiesAgree, Key
  <2> QED BY <2>5, <2>7
<1> QED BY <1>1, <1>2, <1>3, <1>4 DEF AuthStep

LEMMA Untouched == ASSUME AuthInv, UNCHANGED authVars PROVE AuthInv'
BY DEF authVars, AuthInv, AuthTypeOK, CopiesAgree, Key, Read, Exists

--------------------------------------------------------------------------------
(* The inductive invariant *)

\* Whatever runs, runs with a file that loaded.
RunsLoaded == Loaded(service) /\ Loaded(agent)

\* A start without a warning means one file for all, for as long as that lasts.
QuietMeansOne == quiet => service = disk /\ service # Down /\ agent \in {disk, Down}

\* A request on its way passed the service's own validation, and no answer outlives its
\* request or the service.
AcceptedIsValid ==
  /\ request # Nothing => /\ service # Down
                          /\ request.target \in TargetNames(service)
                          /\ TagOK(Target(service, request.target), request.tag)
  /\ answer # "none" => request # Nothing

IInv == TypeOK /\ AuthInv /\ RunsLoaded /\ QuietMeansOne /\ AcceptedIsValid /\ QuietStartIsHonoured

\* The file is edited, and processes start and stop.
LEMMA ProcessStep ==
  ASSUME IInv, Edit \/ StartService \/ StopService \/ StartAgent \/ StopAgent
  PROVE  IInv'
<1> USE EventAssumption
<1> USE DEF IInv, RunsLoaded, Loaded, QuietMeansOne, AcceptedIsValid, QuietStartIsHonoured, Refusal,
            LoadService, LoadAgent, Lost, Happens
<1>1. AuthInv'
  BY Untouched DEF Edit, StartService, StopService, StartAgent, StopAgent
<1>2. CASE Edit
  <2>1. /\ disk' \in Edits /\ events' \in 0 .. MaxEvents /\ quiet' = FALSE
        /\ UNCHANGED <<service, agent, request, answer>>
    BY <1>2 DEF TypeOK, Edit
  <2> QED BY <1>1, <2>1 DEF TypeOK, AuthInv
<1>3. CASE StartService
  BY <1>1, <1>3 DEF TypeOK, AuthInv, StartService
<1>4. CASE StopService
  BY <1>1, <1>4 DEF TypeOK, AuthInv, StopService, Answers
<1>5. CASE StartAgent
  BY <1>1, <1>5 DEF TypeOK, AuthInv, StartAgent
<1>6. CASE StopAgent
  BY <1>1, <1>6 DEF TypeOK, AuthInv, StopAgent, Answers
<1> QED BY <1>2, <1>3, <1>4, <1>5, <1>6

\* The two validations, one after the other.
LEMMA RequestStep == ASSUME IInv, Forward \/ Answer \/ Conclude PROVE IInv'
<1> USE DEF IInv, RunsLoaded, Loaded, QuietMeansOne, AcceptedIsValid, QuietStartIsHonoured, Refusal,
            Lost
<1>1. AuthInv'
  BY Untouched DEF Forward, Answer, Conclude
<1>2. CASE Forward
  <2>1. PICK a \in Asks : /\ a.target \in TargetNames(service)
                          /\ Accepted(Target(service, a.target), a)
                          /\ request' = [target |-> a.target,
                                         tag |-> Tag(Target(service, a.target), a)]
    BY <1>2 DEF Forward
  <2>2. service # Down /\ UNCHANGED <<disk, events, service, agent, quiet, answer>>
    BY <1>2 DEF Forward
  <2>3. TagOK(Target(service, a.target), Tag(Target(service, a.target), a))
    BY <2>1, ForwardedIsValid
  <2>4. a.target \in Names
    BY <2>1, <2>2 DEF LoadBasic, TargetsOK, TargetOK, TargetNames
  <2>5. /\ DOMAIN request' = {"target", "tag"}
        /\ request'.target = a.target /\ request'.tag = Tag(Target(service, a.target), a)
    BY <2>1
  <2>6. TypeOK'
    BY <1>1, <2>2, <2>4, <2>5 DEF TypeOK, AuthInv
  <2>7. AcceptedIsValid'
    BY <1>2, <2>1, <2>2, <2>3, <2>5 DEF Forward
  <2> QED BY <1>1, <2>2, <2>6, <2>7
<1>3. CASE Answer
  BY <1>1, <1>3, ValidationsAgree DEF TypeOK, AuthInv, Answer, Advice, Answers
<1>4. CASE Conclude
  BY <1>1, <1>4 DEF TypeOK, AuthInv, Conclude, Answers
<1> QED BY <1>2, <1>3, <1>4

\* `dup auth` touches nothing else.
LEMMA AuthStepKeeps == ASSUME IInv, NEW c \in Commands, Auth(c) PROVE IInv'
<1>1. UNCHANGED <<disk, service, agent, quiet, request, answer>> /\ events' \in 0 .. MaxEvents
  BY EventAssumption DEF Auth, procVars, Happens, IInv, TypeOK
<1>2. AuthInv'
  <2>1. CASE AuthStep(c)
    BY <2>1, StepKeeps DEF IInv
  <2>2. ASSUME LoadBasic(disk), NEW name \in TargetNames(disk),
               NEW asked \in {"add", "force", "remove"}, NEW inputs \in Lists,
               AuthStart(c, asked, StoreDir(disk, Target(disk, name)), inputs)
        PROVE  AuthInv'
    <3>1. PICK i \in DOMAIN disk.targets : Target(disk, name) = disk.targets[i]
      BY DEF TargetNames, Target
    <3>2. StoreDir(disk, Target(disk, name)) \in Dirs
      BY <2>2, <3>1, StoreAssumption DEF IInv, TypeOK
    <3> QED BY <2>2, <3>2, StartKeeps DEF IInv
  <2> QED BY <2>1, <2>2 DEF Auth
<1> QED BY <1>1, <1>2 DEF IInv, TypeOK, AuthInv, RunsLoaded, Loaded, QuietMeansOne,
                       AcceptedIsValid, QuietStartIsHonoured, Refusal

\* The invariant holds of every reachable state of the file, the processes and the commands.
THEOREM Invariance == Spec => []IInv
<1>1. Init => IInv
  <2> SUFFICES ASSUME Init PROVE IInv
    OBVIOUS
  <2>1. AuthTypeOK
    <3>1. store \in StoreType
      <4>1. ASSUME NEW K \in SUBSET Keys, K # {}, NEW f \in [K -> {Stored}]
            PROVE  f \in Files \ {Empty}
        <5>1. f \in [K -> Commands \union {Stored}] /\ DOMAIN f = K
          OBVIOUS
        <5> QED BY <4>1, <5>1, EmptyIsFile DEF Files
      <4>2. Before \subseteq Files \ {Empty}
        BY <4>1 DEF Before
      <4>3. store \in [Dirs -> Before \union {NoFile}]
        BY DEF Init, AuthInit
      <4> QED BY <4>2, <4>3 DEF StoreType
    <3> QED BY <3>1, EmptyIsFile DEF Init, AuthInit, AuthTypeOK
  <2>2. CopiesAgree
    <3>1. \A c \in Commands : pc[c] = "new"
      BY DEF Init, AuthInit
    <3> QED BY <3>1 DEF CopiesAgree
  <2>3. TypeOK
    <3>1. events \in 0 .. MaxEvents
      BY EventAssumption DEF Init
    <3>2. answer \in Answers
      BY DEF Init, Answers
    <3>3. quiet \in BOOLEAN
      BY DEF Init
    <3> QED BY <2>1, <3>1, <3>2, <3>3 DEF Init, TypeOK
  <2> QED BY <2>1, <2>2, <2>3
          DEF Init, IInv, AuthInv, RunsLoaded, Loaded, QuietMeansOne, AcceptedIsValid,
              QuietStartIsHonoured, Refusal
<1>2. IInv /\ [Next]_vars => IInv'
  <2>1. ASSUME IInv, UNCHANGED vars PROVE IInv'
    <3>1. AuthInv'
      BY <2>1, Untouched DEF IInv, vars
    <3> QED BY <2>1, <3>1
            DEF vars, procVars, IInv, TypeOK, AuthInv, RunsLoaded, Loaded, QuietMeansOne,
                AcceptedIsValid, QuietStartIsHonoured, Refusal
  <2> QED BY <2>1, ProcessStep, RequestStep, AuthStepKeeps DEF Next
<1> QED BY <1>1, <1>2, PTL DEF Spec

\* Files, requests, answers and credentials keep their types.
THEOREM TypeCorrect == Spec => []TypeOK
<1>1. IInv => TypeOK
  BY DEF IInv
<1> QED BY <1>1, Invariance, PTL

\* The agent honours what a service without a warning accepted (runServe's fingerprints,
\* and a validation on either side of the socket).
THEOREM QuietIsHonoured == Spec => []QuietStartIsHonoured
<1>1. IInv => QuietStartIsHonoured
  BY DEF IInv
<1> QED BY <1>1, Invariance, PTL

\* A command that writes changes the registry it is about, and loses at most what was
\* written since it read the file for it (authTarget, which reads again for every host).
THEOREM CredentialsAreKept == Spec => SavedIsKept
<1> DEFINE Kept == \A d \in Dirs : \A k \in DOMAIN Read(d) \intersect Differ(Read(d), Read(d)') :
                     \E c \in Commands : /\ pc[c] = "write" /\ dir[c] = d
                                        /\ (k = Key(c) \/ k \in since[c])
<1>1. ASSUME IInv, UNCHANGED store PROVE Kept
  BY <1>1 DEF Read, Exists, Differ
<1>2. ASSUME IInv, NEW c \in Commands, SaveHost(c) \/ RemoveHost(c) PROVE Kept
  <2> SUFFICES ASSUME NEW d \in Dirs, NEW k \in Differ(Read(d), Read(d)')
               PROVE  \E b \in Commands : /\ pc[b] = "write" /\ dir[b] = d
                                         /\ (k = Key(b) \/ k \in since[b])
    OBVIOUS
  <2>1. pc[c] = "write" /\ copy[c] \in Files /\ Put(c, copy[c])
    BY <1>2 DEF IInv, AuthInv, AuthTypeOK, SaveHost, RemoveHost
  <2>2. Read(d)' = IF d = dir[c] THEN copy[c] ELSE Read(d)
    BY <1>2, <2>1, Written DEF IInv, AuthInv
  <2>3. d = dir[c] /\ k \in Keys /\ k \in Differ(Read(dir[c]), copy[c])
    BY <2>2 DEF Differ
  <2>4. k \in since[c] \/ k = Key(c)
    BY <1>2, <2>1, <2>3 DEF IInv, AuthInv, CopiesAgree
  <2> QED BY <2>1, <2>3, <2>4
<1>3. IInv /\ [Next]_vars => [Kept]_authVars
  <2>1. ASSUME [Next]_vars
        PROVE  \/ UNCHANGED store
               \/ \E c \in Commands : SaveHost(c) \/ RemoveHost(c)
    BY <2>1 DEF Next, vars, authVars, procVars, Edit, StartService, StopService, StartAgent,
                StopAgent, Forward, Answer, Conclude, Auth, AuthStart, AuthStep, AuthDone, BadHost,
                ReadStore, LeftAlone, Verified, AuthFails
  <2> HIDE DEF Kept
  <2>2. ASSUME IInv, [Next]_vars PROVE Kept
    BY <1>1, <1>2, <2>1, <2>2
  <2> QED BY <2>2
<1> QED BY <1>3, Invariance, PTL DEF Spec, SavedIsKept
================================================================================
