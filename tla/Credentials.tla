------------------------------ MODULE Credentials ------------------------------
(***************************************************************************)
(* Registry credentials: the `dup auth` commands (internal/cli/auth.go)    *)
(* over one docker config.json per stack (internal/dockercfg), which the   *)
(* agent hands to docker (Target.HasDockerConfig).                         *)
(*                                                                         *)
(* Nothing locks the file.  A command reads it, prompts and asks the       *)
(* registry for as long as that takes, and writes what it read with one    *)
(* entry changed; other commands run in between.  A file is the function   *)
(* from its hosts to their credentials.  Module Settings composes this     *)
(* with the configuration that says where the files are.                   *)
(***************************************************************************)
EXTENDS Naturals, Sequences

CONSTANTS Commands,     \* runs of `dup auth`
          Dirs,         \* credential directories: <<docker_config_dir, stack>>
          Inputs,       \* what the agent names, or a person types, as a registry
          Lists,        \* the lists of them a command may go through
          Keys,         \* the keys docker looks registries up by
          KeyOf,        \* NormaliseHost, which refuses some inputs
          Refused,
          Stored,       \* whose credentials were on file before: not a command
          NoFile

ASSUME KeyAssumption == KeyOf \in [Inputs -> Keys \union {Refused}] /\ Refused \notin Keys
ASSUME ListAssumption == Lists \subseteq Seq(Inputs)
ASSUME StoredAssumption == Stored \notin Commands
ASSUME FileAssumption == \A K \in SUBSET Keys : NoFile \notin [K -> Commands \union {Stored}]

VARIABLES
  store,   \* the file of each directory
  pc,      \* where each command is
  op,      \* what it was asked to do
  dir,     \* where
  todo,    \* the registries still to go through
  copy,    \* what it read, then with its change
  since    \* keys other commands wrote in its directory since it read

authVars == <<store, pc, op, dir, todo, copy, since>>

Files == UNION {[K -> Commands \union {Stored}] : K \in SUBSET Keys}
Empty == << >>
Exists(d) == store[d] # NoFile

\* A file written by dup has an entry: a stack whose last registry is removed has no file,
\* and docker falls back to root's own credentials.
StoreType == [Dirs -> (Files \ {Empty}) \union {NoFile}]

AuthTypeOK == /\ store \in StoreType
              /\ pc \in [Commands -> {"new", "next", "prompt", "write", "over"}]
              /\ op \in [Commands -> {"add", "force", "remove"}]
              /\ dir \in [Commands -> Dirs]
              /\ todo \in [Commands -> Seq(Inputs)]
              /\ copy \in [Commands -> Files]
              /\ since \in [Commands -> SUBSET Keys]

Before == UNION {[K -> {Stored}] : K \in (SUBSET Keys) \ {{}}}
AuthInit == /\ store \in [Dirs -> Before \union {NoFile}]
            /\ pc = [c \in Commands |-> "new"]
            /\ op = [c \in Commands |-> "add"]
            /\ dir \in {[c \in Commands |-> d] : d \in Dirs}
            /\ todo = [c \in Commands |-> << >>]
            /\ copy = [c \in Commands |-> Empty]
            /\ since = [c \in Commands |-> {}]

--------------------------------------------------------------------------------
(* dockercfg *)

\* Read: an absent file is an empty store.
Read(d) == IF Exists(d) THEN store[d] ELSE Empty
Has(f, key) == key \in DOMAIN f
Set(f, key, value) == [k \in DOMAIN f \union {key} |-> IF k = key THEN value ELSE f[k]]
Remove(f, key) == [k \in DOMAIN f \ {key} |-> f[k]]

Differ(f, g) == {k \in Keys : Has(f, k) # Has(g, k) \/ (Has(f, k) /\ f[k] # g[k])}

\* Write replaces the file in one rename; Delete removes it.  The others' ghosts note what
\* has changed behind their backs.
Noticed(c, f) == [b \in Commands |-> IF b # c /\ dir[b] = dir[c] /\ pc[b] \in {"prompt", "write"}
                                    THEN since[b] \union Differ(Read(dir[c]), f)
                                    ELSE since[b]]
PutKept(c, f) == /\ store' = [store EXCEPT ![dir[c]] = f]
                 /\ since' = Noticed(c, f)
Put(c, f) == /\ store' = [store EXCEPT ![dir[c]] = IF f = Empty THEN NoFile ELSE f]
             /\ since' = Noticed(c, f)

--------------------------------------------------------------------------------
(* dup auth *)

Key(c) == KeyOf[Head(todo[c])]
Goto(c, to) == pc' = [pc EXCEPT ![c] = to]

\* The arguments are understood and the configuration is loaded.  --remove takes one host,
\* and is over when the stack has no credentials.
AuthStart(c, asked, d, inputs) ==
  /\ pc[c] = "new"
  /\ asked = "remove" => Len(inputs) = 1
  /\ op' = [op EXCEPT ![c] = asked]
  /\ dir' = [dir EXCEPT ![c] = d]
  /\ todo' = [todo EXCEPT ![c] = inputs]
  /\ Goto(c, IF asked = "remove" /\ (KeyOf[inputs[1]] = Refused \/ ~Exists(d))
             THEN "over" ELSE "next")
  /\ UNCHANGED <<store, copy, since>>

NextHost(c) == todo' = [todo EXCEPT ![c] = Tail(@)] /\ UNCHANGED <<copy, since>>

\* The process is gone, and with it what it remembered.
Over(c) == /\ Goto(c, "over")
           /\ todo' = [todo EXCEPT ![c] = << >>]
           /\ copy' = [copy EXCEPT ![c] = Empty]

AuthDone(c) == /\ pc[c] = "next" /\ todo[c] = << >>
               /\ Over(c)
               /\ UNCHANGED <<store, op, dir, since>>

\* Not a registry host: counted as failed, and on to the next.
BadHost(c) == /\ pc[c] = "next" /\ todo[c] # << >>
              /\ Key(c) = Refused
              /\ NextHost(c)
              /\ UNCHANGED <<store, pc, op, dir>>

\* authTarget's and runAuthRemove's Read.  What is stored already is left alone without
\* --force; what is not stored cannot be removed.
SeenOnce(c) == IF copy[c] = Empty THEN Read(dir[c]) ELSE copy[c]
Seen(c) == Read(dir[c])
ReadStore(c) ==
  /\ pc[c] = "next" /\ todo[c] # << >>
  /\ Key(c) # Refused
  /\ LET f == Seen(c)
     IN \/ /\ op[c] = "add" /\ Has(f, Key(c))
           /\ NextHost(c)
           /\ UNCHANGED pc
        \/ /\ op[c] = "force" \/ (op[c] = "add" /\ ~Has(f, Key(c)))
           /\ copy' = [copy EXCEPT ![c] = f]
           /\ since' = [since EXCEPT ![c] = {}]
           /\ Goto(c, "prompt")
           /\ UNCHANGED todo
        \/ /\ op[c] = "remove" /\ ~Has(f, Key(c))
           /\ Over(c)
           /\ UNCHANGED since
        \/ /\ op[c] = "remove" /\ Has(f, Key(c))
           /\ copy' = [copy EXCEPT ![c] = Remove(f, Key(c))]
           /\ since' = [since EXCEPT ![c] = {}]
           /\ Goto(c, "write")
           /\ UNCHANGED todo
  /\ UNCHANGED <<store, op, dir>>

\* promptAndVerify: no name or password given, rejected, unreachable, or unusable.
LeftAlone(c) == /\ pc[c] = "prompt"
                /\ NextHost(c)
                /\ Goto(c, "next")
                /\ UNCHANGED <<store, op, dir>>

\* The registry accepts them.
Verified(c) == /\ pc[c] = "prompt"
               /\ copy' = [copy EXCEPT ![c] = Set(@, Key(c), c)]
               /\ Goto(c, "write")
               /\ UNCHANGED <<store, op, dir, todo, since>>

\* "saved".
SaveHost(c) == /\ pc[c] = "write" /\ op[c] # "remove"
               /\ Put(c, copy[c])
               /\ todo' = [todo EXCEPT ![c] = Tail(@)]
               /\ Goto(c, "next")
               /\ UNCHANGED <<op, dir, copy>>

\* Without an entry left the file goes too.
RemoveHost(c) == /\ pc[c] = "write" /\ op[c] = "remove"
                 /\ Put(c, copy[c])
                 /\ Over(c)
                 /\ UNCHANGED <<op, dir>>

\* A read, a write or a prompt that fails, an interrupt, a kill: the command ends, and what
\* it had saved before stays.
AuthFails(c) == /\ pc[c] \in {"next", "prompt", "write"}
                /\ Over(c)
                /\ UNCHANGED <<store, op, dir, since>>

AuthStep(c) == \/ AuthDone(c) \/ BadHost(c) \/ ReadStore(c) \/ LeftAlone(c) \/ Verified(c)
               \/ SaveHost(c) \/ RemoveHost(c) \/ AuthFails(c)

--------------------------------------------------------------------------------
(* Properties *)

\* A credential on file is replaced or removed only by a command that was asked to, or by
\* one that had read the file for its current host before that credential was written: a
\* command that goes through many registries never brings back what it read at the start
\* (authTarget re-reads for every host).
SavedIsKept ==
  [][\A d \in Dirs : \A k \in DOMAIN Read(d) \intersect Differ(Read(d), Read(d)') :
       \E c \in Commands : /\ pc[c] = "write" /\ dir[c] = d
                          /\ (k = Key(c) \/ k \in since[c])]_authVars
================================================================================
