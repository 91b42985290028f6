---------------------------- MODULE UpdateExclusion ----------------------------
(***************************************************************************)
(* What dup promises about concurrent updates, with every mechanism left   *)
(* out: a piece of work belongs to one target, is done at most once, and   *)
(* never overlaps another piece of work on the same target.                *)
(*                                                                         *)
(* Both processes make this promise on their own: the unprivileged service *)
(* through job.Store (module JobStore) and the root agent through its      *)
(* per-target lock (module Agentd).  Each is shown to implement Spec.      *)
(***************************************************************************)
CONSTANTS Targets,  \* configured stacks
          Works     \* pieces of work: a job of the service, a request to the agent

VARIABLES updating,  \* the pairs <<target, work>> in progress
          over       \* the works that have ended

vars == <<updating, over>>

Init == /\ updating = {}
        /\ over = {}

Begin(t, w) == /\ \A p \in updating : p[1] # t /\ p[2] # w
               /\ w \notin over
               /\ updating' = updating \union {<<t, w>>}
               /\ UNCHANGED over

End(t, w) == /\ <<t, w>> \in updating
             /\ updating' = updating \ {<<t, w>>}
             /\ over' = over \union {w}

\* A piece of work that is turned away never begins.
Refuse(w) == /\ \A p \in updating : p[2] # w
             /\ over' = over \union {w}
             /\ UNCHANGED updating

\* A crash of the process ends everything in progress, and whatever waited to begin.
Crash == /\ updating' = {}
         /\ \E lost \in SUBSET Works : over' = over \union lost \union {p[2] : p \in updating}

Next == \/ \E t \in Targets, w \in Works : Begin(t, w) \/ End(t, w)
        \/ \E w \in Works : Refuse(w)
        \/ Crash

Spec == Init /\ [][Next]_vars
================================================================================
