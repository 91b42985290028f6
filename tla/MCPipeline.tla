------------------------------ MODULE MCPipeline ------------------------------
(***************************************************************************)
(* A stack of two services with a reference each.  The runs start from a   *)
(* new image in the registry, the same with the image already pulled by a  *)
(* check, a stack that is current but unwell, one that a missing container *)
(* leaves incomplete, and one whose compose file was edited while a newer  *)
(* image of the other service waited.                                      *)
(***************************************************************************)
EXTENDS Pipeline

CONSTANTS web, db, a0, a1, d0, d1, webRef, webRef2, dbRef, v2

C(r, i, c) == [ref |-> r, id |-> i, cond |-> c]
Conts(w, d) == [s \in {web, db} |-> IF s = web THEN w ELSE d]
NamesOf(w, w2, d) == [r \in {webRef, webRef2, dbRef} |->
                        IF r = webRef THEN w ELSE IF r = webRef2 THEN w2 ELSE d]

\* The tag v2 is another tag of web's repository and does not concern db.
MCRefOf == [s \in {web, db} |-> [g \in {v2, None} |->
              IF s = db THEN dbRef ELSE IF g = v2 THEN webRef2 ELSE webRef]]
MCNeeds == [s \in {web, db} |-> IF s = web THEN {db} ELSE {}]   \* web depends on db
MCRepoOf == [r \in {webRef, webRef2, dbRef} |-> IF r = dbRef THEN "db" ELSE "web"]
MCTagOf == [r \in {webRef, webRef2, dbRef} |-> IF r = webRef2 THEN v2 ELSE None]

Newer == NamesOf(a1, a1, d0)
MCWorlds ==
  { \* a new image for web, not yet pulled
    [cont |-> Conts(C(webRef, a0, "healthy"), C(dbRef, d0, "healthy")),
     names |-> NamesOf(a0, None, d0), local |-> {a0, d0}, registry |-> Newer],
    \* the same, already pulled by a check, with web unwell
    [cont |-> Conts(C(webRef, a0, "starting"), C(dbRef, d0, "healthy")),
     names |-> NamesOf(a1, None, d0), local |-> {a0, a1, d0}, registry |-> Newer],
    \* current, with db stopped
    [cont |-> Conts(C(webRef, a1, "healthy"), C(dbRef, d0, "exited")),
     names |-> NamesOf(a1, None, d0), local |-> {a1, d0}, registry |-> Newer],
    \* never started
    [cont |-> Conts(C(None, None, "absent"), C(dbRef, d0, "healthy")),
     names |-> NamesOf(None, None, d0), local |-> {d0}, registry |-> Newer],
    \* web on another reference than the compose file names now, db behind a pulled image
    [cont |-> Conts(C(webRef2, a0, "healthy"), C(dbRef, d0, "healthy")),
     names |-> NamesOf(None, a0, d1), local |-> {a0, d0, d1},
     registry |-> NamesOf(a1, a1, d1)] }

MCConfs == [services : {{}}, rollback : BOOLEAN, tagEnv : {FALSE}, hook : {"none"}]
           \union [services : {{web}}, rollback : {TRUE}, tagEnv : {TRUE},
                   hook : {"optional", "required"}]
MCOrders == [op : {"update"}, tag : {None}, dryRun : {FALSE}, force : BOOLEAN]
            \union [op : {"update"}, tag : {None}, dryRun : {TRUE}, force : {FALSE}]
            \union [op : {"update"}, tag : {v2}, dryRun : {FALSE}, force : {FALSE}]
            \union [op : {"check"}, tag : {None}, dryRun : {FALSE}, force : {FALSE}]

(* Two services of one image, of which the target updates web alone: an    *)
(* earlier update moved web to a1, worker still runs a0, a2 is new.        *)
CONSTANTS worker, a2
SharedRefOf == [s \in {web, worker} |-> [g \in {None} |-> webRef]]
SharedNeeds == [s \in {web, worker} |-> {}]
SharedRepoOf == [r \in {webRef} |-> "web"]
SharedTagOf == [r \in {webRef} |-> None]
SharedWorlds == {[cont |-> [s \in {web, worker} |->
                              C(webRef, IF s = web THEN a1 ELSE a0, "healthy")],
                  names |-> [r \in {webRef} |-> a1], local |-> {a0, a1},
                  registry |-> [r \in {webRef} |-> a2]]}
SharedConfs == [services : {{web}}, rollback : {TRUE}, tagEnv : {FALSE}, hook : {"none"}]
SharedOrders == [op : {"update"}, tag : {None}, dryRun : {FALSE}, force : {FALSE}]
================================================================================
