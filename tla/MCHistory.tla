------------------------------- MODULE MCHistory -------------------------------
(* Eight jobs over files of two records: the third rotation prunes. *)
EXTENDS History

MCQueries == {1 .. Records, {r \in 1 .. Records : r % 2 = 1}}
================================================================================
