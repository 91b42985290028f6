--------------------------------- MODULE MCApi ---------------------------------
(* Two requests at a time from three sources, one of them behind a trusted proxy. *)
EXTENDS Api, TLC

CONSTANTS proxy, a, b, stranger, bad

Plain == [peer |-> a, chain |-> << >>, origin |-> "none", preflight |-> FALSE,
          route |-> "protected", large |-> FALSE, signature |-> "none", token |-> "good"]
MCRequests == {
  [Plain EXCEPT !.signature = "bad"],
  Plain,
  [Plain EXCEPT !.peer = b, !.token = "bad"],
  [Plain EXCEPT !.peer = proxy, !.chain = <<stranger, bad, b, proxy, bad>>, !.signature = "good"],
  [Plain EXCEPT !.peer = proxy, !.chain = <<bad>>, !.token = "none"],
  [Plain EXCEPT !.peer = stranger],
  [Plain EXCEPT !.peer = bad],
  [Plain EXCEPT !.large = TRUE],
  [Plain EXCEPT !.origin = "listed", !.preflight = TRUE],
  [Plain EXCEPT !.peer = b, !.route = "health"]}

SameHandlers == Permutations(Handlers)
================================================================================
