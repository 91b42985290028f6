------------------------------ MODULE MCSelfUpdate ------------------------------
(* The service, a command and an ordinary user's command around two releases; a *)
(* build of each kind, one of them past the tag it names.  The identifiers are  *)
(* "-", "01", "10" (beyond MaxInt), "2", "3-gabc1234" and "a", in byte order.   *)
EXTENDS SelfUpdate

Num(n, r) == [digits |-> TRUE, zero |-> FALSE, value |-> n, rank |-> r]
Text(r) == [digits |-> FALSE, zero |-> FALSE, value |-> 0, rank |-> r]
Zero1 == [digits |-> TRUE, zero |-> TRUE, value |-> 1, rank |-> 1]

One == [core |-> <<Num(1, 0), Num(0, 0), Num(0, 0)>>, pre |-> << >>, describe |-> FALSE]
MCBuilds ==
  {[One EXCEPT !.pre = <<Text(4)>>, !.describe = TRUE]} \union
  {[One EXCEPT !.pre = p] :
     p \in {<< >>, <<Text(0)>>, <<Num(10, 2)>>, <<Num(2, 3)>>, <<Text(5), Zero1>>}}
MCReleases == <<[One EXCEPT !.pre = <<Zero1>>], One>>
================================================================================
