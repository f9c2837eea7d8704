---------------------------- MODULE MCHttpFront ----------------------------
(* An instance of HttpFront for TLC: sizes in the ratio of the code's, except *)
(* that the limit is 3 reads and not 16.                                      *)
EXTENDS HttpFront

\* Request lines, upgrade headers and heads within and beyond the peek buffer;
\* bodies shorter, as long and longer than declared, on both sides of the limit.
MCRequests ==
  {r \in [target: Targets, line: {1, 5}, upgrade: {0, 3, 6}, head: {3, 6},
          declared: {0, 1, 4}, body: {0, 1, 3, 4}] :
     /\ r.line <= r.head /\ r.upgrade <= r.head
     /\ r.upgrade # 0 => r.upgrade > r.line
     /\ r.target = "garbled" => r.declared = 0}
=============================================================================
