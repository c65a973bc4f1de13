-------------------------------- MODULE Links --------------------------------
(***************************************************************************)
(* Linked lists: next gives for each node the one it is linked to, or        *)
(* something that is not a node.                                             *)
(***************************************************************************)

\* No link leads out of S.
Closed(Node, next, S) == \A n \in S : next[n] \in Node => next[n] \in S

\* What is reached from first: the least set with it that no link leads out of
From(Node, next, first) ==
  {n \in Node : \A S \in SUBSET Node :
                  (first \in Node => first \in S) /\ Closed(Node, next, S) => n \in S}

=============================================================================
