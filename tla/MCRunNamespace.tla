--------------------------- MODULE MCRunNamespace ---------------------------
(***************************************************************************)
(* Instances of RunNamespace for TLC.                                      *)
(***************************************************************************)
EXTENDS RunNamespace, TLC

CONSTANTS s1, a1, a2, w1, w2, p1, p2

OneHome == [a \in Agent |-> s1]

(* Two workers that take any key, in one process or in two. *)
OneProcess == [w \in Worker |-> p1]
TwoProcesses == (w1 :> p1) @@ (w2 :> p2)
AnyKey == [w \in Worker |-> Agent \cup {None}]

(* What SetupWithManager registers: a worker for Agents, one for namespaces. *)
AsDeployed == (w1 :> Agent) @@ (w2 :> {None})
=============================================================================
