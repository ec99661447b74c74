---------------------------- MODULE MCRevisions -----------------------------
(***************************************************************************)
(* Instances of Revisions for TLC.                                         *)
(***************************************************************************)
EXTENDS Revisions, TLC

CONSTANTS d1, d2, d3, n1, n2

Two == (d1 :> n1) @@ (d2 :> n2)

(* Two digests share their first 40 bits. *)
Shared == Two @@ (d3 :> n1)

(* Every digest is of other bytes. *)
Bytes == [d \in Digest |-> d]

(* The two digests of one name are interchangeable. *)
Peers == Permutations({d1, d3})
=============================================================================
