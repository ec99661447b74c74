----------------------------- MODULE MCEvalGate -----------------------------
(***************************************************************************)
(* Instances of EvalGate for TLC.                                          *)
(***************************************************************************)
EXTENDS EvalGate

CONSTANTS i1, i2, c1, c2, d1, d2, d3, s1, s2, p1, p2

(* The spec of i1 names no env source; that of i2 does. *)
MCMint == [x \in {i1, i2} \X {c1, c2} |->
             IF x[1] = i1 THEN d1 ELSE IF x[2] = c1 THEN d2 ELSE d3]

(* One of the two cases of s1 is enough; s2 has the second case alone. *)
MCSuiteCases == (s1 :> {1, 2}) @@ (s2 :> {2})
MCThreshold == (s1 :> 500) @@ (s2 :> 1000)

(* Every step of a pass may fail.  A lock beside a recorded card waits too. *)
RolloutReads ==
  [ready |-> BOOLEAN, hold |-> BOOLEAN, installed |-> BOOLEAN,
   card |-> {"valid", "failed"}, tx |-> {"none", "lock"}, answer |-> BOOLEAN, fault |-> TRUE]

Gated(i) == [image |-> i, gated |-> TRUE, pin |-> None]

(* The suite and the env source change under a gated Agent. *)
RecordUsers ==
  [spec |-> {Gated(i2)}, suite |-> {s1, s2}, content |-> {c1, c2},
   start |-> {<<Gated(i2), s1, c1>>}]

(* The suite changes under it, and the revision it held is pinned. *)
ClaimsUsers ==
  [RecordUsers EXCEPT !.spec = @ \cup {[Gated(i1) EXCEPT !.pin = d2]}, !.content = {c1}]

(* Gates are declared and removed, revisions are pinned, objects come and go. *)
RolloutUsers ==
  [spec |-> {Gated(i1), Gated(i2), [Gated(i1) EXCEPT !.gated = FALSE],
             [Gated(i2) EXCEPT !.pin = d1], [Gated(i1) EXCEPT !.pin = d1]},
   suite |-> {s2}, content |-> {c1, None}, start |-> {<<Gated(i1), s2, c1>>}]

SteadyReads ==
  [ready |-> {TRUE}, hold |-> {FALSE}, installed |-> {TRUE}, card |-> {"notDue", "valid"}, tx |-> {"none"},
   answer |-> BOOLEAN, fault |-> FALSE]

(* Card fetches come due. *)
SettleReads == [SteadyReads EXCEPT !.card = {"valid"}]

ProcessSymmetry == Permutations(Process)
=============================================================================
