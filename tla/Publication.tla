---------------------------- MODULE Publication -----------------------------
(***************************************************************************)
(* What the -auth transactions of AuthTransaction promise an Agent's owner,*)
(* without their stages, passes, caches and crashes: how the door to the   *)
(* Agent, the guard on it and what the owner is told may change.           *)
(***************************************************************************)
VARIABLES
  door,     \* shut: no backend; open: marked as open; keyed: backends, no marker
  guard,    \* the policy: none, own as rendered, or lost to somebody else
  proof,    \* a 401 was credited since the policy was last written
  record,   \* the mode the owner is told: "", none, apikey
  found     \* the door was keyed before anything was recorded

vars == <<door, guard, proof, record, found>>

Init ==
  /\ found \in BOOLEAN /\ door = IF found THEN "keyed" ELSE "shut"
  /\ guard = "none" /\ proof = FALSE /\ record = ""

(* A door that was found, and of which nothing is recorded. *)
Unrecorded == found /\ record = ""

Shut == door' = "shut" /\ UNCHANGED <<guard, proof, record, found>>

(* A door is opened only where the owner is not told that it is keyed. *)
Open == record # "apikey" /\ door' = "open" /\ UNCHANGED <<guard, proof, record, found>>

(* A door is keyed under a guard: the first time under one that was proved, *)
(* afterwards because the owner was told so.                                *)
Key ==
  /\ \/ Unrecorded
     \/ guard # "none" /\ (proof \/ record = "apikey")
  /\ door' = "keyed" /\ UNCHANGED <<guard, proof, record, found>>

(* The guard is written, and has to be proved again. *)
Post == guard' = "own" /\ proof' = FALSE /\ UNCHANGED <<door, record, found>>

(* The guard is taken off a door that is not keyed. *)
Withdraw ==
  /\ door # "keyed" \/ Unrecorded
  /\ guard' = "none" /\ UNCHANGED <<door, proof, record, found>>

(* Somebody else takes or changes the guard. *)
Lose == guard' = "lost" /\ UNCHANGED <<door, proof, record, found>>

Prove == guard # "none" /\ proof' = TRUE /\ UNCHANGED <<door, guard, record, found>>

(* The owner is told; a keyed door only with its proof, and never again     *)
(* otherwise.                                                               *)
Tell ==
  /\ record # "apikey" /\ record' \in {"none", "apikey"}
  /\ record' = "apikey" => guard # "none" /\ proof'
  /\ proof' \in {proof, TRUE} /\ UNCHANGED <<door, guard, found>>

Next == Shut \/ Open \/ Key \/ Post \/ Withdraw \/ Lose \/ Prove \/ Tell
Spec == Init /\ [][Next]_vars
=============================================================================
