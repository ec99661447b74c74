----------------------------- MODULE Promotion ------------------------------
(***************************************************************************)
(* What the gate of EvalGate promises an Agent's owner, without the passes *)
(* of the two controllers, their processes, snapshots and crashes: which   *)
(* revision serves, on what verdict, and what the owner is told of it.     *)
(***************************************************************************)
CONSTANTS
  Digest,   \* the revisions
  Suite,    \* the suites
  None      \* the absent value

VARIABLES
  serving,  \* the revision that serves
  by,       \* what made it serve: "gate", "pin", "ungated"
  pair,     \* the revision and the suite last put to the test
  verdict,  \* of that test: "", Running, Passed, Failed
  enough,   \* its answers so far meet the suite's threshold
  earned,   \* the pairs whose answers once did, in a single test
  report    \* the revision the owner is told has passed; None, "False"

vars == <<serving, by, pair, verdict, enough, earned, report>>
test == <<pair, verdict, enough, earned>>

Init ==
  /\ serving = None /\ by = None
  /\ pair = <<None, None>> /\ verdict = "" /\ enough = FALSE /\ earned = {}
  /\ report = None

(* A test of a pair that has no verdict starts with no answer. *)
Start ==
  /\ pair' \in Digest \X Suite
  /\ pair' = pair => verdict = ""
  /\ verdict' = "Running" /\ enough' = FALSE
  /\ UNCHANGED <<serving, by, earned, report>>

(* Answers of the pair under test meet the threshold. *)
Answer ==
  /\ pair \in Digest \X Suite
  /\ enough' = TRUE /\ earned' = earned \cup {pair}
  /\ UNCHANGED <<serving, by, pair, verdict, report>>

(* A test is judged once, and passes only by its own answers. *)
Judge ==
  /\ verdict = "Running"
  /\ verdict' = "Failed" \/ (verdict' = "Passed" /\ enough)
  /\ UNCHANGED <<serving, by, pair, enough, earned, report>>

Forget ==
  /\ verdict = "Failed" /\ verdict' = ""
  /\ UNCHANGED <<serving, by, pair, enough, earned, report>>

(* The owner is told of a pass of the revision that serves, or of none. *)
Truthful ==
  \/ report' \in {report, "False"}
  \/ report' = serving' /\ \E s \in Suite : <<report', s>> \in earned

(* The gate lets through the revision whose verdict stands, and says so. *)
Promote ==
  /\ serving' \in Digest \ {serving}
  /\ \/ by' = "gate" /\ verdict = "Passed" /\ pair[1] = serving' /\ report' = serving'
     \/ by' \in {"pin", "ungated"}
  /\ Truthful /\ UNCHANGED test

Report == Truthful /\ UNCHANGED <<serving, by, test>>

Next == Start \/ Answer \/ Judge \/ Forget \/ Promote \/ Report
Spec == Init /\ [][Next]_vars
=============================================================================
