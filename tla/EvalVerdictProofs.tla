------------------------- MODULE EvalVerdictProofs --------------------------
(***************************************************************************)
(* What EvalGate's verdicts are worth: no case is sent twice in a run, a   *)
(* Passed verdict rests on the answers of its own run, and a revision the  *)
(* gate promotes has earned such a verdict.                                *)
(***************************************************************************)
EXTENDS EvalGateProofs

(***************************************************************************)
(* The inductive invariant behind NoCaseSentTwice.  A pass that has not    *)
(* been overtaken knows the recorded cases; a case that was sent, or that  *)
(* a pass is about to send, has a record in the run; and two passes never  *)
(* hold the same case.                                                     *)
(***************************************************************************)
Holds(p) == ev[p].pc = "claimed" /\ ev[p].current
Running == eval.verdict = "Running"

SeenCurrent ==
  \A p \in Process :
    ev[p].pc \in {"began", "checked"} /\ p \notin stale => ev[p].seen = eval.cases
SentRecorded == Running => \A c \in sent : eval.cases[c] # "none"
HeldRecorded ==
  \A p \in Process :
    Holds(p) => /\ ev[p].case \notin sent
                /\ Running => eval.cases[ev[p].case] # "none"
HeldOnce ==
  \A p, q \in Process : Holds(p) /\ Holds(q) /\ p # q => ev[p].case # ev[q].case

ClaimInv == TypeOK /\ SeenCurrent /\ SentRecorded /\ HeldRecorded /\ HeldOnce /\ NoCaseSentTwice

(***************************************************************************)
(* The inductive invariant behind VerdictSound and the promotions: only a  *)
(* claim of the run recorded now still stands, a case recorded Passed was  *)
(* answered as it should in this run, and a run whose answers met the      *)
(* threshold has earned its pair.                                          *)
(***************************************************************************)
CurrentRecorded == \A p \in Process : ev[p].current => Recorded(p)
StandingCurrent ==
  \A p \in Process :
    ev[p].pc \in {"claimed", "answered"} /\ eval.cases[ev[p].case] = p => ev[p].current
AnswerGood ==
  \A p \in Process : ev[p].pc = "answered" /\ ev[p].current /\ ev[p].ok => ev[p].case \in good
PassedGood == \A c \in Case : eval.cases[c] = "Passed" => c \in good
NoVerdictNoCases == eval.verdict = "" => eval.cases = NoCases
MetEarned ==
  eval.verdict # "" /\ Meets(good, eval.suite) => <<eval.rev, eval.suite>> \in earned
PassedEarned == \A i \in 1..Len(eval.passed) : eval.passed[i] \in earned

VerdictInv ==
  /\ CurrentRecorded /\ StandingCurrent /\ AnswerGood /\ PassedGood /\ NoVerdictNoCases
  /\ VerdictSound /\ MetEarned /\ PassedEarned

(***************************************************************************)
(* The users and AgentReconciler leave the eval record and its passes      *)
(* alone, and overtake passes without ever refreshing one.                 *)
(***************************************************************************)
RecStep ==
  \/ EditSpec \/ EditSuite \/ EditSource
  \/ RecBegin \/ RecRead \/ RecReport \/ RecHold \/ RecPass \/ RecPersist \/ RecStop

Quiet ==
  /\ UNCHANGED <<eval, ev, history>>
  /\ \A p \in Process : p \in stale => p \in stale'

LEMMA RecQuiet == ASSUME RecStep PROVE Quiet
<1>1. UNCHANGED <<eval, ev, history>>
  BY DEF RecStep, EditSpec, EditSuite, EditSource, RecBegin, RecRead, RecReport, RecHold, RecPass,
         RecPersist, RecStop
<1>2. stale \ {"reconciler"} \subseteq stale'
  BY DEF RecStep, EditSpec, EditSuite, EditSource, RecBegin, RecRead, RecReport, RecHold, RecPass,
         RecPersist, RecStop, Overtake
<1> QED BY <1>1, <1>2, ConstantsAssumption DEF Quiet

(* A write by p overtakes every other pass that has not claimed its case. *)
LEMMA OvertakeBusy ==
  ASSUME NEW p, Overtake(p), NEW q \in Process, q # p
  PROVE  /\ ev[q].pc \in {"began", "checked"} => q \in stale'
         /\ q \in stale => q \in stale'
BY DEF Overtake, Busy

(* The claim invariant holds of a step that leaves eval and its passes alone. *)
LEMMA ClaimQuiet ==
  ASSUME SeenCurrent, SentRecorded, HeldRecorded, HeldOnce, NoCaseSentTwice, Quiet
  PROVE  SeenCurrent' /\ SentRecorded' /\ HeldRecorded' /\ HeldOnce' /\ NoCaseSentTwice'
<1>1. SeenCurrent'
  BY DEF SeenCurrent, Quiet
<1>2. SentRecorded' /\ HeldRecorded' /\ HeldOnce' /\ NoCaseSentTwice'
  BY DEF SentRecorded, HeldRecorded, HeldOnce, NoCaseSentTwice, Holds, Running, Quiet, history
<1> QED BY <1>1, <1>2

(* A step of a pass of EvalReconciler. *)
EvalStep(p) ==
  \/ EvalBegin(p) \/ EvalCheck(p) \/ StartRun(p) \/ Interrupt(p) \/ Claim(p)
  \/ Send(p) \/ RecordOutcome(p) \/ DropOutcome(p) \/ EvalStop(p)

(* A pass that ends, its write, if any, a case's outcome. *)
LEMMA ClaimEnds ==
  ASSUME ClaimInv, NEW p \in Process, EvalEnds(p), UNCHANGED history,
         eval'.verdict = "Running" => Running,
         \A c \in Case : eval.cases[c] # "none" => eval'.cases[c] # "none",
         \A q \in Process \ {p} :
           /\ q \in stale => q \in stale'
           /\ eval' = eval \/ (ev[q].pc \in {"began", "checked"} => q \in stale')
  PROVE  SeenCurrent' /\ SentRecorded' /\ HeldRecorded' /\ HeldOnce' /\ NoCaseSentTwice'
<1>1. /\ \A q \in Process \ {p} : ev'[q] = ev[q]
      /\ ev'[p] = IdleEval
  BY DEF EvalEnds, ClaimInv, TypeOK, PassType
<1>2. IdleEval.pc = "idle"
  BY DEF IdleEval
<1>3. SeenCurrent'
  BY <1>1, <1>2 DEF SeenCurrent, ClaimInv
<1>4. SentRecorded'
  BY DEF SentRecorded, ClaimInv, Running, history, TypeOK, HistoryType
<1>5. \A q \in Process : Holds(q)' => Holds(q) /\ q # p /\ ev'[q] = ev[q]
  BY <1>1, <1>2 DEF Holds
<1>6. \A q \in Process : Holds(q) => ev[q].case \in Case
  BY DEF Holds, ClaimInv, TypeOK, PassType
<1>7. HeldRecorded'
  BY <1>5, <1>6 DEF HeldRecorded, ClaimInv, Running, history
<1>8. HeldOnce'
  BY <1>5 DEF HeldOnce, ClaimInv
<1> QED BY <1>3, <1>4, <1>7, <1>8 DEF ClaimInv, NoCaseSentTwice, history

(* Every step of an eval pass keeps the claim invariant. *)
LEMMA ClaimEvalStep ==
  ASSUME ClaimInv, NEW p \in Process, EvalStep(p)
  PROVE  SeenCurrent' /\ SentRecorded' /\ HeldRecorded' /\ HeldOnce' /\ NoCaseSentTwice'
<1>0. /\ ev \in [Process -> EvalPass] /\ ev[p] \in EvalPass
      /\ eval \in EvalStatus
      /\ \A q \in Process : Holds(q) => ev[q].case \in Case
  BY DEF ClaimInv, TypeOK, PassType, EvalType, Holds
<1>1. CASE EvalBegin(p)
  <2>1. /\ \A q \in Process \ {p} : ev'[q] = ev[q] /\ (q \in stale <=> q \in stale')
        /\ ev'[p].seen = eval.cases /\ ev'[p].pc = "began"
        /\ UNCHANGED <<eval, history>>
    BY <1>0, <1>1 DEF EvalBegin, IdleEval
  <2>2. \A q \in Process : Holds(q)' => Holds(q) /\ ev'[q] = ev[q]
    BY <2>1 DEF Holds
  <2>3. SeenCurrent'
    BY <2>1 DEF SeenCurrent, ClaimInv
  <2>4. SentRecorded' /\ HeldRecorded' /\ NoCaseSentTwice'
    BY <2>1, <2>2 DEF SentRecorded, HeldRecorded, NoCaseSentTwice, ClaimInv, Running, history
  <2>5. HeldOnce'
    BY <2>2 DEF HeldOnce, ClaimInv
  <2> QED BY <2>3, <2>4, <2>5
<1>2. CASE EvalCheck(p)
  <2>1. /\ \A q \in Process \ {p} : ev'[q] = ev[q]
        /\ ev[p].pc = "began" /\ ev'[p].pc = "checked" /\ ev'[p].seen = ev[p].seen
        /\ UNCHANGED <<eval, history, stale>>
    BY <1>0, <1>2 DEF EvalCheck, EvalPass
  <2>2. \A q \in Process : Holds(q)' => Holds(q) /\ ev'[q] = ev[q]
    BY <2>1 DEF Holds
  <2>3. SeenCurrent'
    BY <2>1 DEF SeenCurrent, ClaimInv
  <2>4. SentRecorded' /\ HeldRecorded' /\ NoCaseSentTwice'
    BY <2>1, <2>2 DEF SentRecorded, HeldRecorded, NoCaseSentTwice, ClaimInv, Running, history
  <2>5. HeldOnce'
    BY <2>2 DEF HeldOnce, ClaimInv
  <2> QED BY <2>3, <2>4, <2>5
<1>3. CASE StartRun(p)
  <2>1. /\ \A q \in Process : ~ev'[q].current /\ ev'[q].pc = ev[q].pc
        /\ ev'[p].seen = NoCases
    BY <1>0, <1>3 DEF StartRun, EvalPass
  <2>2. eval'.cases = NoCases /\ sent' = {} /\ resent' = resent
    BY <1>3 DEF StartRun, RunStart
  <2>3. \A q \in Process \ {p} : ev[q].pc \in {"began", "checked"} => q \in stale'
    BY <1>3, OvertakeBusy DEF StartRun
  <2>4. SeenCurrent'
    BY <2>1, <2>2, <2>3 DEF SeenCurrent
  <2>5. SentRecorded' /\ HeldRecorded' /\ HeldOnce' /\ NoCaseSentTwice'
    BY <2>1, <2>2 DEF SentRecorded, HeldRecorded, HeldOnce, Holds, NoCaseSentTwice, ClaimInv
  <2> QED BY <2>4, <2>5
<1>4. CASE Interrupt(p)
  <2>1. ev[p].seen = eval.cases
    BY <1>4 DEF Interrupt, Fresh, ClaimInv, SeenCurrent
  <2> DEFINE e == [eval EXCEPT !.cases = ev[p].seen]
  <2>2. e \in EvalStatus /\ e.rev \in Digest /\ e.suite \in Suite /\ e.cases = eval.cases
    BY <1>0, <1>4, <2>1 DEF Interrupt, EvalStatus, ClaimInv, TypeOK, EvalType
  <2>3. FirstOf(Sending(p)) \in Case
    BY <1>4, SuiteCaseType, FirstOfIn DEF Interrupt, ClaimInv
  <2>4. eval' = WithOutcome(e, FirstOf(Sending(p)), "Failed")
    BY <1>4 DEF Interrupt
  <2> HIDE DEF e
  <2>5. eval'.cases = [eval.cases EXCEPT ![FirstOf(Sending(p))] = "Failed"]
    BY <2>2, <2>3, <2>4, WithOutcomeType DEF Outcome
  <2>6. \A c \in Case : eval.cases[c] # "none" => eval'.cases[c] # "none"
    BY <1>0, <2>3, <2>5 DEF EvalStatus
  <2>7. Running
    BY <1>4 DEF Interrupt, Running
  <2> QED BY <1>4, <2>6, <2>7, OvertakeBusy, ClaimEnds DEF Interrupt
<1>5. CASE Claim(p)
  <2> DEFINE c == FirstOf(Unsent(p))
  <2>1. c \in Unsent(p) /\ c \in Case
    BY <1>5, SuiteCaseType, FirstOfIn DEF Claim, ClaimInv
  <2>2. ev[p].seen = eval.cases /\ Running
    BY <1>5 DEF Claim, Fresh, ClaimInv, SeenCurrent, Running
  <2>3. /\ eval' = [eval EXCEPT !.cases = [ev[p].seen EXCEPT ![c] = p]]
        /\ ev' = [ev EXCEPT ![p].pc = "claimed", ![p].case = c, ![p].current = TRUE,
                            ![p].seen = NoCases]
        /\ UNCHANGED history
        /\ Overtake(p)
    BY <1>5 DEF Claim
  <2>4. eval.cases[c] = "none"
    BY <2>1, <2>2 DEF Unsent
  <2> HIDE DEF c
  <2>5. eval'.cases = [eval.cases EXCEPT ![c] = p] /\ eval'.verdict = eval.verdict
    BY <1>0, <2>2, <2>3 DEF EvalStatus
  <2>6. p # "none"
    BY ConstantsAssumption
  <2>7. \A o \in Case : eval.cases[o] # "none" \/ o = c => eval'.cases[o] # "none"
    BY <1>0, <2>1, <2>5, <2>6 DEF EvalStatus
  <2>8. /\ \A q \in Process \ {p} : ev'[q] = ev[q]
        /\ ev'[p].pc = "claimed" /\ ev'[p].case = c /\ ev'[p].current
    BY <1>0, <2>3 DEF EvalPass
  <2>9. SeenCurrent'
    BY <2>3, <2>8, OvertakeBusy DEF SeenCurrent
  <2>10. SentRecorded'
    BY <2>2, <2>3, <2>7 DEF SentRecorded, Running, history, ClaimInv, TypeOK, HistoryType
  <2>11. c \notin sent
    BY <2>2, <2>4 DEF SentRecorded, ClaimInv
  <2>12. \A q \in Process \ {p} : Holds(q)' <=> Holds(q)
    BY <2>8 DEF Holds
  <2>13. \A q \in Process \ {p} : Holds(q) => ev[q].case # c
    BY <2>2, <2>4 DEF HeldRecorded, ClaimInv
  <2>14. HeldRecorded'
    BY <1>0, <2>1, <2>2, <2>3, <2>7, <2>8, <2>11, <2>12 DEF HeldRecorded, history, ClaimInv
  <2>15. HeldOnce'
    BY <2>8, <2>12, <2>13 DEF HeldOnce, ClaimInv
  <2> QED BY <2>3, <2>9, <2>10, <2>14, <2>15 DEF NoCaseSentTwice, history, ClaimInv
<1>6. CASE Send(p)
  <2>1. PICK ok \in Reads.answer : ev' = [ev EXCEPT ![p].pc = "answered", ![p].ok = ok]
    BY <1>6 DEF Send
  <2>2. /\ \A q \in Process \ {p} : ev'[q] = ev[q]
        /\ ev'[p].pc = "answered"
        /\ UNCHANGED <<eval, stale>>
    BY <1>0, <1>6, <2>1 DEF EvalPass, Send
  <2>3. sent' = IF Holds(p) THEN sent \cup {ev[p].case} ELSE sent
    BY <1>6 DEF Send, Holds
  <2>4. resent' = (resent \/ (Holds(p) /\ ev[p].case \in sent))
    BY <1>6 DEF Send, Holds
  <2>5. NoCaseSentTwice'
    BY <2>4 DEF NoCaseSentTwice, ClaimInv, HeldRecorded
  <2>6. SeenCurrent'
    BY <2>2 DEF SeenCurrent, ClaimInv
  <2>7. SentRecorded'
    BY <2>2, <2>3 DEF SentRecorded, HeldRecorded, ClaimInv, Running
  <2>8. \A q \in Process : Holds(q)' => Holds(q) /\ q # p /\ ev'[q] = ev[q]
    BY <2>2 DEF Holds
  <2>9. HeldOnce'
    BY <2>8 DEF HeldOnce, ClaimInv
  <2>10. HeldRecorded'
    BY <2>2, <2>3, <2>8 DEF HeldRecorded, HeldOnce, ClaimInv, Running
  <2> QED BY <2>5, <2>6, <2>7, <2>9, <2>10
<1>7. CASE RecordOutcome(p)
  <2> DEFINE o == IF ev[p].ok THEN "Passed" ELSE "Failed"
  <2>1. o \in Outcome /\ o # "none" /\ eval' = WithOutcome(eval, ev[p].case, o)
    BY <1>7 DEF RecordOutcome, Outcome
  <2> HIDE DEF o
  <2>2. ev[p].case \in Case /\ eval.rev \in Digest /\ eval.suite \in Suite
    BY <1>7 DEF RecordOutcome, ClaimStands, Recorded, PassType, ClaimInv, TypeOK
  <2>3. eval'.cases = [eval.cases EXCEPT ![ev[p].case] = o]
    BY <1>0, <2>1, <2>2, WithOutcomeType
  <2>4. \A c \in Case : eval.cases[c] # "none" => eval'.cases[c] # "none"
    BY <1>0, <2>1, <2>2, <2>3 DEF EvalStatus
  <2>5. eval'.verdict \in {eval.verdict, "Passed", "Failed"}
    BY <1>0, <2>1 DEF WithOutcome, EvalStatus
  <2> QED BY <1>7, <2>4, <2>5, OvertakeBusy, ClaimEnds DEF RecordOutcome, Running
<1>8. CASE DropOutcome(p)
  BY <1>8, ClaimEnds DEF DropOutcome, Running
<1>9. CASE EvalStop(p)
  BY <1>9, ClaimEnds DEF EvalStop, Running
<1> QED BY <1>1, <1>2, <1>3, <1>4, <1>5, <1>6, <1>7, <1>8, <1>9 DEF EvalStep

(* Clearing the verdict of a superseded pair keeps the claim invariant. *)
LEMMA ClaimClear ==
  ASSUME ClaimInv, ClearSuperseded
  PROVE  SeenCurrent' /\ SentRecorded' /\ HeldRecorded' /\ HeldOnce' /\ NoCaseSentTwice'
<1>1. UNCHANGED <<ev, history>> /\ eval'.verdict = ""
  BY DEF ClearSuperseded, ClaimInv, TypeOK, EvalType, EvalStatus
<1>2. \A q \in Process : ev[q].pc \in {"began", "checked"} => q \in stale'
  BY DEF ClearSuperseded, Busy
<1> QED BY <1>1, <1>2
        DEF SeenCurrent, SentRecorded, HeldRecorded, HeldOnce, NoCaseSentTwice, Holds, Running,
            history, ClaimInv

LEMMA ClaimInductive == ClaimInv /\ [Next]_vars => ClaimInv'
<1> SUFFICES ASSUME ClaimInv, [Next]_vars PROVE ClaimInv'
  OBVIOUS
<1>1. TypeOK'
  BY RecType, EvalStepType, ClearType, StutterType DEF Next, ClaimInv
<1>2. CASE RecStep
  BY <1>1, <1>2, RecQuiet, ClaimQuiet DEF ClaimInv
<1>3. CASE ClearSuperseded
  BY <1>1, <1>3, ClaimClear DEF ClaimInv
<1>4. CASE \E p \in Process : EvalStep(p)
  BY <1>1, <1>4, ClaimEvalStep DEF ClaimInv
<1>5. CASE UNCHANGED vars
  BY <1>1, <1>5, ClaimQuiet DEF ClaimInv, vars, Quiet
<1> QED BY <1>2, <1>3, <1>4, <1>5 DEF Next, RecStep, EvalStep

LEMMA ClaimInit == Init => ClaimInv
<1> SUFFICES ASSUME Init PROVE ClaimInv
  OBVIOUS
<1>1. \A p \in Process : ev[p].pc = "idle"
  BY DEF Init, IdleEval
<1> QED BY <1>1, InitType
        DEF Init, ClaimInv, SeenCurrent, SentRecorded, HeldRecorded, HeldOnce, Holds,
            NoCaseSentTwice

(* No case is sent to the candidate twice in one run, for any number of    *)
(* operator processes, cases and suites: the optimistic lock on the claim  *)
(* is enough (nextCase).                                                   *)
THEOREM SentAtMostOnce == Spec => []NoCaseSentTwice
<1>1. ClaimInv => NoCaseSentTwice
  BY DEF ClaimInv
<1> QED BY <1>1, ClaimInit, ClaimInductive, PTL DEF Spec

-----------------------------------------------------------------------------
(***************************************************************************)
(* Verdicts and promotions.                                                *)
(***************************************************************************)

LEMMA SuiteAssumption ==
  ASSUME NEW s \in Suite
  PROVE  /\ SuiteCases[s] \in SUBSET Case /\ IsFiniteSet(SuiteCases[s])
         /\ Threshold[s] \in Nat /\ Threshold[s] > 0
<1>1. SuiteCases[s] \in SUBSET Case /\ IsFiniteSet(Case)
  BY ConstantsAssumption
<1>2. Threshold \in [Suite -> 1..1000]
  BY ConstantsAssumption
<1>3. Threshold[s] \in 1..1000
  BY <1>2
<1>4. IsFiniteSet(SuiteCases[s])
  BY <1>1, FS_Subset, Zenon
<1>5. Threshold[s] \in Nat /\ Threshold[s] > 0
  <2> DEFINE PerMille == 1..1000
  <2>1. \A t \in PerMille : t \in Nat /\ t > 0
    BY SMTT(30)
  <2>2. Threshold[s] \in PerMille
    BY <1>3, Zenon
  <2> HIDE DEF PerMille
  <2> QED BY <2>1, <2>2, Zenon
<1> QED BY <1>1, <1>4, <1>5, Zenon

(* Meeting a threshold is monotone in the cases that passed. *)
LEMMA MeetsMono ==
  ASSUME NEW s \in Suite, NEW A, NEW B \in SUBSET Case, A \subseteq B, Meets(A, s)
  PROVE  Meets(B, s)
<1> DEFINE a == Cardinality(A \cap SuiteCases[s])
           b == Cardinality(B \cap SuiteCases[s])
           n == Cardinality(SuiteCases[s])
           t == Threshold[s]
<1>1. IsFiniteSet(SuiteCases[s])
  BY SuiteAssumption
<1>2. IsFiniteSet(B \cap SuiteCases[s]) /\ A \cap SuiteCases[s] \subseteq B \cap SuiteCases[s]
  BY <1>1, FS_Subset
<1>3. a <= b /\ a \in Nat /\ b \in Nat /\ n \in Nat
  BY <1>1, <1>2, FS_Subset, FS_CardinalityType
<1>4. t \in Nat
  BY SuiteAssumption
<1>5. n > 0 /\ a * 1000 >= t * n
  BY DEF Meets, Passes
<1> HIDE DEF a, b, n, t
<1>6. t * n \in Nat
  BY <1>3, <1>4
<1>7. b * 1000 >= t * n
  BY <1>3, <1>5, <1>6
<1> QED BY <1>5, <1>7 DEF Meets, Passes, b, n, t

(* No suite is met by no answer: thresholds are positive. *)
LEMMA MeetsEmpty == ASSUME NEW s \in Suite PROVE ~Meets({}, s)
<1> DEFINE n == Cardinality(SuiteCases[s])
           t == Threshold[s]
<1>1. IsFiniteSet(SuiteCases[s]) /\ t \in Nat /\ t > 0
  BY SuiteAssumption
<1>2. n \in Nat
  BY <1>1, FS_CardinalityType
<1>3. {} \cap SuiteCases[s] = {} /\ Cardinality({}) = 0
  BY FS_EmptySet
<1> HIDE DEF n, t
<1>4. n > 0 => ~(0 * 1000 >= t * n)
  BY <1>1, <1>2
<1> QED BY <1>3, <1>4 DEF Meets, Passes, n, t

(* What an outcome does to the verdict and to passed[]. *)
LEMMA WithOutcomeVerdict ==
  ASSUME NEW e \in EvalStatus, e.rev \in Digest, e.suite \in Suite,
         NEW c \in Case, NEW o \in Outcome
  PROVE  /\ WithOutcome(e, c, o).verdict = "Passed" =>
              \/ e.verdict = "Passed"
              \/ Meets({i \in SuiteCases[e.suite] : WithOutcome(e, c, o).cases[i] = "Passed"},
                       e.suite)
         /\ WithOutcome(e, c, o).verdict = "" => e.verdict = ""
         /\ \A j \in 1..Len(WithOutcome(e, c, o).passed) :
              \E k \in 1..Len(e.passed) : WithOutcome(e, c, o).passed[j] = e.passed[k]
<1> DEFINE w == WithOutcome(e, c, o)
           cases == [e.cases EXCEPT ![c] = o]
           enough == Meets({i \in SuiteCases[e.suite] : cases[i] = "Passed"}, e.suite)
<1>1. w.cases = cases
  BY WithOutcomeType
<1>2. /\ w.verdict = e.verdict \/ w.verdict = "Failed" \/ (w.verdict = "Passed" /\ enough)
      /\ w.passed = e.passed \/ w.passed = removePassed(e.passed, e.rev)
  BY DEF WithOutcome, EvalStatus
<1> HIDE DEF w, cases
<1>3. w.verdict = "Passed" => e.verdict = "Passed" \/ enough
  BY <1>2
<1>4. w.verdict = "" => e.verdict = ""
  BY <1>2
<1>5. e.passed \in Seq(Pair)
  BY DEF EvalStatus
<1>6. \A j \in 1..Len(removePassed(e.passed, e.rev)) :
        \E k \in 1..Len(e.passed) : removePassed(e.passed, e.rev)[j] = e.passed[k]
  BY <1>5, RemovePassedType
<1>7. \A j \in 1..Len(w.passed) : \E k \in 1..Len(e.passed) : w.passed[j] = e.passed[k]
  BY <1>2, <1>6
<1> QED BY <1>1, <1>3, <1>4, <1>7 DEF w

(* The verdict invariant holds of a step that leaves eval and its passes alone. *)
LEMMA VerdictQuiet == ASSUME VerdictInv, UNCHANGED <<eval, ev, history>> PROVE VerdictInv'
<1>1. CurrentRecorded' /\ StandingCurrent' /\ NoVerdictNoCases'
  BY DEF VerdictInv, CurrentRecorded, StandingCurrent, NoVerdictNoCases, Recorded, NoCases
<1>2. AnswerGood' /\ PassedGood'
  BY DEF VerdictInv, AnswerGood, PassedGood, history
<1>3. VerdictSound' /\ MetEarned' /\ PassedEarned'
  BY DEF VerdictInv, VerdictSound, MetEarned, PassedEarned, history, Meets
<1> QED BY <1>1, <1>2, <1>3 DEF VerdictInv

(* A pass that ends leaves no claim of its own. *)
LEMMA VerdictEnds ==
  ASSUME ClaimInv, VerdictInv, NEW p \in Process, EvalEnds(p), UNCHANGED history,
         eval'.rev = eval.rev, eval'.suite = eval.suite,
         \A q \in Process, c \in Case : eval'.cases[c] = q => eval.cases[c] = q
  PROVE  CurrentRecorded' /\ StandingCurrent' /\ AnswerGood'
<1>1. /\ \A q \in Process \ {p} : ev'[q] = ev[q]
      /\ ev'[p] = IdleEval
  BY DEF EvalEnds, ClaimInv, TypeOK, PassType
<1>2. IdleEval.pc = "idle" /\ ~IdleEval.current
  BY DEF IdleEval
<1>3. CurrentRecorded'
  BY <1>1, <1>2 DEF CurrentRecorded, VerdictInv, Recorded
<1>4. \A q \in Process : ev[q].pc \in {"claimed", "answered"} => ev[q].case \in Case
  BY DEF ClaimInv, TypeOK, PassType
<1>5. StandingCurrent'
  BY <1>1, <1>2, <1>4 DEF StandingCurrent, VerdictInv
<1>6. AnswerGood'
  BY <1>1, <1>2 DEF AnswerGood, VerdictInv, history
<1> QED BY <1>3, <1>5, <1>6

(* Recording an outcome: what is recorded Passed was answered in this run. *)
LEMMA VerdictOutcome ==
  ASSUME ClaimInv, VerdictInv, NEW p \in Process, EvalEnds(p), UNCHANGED history,
         NEW c \in Case, NEW o \in {"Passed", "Failed"}, o = "Passed" => c \in good,
         eval.verdict # "",
         NEW e \in EvalStatus, e.rev = eval.rev, e.suite = eval.suite, e.verdict = eval.verdict,
         e.cases = eval.cases, e.passed = eval.passed,
         eval' = WithOutcome(e, c, o)
  PROVE  VerdictInv'
<1>1. /\ eval.rev \in Digest /\ eval.suite \in Suite /\ eval \in EvalStatus
      /\ good \in SUBSET Case
  BY DEF ClaimInv, TypeOK, EvalType, HistoryType
<1>2. o \in Outcome /\ o \notin Process
  <2>1. Process \cap {"none", "Passed", "Failed", "reconciler"} = {}
    BY ConstantsAssumption, Zenon
  <2> QED BY <2>1 DEF Outcome
<1> DEFINE w == WithOutcome(e, c, o)
<1>a. e.rev \in Digest /\ e.suite \in Suite
  BY <1>1
<1>b. w.cases = [e.cases EXCEPT ![c] = o] /\ w.rev = e.rev /\ w.suite = e.suite
  BY <1>2, <1>a, WithOutcomeType
<1>c. /\ w.verdict = "Passed" =>
           \/ e.verdict = "Passed"
           \/ Meets({i \in SuiteCases[e.suite] : w.cases[i] = "Passed"}, e.suite)
      /\ w.verdict = "" => e.verdict = ""
  BY <1>2, <1>a, WithOutcomeVerdict
<1>e. \A j \in 1..Len(w.passed) : \E k \in 1..Len(e.passed) : w.passed[j] = e.passed[k]
  BY <1>2, <1>a, WithOutcomeVerdict
<1>d. eval' = w
  OBVIOUS
<1> HIDE DEF w
<1>3. /\ eval'.cases = [eval.cases EXCEPT ![c] = o]
      /\ eval'.rev = eval.rev /\ eval'.suite = eval.suite
  BY <1>b, <1>d
<1>4. \A q \in Process, i \in Case : eval'.cases[i] = q => eval.cases[i] = q
  BY <1>1, <1>2, <1>3 DEF EvalStatus
<1>5. CurrentRecorded' /\ StandingCurrent' /\ AnswerGood'
  BY <1>3, <1>4, VerdictEnds
<1>6. good' = good /\ earned' = earned
  BY DEF history
<1>7. PassedGood'
  BY <1>1, <1>3, <1>6 DEF PassedGood, VerdictInv, EvalStatus
<1>8. eval'.verdict # "" /\ eval'.passed = w.passed
  BY <1>c, <1>d
<1>9. VerdictSound'
  <2>1. {i \in SuiteCases[e.suite] : w.cases[i] = "Passed"} \subseteq good
    BY <1>a, <1>d, <1>6, <1>7, SuiteAssumption DEF PassedGood
  <2>2. w.verdict = "Passed" => e.verdict = "Passed" \/ Meets(good, e.suite)
    BY <1>1, <1>a, <1>c, <2>1, MeetsMono
  <2>3. eval'.verdict = "Passed" => Meets(good, eval.suite)
    BY <1>d, <2>2 DEF VerdictInv, VerdictSound
  <2> QED BY <1>3, <1>6, <2>3 DEF VerdictSound, Meets
<1>10. NoVerdictNoCases'
  BY <1>8 DEF NoVerdictNoCases
<1>11. MetEarned'
  BY <1>3, <1>6 DEF MetEarned, VerdictInv, Meets
<1>12. PassedEarned'
  <2>1. \A k \in 1..Len(e.passed) : e.passed[k] \in earned
    BY DEF PassedEarned, VerdictInv
  <2>2. \A j \in 1..Len(w.passed) : w.passed[j] \in earned
    BY <1>e, <2>1
  <2> QED BY <1>6, <1>8, <2>2 DEF PassedEarned
<1> QED BY <1>5, <1>7, <1>9, <1>10, <1>11, <1>12 DEF VerdictInv

(* Every step of an eval pass keeps the verdict invariant. *)
LEMMA VerdictEvalStep ==
  ASSUME ClaimInv, VerdictInv, NEW p \in Process, EvalStep(p)
  PROVE  VerdictInv'
<1>0. /\ ev \in [Process -> EvalPass] /\ ev[p] \in EvalPass
      /\ eval \in EvalStatus
      /\ good \in SUBSET Case /\ good' \in SUBSET Case
      /\ "none" \notin Process /\ "Passed" \notin Process
      /\ \A q \in Process : ev[q].pc \in {"claimed", "answered"} => ev[q].case \in Case
  <2>1. TypeOK'
    BY EvalStepType DEF EvalStep, ClaimInv
  <2>2. Process \cap {"none", "Passed", "Failed", "reconciler"} = {}
    BY ConstantsAssumption, Zenon
  <2>3. "none" \notin Process /\ "Passed" \notin Process
    BY <2>2
  <2> QED BY <2>1, <2>3 DEF ClaimInv, TypeOK, PassType, EvalType, HistoryType
<1>1. CASE EvalBegin(p)
  <2>1. /\ \A q \in Process \ {p} : ev'[q] = ev[q]
        /\ ~ev'[p].current /\ ev'[p].pc = "began"
        /\ UNCHANGED <<eval, history>>
    BY <1>0, <1>1 DEF EvalBegin, IdleEval
  <2>2. CurrentRecorded' /\ StandingCurrent'
    BY <2>1 DEF CurrentRecorded, StandingCurrent, VerdictInv, Recorded
  <2>3. AnswerGood' /\ PassedGood' /\ NoVerdictNoCases'
    BY <2>1 DEF AnswerGood, PassedGood, NoVerdictNoCases, NoCases, VerdictInv, history
  <2>4. VerdictSound' /\ MetEarned' /\ PassedEarned'
    BY <2>1 DEF VerdictInv, VerdictSound, MetEarned, PassedEarned, history, Meets
  <2> QED BY <2>2, <2>3, <2>4 DEF VerdictInv
<1>2. CASE EvalCheck(p)
  <2>1. /\ \A q \in Process \ {p} : ev'[q] = ev[q]
        /\ ev'[p].current = ev[p].current /\ ev'[p].pc = "checked"
        /\ ev'[p].rev = ev[p].rev /\ ev'[p].suite = ev[p].suite
        /\ UNCHANGED <<eval, history>>
    BY <1>0, <1>2 DEF EvalCheck, EvalPass
  <2>2. CurrentRecorded' /\ StandingCurrent'
    BY <2>1 DEF CurrentRecorded, StandingCurrent, VerdictInv, Recorded
  <2>3. AnswerGood' /\ PassedGood' /\ NoVerdictNoCases'
    BY <2>1 DEF AnswerGood, PassedGood, NoVerdictNoCases, NoCases, VerdictInv, history
  <2>4. VerdictSound' /\ MetEarned' /\ PassedEarned'
    BY <2>1 DEF VerdictInv, VerdictSound, MetEarned, PassedEarned, history, Meets
  <2> QED BY <2>2, <2>3, <2>4 DEF VerdictInv
<1>3. CASE StartRun(p)
  <2>1. \A q \in Process : ~ev'[q].current /\ ev'[q].pc = ev[q].pc /\ ev'[q].case = ev[q].case
    BY <1>0, <1>3 DEF StartRun, EvalPass
  <2>2. /\ eval'.cases = NoCases /\ eval'.verdict = "Running" /\ eval'.suite = ev[p].suite
        /\ good' = {} /\ earned' = earned
        /\ eval'.passed = IF eval.verdict = "Passed"
                          THEN appendPassed(eval.passed, <<eval.rev, eval.suite>>, active)
                          ELSE eval.passed
    BY <1>3 DEF StartRun, RunStart
  <2>3. \A c \in Case : eval'.cases[c] = "none"
    BY <2>2 DEF NoCases
  <2>4. CurrentRecorded' /\ AnswerGood'
    BY <2>1 DEF CurrentRecorded, AnswerGood
  <2>5. StandingCurrent'
    BY <1>0, <2>1, <2>3 DEF StandingCurrent
  <2>6. PassedGood' /\ NoVerdictNoCases' /\ VerdictSound'
    BY <2>2, <2>3 DEF PassedGood, NoVerdictNoCases, VerdictSound
  <2>7. ev[p].suite \in Suite
    BY <1>3 DEF StartRun, ClaimInv, TypeOK, PassType
  <2>8. MetEarned'
    BY <2>2, <2>7, MeetsEmpty DEF MetEarned, Meets
  <2>9. eval.verdict = "Passed" => <<eval.rev, eval.suite>> \in earned /\ <<eval.rev, eval.suite>> \in Pair
    BY DEF VerdictInv, VerdictSound, MetEarned, ClaimInv, TypeOK, EvalType, Pair
  <2>10. eval.passed \in Seq(Pair)
    BY <1>0 DEF EvalStatus
  <2>11. PassedEarned'
    <3>1. CASE eval.verdict = "Passed"
      <4> DEFINE x == <<eval.rev, eval.suite>>
                 a == appendPassed(eval.passed, x, active)
      <4>1. x \in earned /\ x \in Pair /\ eval'.passed = a
        BY <2>2, <2>9, <3>1
      <4> HIDE DEF x
      <4>2. \A j \in 1..Len(a) : a[j] = x \/ \E k \in 1..Len(eval.passed) : a[j] = eval.passed[k]
        BY <2>10, <4>1, AppendPassedType
      <4> HIDE DEF a
      <4> QED BY <2>2, <4>1, <4>2 DEF PassedEarned, VerdictInv
    <3>2. CASE eval.verdict # "Passed"
      BY <2>2, <3>2 DEF PassedEarned, VerdictInv
    <3> QED BY <3>1, <3>2
  <2> QED BY <2>4, <2>5, <2>6, <2>8, <2>11 DEF VerdictInv
<1>4. CASE Interrupt(p)
  <2> DEFINE e == [eval EXCEPT !.cases = ev[p].seen]
  <2>1. ev[p].seen = eval.cases
    BY <1>4 DEF Interrupt, Fresh, ClaimInv, SeenCurrent
  <2>2. /\ e \in EvalStatus /\ e.rev = eval.rev /\ e.suite = eval.suite
        /\ e.verdict = eval.verdict /\ e.cases = eval.cases /\ e.passed = eval.passed
    BY <1>0, <2>1 DEF EvalStatus
  <2>3. FirstOf(Sending(p)) \in Case
    BY <1>4, SuiteCaseType, FirstOfIn DEF Interrupt, ClaimInv
  <2>4. eval' = WithOutcome(e, FirstOf(Sending(p)), "Failed")
    BY <1>4 DEF Interrupt
  <2> HIDE DEF e
  <2>5. EvalEnds(p) /\ UNCHANGED history /\ eval.verdict # ""
    BY <1>4 DEF Interrupt
  <2> QED BY <2>2, <2>3, <2>4, <2>5, VerdictOutcome
<1>5. CASE Claim(p)
  <2> DEFINE c == FirstOf(Unsent(p))
  <2>1. c \in Unsent(p) /\ c \in Case
    BY <1>5, SuiteCaseType, FirstOfIn DEF Claim, ClaimInv
  <2>2. ev[p].seen = eval.cases /\ Running /\ Recorded(p)
    BY <1>5 DEF Claim, Fresh, ClaimInv, SeenCurrent, Running
  <2>3. /\ eval' = [eval EXCEPT !.cases = [ev[p].seen EXCEPT ![c] = p]]
        /\ ev' = [ev EXCEPT ![p].pc = "claimed", ![p].case = c, ![p].current = TRUE,
                            ![p].seen = NoCases]
        /\ UNCHANGED history
    BY <1>5 DEF Claim
  <2> HIDE DEF c
  <2>4. /\ eval'.cases = [eval.cases EXCEPT ![c] = p] /\ eval'.verdict = "Running"
        /\ eval'.rev = eval.rev /\ eval'.suite = eval.suite /\ eval'.passed = eval.passed
    BY <1>0, <2>2, <2>3 DEF EvalStatus, Running
  <2>5. /\ \A q \in Process \ {p} : ev'[q] = ev[q]
        /\ ev'[p].pc = "claimed" /\ ev'[p].current
        /\ ev'[p].rev = ev[p].rev /\ ev'[p].suite = ev[p].suite
    BY <1>0, <2>3 DEF EvalPass
  <2>6. CurrentRecorded'
    BY <2>2, <2>4, <2>5 DEF CurrentRecorded, VerdictInv, Recorded
  <2>7. \A q \in Process \ {p}, o \in Case : eval'.cases[o] = q => eval.cases[o] = q
    BY <1>0, <2>1, <2>4 DEF EvalStatus
  <2>8. StandingCurrent'
    BY <1>0, <2>5, <2>7 DEF StandingCurrent, VerdictInv
  <2>a. good' = good /\ earned' = earned /\ eval.verdict # ""
    BY <2>2, <2>3 DEF history, Running
  <2>9. AnswerGood'
    <3> SUFFICES ASSUME NEW q \in Process, ev'[q].pc = "answered", ev'[q].current, ev'[q].ok
                 PROVE  ev'[q].case \in good'
      BY DEF AnswerGood
    <3>1. ev'[q] = ev[q]
      BY <2>5
    <3> QED BY <2>a, <3>1 DEF AnswerGood, VerdictInv
  <2>10. PassedGood'
    BY <1>0, <2>1, <2>3, <2>4 DEF PassedGood, VerdictInv, history, EvalStatus
  <2>11. NoVerdictNoCases' /\ VerdictSound' /\ PassedEarned'
    <3>1. NoVerdictNoCases' /\ VerdictSound'
      BY <2>4 DEF NoVerdictNoCases, VerdictSound
    <3>2. PassedEarned'
      BY <2>4, <2>a DEF PassedEarned, VerdictInv
    <3> QED BY <3>1, <3>2
  <2>12. MetEarned'
    BY <2>4, <2>a DEF MetEarned, VerdictInv, Meets
  <2> QED BY <2>6, <2>8, <2>9, <2>10, <2>11, <2>12 DEF VerdictInv
<1>6. CASE Send(p)
  <2>1. PICK ok \in Reads.answer :
          /\ ev' = [ev EXCEPT ![p].pc = "answered", ![p].ok = ok]
          /\ good' = IF ok /\ ev[p].current THEN good \cup {ev[p].case} ELSE good
    BY <1>6 DEF Send
  <2>2. /\ \A q \in Process \ {p} : ev'[q] = ev[q]
        /\ ev'[p].pc = "answered" /\ ev'[p].ok = ok /\ ev'[p].current = ev[p].current
        /\ ev'[p].rev = ev[p].rev /\ ev'[p].suite = ev[p].suite /\ ev'[p].case = ev[p].case
        /\ ev[p].pc = "claimed"
        /\ UNCHANGED eval
    BY <1>0, <1>6, <2>1 DEF EvalPass, Send
  <2>3. good \subseteq good' /\ earned \subseteq earned'
    BY <1>6, <2>1 DEF Send
  <2>4. CurrentRecorded' /\ StandingCurrent' /\ NoVerdictNoCases'
    <3>1. CurrentRecorded'
      BY <2>2 DEF CurrentRecorded, VerdictInv, Recorded
    <3>2. StandingCurrent'
      BY <2>2 DEF StandingCurrent, VerdictInv
    <3>3. NoVerdictNoCases'
      BY <2>2 DEF NoVerdictNoCases, NoCases, VerdictInv
    <3> QED BY <3>1, <3>2, <3>3
  <2>5. AnswerGood'
    <3> SUFFICES ASSUME NEW q \in Process, ev'[q].pc = "answered", ev'[q].current, ev'[q].ok
                 PROVE  ev'[q].case \in good'
      BY DEF AnswerGood
    <3>1. CASE q = p
      <4>1. ok /\ ev[p].current /\ ev'[q].case = ev[p].case
        BY <2>2, <3>1, Zenon
      <4>2. good' = good \cup {ev[p].case}
        BY <2>1, <4>1, Zenon
      <4> QED BY <4>1, <4>2
    <3>2. CASE q # p
      <4>1. ev'[q] = ev[q]
        BY <2>2, <3>2
      <4>2. ev[q].case \in good
        BY <4>1 DEF AnswerGood, VerdictInv
      <4> QED BY <2>3, <4>1, <4>2
    <3> QED BY <3>1, <3>2
  <2>6. PassedGood' /\ PassedEarned'
    BY <2>2, <2>3 DEF PassedGood, PassedEarned, VerdictInv
  <2>7. VerdictSound'
    <3> SUFFICES ASSUME eval.verdict = "Passed" PROVE Meets(good', eval.suite)
      BY <2>2 DEF VerdictSound, Meets
    <3>1. eval.suite \in Suite /\ Meets(good, eval.suite)
      BY DEF ClaimInv, TypeOK, EvalType, VerdictInv, VerdictSound
    <3> QED BY <1>0, <2>3, <3>1, MeetsMono
  <2>8. MetEarned'
    <3> SUFFICES ASSUME eval.verdict # "", Meets(good', eval.suite)
                 PROVE  <<eval.rev, eval.suite>> \in earned'
      BY <2>2 DEF MetEarned, Meets
    <3>1. CASE ev[p].current
      BY <1>6, <3>1 DEF Send, VerdictInv, CurrentRecorded, Recorded
    <3>2. CASE ~ev[p].current
      BY <2>1, <2>3, <3>2 DEF MetEarned, VerdictInv
    <3> QED BY <3>1, <3>2
  <2> QED BY <2>4, <2>5, <2>6, <2>7, <2>8 DEF VerdictInv
<1>7. CASE RecordOutcome(p)
  <2> DEFINE o == IF ev[p].ok THEN "Passed" ELSE "Failed"
  <2>1. /\ o \in {"Passed", "Failed"} /\ eval' = WithOutcome(eval, ev[p].case, o)
        /\ EvalEnds(p) /\ UNCHANGED history
    BY <1>7 DEF RecordOutcome
  <2>2. ev[p].case \in Case /\ eval.cases[ev[p].case] = p
    BY <1>0, <1>7 DEF RecordOutcome, ClaimStands
  <2>3. ev[p].current
    BY <1>7, <2>2 DEF RecordOutcome, VerdictInv, StandingCurrent
  <2>4. o = "Passed" => ev[p].case \in good
    BY <1>7, <2>3 DEF RecordOutcome, VerdictInv, AnswerGood
  <2>5. eval.verdict # ""
    BY <1>0, <2>2 DEF VerdictInv, NoVerdictNoCases, NoCases
  <2> HIDE DEF o
  <2> QED BY <1>0, <2>1, <2>2, <2>4, <2>5, VerdictOutcome
<1>8. CASE DropOutcome(p) \/ EvalStop(p)
  <2>1. EvalEnds(p) /\ UNCHANGED <<eval, history>>
    BY <1>8 DEF DropOutcome, EvalStop
  <2>2. CurrentRecorded' /\ StandingCurrent' /\ AnswerGood'
    BY <2>1, VerdictEnds
  <2>3. PassedGood' /\ NoVerdictNoCases'
    BY <2>1 DEF PassedGood, NoVerdictNoCases, NoCases, VerdictInv, history
  <2>4. VerdictSound' /\ MetEarned' /\ PassedEarned'
    BY <2>1 DEF VerdictInv, VerdictSound, MetEarned, PassedEarned, history, Meets
  <2> QED BY <2>2, <2>3, <2>4 DEF VerdictInv
<1> QED BY <1>1, <1>2, <1>3, <1>4, <1>5, <1>6, <1>7, <1>8 DEF EvalStep

(* Clearing the verdict of a superseded pair keeps the verdict invariant. *)
LEMMA VerdictClear == ASSUME ClaimInv, VerdictInv, ClearSuperseded PROVE VerdictInv'
<1>1. /\ UNCHANGED <<ev, history>>
      /\ eval'.verdict = "" /\ eval'.cases = NoCases
      /\ eval'.rev = eval.rev /\ eval'.suite = eval.suite /\ eval'.passed = eval.passed
  BY DEF ClearSuperseded, ClaimInv, TypeOK, EvalType, EvalStatus
<1>2. \A c \in Case : eval'.cases[c] = "none" /\ "none" \notin Process
  <2>1. "none" \notin Process
    BY ConstantsAssumption, Zenon
  <2>2. eval'.cases = [c \in Case |-> "none"]
    BY <1>1, Zenon DEF NoCases
  <2>3. \A c \in Case : eval'.cases[c] = "none"
    BY <2>2, Zenon
  <2> QED BY <2>1, <2>3, Zenon
<1>3. \A q \in Process : ev[q].pc \in {"claimed", "answered"} => ev[q].case \in Case
  BY DEF ClaimInv, TypeOK, PassType
<1>4. CurrentRecorded'
  BY <1>1 DEF CurrentRecorded, VerdictInv, Recorded
<1>5. StandingCurrent'
  BY <1>1, <1>2, <1>3 DEF StandingCurrent
<1>6. AnswerGood'
  BY <1>1 DEF AnswerGood, VerdictInv, history
<1>7. PassedGood' /\ NoVerdictNoCases' /\ VerdictSound' /\ MetEarned'
  BY <1>1, <1>2 DEF PassedGood, NoVerdictNoCases, NoCases, VerdictSound, MetEarned
<1>8. PassedEarned'
  BY <1>1 DEF PassedEarned, VerdictInv, history
<1> QED BY <1>4, <1>5, <1>6, <1>7, <1>8 DEF VerdictInv

(* No step forgets a pair that was earned. *)
LEMMA EarnedGrows == ASSUME [Next]_vars PROVE earned \subseteq earned'
<1>1. ASSUME RecStep PROVE earned' = earned
  BY <1>1, RecQuiet DEF Quiet, history
<1>2. ASSUME ClearSuperseded \/ UNCHANGED vars PROVE earned' = earned
  BY <1>2 DEF ClearSuperseded, vars, history
<1>3. ASSUME NEW p \in Process, EvalStep(p) PROVE earned \subseteq earned'
  BY <1>3 DEF EvalStep, EvalBegin, EvalCheck, StartRun, Interrupt, Claim, Send, RecordOutcome,
              DropOutcome, EvalStop, history
<1> QED BY <1>1, <1>2, <1>3 DEF Next, RecStep, EvalStep

(* Every step other than RecPass, RecReport and RecHold leaves the         *)
(* promotion and its report alone.                                         *)
LEMMA PromotionFrame ==
  ASSUME Next, ~RecPass, ~RecReport, ~RecHold
  PROVE  UNCHANGED <<active, how, gatesPassed>>
<1>1. CASE EditSpec \/ EditSuite \/ EditSource \/ RecBegin \/ RecRead \/ RecPersist \/ RecStop
           \/ ClearSuperseded
  BY <1>1 DEF EditSpec, EditSuite, EditSource, RecBegin, RecRead, RecPersist, RecStop,
              ClearSuperseded, status
<1>2. CASE \E p \in Process : EvalStep(p)
  BY <1>2, ZenonT(60) DEF EvalStep, EvalBegin, EvalCheck, StartRun, Interrupt, Claim, Send, RecordOutcome,
              DropOutcome, EvalStop, status
<1> QED BY <1>1, <1>2 DEF Next, EvalStep

(* A revision with a recorded pass earned it. *)
LEMMA RecordedPassEarned ==
  ASSUME ClaimInv, VerdictInv, NEW d, EvalPassedFor(d) \/ PassedEntry(d)
  PROVE  \E s \in Suite : <<d, s>> \in earned
<1>1. CASE EvalPassedFor(d)
  BY <1>1 DEF EvalPassedFor, VerdictInv, VerdictSound, MetEarned, ClaimInv, TypeOK, EvalType
<1>2. CASE PassedEntry(d)
  <2>1. PICK i \in 1..Len(eval.passed) : eval.passed[i][1] = d
    BY <1>2 DEF PassedEntry
  <2>2. eval.passed[i] \in earned
    BY <2>1 DEF VerdictInv, PassedEarned
  <2>3. eval.passed[i] \in Pair
    BY <2>2 DEF ClaimInv, TypeOK, HistoryType
  <2>4. PICK a \in Digest, s \in Suite : eval.passed[i] = <<a, s>>
    BY <2>3 DEF Pair
  <2> QED BY <2>1, <2>2, <2>4
<1> QED BY <1>1, <1>2

LEMMA PromotionStep ==
  ASSUME ClaimInv, VerdictInv, GatedPromotionEarned, [Next]_vars
  PROVE  GatedPromotionEarned'
<1>1. earned \subseteq earned'
  BY EarnedGrows
<1>2. CASE UNCHANGED <<active, how>>
  BY <1>1, <1>2 DEF GatedPromotionEarned
<1>3. CASE RecPass /\ ~UNCHANGED <<active, how>>
  <2>1. PICK ready \in Reads.ready, hold \in Reads.hold, installed \in Reads.installed,
             fetch \in Reads.card :
          LET d         == Desired(rec.content)
              enforced  == spec.gated /\ installed
              satisfied == GateSatisfied(d, enforced, CardsAfter(d, ready, fetch))
              held      == ready /\ hold /\ ~Pinned /\ active \notin {None, d}
              promotes  == ready /\ ~held /\ satisfied
          IN /\ active' = IF promotes THEN d ELSE active
             /\ how' = IF active' = active THEN how
                       ELSE IF ~enforced THEN "ungated" ELSE IF Pinned THEN "pin" ELSE "gate"
    BY <1>3 DEF RecPass
  <2> DEFINE d == Desired(rec.content)
             enforced == spec.gated /\ installed
             recorded == CardsAfter(d, ready, fetch)
  <2> HIDE DEF recorded, d, enforced
  <2>2. /\ active' # active => active' = d /\ GateSatisfied(d, enforced, recorded)
        /\ how' = IF active' = active THEN how
                  ELSE IF ~enforced THEN "ungated" ELSE IF Pinned THEN "pin" ELSE "gate"
    BY <2>1, Zenon DEF recorded, d, enforced
  <2>3. active' # active
    BY <1>3, <2>2
  <2>4. how' = "gate" => enforced /\ ~Pinned
    BY <2>2, <2>3
  <2>5. how' = "gate" => EvalPassedFor(d)
    BY <2>2, <2>3, <2>4 DEF GateSatisfied, GateGrants, EvalPassedFor
  <2> QED BY <1>1, <2>2, <2>3, <2>5, RecordedPassEarned DEF GatedPromotionEarned
<1>4. CASE RecReport \/ RecHold
  BY <1>1, <1>4 DEF RecReport, RecHold, GatedPromotionEarned
<1> QED BY <1>2, <1>3, <1>4, PromotionFrame DEF vars, status

LEMMA ReportStep ==
  ASSUME ClaimInv, VerdictInv, GatesPassedEarned, [Next]_vars
  PROVE  GatesPassedEarned'
<1>1. earned \subseteq earned' /\ "False" \notin Digest
  BY EarnedGrows, ConstantsAssumption
<1>2. CASE gatesPassed' \in {gatesPassed, "False"}
  BY <1>1, <1>2 DEF GatesPassedEarned
<1>3. CASE RecReport \/ RecHold
  BY <1>2, <1>3 DEF RecReport, RecHold, AssessGates
<1>4. CASE RecPass
  <2> DEFINE d == Desired(rec.content)
  <2>1. PICK e, p, h, s : gatesPassed' = GatesPassedAfter(d, e, p, h, s)
    BY <1>4 DEF RecPass
  <2> HIDE DEF d
  <2>2. \/ gatesPassed' \in {gatesPassed, "False"}
        \/ gatesPassed' = d /\ (EvalPassedFor(d) \/ PassedEntry(d))
    BY <2>1 DEF GatesPassedAfter, AssessGates
  <2> QED BY <1>1, <1>2, <2>2, RecordedPassEarned DEF GatesPassedEarned
<1> QED BY <1>2, <1>3, <1>4, PromotionFrame DEF vars, status

LEMMA VerdictInductive == ClaimInv /\ VerdictInv /\ [Next]_vars => VerdictInv'
<1> SUFFICES ASSUME ClaimInv, VerdictInv, [Next]_vars PROVE VerdictInv'
  OBVIOUS
<1>1. CASE RecStep
  BY <1>1, RecQuiet, VerdictQuiet DEF Quiet
<1>2. CASE ClearSuperseded
  BY <1>2, VerdictClear
<1>3. CASE \E p \in Process : EvalStep(p)
  BY <1>3, VerdictEvalStep
<1>4. CASE UNCHANGED vars
  BY <1>4, VerdictQuiet DEF vars
<1> QED BY <1>1, <1>2, <1>3, <1>4 DEF Next, RecStep, EvalStep

LEMMA VerdictInit == Init => VerdictInv /\ GatedPromotionEarned /\ GatesPassedEarned
<1> SUFFICES ASSUME Init PROVE VerdictInv /\ GatedPromotionEarned /\ GatesPassedEarned
  OBVIOUS
<1>1. \A p \in Process : ev[p].pc = "idle" /\ ~ev[p].current
  BY DEF Init, IdleEval
<1>2. /\ eval.verdict = "" /\ eval.cases = NoCases /\ Len(eval.passed) = 0
      /\ \A c \in Case : NoCases[c] # "Passed"
  BY DEF Init, NoEval, NoCases
<1>3. CurrentRecorded /\ StandingCurrent /\ AnswerGood
  BY <1>1 DEF CurrentRecorded, StandingCurrent, AnswerGood
<1>4. PassedGood /\ NoVerdictNoCases /\ VerdictSound /\ MetEarned
  BY <1>2 DEF PassedGood, NoVerdictNoCases, VerdictSound, MetEarned
<1>5. PassedEarned
  <2> DEFINE n == Len(eval.passed)
  <2>1. n = 0
    BY <1>2
  <2> HIDE DEF n
  <2>2. \A i \in 1..n : FALSE
    BY <2>1
  <2> QED BY <2>2 DEF PassedEarned, n
<1>6. None # "gate" /\ None \notin Digest
  BY ConstantsAssumption
<1>7. GatedPromotionEarned /\ GatesPassedEarned
  BY <1>6 DEF Init, GatedPromotionEarned, GatesPassedEarned
<1> QED BY <1>3, <1>4, <1>5, <1>7 DEF VerdictInv

(* A Passed verdict rests on what the candidate answered in the run it is  *)
(* the verdict of: no stale answer, answer to an earlier run or answer to  *)
(* an interrupted case counts (record, withOutcome).                       *)
THEOREM PassedVerdictSound == Spec => []VerdictSound
<1>1. VerdictInv => VerdictSound
  BY DEF VerdictInv
<1> QED BY <1>1, ClaimInit, VerdictInit, ClaimInductive, VerdictInductive, PTL DEF Spec

(* A revision its gate promoted earned the promotion: it answered enough   *)
(* cases of one suite in one run (decideGate, the promotion switch).       *)
THEOREM PromotionEarned == Spec => []GatedPromotionEarned
<1>1. ClaimInv /\ VerdictInv /\ GatedPromotionEarned /\ [Next]_vars => GatedPromotionEarned'
  BY PromotionStep
<1> QED BY <1>1, ClaimInit, VerdictInit, ClaimInductive, VerdictInductive, PTL DEF Spec

(* GatesPassed is True only for a revision that passed a run, whatever is  *)
(* cleared, evicted or pinned afterwards (assessPromotedGate).             *)
THEOREM ReportEarned == Spec => []GatesPassedEarned
<1>1. ClaimInv /\ VerdictInv /\ GatesPassedEarned /\ [Next]_vars => GatesPassedEarned'
  BY ReportStep
<1> QED BY <1>1, ClaimInit, VerdictInit, ClaimInductive, VerdictInductive, PTL DEF Spec
=============================================================================
