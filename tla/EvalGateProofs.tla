--------------------------- MODULE EvalGateProofs ---------------------------
(***************************************************************************)
(* Proofs about EvalGate, for every set of digests, suites, cases and      *)
(* processes.                                                              *)
(***************************************************************************)
EXTENDS EvalGate, FiniteSetTheorems, SequenceTheorems, WellFoundedInduction, TLAPS

(***************************************************************************)
(* The status record's lists keep their type.                              *)
(***************************************************************************)

(* A nonempty set of naturals has a least element. *)
LEMMA LeastExists ==
  ASSUME NEW I \in SUBSET Nat, I # {}
  PROVE  \E i \in I : \A j \in I : i <= j
<1>1. PICK i \in I : \A j \in I : ~(<<j, i>> \in OpToRel(<, Nat))
  BY WFMin, NatLessThanWellFounded
<1>2. \A j \in I : ~(j < i)
  BY <1>1 DEF OpToRel
<1>3. i \in I
  BY <1>1
<1>4. \A j \in I : i <= j
  BY <1>2, <1>3
<1> QED BY <1>3, <1>4

(* The first case of a set of cases is one of them (suiteIDs' order). *)
LEMMA FirstOfIn ==
  ASSUME NEW S \in SUBSET Case, S # {}
  PROVE  FirstOf(S) \in S
<1>1. S \in SUBSET Nat
  BY ConstantsAssumption
<1>2. \E i \in S : \A j \in S : i <= j
  BY <1>1, LeastExists, Zenon
<1> QED BY <1>2, Zenon DEF FirstOf

(* The least index is an index. *)
LEMMA MinIn ==
  ASSUME NEW I \in SUBSET Nat, I # {}
  PROVE  Min(I) \in I
BY LeastExists DEF Min

(* Removing an entry of a list leaves entries of that list. *)
LEMMA RemoveAtType ==
  ASSUME NEW S, NEW s \in Seq(S), NEW i \in 1..Len(s)
  PROVE  /\ RemoveAt(s, i) \in Seq(S)
         /\ \A j \in 1..Len(RemoveAt(s, i)) :
              \E k \in 1..Len(s) : RemoveAt(s, i)[j] = s[k]
<1> DEFINE a == SubSeq(s, 1, i - 1)
           b == SubSeq(s, i + 1, Len(s))
<1>1. a \in Seq(S) /\ Len(a) = i - 1 /\ \A j \in 1..(i - 1) : a[j] = s[j]
  OBVIOUS
<1>2. b \in Seq(S) /\ Len(b) = Len(s) - i /\ \A j \in 1..(Len(s) - i) : b[j] = s[i + j]
  OBVIOUS
<1> HIDE DEF a, b
<1>3. a \o b \in Seq(S) /\ Len(a \o b) = Len(s) - 1
  <2>1. a \o b \in Seq(S)
    BY <1>1, <1>2, ConcatProperties, Zenon
  <2>2. Len(a \o b) = Len(a) + Len(b)
    BY <1>1, <1>2, ConcatProperties, Zenon
  <2>3. Len(s) \in Nat
    BY LenProperties, Zenon
  <2>4. Len(a) + Len(b) = Len(s) - 1
    BY <1>1, <1>2, <2>3
  <2> QED BY <2>1, <2>2, <2>4, Zenon
<1>4. ASSUME NEW j \in 1..(Len(s) - 1)
      PROVE  \E k \in 1..Len(s) : (a \o b)[j] = s[k]
  <2>1. CASE j <= i - 1
    BY <2>1, <1>1, <1>2
  <2>2. CASE j > i - 1
    <3>1. (a \o b)[j] = b[j - (i - 1)]
      BY <2>2, <1>1, <1>2
    <3>2. j - (i - 1) \in 1..(Len(s) - i) /\ j + 1 \in 1..Len(s) /\ i + (j - (i - 1)) = j + 1
      BY <2>2
    <3>3. b[j - (i - 1)] = s[i + (j - (i - 1))]
      BY <3>2, <1>2
    <3>4. b[j - (i - 1)] = s[j + 1]
      BY <3>2, <3>3, Zenon
    <3>5. (a \o b)[j] = s[j + 1]
      BY <3>1, <3>4, Zenon
    <3> WITNESS j + 1 \in 1..Len(s)
    <3> QED BY <3>5, Zenon
  <2>3. j <= i - 1 \/ j > i - 1
    OBVIOUS
  <2> QED BY <2>1, <2>2, <2>3, Zenon
<1>5. RemoveAt(s, i) = a \o b
  BY DEF RemoveAt, a, b
<1> QED BY <1>3, <1>4, <1>5

(* appendFailed keeps failed[] a list of pairs. *)
LEMMA AppendFailedType ==
  ASSUME NEW s \in Seq(Pair), NEW x \in Pair
  PROVE  appendFailed(s, x) \in Seq(Pair)
<1> DEFINE S == Pair
<1> HIDE DEF S
<1>1. \A t \in Seq(S), y \in S : Append(t, y) \in Seq(S) /\ Append(t, y) # << >>
  OBVIOUS
<1>2. \A t \in Seq(S) : t # << >> => Tail(t) \in Seq(S)
  OBVIOUS
<1> QED BY <1>1, <1>2 DEF appendFailed, S

(* removePassed keeps entries of passed[] and adds none. *)
LEMMA RemovePassedType ==
  ASSUME NEW s \in Seq(Pair), NEW d
  PROVE  /\ removePassed(s, d) \in Seq(Pair)
         /\ \A j \in 1..Len(removePassed(s, d)) :
              \E k \in 1..Len(s) : removePassed(s, d)[j] = s[k]
<1> DEFINE I == {i \in 1..Len(s) : s[i][1] = d}
<1>1. CASE I = {}
  BY <1>1 DEF removePassed, RemoveFirstMatch
<1>2. CASE I # {}
  <2>1. I \in SUBSET Nat /\ I \subseteq 1..Len(s)
    OBVIOUS
  <2>2. removePassed(s, d) = RemoveAt(s, Min(I))
    BY <1>2 DEF removePassed, RemoveFirstMatch, SelectInSeq
  <2> HIDE DEF I
  <2>3. Min(I) \in I
    BY <1>2, <2>1, MinIn
  <2> DEFINE m == Min(I)
  <2>4. m \in 1..Len(s)
    BY <2>1, <2>3
  <2> HIDE DEF m
  <2>5. /\ RemoveAt(s, m) \in Seq(Pair)
        /\ \A j \in 1..Len(RemoveAt(s, m)) : \E k \in 1..Len(s) : RemoveAt(s, m)[j] = s[k]
    BY <2>4, RemoveAtType
  <2> QED BY <2>2, <2>5 DEF m
<1> QED BY <1>1, <1>2

(* appendPassed keeps entries of passed[] and adds its pair only. *)
LEMMA AppendPassedType ==
  ASSUME NEW s \in Seq(Pair), NEW x \in Pair, NEW keep
  PROVE  /\ appendPassed(s, x, keep) \in Seq(Pair)
         /\ \A j \in 1..Len(appendPassed(s, x, keep)) :
              \/ appendPassed(s, x, keep)[j] = x
              \/ \E k \in 1..Len(s) : appendPassed(s, x, keep)[j] = s[k]
<1> DEFINE r == removePassed(s, x[1])
           out == Append(r, x)
           I == {i \in 1..Len(out) : out[i][1] # keep}
<1>1. /\ r \in Seq(Pair)
      /\ \A j \in 1..Len(r) : \E k \in 1..Len(s) : r[j] = s[k]
  BY RemovePassedType
<1> HIDE DEF r
<1>2. /\ out \in Seq(Pair)
      /\ \A j \in 1..Len(out) : out[j] = x \/ \E k \in 1..Len(s) : out[j] = s[k]
  BY <1>1
<1> HIDE DEF out
<1>3. CASE Len(out) > MaxPassed /\ I # {}
  <2>1. I \in SUBSET Nat /\ I \subseteq 1..Len(out)
    BY <1>2
  <2>2. appendPassed(s, x, keep) = RemoveAt(out, Min(I))
    BY <1>3 DEF appendPassed, RemoveFirstMatch, SelectInSeq, out, r
  <2> HIDE DEF I
  <2>3. Min(I) \in I
    BY <1>3, <2>1, MinIn
  <2> DEFINE m == Min(I)
  <2>4. m \in 1..Len(out)
    BY <2>1, <2>3
  <2> HIDE DEF m
  <2>5. /\ RemoveAt(out, m) \in Seq(Pair)
        /\ \A j \in 1..Len(RemoveAt(out, m)) :
             \E k \in 1..Len(out) : RemoveAt(out, m)[j] = out[k]
    BY <1>2, <2>4, RemoveAtType
  <2>6. appendPassed(s, x, keep) = RemoveAt(out, m)
    BY <2>2, Zenon DEF m
  <2>7. \A j \in 1..Len(RemoveAt(out, m)) :
          \/ RemoveAt(out, m)[j] = x
          \/ \E k \in 1..Len(s) : RemoveAt(out, m)[j] = s[k]
    <3> SUFFICES ASSUME NEW j \in 1..Len(RemoveAt(out, m))
                 PROVE  \/ RemoveAt(out, m)[j] = x
                        \/ \E k \in 1..Len(s) : RemoveAt(out, m)[j] = s[k]
      OBVIOUS
    <3>1. PICK k \in 1..Len(out) : RemoveAt(out, m)[j] = out[k]
      BY <2>5, Zenon
    <3>2. out[k] = x \/ \E i \in 1..Len(s) : out[k] = s[i]
      BY <1>2, Zenon
    <3> QED BY <3>1, <3>2, Zenon
  <2> QED BY <2>5, <2>6, <2>7, Zenon
<1>4. CASE ~(Len(out) > MaxPassed /\ I # {})
  <2>1. appendPassed(s, x, keep) = out
    BY <1>4 DEF appendPassed, RemoveFirstMatch, out, r
  <2> QED BY <1>2, <2>1
<1> QED BY <1>3, <1>4

(* An outcome changes one case, keeps the pair, and adds its verdict. *)
LEMMA WithOutcomeType ==
  ASSUME NEW e \in EvalStatus, e.rev \in Digest, e.suite \in Suite,
         NEW c \in Case, NEW o \in Outcome
  PROVE  /\ WithOutcome(e, c, o) \in EvalStatus
         /\ WithOutcome(e, c, o).rev = e.rev
         /\ WithOutcome(e, c, o).suite = e.suite
         /\ WithOutcome(e, c, o).cases = [e.cases EXCEPT ![c] = o]
<1> DEFINE cases == [e.cases EXCEPT ![c] = o]
           all == SuiteCases[e.suite]
           open == \E i \in all : ~Final(cases[i])
           enough == Meets({i \in all : cases[i] = "Passed"}, e.suite)
           f == appendFailed(e.failed, <<e.rev, e.suite>>)
           r == removePassed(e.passed, e.rev)
<1>1. cases \in [Case -> Outcome]
  BY DEF EvalStatus
<1>2. f \in Seq(Pair) /\ r \in Seq(Pair)
  BY AppendFailedType, RemovePassedType DEF EvalStatus, Pair
<1>3. WithOutcome(e, c, o) =
        IF open THEN [e EXCEPT !.cases = cases]
        ELSE IF enough THEN [e EXCEPT !.cases = cases, !.verdict = "Passed"]
        ELSE [e EXCEPT !.cases = cases, !.verdict = "Failed", !.failed = f, !.passed = r]
  BY DEF WithOutcome
<1> HIDE DEF cases, open, enough, f, r
<1>4. WithOutcome(e, c, o) \in EvalStatus
  BY <1>1, <1>2, <1>3 DEF EvalStatus
<1> QED BY <1>3, <1>4 DEF EvalStatus, cases

(* The record a run starts with keeps failed[] and is of its pair. *)
LEMMA RunStartType ==
  ASSUME NEW e \in EvalStatus, e.verdict # "" => e.rev \in Digest /\ e.suite \in Suite,
         NEW d \in Digest, NEW s \in Suite
  PROVE  RunStart(e, d, s) \in EvalStatus
<1>1. appendPassed(e.passed, <<e.rev, e.suite>>, active) \in Seq(Pair) \/ e.verdict # "Passed"
  BY AppendPassedType DEF EvalStatus, Pair
<1>2. NoCases \in [Case -> Outcome]
  BY DEF NoCases, Outcome
<1> QED BY <1>1, <1>2 DEF RunStart, EvalStatus

(***************************************************************************)
(* Type correctness.                                                       *)
(***************************************************************************)

(* A pass that resolves rolls out a digest: the pin, or what the spec mints. *)
LEMMA DesiredType ==
  ASSUME TypeOK, NEW enforced, Resolves(enforced)
  PROVE  Desired(rec.content) \in Digest
<1>1. rec.content \in Content
  BY DEF TypeOK, PassType, RecPassState, Resolves
<1>2. spec.image \in Image /\ (spec.pin = None \/ spec.pin \in Digest)
  BY DEF TypeOK, WorldType, AgentSpec
<1>3. Mint[<<spec.image, rec.content>>] \in Digest
  BY <1>1, <1>2, ConstantsAssumption
<1>4. rec.content # None
  BY DEF Resolves
<1> QED BY <1>2, <1>3, <1>4 DEF Desired, SpecDigest, Pinned

(* What assessGates leaves is a value GatesPassed can have. *)
LEMMA AssessGatesType ==
  ASSUME TypeOK
  PROVE  AssessGates \in Digest \cup {None, "False"}
BY DEF TypeOK, StatusType, AssessGates

(* A write by anyone leaves only passes among the overtaken. *)
LEMMA BusyType == Busy \subseteq Process \cup {"reconciler"}
BY DEF Busy

(* What a step leaves alone keeps its type. *)
LEMMA WorldFrame == ASSUME WorldType, UNCHANGED world PROVE WorldType'
BY DEF WorldType, world

LEMMA StatusFrame ==
  ASSUME StatusType, UNCHANGED <<observed, active, cand, cards, gatesPassed, tx, made>>
  PROVE  StatusType'
BY DEF StatusType

LEMMA EvalFrame == ASSUME EvalType, UNCHANGED eval PROVE EvalType'
BY DEF EvalType

LEMMA HistoryFrame ==
  ASSUME HistoryType, UNCHANGED <<sent, resent, good, earned, how>> PROVE HistoryType'
BY DEF HistoryType

(* A step of the reconciler's own pass, or one that overtakes passes. *)
LEMMA PassFrame ==
  ASSUME PassType, rec' \in RecPassState, UNCHANGED ev,
         stale' \subseteq stale \cup Process \cup {"reconciler"}
  PROVE  PassType'
BY DEF PassType

LEMMA IdleType == IdleRec \in RecPassState /\ NoCases \in [Case -> Outcome] /\ IdleEval \in EvalPass
BY DEF IdleRec, RecPassState, NoCases, Outcome, IdleEval, EvalPass

LEMMA InitType == Init => TypeOK
<1> SUFFICES ASSUME Init PROVE TypeOK
  OBVIOUS
<1>1. << >> \in Seq(Pair)
  OBVIOUS
<1>2. WorldType
  BY ConstantsAssumption DEF Init, WorldType, UsersOK
<1>3. StatusType
  BY DEF Init, StatusType
<1>4. NoEval \in EvalStatus
  BY <1>1, IdleType DEF NoEval, EvalStatus
<1>5. EvalType
  BY <1>4 DEF Init, EvalType, NoEval
<1>6. PassType
  BY IdleType DEF Init, PassType, IdleEval
<1>7. HistoryType
  BY DEF Init, HistoryType
<1> QED BY <1>2, <1>3, <1>5, <1>6, <1>7 DEF TypeOK

(* A step of the users or of AgentReconciler keeps every type. *)
LEMMA RecType ==
  ASSUME TypeOK,
         \/ EditSpec \/ EditSuite \/ EditSource
         \/ RecBegin \/ RecRead \/ RecReport \/ RecHold \/ RecPass \/ RecPersist \/ RecStop
  PROVE  TypeOK'
<1> USE DEF TypeOK
<1>1. CASE EditSpec
  <2>1. WorldType'
    BY <1>1, ConstantsAssumption DEF EditSpec, Edit, UsersOK, WorldType
  <2>2. StatusType' /\ EvalType' /\ HistoryType'
    BY <1>1, EvalFrame, HistoryFrame DEF EditSpec, StatusType, history
  <2>3. PassType'
    BY <1>1, BusyType, PassFrame DEF EditSpec, PassType
  <2> QED BY <2>1, <2>2, <2>3
<1>2. CASE EditSuite
  <2>1. WorldType'
    BY <1>2, ConstantsAssumption DEF EditSuite, Edit, UsersOK, WorldType
  <2>2. StatusType' /\ EvalType' /\ HistoryType'
    BY <1>2, EvalFrame, HistoryFrame, StatusFrame DEF EditSuite, status, history
  <2>3. PassType'
    BY <1>2, PassFrame DEF EditSuite, PassType
  <2> QED BY <2>1, <2>2, <2>3
<1>3. CASE EditSource
  <2>1. WorldType'
    BY <1>3, ConstantsAssumption DEF EditSource, Edit, UsersOK, WorldType
  <2>2. StatusType' /\ EvalType' /\ HistoryType'
    BY <1>3, EvalFrame, HistoryFrame, StatusFrame DEF EditSource, status, history
  <2>3. PassType'
    BY <1>3, PassFrame DEF EditSource, PassType
  <2> QED BY <2>1, <2>2, <2>3
<1>4. CASE RecBegin
  <2>1. WorldType' /\ StatusType' /\ EvalType' /\ HistoryType'
    BY <1>4, WorldFrame, EvalFrame, HistoryFrame, StatusFrame DEF RecBegin, status, history
  <2>2. PassType'
    BY <1>4, PassFrame DEF RecBegin, IdleRec, RecPassState, PassType, WorldType
  <2> QED BY <2>1, <2>2
<1>5. CASE RecRead
  <2>1. WorldType' /\ StatusType' /\ EvalType' /\ HistoryType'
    BY <1>5, WorldFrame, EvalFrame, HistoryFrame, StatusFrame DEF RecRead, status, history
  <2>2. rec' \in RecPassState
    BY <1>5 DEF RecRead, RecPassState, PassType, WorldType
  <2>3. PassType'
    BY <1>5, <2>2, PassFrame DEF RecRead, PassType
  <2> QED BY <2>1, <2>3
<1>6. CASE RecReport
  <2>1. WorldType' /\ EvalType' /\ HistoryType'
    BY <1>6, WorldFrame, EvalFrame, HistoryFrame DEF RecReport, history
  <2>2. StatusType'
    BY <1>6, AssessGatesType DEF RecReport, StatusType
  <2>3. PassType'
    BY <1>6, PassFrame, IdleType, BusyType DEF RecReport, RecEnds, Overtake, PassType
  <2> QED BY <2>1, <2>2, <2>3
<1>7. CASE RecHold
  <2>1. WorldType' /\ EvalType' /\ HistoryType'
    BY <1>7, WorldFrame, EvalFrame, HistoryFrame DEF RecHold, history
  <2>2. Desired(rec.content) \in Digest
    BY <1>7, DesiredType DEF RecHold
  <2>3. StatusType'
    BY <1>7, <2>2, AssessGatesType DEF RecHold, StatusType, MadeBy
  <2>4. PassType'
    BY <1>7, PassFrame, IdleType, BusyType DEF RecHold, RecEnds, Overtake, PassType
  <2> QED BY <2>1, <2>3, <2>4
<1>8. CASE RecPass
  <2>1. Desired(rec.content) \in Digest
    BY <1>8, DesiredType, SMTT(30) DEF RecPass
  <2> DEFINE d == Desired(rec.content)
  <2>2. d \in Digest
    BY <2>1
  <2> HIDE DEF d
  <2>3. \A e, p, h, s : GatesPassedAfter(d, e, p, h, s) \in Digest \cup {None, "False"}
    BY <2>2, AssessGatesType DEF GatesPassedAfter, StatusType
  <2>4. \A r, f : CardsAfter(d, r, f) \subseteq Digest
    BY <2>2 DEF CardsAfter, StatusType
  <2>5. MadeBy(d) \subseteq Digest
    BY <2>2 DEF MadeBy, StatusType
  <2>6. WorldType' /\ EvalType'
    BY <1>8, WorldFrame, EvalFrame DEF RecPass
  <2>7. StatusType'
    <3>1. active' \in {active, d} /\ cand' \in {None, d}
      BY <1>8, SMTT(30) DEF RecPass, d
    <3>2. cards' \subseteq Digest
      BY <1>8, <2>4, SMTT(30) DEF RecPass, d
    <3>3. gatesPassed' \in Digest \cup {None, "False"}
      BY <1>8, <2>3, SMTT(30) DEF RecPass, d
    <3>4. made' \subseteq Digest /\ observed' \in BOOLEAN
      BY <1>8, <2>5, SMTT(30) DEF RecPass, d
    <3>5. tx' \in {"none", "waits", "lock"}
      <4>1. tx' \in Reads.tx
        BY <1>8, Zenon DEF RecPass
      <4>2. Reads.tx \subseteq {"none", "waits", "lock"}
        BY ConstantsAssumption, Zenon DEF ReadsOK
      <4> QED BY <4>1, <4>2, Zenon
    <3>6. active' \in Digest \cup {None} /\ cand' \in Digest \cup {None}
      BY <2>2, <3>1 DEF StatusType
    <3> QED BY <3>2, <3>3, <3>4, <3>5, <3>6, Zenon DEF StatusType
  <2>8. PassType'
    BY <1>8, PassFrame, IdleType, BusyType DEF RecPass, RecEnds, Overtake, PassType
  <2>9. HistoryType'
    BY <1>8 DEF RecPass, HistoryType, history
  <2> QED BY <2>6, <2>7, <2>8, <2>9
<1>9. CASE RecPersist
  <2>1. WorldType' /\ EvalType' /\ HistoryType'
    BY <1>9, WorldFrame, EvalFrame, HistoryFrame DEF RecPersist, history
  <2>2. Desired(rec.content) \in Digest
    BY <1>9, DesiredType DEF RecPersist
  <2>3. StatusType'
    BY <1>9, <2>2, ConstantsAssumption DEF RecPersist, StatusType, MadeBy, ReadsOK
  <2>4. PassType'
    BY <1>9, PassFrame, BusyType DEF RecPersist, Overtake, PassType
  <2> QED BY <2>1, <2>3, <2>4
<1>10. CASE RecStop
  <2>1. WorldType' /\ EvalType' /\ HistoryType'
    BY <1>10, WorldFrame, EvalFrame, HistoryFrame DEF RecStop, history, status
  <2>2. rec.content = None \/ Desired(rec.content) \in Digest
    BY ConstantsAssumption
       DEF Desired, Pinned, SpecDigest, PassType, RecPassState, WorldType, AgentSpec
  <2>3. StatusType'
    BY <1>10, <2>2 DEF RecStop, StatusType, MadeBy, status
  <2>4. PassType'
    BY <1>10, PassFrame, IdleType DEF RecStop, RecEnds, PassType
  <2> QED BY <2>1, <2>3, <2>4
<1> QED BY <1>1, <1>2, <1>3, <1>4, <1>5, <1>6, <1>7, <1>8, <1>9, <1>10

(* A pass of EvalReconciler that ends leaves every other as it was. *)
LEMMA EndsType ==
  ASSUME PassType, NEW p \in Process, EvalEnds(p), UNCHANGED rec,
         stale' \subseteq stale \cup Process \cup {"reconciler"}
  PROVE  PassType'
<1>1. ev' \in [Process -> EvalPass]
  BY IdleType DEF EvalEnds, PassType
<1>2. \A q \in Process : ev'[q] = ev[q] \/ ev'[q] = IdleEval
  BY DEF EvalEnds, PassType
<1>3. IdleEval.pc = "idle"
  BY DEF IdleEval
<1> QED BY <1>1, <1>2, <1>3 DEF PassType

(* nextCase picks its case from the suite of the pass. *)
LEMMA SuiteCaseType ==
  ASSUME TypeOK, NEW p \in Process, ev[p].pc # "idle"
  PROVE  /\ SuiteCases[ev[p].suite] \in SUBSET Case
         /\ Sending(p) \in SUBSET Case
         /\ Unsent(p) \in SUBSET Case
BY ConstantsAssumption DEF TypeOK, PassType, Sending, Unsent

(* A step of a pass of EvalReconciler keeps every type. *)
LEMMA EvalStepType ==
  ASSUME TypeOK, NEW p \in Process,
         \/ EvalBegin(p) \/ EvalCheck(p) \/ StartRun(p) \/ Interrupt(p) \/ Claim(p)
         \/ Send(p) \/ RecordOutcome(p) \/ DropOutcome(p) \/ EvalStop(p)
  PROVE  TypeOK'
<1> USE DEF TypeOK
<1>0. ev[p] \in EvalPass /\ ev \in [Process -> EvalPass]
  BY DEF PassType
<1>1. CASE EvalBegin(p)
  <2>1. WorldType' /\ StatusType' /\ EvalType' /\ HistoryType'
    BY <1>1, WorldFrame, EvalFrame, HistoryFrame, StatusFrame DEF EvalBegin, status, history
  <2> DEFINE x == [IdleEval EXCEPT !.pc = "began", !.rev = cand, !.suite = suite,
                                   !.seen = eval.cases]
  <2>3. cand \in Digest /\ suite \in Suite /\ eval.cases \in [Case -> Outcome]
    BY <1>1 DEF EvalBegin, CandidatePending, StatusType, WorldType, EvalType, EvalStatus
  <2>4. x \in EvalPass /\ x.pc = "began" /\ x.rev \in Digest /\ x.suite \in Suite
    BY <2>3, IdleType DEF EvalPass
  <2>5. ev' = [ev EXCEPT ![p] = x] /\ UNCHANGED rec /\ stale' \subseteq stale
    BY <1>1 DEF EvalBegin
  <2> HIDE DEF x
  <2>6. PassType'
    BY <2>4, <2>5 DEF PassType
  <2> QED BY <2>1, <2>6
<1>2. CASE EvalCheck(p)
  <2>1. WorldType' /\ StatusType' /\ EvalType' /\ HistoryType'
    BY <1>2, WorldFrame, EvalFrame, HistoryFrame, StatusFrame DEF EvalCheck, status, history
  <2>2. PassType'
    BY <1>2, SMTT(30) DEF EvalCheck, PassType, EvalPass
  <2> QED BY <2>1, <2>2
<1>3. CASE StartRun(p)
  <2>1. WorldType' /\ StatusType'
    BY <1>3, WorldFrame, StatusFrame DEF StartRun, status
  <2>2. ev[p].rev \in Digest /\ ev[p].suite \in Suite
    BY <1>3 DEF StartRun, PassType
  <2>3. RunStart(eval, ev[p].rev, ev[p].suite) \in EvalStatus
    BY <2>2, RunStartType DEF EvalType
  <2>4. eval' \in EvalStatus /\ eval'.rev = ev[p].rev /\ eval'.suite = ev[p].suite
    BY <1>3, <2>3 DEF StartRun, RunStart
  <2>5. EvalType'
    BY <2>2, <2>4 DEF EvalType
  <2>6. HistoryType'
    BY <1>3 DEF StartRun, HistoryType, status
  <2>7. ev' \in [Process -> EvalPass]
    BY <1>0, <1>3, IdleType, ZenonT(60) DEF StartRun, EvalPass
  <2>8. \A q \in Process : /\ ev'[q].pc = ev[q].pc /\ ev'[q].rev = ev[q].rev
                           /\ ev'[q].suite = ev[q].suite /\ ev'[q].case = ev[q].case
    BY <1>0, <1>3 DEF StartRun, EvalPass
  <2>9. PassType'
    BY <1>3, <2>7, <2>8, BusyType DEF PassType, StartRun, Overtake
  <2> QED BY <2>1, <2>5, <2>6, <2>9
<1>4. CASE Interrupt(p)
  <2>1. WorldType' /\ StatusType' /\ HistoryType'
    BY <1>4, WorldFrame, StatusFrame, HistoryFrame DEF Interrupt, status, history
  <2>2. FirstOf(Sending(p)) \in Case
    BY <1>4, SuiteCaseType, FirstOfIn DEF Interrupt
  <2> DEFINE e == [eval EXCEPT !.cases = ev[p].seen]
  <2>3. e \in EvalStatus /\ e.rev \in Digest /\ e.suite \in Suite
    BY <1>0, <1>4 DEF Interrupt, EvalType, EvalStatus, EvalPass
  <2>4. eval' = WithOutcome(e, FirstOf(Sending(p)), "Failed")
    BY <1>4 DEF Interrupt
  <2> HIDE DEF e
  <2>5. EvalType'
    BY <2>2, <2>3, <2>4, WithOutcomeType, ZenonT(60) DEF EvalType, Outcome
  <2>6. PassType'
    BY <1>4, EndsType, BusyType DEF Interrupt, Overtake
  <2> QED BY <2>1, <2>5, <2>6
<1>5. CASE Claim(p)
  <2>1. WorldType' /\ StatusType' /\ HistoryType'
    BY <1>5, WorldFrame, StatusFrame, HistoryFrame DEF Claim, status, history
  <2> DEFINE c == FirstOf(Unsent(p))
  <2>2. c \in Case
    BY <1>5, SuiteCaseType, FirstOfIn DEF Claim
  <2>3. /\ eval' = [eval EXCEPT !.cases = [ev[p].seen EXCEPT ![c] = p]]
        /\ ev' = [ev EXCEPT ![p].pc = "claimed", ![p].case = c, ![p].current = TRUE,
                            ![p].seen = NoCases]
        /\ UNCHANGED rec
    BY <1>5 DEF Claim
  <2> HIDE DEF c
  <2>4. [ev[p].seen EXCEPT ![c] = p] \in [Case -> Outcome]
    BY <1>0, <2>2 DEF EvalPass, Outcome
  <2>5. EvalType'
    BY <2>3, <2>4 DEF EvalType, EvalStatus
  <2>6. /\ ev' \in [Process -> EvalPass] /\ ev'[p].case \in Case
        /\ ev'[p].rev = ev[p].rev /\ ev'[p].suite = ev[p].suite
        /\ \A q \in Process \ {p} : ev'[q] = ev[q]
    BY <1>0, <2>2, <2>3, IdleType DEF EvalPass
  <2>7. ev[p].pc # "idle" /\ stale' \subseteq Process \cup {"reconciler"}
    BY <1>5, BusyType DEF Claim, Overtake, PassType
  <2>8. PassType'
    BY <2>3, <2>6, <2>7 DEF PassType
  <2> QED BY <2>1, <2>5, <2>8
<1>6. CASE Send(p)
  <2>1. WorldType' /\ StatusType' /\ EvalType'
    BY <1>6, WorldFrame, StatusFrame, EvalFrame DEF Send, status
  <2>2. ev[p].case \in Case /\ <<ev[p].rev, ev[p].suite>> \in Pair
    BY <1>6 DEF Send, PassType, Pair
  <2>3. HistoryType'
    <3>1. sent' \subseteq Case /\ good' \subseteq Case
      BY <1>6, <2>2 DEF Send, HistoryType
    <3>2. earned' \subseteq Pair /\ how' = how
      BY <1>6, <2>2 DEF Send, HistoryType, status
    <3>3. resent' \in BOOLEAN
      BY <1>6 DEF Send, HistoryType
    <3> QED BY <3>1, <3>2, <3>3 DEF HistoryType
  <2>4. PICK ok \in BOOLEAN : ev' = [ev EXCEPT ![p].pc = "answered", ![p].ok = ok]
    BY <1>6, ConstantsAssumption DEF Send, ReadsOK
  <2>5. PassType'
    BY <1>0, <1>6, <2>4, ZenonT(60) DEF PassType, EvalPass, Send
  <2> QED BY <2>1, <2>3, <2>5
<1>7. CASE RecordOutcome(p)
  <2>1. WorldType' /\ StatusType' /\ HistoryType'
    BY <1>7, WorldFrame, StatusFrame, HistoryFrame DEF RecordOutcome, status, history
  <2>2. ev[p].case \in Case /\ eval.rev \in Digest /\ eval.suite \in Suite
    BY <1>7 DEF RecordOutcome, ClaimStands, Recorded, PassType
  <2> DEFINE o == IF ev[p].ok THEN "Passed" ELSE "Failed"
  <2>3. o \in Outcome /\ eval' = WithOutcome(eval, ev[p].case, o)
    BY <1>7 DEF RecordOutcome, Outcome
  <2> HIDE DEF o
  <2>5. EvalType'
    BY <2>2, <2>3, WithOutcomeType DEF EvalType
  <2>4. PassType'
    BY <1>7, EndsType, BusyType DEF RecordOutcome, Overtake
  <2> QED BY <2>1, <2>4, <2>5
<1>8. CASE DropOutcome(p)
  BY <1>8, WorldFrame, StatusFrame, HistoryFrame, EvalFrame, EndsType
     DEF DropOutcome, status, history
<1>9. CASE EvalStop(p)
  BY <1>9, WorldFrame, StatusFrame, HistoryFrame, EvalFrame, EndsType
     DEF EvalStop, status, history
<1> QED BY <1>1, <1>2, <1>3, <1>4, <1>5, <1>6, <1>7, <1>8, <1>9

(* Clearing a superseded verdict keeps every type. *)
LEMMA ClearType == ASSUME TypeOK, ClearSuperseded PROVE TypeOK'
<1> USE DEF TypeOK
<1>1. WorldType' /\ StatusType' /\ HistoryType'
  BY WorldFrame, StatusFrame, HistoryFrame DEF ClearSuperseded, status, history
<1>2. EvalType'
  BY IdleType DEF ClearSuperseded, EvalType, EvalStatus
<1>3. PassType'
  BY PassFrame, BusyType DEF ClearSuperseded, PassType
<1> QED BY <1>1, <1>2, <1>3

(* A step that changes nothing keeps every type. *)
LEMMA StutterType == ASSUME TypeOK, UNCHANGED vars PROVE TypeOK'
BY WorldFrame, StatusFrame, HistoryFrame, EvalFrame, PassFrame
   DEF TypeOK, PassType, vars, status, history

(* Every variable keeps its type in every behaviour of the two             *)
(* controllers: no write records a revision that was not resolved, and no  *)
(* verdict is left without the pair it belongs to.                         *)
THEOREM TypeCorrect == Spec => []TypeOK
<1>1. TypeOK /\ [Next]_vars => TypeOK'
  BY RecType, EvalStepType, ClearType, StutterType DEF Next
<1> QED BY <1>1, InitType, PTL DEF Spec
=============================================================================
