------------------------------ MODULE EvalGate ------------------------------
(***************************************************************************)
(* The promotion gate of one Agent, as its two controllers run it.         *)
(*                                                                         *)
(* AgentReconciler (agent_controller.go) computes the digest the spec      *)
(* mints, records it as the candidate, and promotes it once the gate is    *)
(* satisfied.  EvalReconciler (evalcontroller.go) sends the candidate the  *)
(* cases of the EvalSuite, one per pass, and records a verdict.  They      *)
(* share nothing but the Agent object: each writes status with a           *)
(* resourceVersion compare-and-swap, and neither takes a lock.             *)
(*                                                                         *)
(* A pass is split at the points where it reads something that can change  *)
(* without changing the Agent (an env source, the suite) and where it      *)
(* leaves the process (a case sent to the candidate).  A pass whose        *)
(* snapshot of the Agent was overtaken by another write is in `stale':     *)
(* its own write is refused with Conflict, so it only stops.  The reads of *)
(* the Agent itself are therefore folded into the write they lead to: a    *)
(* write that is not refused was computed from the object it replaces.     *)
(***************************************************************************)
EXTENDS Integers, Sequences, FiniteSets, FiniteSetsExt, SequencesExt

CONSTANTS
  Image,        \* what spec.runtime may say, apart from its env sources
  Content,      \* what the referenced ConfigMap or Secret may hold
  Digest,       \* revision digests
  Mint,         \* Mint[image, content]: the digest a spec and its sources give
  Suite,        \* the digests of the EvalSuite's specs
  Case,         \* case ids, ordered as sort.Strings orders them
  SuiteCases,   \* SuiteCases[s]: the ids in s's dataset
  Threshold,    \* Threshold[s]: thousandths of the cases that must pass
  Process,      \* operator processes: more than one while a lease changes hands
  None,         \* the empty string, a nil pointer, an object that is absent
  MaxFailed,    \* maxFailedPairs, 10 in the code
  MaxPassed,    \* maxPassedPairs, 10 in the code
  MaxEdits,     \* bound: edits of the spec, the suite and the env source
  Users,        \* what users may write (see UsersOK)
  Reads         \* what a pass may find outside the Agent (see ReadsOK)

(***************************************************************************)
(* Users.spec, .suite, .content: the specs of the Agent, the suites and    *)
(* the contents of the env source that users write; None is an absent one. *)
(* Users.start: what they are when the Agent is created.                   *)
(***************************************************************************)
AgentSpec == [image : Image, gated : BOOLEAN, pin : Digest \cup {None}]

UsersOK ==
  /\ Users.spec \subseteq AgentSpec
  /\ Users.suite \subseteq Suite \cup {None}
  /\ Users.content \subseteq Content \cup {None}
  /\ Users.start \subseteq AgentSpec \X (Suite \cup {None}) \X (Content \cup {None})

(***************************************************************************)
(* Reads.ready, .hold, .installed: whether the workload is available, the  *)
(* I1 auth hold stands, the EvalSuite CRD is installed.  Reads.card: a     *)
(* card fetch that is not due, that succeeds, that fails.  Reads.tx: the   *)
(* -auth transaction a pass leaves recorded.  Reads.answer: whether the    *)
(* candidate's answer passes a case.  Reads.fault: whether the run         *)
(* namespace, material, workload or Service step may fail.                 *)
(***************************************************************************)
ReadsOK ==
  /\ Reads.ready \subseteq BOOLEAN
  /\ Reads.hold \subseteq BOOLEAN
  /\ Reads.installed \subseteq BOOLEAN
  /\ Reads.card \subseteq {"notDue", "valid", "failed"}
  /\ Reads.tx \subseteq {"none", "waits", "lock"}
  /\ Reads.answer \subseteq BOOLEAN
  /\ Reads.fault \in BOOLEAN

ASSUME ConstantsAssumption ==
  /\ Mint \in [Image \X Content -> Digest]
  /\ Case \subseteq Nat
  /\ IsFiniteSet(Case)
  /\ SuiteCases \in [Suite -> (SUBSET Case) \ {{}}]
  /\ Threshold \in [Suite -> 1..1000]
  /\ MaxFailed \in Nat \ {0}
  /\ MaxPassed \in Nat \ {0}
  /\ MaxEdits \in Nat
  /\ None \notin Image \cup Content \cup Digest \cup Suite \cup Case
  /\ None # "gate"
  /\ "False" \notin Digest
  /\ Process \cap {"none", "Passed", "Failed", "reconciler"} = {}
  /\ UsersOK
  /\ ReadsOK

VARIABLES
  spec,         \* the Agent's spec: image, whether gates are declared, the pin
  observed,     \* status.observedGeneration = metadata.generation
  active,       \* status.activeRevisionDigest
  cand,         \* status.candidateRevisionDigest
  cards,        \* the digests status.cards[] records a card digest for
  gatesPassed,  \* GatesPassed: absent, "False", or True for a digest
  tx,           \* status.auth.transaction, as the eval controller reads it
  eval,         \* status.eval
  made,         \* the digests a workload was created for
  suite,        \* the EvalSuite spec.gates names: its digest, or None
  content,      \* the env source's content, or None while it is missing
  rec,          \* AgentReconciler's pass
  ev,           \* EvalReconciler's pass in each process
  stale,        \* the passes whose snapshot of the Agent was overtaken
  edits         \* edits made so far, up to MaxEdits

(***************************************************************************)
(* History variables: no action of the code reads them.                    *)
(***************************************************************************)
VARIABLES
  sent,         \* the cases of the recorded run sent to the candidate
  resent,       \* some case was sent twice in one run
  good,         \* those of them the candidate answered as the case expects
  earned,       \* <<digest, suite>> whose answers in one run met the threshold
  how           \* how active was promoted: "gate", "pin" or "ungated"

world == <<spec, suite, content, edits>>
history == <<sent, resent, good, earned>>
status == <<observed, active, cand, cards, gatesPassed, tx, how>>
vars == <<world, status, eval, made, rec, ev, stale, history>>

Pair == Digest \X Suite
Outcome == {"none", "Passed", "Failed"} \cup Process
NoCases == [c \in Case |-> "none"]
IdleRec == [pc |-> "idle", content |-> None, suite |-> None]
IdleEval == [pc |-> "idle", rev |-> None, suite |-> None, seen |-> NoCases,
             case |-> None, current |-> FALSE, ok |-> FALSE]
NoEval == [rev |-> None, suite |-> None, verdict |-> "", cases |-> NoCases,
           failed |-> <<>>, passed |-> <<>>]

WorldType ==
  /\ spec \in AgentSpec
  /\ suite \in Suite \cup {None}
  /\ content \in Content \cup {None}
  /\ edits \in Nat

StatusType ==
  /\ observed \in BOOLEAN
  /\ active \in Digest \cup {None}
  /\ cand \in Digest \cup {None}
  /\ cards \subseteq Digest
  /\ gatesPassed \in Digest \cup {None, "False"}
  /\ tx \in {"none", "waits", "lock"}
  /\ made \subseteq Digest

EvalStatus ==
  [rev : Digest \cup {None}, suite : Suite \cup {None},
   verdict : {"", "Running", "Passed", "Failed"}, cases : [Case -> Outcome],
   failed : Seq(Pair), passed : Seq(Pair)]

EvalPass ==
  [pc : {"idle", "began", "checked", "claimed", "answered"},
   rev : Digest \cup {None}, suite : Suite \cup {None}, seen : [Case -> Outcome],
   case : Case \cup {None}, current : BOOLEAN, ok : BOOLEAN]

RecPassState ==
  [pc : {"idle", "began", "read"}, content : Content \cup {None}, suite : Suite \cup {None}]

(* A verdict that is not empty belongs to a pair, and so does a pass. *)
EvalType ==
  /\ eval \in EvalStatus
  /\ eval.verdict # "" => eval.rev \in Digest /\ eval.suite \in Suite

PassType ==
  /\ rec \in RecPassState
  /\ ev \in [Process -> EvalPass]
  /\ \A p \in Process :
       /\ ev[p].pc # "idle" => ev[p].rev \in Digest /\ ev[p].suite \in Suite
       /\ ev[p].pc \in {"claimed", "answered"} => ev[p].case \in Case
  /\ stale \subseteq Process \cup {"reconciler"}

HistoryType ==
  /\ sent \subseteq Case
  /\ resent \in BOOLEAN
  /\ good \subseteq Case
  /\ earned \subseteq Pair
  /\ how \in {None, "gate", "pin", "ungated"}

(* Every variable keeps its type: in particular a pass never records a     *)
(* revision it did not resolve, and a verdict never lacks its pair.        *)
TypeOK == WorldType /\ StatusType /\ EvalType /\ PassType /\ HistoryType

Init ==
  /\ \E start \in Users.start : spec = start[1] /\ suite = start[2] /\ content = start[3]
  /\ observed = FALSE
  /\ active = None /\ cand = None /\ cards = {} /\ gatesPassed = None
  /\ tx = "none" /\ eval = NoEval /\ made = {}
  /\ rec = IdleRec
  /\ ev = [p \in Process |-> IdleEval]
  /\ stale = {} /\ edits = 0
  /\ sent = {} /\ resent = FALSE /\ good = {} /\ earned = {} /\ how = None

(***************************************************************************)
(* A write of the Agent by `self' overtakes every other pass in flight.    *)
(* A pass that has claimed its case re-reads the Agent before it records   *)
(* an outcome (record), so what it read before no longer matters.          *)
(***************************************************************************)
Busy == {p \in Process : ev[p].pc \in {"began", "checked"}}
        \cup (IF rec.pc = "idle" THEN {} ELSE {"reconciler"})
Overtake(self) == stale' = (stale \cup Busy) \ {self}

(* Mutant: a status patch sent without the optimistic lock. *)
FreshIgnored(self) == TRUE

(* The API server takes a write whose resourceVersion is the object's. *)
Fresh(self) == self \notin stale

-----------------------------------------------------------------------------
(***************************************************************************)
(* Users: the spec, the suite and the env source.                          *)
(***************************************************************************)
Edit == edits < MaxEdits /\ edits' = edits + 1

EditSpec ==
  /\ Edit
  /\ spec' \in Users.spec \ {spec}
  /\ observed' = FALSE
  /\ stale' = stale \cup Busy
  /\ UNCHANGED <<active, cand, cards, gatesPassed, tx, how, eval, made, suite, content, rec, ev,
                 history>>

(* Neither write below touches the Agent, so no pass in flight is overtaken. *)
EditSuite ==
  /\ Edit
  /\ suite' \in Users.suite \ {suite}
  /\ UNCHANGED <<spec, content, status, eval, made, rec, ev, stale, history>>

EditSource ==
  /\ Edit
  /\ content' \in Users.content \ {content}
  /\ UNCHANGED <<spec, suite, status, eval, made, rec, ev, stale, history>>

-----------------------------------------------------------------------------
(***************************************************************************)
(* What the predicates of both controllers read.                           *)
(***************************************************************************)
CandidatePending == cand # None /\ cand # active

Pinned == spec.pin # None

SpecDigest(c) == IF c = None THEN None ELSE Mint[<<spec.image, c>>]

Desired(c) == IF Pinned THEN spec.pin ELSE SpecDigest(c)

PairFailed(d, s) == \E i \in 1..Len(eval.failed) : eval.failed[i] = <<d, s>>

PassedEntry(d) == \E i \in 1..Len(eval.passed) : eval.passed[i][1] = d

EvalPassedFor(d) == eval.verdict = "Passed" /\ eval.rev = d

(* A Lock that cannot finish on its own passes does not stop the eval. *)
ExemptTransaction == tx = "lock" /\ active \notin cards

-----------------------------------------------------------------------------
(***************************************************************************)
(* AgentReconciler.                                                        *)
(***************************************************************************)
RecBegin ==
  /\ rec.pc = "idle"
  /\ rec' = [IdleRec EXCEPT !.pc = "began", !.content = content]
  /\ stale' = stale \ {"reconciler"}
  /\ UNCHANGED <<world, status, eval, made, ev, history>>

(***************************************************************************)
(* pinRule and gateFor read the suite uncached.  None stands for every     *)
(* answer that is not a digest: absent, unreadable, undigestable, or an    *)
(* Agent CRD that would prune the eval record.                             *)
(***************************************************************************)
RecRead ==
  /\ rec.pc = "began"
  /\ \E s \in {suite} \cup (IF Reads.fault THEN {None} ELSE {}) :
       rec' = [rec EXCEPT !.pc = "read", !.suite = s]
  /\ UNCHANGED <<world, status, eval, made, ev, stale, history>>

PinIneligible(pin, specDigest, s) ==
  /\ pin # active
  /\ \/ pin = specDigest
     \/ s # None /\ PairFailed(pin, s)

(* Mutant: an env source that is missing does not end the pass. *)
ResolvesUnread(enforced) == Pinned => spec.pin \in made

(* A pass that resolves a revision to roll out, past every early return. *)
Resolves(enforced) ==
  /\ rec.content # None
  /\ Pinned => /\ spec.pin \in made
               /\ enforced => ~PinIneligible(spec.pin, SpecDigest(rec.content), rec.suite)

RecEnds == rec' = IdleRec

(* assessGates: with no gate declared, a recorded GatesPassed turns False. *)
AssessGates == IF ~spec.gated /\ gatesPassed # None THEN "False" ELSE gatesPassed

MadeBy(d) == IF Pinned THEN made ELSE made \cup {d}

(***************************************************************************)
(* A return before the supersede step: an unresolved env source, a run     *)
(* namespace that is unavailable, a pin that does not resolve or is not    *)
(* eligible, a collision with a recorded revision.  The recorded release   *)
(* and its candidate are left as they were.                                *)
(***************************************************************************)
RecReport ==
  /\ rec.pc \in {"began", "read"}
  /\ Fresh("reconciler")
  /\ Reads.fault \/ (rec.pc = "read" /\ ~\E i \in Reads.installed : Resolves(spec.gated /\ i))
  /\ observed' = TRUE
  /\ gatesPassed' = AssessGates
  /\ IF <<observed', gatesPassed'>> = <<observed, gatesPassed>>
     THEN stale' = stale ELSE Overtake("reconciler")
  /\ RecEnds
  /\ UNCHANGED <<world, active, cand, cards, tx, how, eval, made, ev, history>>

(***************************************************************************)
(* A return after it: material, workload or Service failed.  A candidate   *)
(* that is no longer desired is superseded by the same write.              *)
(***************************************************************************)
RecHold ==
  /\ rec.pc = "read"
  /\ Fresh("reconciler")
  /\ Reads.fault
  /\ \E installed \in Reads.installed : Resolves(spec.gated /\ installed)
  /\ observed' = TRUE
  /\ cand' = IF cand = Desired(rec.content) THEN cand ELSE None
  /\ gatesPassed' = AssessGates
  /\ made' = MadeBy(Desired(rec.content))
  /\ IF <<observed', cand', gatesPassed'>> = <<observed, cand, gatesPassed>>
     THEN stale' = stale ELSE Overtake("reconciler")
  /\ RecEnds
  /\ UNCHANGED <<world, active, cards, tx, how, eval, ev, history>>

CardsAfter(d, ready, fetch) ==
  CASE ready /\ fetch = "valid"  -> cards \cup {d}
    [] ready /\ fetch = "failed" -> cards \ {d}
    [] OTHER                     -> cards

(* Mutant: the verdict is not compared with the revision. *)
GateGrantsAnyRevision(d, s, recorded) ==
  s # None /\ eval.suite = s /\ eval.verdict = "Passed" /\ d \in recorded

(* decideGate: the verdict must be for this revision and for the suite    *)
(* digest this pass read, and the revision's card must be recorded.       *)
GateGrants(d, s, recorded) ==
  /\ s # None
  /\ eval.rev = d
  /\ eval.suite = s
  /\ eval.verdict = "Passed"
  /\ d \in recorded

GateSatisfied(d, enforced, recorded) ==
  \/ active = d
  \/ Pinned
  \/ ~enforced
  \/ GateGrants(d, rec.suite, recorded)

(* Mutant: every promotion of a gated Agent is reported as passed. *)
GatesPassedPromoted(d, enforced, promotes, held, satisfied) ==
  IF enforced /\ promotes THEN d ELSE gatesPassed

GatesPassedAfter(d, enforced, promotes, held, satisfied) ==
  CASE ~enforced -> AssessGates
    [] promotes /\ Pinned /\ ~EvalPassedFor(d) -> gatesPassed
    [] promotes -> IF EvalPassedFor(d) \/ PassedEntry(d) THEN d ELSE "False"
    [] held \/ ~satisfied -> "False"
    [] OTHER -> gatesPassed

(***************************************************************************)
(* A pass that reaches its end: the card step, the gate decision, the      *)
(* promotion switch, the gateway step (which leaves a transaction          *)
(* recorded or not) and the garbage collection, which prunes the cards of  *)
(* revisions it collects.                                                  *)
(***************************************************************************)
RecPass ==
  /\ rec.pc = "read"
  /\ Fresh("reconciler")
  /\ \E ready \in Reads.ready, hold \in Reads.hold, installed \in Reads.installed,
        fetch \in Reads.card :
       LET d         == Desired(rec.content)
           enforced  == spec.gated /\ installed
           recorded  == CardsAfter(d, ready, fetch)
           satisfied == GateSatisfied(d, enforced, recorded)
           held      == ready /\ hold /\ ~Pinned /\ active \notin {None, d}
           promotes  == ready /\ ~held /\ satisfied
       IN
       /\ Resolves(enforced)
       /\ active' = IF promotes THEN d ELSE active
       /\ cand' = IF promotes \/ active = d THEN None ELSE d
       /\ \E collected \in SUBSET (recorded \ {active', cand'}) : cards' = recorded \ collected
       /\ gatesPassed' = GatesPassedAfter(d, enforced, promotes, held, satisfied)
       /\ how' = IF active' = active THEN how
                 ELSE IF ~enforced THEN "ungated" ELSE IF Pinned THEN "pin" ELSE "gate"
       /\ made' = MadeBy(d)
  /\ observed' = TRUE
  /\ tx' \in Reads.tx
  /\ IF status' = status THEN stale' = stale ELSE Overtake("reconciler")
  /\ RecEnds
  /\ UNCHANGED <<world, eval, ev, history>>

(* persistStatus: the gateway step records a transaction in mid-pass. *)
RecPersist ==
  /\ rec.pc = "read"
  /\ Fresh("reconciler")
  /\ \E installed \in Reads.installed : Resolves(spec.gated /\ installed)
  /\ tx' \in Reads.tx \ {tx}
  /\ made' = MadeBy(Desired(rec.content))
  /\ Overtake("reconciler")
  /\ UNCHANGED <<world, observed, active, cand, cards, gatesPassed, how, eval, rec, ev, history>>

(* A conflict, a failed call or a crash ends the pass; its workload stands. *)
RecStop ==
  /\ rec.pc # "idle"
  /\ RecEnds
  /\ made' \in {made, IF rec.content = None THEN made ELSE MadeBy(Desired(rec.content))}
  /\ stale' = stale \ {"reconciler"}
  /\ UNCHANGED <<world, status, eval, ev, history>>

-----------------------------------------------------------------------------
(***************************************************************************)
(* What EvalReconciler writes into status.eval.                            *)
(***************************************************************************)
(* Mutant: over the cap, the newest entry goes. *)
appendFailedFull(failed, pair) ==
  LET out == Append(failed, pair)
  IN  IF Len(out) > MaxFailed THEN Front(out) ELSE out

appendFailed(failed, pair) ==
  LET out == Append(failed, pair)
  IN  IF Len(out) > MaxFailed THEN Tail(out) ELSE out

(* Mutant: a failed run leaves the revision's earlier pass on record. *)
removePassedNot(passed, d) == passed

(* passed[] holds one entry per revision digest, so one removal is enough. *)
removePassed(passed, d) == RemoveFirstMatch(passed, LAMBDA x : x[1] = d)

(* Mutant: over the cap, the oldest entry goes, the active revision's too. *)
appendPassedOldest(passed, pair, keep) ==
  LET out == Append(removePassed(passed, pair[1]), pair)
  IN  IF Len(out) > MaxPassed THEN Tail(out) ELSE out

(* Over the cap, the oldest entry that is not the active revision's goes.  *)
appendPassed(passed, pair, keep) ==
  LET out == Append(removePassed(passed, pair[1]), pair)
  IN  IF Len(out) > MaxPassed THEN RemoveFirstMatch(out, LAMBDA x : x[1] # keep) ELSE out

Passes(passed, total, threshold) == total > 0 /\ passed * 1000 >= threshold * total

Final(outcome) == outcome \in {"Passed", "Failed"}

Meets(passed, s) ==
  Passes(Cardinality(passed \cap SuiteCases[s]), Cardinality(SuiteCases[s]), Threshold[s])

(* withOutcome: the case's record and, with the last one, the verdict. *)
WithOutcome(e, c, outcome) ==
  LET cases  == [e.cases EXCEPT ![c] = outcome]
      all    == SuiteCases[e.suite]
      passed == {i \in all : cases[i] = "Passed"}
  IN IF \E i \in all : ~Final(cases[i])
     THEN [e EXCEPT !.cases = cases]
     ELSE IF Meets(passed, e.suite)
     THEN [e EXCEPT !.cases = cases, !.verdict = "Passed"]
     ELSE [e EXCEPT !.cases = cases, !.verdict = "Failed",
                    !.failed = appendFailed(@, <<e.rev, e.suite>>),
                    !.passed = removePassed(@, e.rev)]

(* The run-start record: the pair it replaces joins passed[] if it passed. *)
RunStart(e, d, s) ==
  [rev |-> d, suite |-> s, verdict |-> "Running", cases |-> NoCases, failed |-> e.failed,
   passed |-> IF e.verdict = "Passed" THEN appendPassed(e.passed, <<e.rev, e.suite>>, active)
              ELSE e.passed]

FirstOf(S) == CHOOSE c \in S : \A o \in S : c <= o

-----------------------------------------------------------------------------
(***************************************************************************)
(* EvalReconciler.                                                         *)
(***************************************************************************)
EvalEnds(p) == ev' = [ev EXCEPT ![p] = IdleEval]

Superseded ==
  /\ eval.verdict = "Failed"
  /\ eval.rev # (IF CandidatePending THEN cand ELSE active)

(* clearSuperseded ends the pass it writes in: nothing is carried over. *)
ClearSuperseded ==
  /\ spec.gated /\ observed /\ tx = "none"
  /\ Superseded
  /\ eval' = [eval EXCEPT !.verdict = "", !.cases = NoCases]
  /\ stale' = stale \cup Busy
  /\ UNCHANGED <<world, status, made, rec, ev, history>>

(***************************************************************************)
(* The live read of the Agent, the send predicates over it, and the        *)
(* uncached read of the suite.  The EvalSuite CRD, the workload and the I1 *)
(* hold may stop a pass here too: then it does not begin.                  *)
(***************************************************************************)
EvalBegin(p) ==
  /\ ev[p].pc = "idle"
  /\ spec.gated /\ observed
  /\ tx = "none" \/ ExemptTransaction
  /\ tx = "none" => ~Superseded
  /\ CandidatePending
  /\ cand \in cards
  /\ suite # None
  /\ ev' = [ev EXCEPT ![p] = [IdleEval EXCEPT !.pc = "began", !.rev = cand, !.suite = suite,
                                            !.seen = eval.cases]]
  /\ stale' = stale \ {p}
  /\ UNCHANGED <<world, status, eval, made, rec, history>>

(* pinnedRollbackHolds: the current spec does not mint the candidate. *)
PinnedRollbackHolds ==
  IF content = None THEN ~Pinned \/ spec.pin = cand ELSE SpecDigest(content) # cand

Recorded(p) == eval.rev = ev[p].rev /\ eval.suite = ev[p].suite

(* Mutant: only the recorded pair is looked at. *)
HasVerdictRecorded(p) == Recorded(p) /\ eval.verdict \in {"Passed", "Failed"}

HasVerdict(p) ==
  \/ Recorded(p) /\ eval.verdict \in {"Passed", "Failed"}
  \/ PairFailed(ev[p].rev, ev[p].suite)

(* The env sources are read, and a pair that has its verdict is left alone. *)
EvalCheck(p) ==
  /\ ev[p].pc = "began"
  /\ Fresh(p)
  /\ ~PinnedRollbackHolds
  /\ ~HasVerdict(p)
  /\ ev' = [ev EXCEPT ![p].pc = "checked"]
  /\ UNCHANGED <<world, status, eval, made, rec, stale, history>>

StartRun(p) ==
  /\ ev[p].pc = "checked"
  /\ Fresh(p)
  /\ ~(Recorded(p) /\ eval.verdict = "Running")
  /\ eval' = RunStart(eval, ev[p].rev, ev[p].suite)
  /\ sent' = {} /\ good' = {}
  /\ ev' = [q \in Process |-> [ev[q] EXCEPT !.current = FALSE,
                                             !.seen = IF q = p THEN NoCases ELSE @]]
  /\ Overtake(p)
  /\ UNCHANGED <<world, status, made, rec, resent, earned>>

(* nextCase works on the cases as this pass read them, or wrote them itself. *)
Sending(p) == {c \in SuiteCases[ev[p].suite] : ev[p].seen[c] \in Process}
Unsent(p)  == {c \in SuiteCases[ev[p].suite] : ev[p].seen[c] = "none"}

(* Mutant: an orphan is waited for. *)
InterruptNever(p) ==
  /\ ev[p].pc = "checked"
  /\ Sending(p) # {}
  /\ EvalEnds(p)
  /\ UNCHANGED <<world, status, eval, made, rec, stale, history>>

(* nextCase, an orphan: a claimed case with no outcome is not sent again. *)
Interrupt(p) ==
  /\ ev[p].pc = "checked"
  /\ Fresh(p)
  /\ Recorded(p) /\ eval.verdict = "Running"
  /\ Sending(p) # {}
  /\ eval' = WithOutcome([eval EXCEPT !.cases = ev[p].seen], FirstOf(Sending(p)), "Failed")
  /\ EvalEnds(p)
  /\ Overtake(p)
  /\ UNCHANGED <<world, status, made, rec, history>>

(* nextCase, the claim: the case is recorded Sending under this pass's nonce. *)
Claim(p) ==
  /\ ev[p].pc = "checked"
  /\ Fresh(p)
  /\ Recorded(p) /\ eval.verdict = "Running"
  /\ Sending(p) = {} /\ Unsent(p) # {}
  /\ LET c == FirstOf(Unsent(p)) IN
       /\ eval' = [eval EXCEPT !.cases = [ev[p].seen EXCEPT ![c] = p]]
       /\ ev' = [ev EXCEPT ![p].pc = "claimed", ![p].case = c, ![p].current = TRUE,
                           ![p].seen = NoCases]
  /\ Overtake(p)
  /\ UNCHANGED <<world, status, made, rec, history>>

(***************************************************************************)
(* The candidate answers.  The history notes what it really did, for the   *)
(* claims of the run recorded now: a pass whose run was replaced since its *)
(* claim can still send, and could have sent before.                       *)
(***************************************************************************)
Send(p) ==
  /\ ev[p].pc = "claimed"
  /\ \E ok \in Reads.answer :
       /\ ev' = [ev EXCEPT ![p].pc = "answered", ![p].ok = ok]
       /\ good' = IF ok /\ ev[p].current THEN good \cup {ev[p].case} ELSE good
  /\ earned' = IF ev[p].current /\ Meets(good', ev[p].suite)
               THEN earned \cup {<<ev[p].rev, ev[p].suite>>} ELSE earned
  /\ resent' = (resent \/ (ev[p].current /\ ev[p].case \in sent))
  /\ sent' = IF ev[p].current THEN sent \cup {ev[p].case} ELSE sent
  /\ UNCHANGED <<world, status, eval, made, rec, stale>>

(* Mutant: any claim of the case will do. *)
ClaimStandsAnyNonce(p) == Recorded(p) /\ eval.cases[ev[p].case] \in Process

(* Mutant: the pair alone will do. *)
ClaimStandsByPair(p) == Recorded(p)

(* record applies an outcome only where its own claim still stands. *)
ClaimStands(p) == Recorded(p) /\ eval.cases[ev[p].case] = p

RecordOutcome(p) ==
  /\ ev[p].pc = "answered"
  /\ ClaimStands(p)
  /\ eval' = WithOutcome(eval, ev[p].case, IF ev[p].ok THEN "Passed" ELSE "Failed")
  /\ EvalEnds(p)
  /\ Overtake(p)
  /\ UNCHANGED <<world, status, made, rec, history>>

DropOutcome(p) ==
  /\ ev[p].pc = "answered"
  /\ ~ClaimStands(p)
  /\ EvalEnds(p)
  /\ UNCHANGED <<world, status, eval, made, rec, stale, history>>

(***************************************************************************)
(* The pass ends without a write: a predicate holds it, a read fails, its  *)
(* write is refused, or, after the claim, the request cannot be made, the  *)
(* record's five seconds run out or the process dies.                      *)
(***************************************************************************)
EvalStop(p) ==
  /\ ev[p].pc # "idle"
  /\ EvalEnds(p)
  /\ stale' = stale \ {p}
  /\ UNCHANGED <<world, status, eval, made, rec, history>>

-----------------------------------------------------------------------------
Next ==
  \/ EditSpec \/ EditSuite \/ EditSource
  \/ RecBegin \/ RecRead \/ RecReport \/ RecHold \/ RecPass \/ RecPersist \/ RecStop
  \/ ClearSuperseded
  \/ \E p \in Process : \/ EvalBegin(p) \/ EvalCheck(p) \/ StartRun(p) \/ Interrupt(p)
                        \/ Claim(p) \/ Send(p) \/ RecordOutcome(p) \/ DropOutcome(p)
                        \/ EvalStop(p)

Spec == Init /\ [][Next]_vars

(***************************************************************************)
(* Every key is requeued after an interval or by a watch event, so each    *)
(* controller keeps starting passes; a pass is bounded by timeouts, so it  *)
(* ends; and a step that is tried over and over is not refused every time. *)
(***************************************************************************)
CaseStep(p) == StartRun(p) \/ Interrupt(p) \/ Claim(p)

Fairness ==
  /\ WF_vars(RecBegin) /\ WF_vars(RecStop) /\ SF_vars(RecRead) /\ SF_vars(RecPass)
  /\ WF_vars(ClearSuperseded)
  /\ \A p \in Process :
       /\ WF_vars(EvalBegin(p)) /\ WF_vars(EvalStop(p))
       /\ SF_vars(EvalCheck(p)) /\ SF_vars(CaseStep(p))

FairSpec == Spec /\ Fairness

-----------------------------------------------------------------------------
(***************************************************************************)
(* Properties.                                                             *)
(***************************************************************************)

(* No case is sent to the candidate twice in one run, whatever process     *)
(* claims it: "What keeps a recorded case from being sent again is the     *)
(* optimistic lock on the claim" (evalcontroller.go, EvalReconciler).      *)
NoCaseSentTwice == ~resent

(* A Passed verdict is backed by what the candidate really answered in the *)
(* run it is the verdict of, not by answers to an earlier run of the pair  *)
(* or to another process's interrupted case (record, withOutcome).         *)
VerdictSound == eval.verdict = "Passed" => Meets(good, eval.suite)

(* A revision promoted by its gate answered enough cases of some suite in  *)
(* a single run (decideGate, the promotion switch of Reconcile).           *)
GatedPromotionEarned == how = "gate" => \E s \in Suite : <<active, s>> \in earned

(* GatesPassed says True of a digest only if that revision passed a run    *)
(* (assessPromotedGate, and the sticky merge of conditions.go).            *)
GatesPassedEarned == gatesPassed \in Digest => \E s \in Suite : <<gatesPassed, s>> \in earned

(* A pair that is being evaluated, or that has passed, is not in failed[]: *)
(* the pin rule and the eval controller read failed[] alone to refuse a    *)
(* revision (pinIneligible, pairFailed).                                   *)
RunNotFailed == eval.verdict \in {"Running", "Passed"} => ~PairFailed(eval.rev, eval.suite)

(* A Failed verdict is in failed[], so failed[] is all the pin rule needs  *)
(* to read (pinIneligible).                                                *)
FailedVerdictRecorded == eval.verdict = "Failed" => PairFailed(eval.rev, eval.suite)

(* No pair is in passed[] and failed[] both, and passed[] keeps one entry  *)
(* per revision (passedEntry, withOutcome).                                *)
PassedNotFailed ==
  \A i \in 1..Len(eval.passed) :
    /\ ~PairFailed(eval.passed[i][1], eval.passed[i][2])
    /\ \A j \in 1..Len(eval.passed) : eval.passed[i][1] = eval.passed[j][1] => i = j

(* The pass of the revision serving stays on record, in the pair or in     *)
(* passed[], whatever runs start, fail and evict entries after it          *)
(* (startRun, appendPassed: the active revision's entry is never evicted). *)
ActivePassRecorded == how = "gate" => EvalPassedFor(active) \/ PassedEntry(active)

(* Once the edits stop, the revision the spec mints serves or has failed   *)
(* the suite in force: no conflict between the two controllers, crash in   *)
(* mid-case or edit during a run leaves the candidate held for good        *)
(* (Reconcile of both controllers, their requeues).                        *)
RolloutSettles ==
  <>[](\/ Pinned \/ content = None \/ suite = None
      \/ active = SpecDigest(content)
      \/ PairFailed(SpecDigest(content), suite))

(* A recorded outcome is never overwritten: it goes only when its whole    *)
(* run is cleared or replaced.  "an old leader finishing its send during a *)
(* handover never overwrites an Interrupted a new leader wrote" (record).  *)
OutcomeFinal ==
  [][\A c \in Case : Final(eval.cases[c]) /\ eval'.cases[c] # eval.cases[c]
                       => eval'.cases = NoCases]_vars

(* The two controllers implement Promotion: seen from outside, whatever    *)
(* their passes interleave, overtake or drop, a test, its verdict, the     *)
(* revision that serves and what its owner is told only move as that       *)
(* specification lets them.                                                *)
Gate == INSTANCE Promotion WITH
  serving <- active,
  by <- how,
  pair <- <<eval.rev, eval.suite>>,
  verdict <- eval.verdict,
  enough <- eval.suite # None /\ Meets(good, eval.suite),
  report <- gatesPassed
ImplementsPromotion == Gate!Spec
=============================================================================
