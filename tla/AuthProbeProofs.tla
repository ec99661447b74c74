-------------------------- MODULE AuthProbeProofs ---------------------------
(***************************************************************************)
(* What a probe of a transaction is worth: the route it is made on carries *)
(* no traffic before it is credited, and a 401 that is credited is not the *)
(* named backend's, nor that of a policy on the Gateway that stood.        *)
(***************************************************************************)
EXTENDS AuthTransactionProofs

(* The stages of a Create whose route may carry a backend. *)
Early == {"PreparingRoute", "Publishing"}
UnservedInv == UnprobedUnserved /\ (pass.pc = "prepared" => ~Published(route) \/ missed)

(* Where a pass holds the route it goes on to probe, and where a Create's is *)
(* the prepared one.                                                         *)
Holding == {"run", "applied", "look", "repoint", "gate", "probe", "probed"}
Looking == {"look", "probe", "probed"}

(* A card, like the answer before a Lock, was given without credentials. *)
CardsOpen == cards \cap SelfAuth = {}
BeforeOpen == auth.before # 0 => auth.before \notin SelfAuth
BeforeRecord ==
  /\ auth.kind = "Lock" /\ auth.mode = "apikey" => auth.before = 0 /\ auth.stage # "ProbingBefore"
  /\ auth.kind # "Lock" => auth.before = 0
(* The route a pass holds is the prepared one, or that of the answer before. *)
RouteHeld ==
  /\ pass.pc \in Looking /\ auth.kind = "Create" => pass.rt.backend = 0
  /\ pass.pc \in Holding /\ auth.kind = "Lock" /\ auth.mode # "apikey" =>
       auth.before \in {0, pass.rt.backend}
(* A backend's 401 is that of one that asks for credentials itself, and an   *)
(* answer from above leaves its policy to be seen, or a flick.               *)
AnswerHeld ==
  pass.pc = "probed" =>
    /\ pass.answer.by = "backend" /\ pass.answer.code = "401" => pass.answer.backend \in SelfAuth
    /\ pass.answer.by = "above" => pass.flick \/ above
CreditInv ==
  TypeOK /\ CardsOpen /\ BeforeOpen /\ BeforeRecord /\ RouteHeld /\ AnswerHeld /\ CreditAttributed

-----------------------------------------------------------------------------
(***************************************************************************)
(* A quiet step: the route does not open and nothing is credited; the      *)
(* record stays, changes its stage or is a new one; and the pass does not  *)
(* come to hold another route.                                             *)
(***************************************************************************)
SameAgent == auth'.kind = auth.kind /\ auth'.mode = auth.mode /\ auth'.before = auth.before

RecordKept ==
  \/ auth' = auth
  \/ SameAgent /\ auth'.stage # "ProbingBefore" /\ (auth.stage \in Early => auth'.stage \in Early)
  \/ /\ auth'.before = 0
     /\ auth'.kind = "Lock" /\ auth'.mode = "apikey" => auth'.stage # "ProbingBefore"
     /\ auth'.kind = "Create" => auth'.stage \in Early
HeldKept ==
  \/ pass'.pc \notin Holding
  \/ pass'.pc \notin Looking /\ (auth'.before = 0 \/ auth'.kind = "Create")
  \/ /\ SameAgent /\ pass'.rt = pass.rt /\ pass.pc \in Holding
     /\ pass'.pc \in Looking => pass.pc \in Looking \/ auth.kind # "Create"
Quiet ==
  /\ cards' = cards /\ credit' \in {credit, "none"} /\ missed' = missed
  /\ Published(route') => Published(route)
  /\ pass'.pc \notin {"prepared", "probed"}
  /\ RecordKept /\ HeldKept

LEMMA QuietUnserved == ASSUME UnservedInv, Quiet PROVE UnservedInv'
BY DEF UnservedInv, Quiet, UnprobedUnserved, Early, RecordKept, SameAgent

LEMMA QuietCredit == ASSUME CreditInv, TypeOK', Quiet PROVE CreditInv'
<1>1. CardsOpen' /\ CreditAttributed'
  BY DEF CreditInv, Quiet, CardsOpen, CreditAttributed
<1>2. BeforeOpen' /\ BeforeRecord'
  BY DEF CreditInv, Quiet, RecordKept, SameAgent, BeforeOpen, BeforeRecord
<1>3. RouteHeld'
  BY <1>2 DEF CreditInv, Quiet, HeldKept, SameAgent, RouteHeld, Holding, Looking, BeforeRecord
<1>4. AnswerHeld'
  BY DEF Quiet, AnswerHeld
<1> QED BY <1>1, <1>2, <1>3, <1>4 DEF CreditInv

(* How the quiet steps are made. *)
Silent ==
  /\ cards' = cards /\ credit' \in {credit, "none"} /\ missed' = missed
  /\ Published(route') => Published(route)

LEMMA ReadsSilent == ASSUME Reads PROVE Silent
BY DEF Reads, Env, Rest, Silent

LEMMA EndQuiet ==
  ASSUME Silent, RecordKept, End
  PROVE  Quiet
BY DEF Silent, End, Idle, Quiet, HeldKept, Holding

LEMMA GotoQuiet ==
  ASSUME pass \in Pass, Silent, Kept, NEW pc, Goto(pc), pc \notin {"prepared", "probed"},
         \/ pc \notin Holding
         \/ pc \notin Looking /\ auth.kind = "Create"
         \/ pass.pc \in Holding /\ (pc \in Looking => pass.pc \in Looking \/ auth.kind # "Create")
  PROVE  Quiet
<1>1. pass'.pc = pc /\ pass'.rt = pass.rt /\ auth' = auth
  BY DEF Goto, Pass, Kept
<1> QED BY <1>1 DEF Silent, Quiet, HeldKept, RecordKept, SameAgent

(* A new record that names no answer before. *)
LEMMA AnewQuiet ==
  ASSUME pass \in Pass, Reads, NEW a, NEW pc, Advance(a, pc), pc \notin Looking \cup {"prepared"},
         a.before = 0, a.kind = "Lock" /\ a.mode = "apikey" => a.stage # "ProbingBefore",
         a.kind = "Create" => a.stage \in Early
  PROVE  Quiet
<1>1. pass'.pc = pc /\ auth' = a
  BY DEF Advance, Persist, Goto, Pass
<1>2. Silent
  BY ReadsSilent
<1> QED BY <1>1, <1>2 DEF Silent, Quiet, HeldKept, RecordKept, Looking

LEMMA EnterQuiet ==
  ASSUME pass \in Pass, Reads, NEW m, NEW k, NEW s, NEW t, NEW pc, Advance(Enter(m, k, s, t), pc),
         pc \notin Looking \cup {"prepared"},
         k = "Lock" /\ m = "apikey" => s # "ProbingBefore", k = "Create" => s \in Early
  PROVE  Quiet
<1>1. /\ Enter(m, k, s, t).before = 0 /\ Enter(m, k, s, t).kind = k
      /\ Enter(m, k, s, t).mode = m /\ Enter(m, k, s, t).stage = s
  BY DEF Enter
<1> QED BY <1>1, AnewQuiet

LEMMA StageQuiet ==
  ASSUME pass \in Pass, auth \in Auth, Silent, Reads, NEW s, Restage(s), s # "ProbingBefore",
         auth.stage \in Early => s \in Early, pass.pc \in Holding \/ auth.kind = "Create"
  PROVE  Quiet
<1>1. pass'.pc = "run" /\ pass'.rt = pass.rt /\ auth' = [auth EXCEPT !.stage = s]
  BY DEF Restage, Advance, Persist, Goto, Pass
<1>2. SameAgent /\ auth'.stage = s
  BY <1>1 DEF SameAgent, Auth
<1> QED BY <1>1, <1>2 DEF Silent, Quiet, HeldKept, RecordKept, SameAgent, Looking

LEMMA InvIs == ASSUME IInv PROVE TypeOK /\ pass \in Pass /\ auth \in Auth /\ route \in Route /\ PcRecord
BY DEF IInv, TypeOK, PcOK, WellFormed

(* What deletes a route, or strips it, does not open it. *)
LEMMA DeleteSilent ==
  ASSUME route \in Route, DeleteRoute \/ UNCHANGED route, UNCHANGED <<cards, credit, missed>>
  PROVE  Silent
<1>1. ~Published(NoRoute) /\ [route EXCEPT !.at = "held"].backend = route.backend
  BY DEF Published, NoRoute, Route
<1>2. route' \in {route, NoRoute, [route EXCEPT !.at = "held"]}
  BY DEF DeleteRoute, Deleted
<1> QED BY <1>1, <1>2 DEF Silent, Published

LEMMA DecideQuiet == ASSUME IInv, DecideStep, ~EnsureLast, ~EnsureThen("refuse") PROVE Quiet
<1>0. TypeOK /\ pass \in Pass /\ auth \in Auth /\ route \in Route /\ PcRecord
  BY InvIs
<1> USE <1>0 DEF At, Holding, Looking, Early
<1>1. CASE StepAdopt \/ StepFound
  BY <1>1, ReadsSilent, GotoQuiet, EnterQuiet DEF StepAdopt, StepFound
<1>2. CASE StepCreate
  BY <1>2, ReadsSilent, GotoQuiet, EnterQuiet DEF StepCreate, Enters
<1>3. CASE StepAbandon \/ StepResume
  BY <1>3, ReadsSilent, GotoQuiet DEF StepAbandon, StepResume
<1>4. CASE enterLock
  BY <1>4, EnterQuiet DEF enterLock
<1>5. CASE collectRoutes
  <2>1. Silent
    BY <1>5, DeleteSilent DEF collectRoutes, Env, Rest
  <2> QED BY <1>5, <2>1, EndQuiet DEF collectRoutes, Kept, RecordKept
<1>6. CASE reassertServedPolicy
  <2>1. Silent
    BY <1>6 DEF reassertServedPolicy, Env, Rest, Silent, ensureAuthPolicy
  <2> QED BY <1>6, <2>1, GotoQuiet DEF reassertServedPolicy
<1>7. CASE reconcileServed
  <2>1. CASE recreateRoute /\ Reads
    BY <2>1, EnterQuiet DEF recreateRoute
  <2>2. CASE lockMissingPolicy /\ Reads
    <3> DEFINE a == [Enter(auth.mode, "Lock", "ApplyingPolicies", auth.mode) EXCEPT !.written = TRUE]
    <3>1. a.before = 0 /\ a.kind = "Lock" /\ a.stage = "ApplyingPolicies"
      BY DEF Enter
    <3>2. Advance(a, "lock") /\ Reads
      BY <2>2 DEF lockMissingPolicy
    <3> HIDE DEF a
    <3> QED BY <3>1, <3>2, AnewQuiet
  <2>3. CASE (Goto("sweep") \/ Goto("follow") \/ Goto("reassert")) /\ Kept /\ Reads
    BY <2>3, ReadsSilent, GotoQuiet
  <2> QED BY <1>7, <2>1, <2>2, <2>3 DEF reconcileServed
<1>8. CASE ServedFollows
  BY <1>8, EnterQuiet DEF ServedFollows, recreateRoute
<1>9. CASE AdoptFollows
  BY <1>9, ReadsSilent, GotoQuiet DEF AdoptFollows
<1>10. CASE refuseAdopt
  <2>1. RecordKept
    BY <1>10 DEF refuseAdopt, Persist, Enter, RecordKept
  <2> QED BY <1>10, <2>1, ReadsSilent, EndQuiet DEF refuseAdopt
<1> QED BY <1>1, <1>2, <1>3, <1>4, <1>5, <1>6, <1>7, <1>8, <1>9, <1>10 DEF DecideStep

(* The stages before ProbingBefore's successors are left by PreparingRoute   *)
(* alone, in CreatePrepared; CreateCredit is a step of its own.              *)
LEMMA CreateQuiet ==
  ASSUME IInv, CreateStep, ~CreatePrepared, ~CreateCredit,
         ~PreparingRoute, ~CreateHolds, ~EnsureThen("published")
  PROVE  Quiet
<1>0. TypeOK /\ pass \in Pass /\ auth \in Auth /\ route \in Route /\ PcRecord
  BY InvIs
<1> USE <1>0 DEF At, Create, Holding, Looking, Early
<1>1. CASE CreateBegin
  BY <1>1, ReadsSilent, GotoQuiet DEF CreateBegin
<1>2. CASE PublishingCheck
  <2>1. CASE Restage("PreparingRoute") /\ Reads
    BY <1>2, <2>1, ReadsSilent, StageQuiet DEF PublishingCheck
  <2>2. CASE End /\ Kept /\ Reads
    BY <2>2, ReadsSilent, EndQuiet DEF Kept, RecordKept
  <2>3. CASE Goto("publish") /\ Kept /\ Reads
    BY <2>3, ReadsSilent, GotoQuiet
  <2> QED BY <1>2, <2>1, <2>2, <2>3 DEF PublishingCheck
<1>3. CASE Publishing
  <2>1. auth.kind = "Create" /\ Restage("PreparingRoute") /\ Reads
    BY <1>3 DEF Publishing, PcRecord
  <2> QED BY <2>1, ReadsSilent, StageQuiet
<1>4. CASE recordServed
  <2>1. Record(auth.target).kind = "" /\ Record(auth.target).before = 0
    BY DEF Record, Enter
  <2>2. RecordKept
    BY <1>4, <2>1 DEF recordServed, Persist, Kept, RecordKept
  <2> QED BY <1>4, <2>2, ReadsSilent, EndQuiet DEF recordServed
<1> QED BY <1>1, <1>2, <1>3, <1>4 DEF CreateStep

LEMMA SharedQuiet == ASSUME IInv, SharedStep, ~probeAgent PROVE Quiet
<1>0. TypeOK /\ pass \in Pass /\ auth \in Auth /\ route \in Route /\ PcRecord
  BY InvIs
<1> USE <1>0 DEF At, Holding, Looking, Early, PcRecord
<1>1. CASE ApplyingPolicies
  <2>1. CASE End /\ Reads /\ Kept
    BY <2>1, ReadsSilent, EndQuiet DEF Kept, RecordKept
  <2>2. CASE ensureAuthPolicy /\ Goto("applied") /\ Env /\ UNCHANGED route /\ Kept
    <3>1. Silent
      BY <2>2 DEF Env, Rest, Silent, ensureAuthPolicy
    <3> QED BY <1>1, <2>2, <3>1, GotoQuiet DEF ApplyingPolicies
  <2> QED BY <1>1, <2>1, <2>2 DEF ApplyingPolicies
<1>2. CASE PoliciesApplied \/ LookAgain
  BY <1>2, ReadsSilent, StageQuiet DEF PoliciesApplied, LookAgain
<1>3. CASE freshNack
  <2>1. auth' = [auth EXCEPT !.stage = "Converging"]
    BY <1>3 DEF freshNack, Persist
  <2>2. RecordKept
    BY <1>3, <2>1 DEF freshNack, RecordKept, SameAgent, Auth
  <2> QED BY <1>3, <2>2, ReadsSilent, EndQuiet DEF freshNack
<1>4. CASE Converging
  <2>1. CASE Restage("ProbingAfter") /\ Reads
    BY <1>4, <2>1, ReadsSilent, StageQuiet DEF Converging
  <2>2. CASE End /\ Kept /\ Reads
    BY <2>2, ReadsSilent, EndQuiet DEF Kept, RecordKept
  <2> QED BY <1>4, <2>1, <2>2 DEF Converging
<1>5. CASE ReadGateway
  <2>1. CASE End /\ Kept /\ Reads
    BY <2>1, ReadsSilent, EndQuiet DEF Kept, RecordKept
  <2>2. CASE ~End
    <3> DEFINE pc == IF auth.kind = "Create" THEN "probe"
                     ELSE IF isReCreation /\ cardedRevision(pass.rev) THEN "repoint" ELSE "gate"
    <3>1. pass' = [pass EXCEPT !.held = above, !.flick = FALSE, !.pc = pc] /\ auth' = auth /\ Silent
      BY <1>5, <2>2, ReadsSilent DEF ReadGateway, Kept
    <3>2. pc \in {"probe", "repoint", "gate"} /\ (pc = "probe" => auth.kind = "Create")
      OBVIOUS
    <3> HIDE DEF pc
    <3>3. pass'.pc = pc /\ pass'.rt = pass.rt
      BY <3>1 DEF Pass
    <3> QED BY <1>5, <3>1, <3>2, <3>3 DEF ReadGateway, Quiet, HeldKept, RecordKept, SameAgent, Silent
  <2> QED BY <1>5, <2>1, <2>2 DEF ReadGateway
<1> QED BY <1>1, <1>2, <1>3, <1>4, <1>5 DEF SharedStep

LEMMA LockQuiet ==
  ASSUME IInv, LockStep, ~ProbingBefore, ~lockServed, ~LockPromoted, ~EnsureLast,
         ~EnsureThen("clear"), ~(LockRepoint /\ EnsureThen("gate"))
  PROVE  Quiet
<1>0. TypeOK /\ pass \in Pass /\ auth \in Auth /\ route \in Route /\ PcRecord
  BY InvIs
<1> USE <1>0 DEF At, Holding, Looking, Early
<1>1. CASE LockRoute
  <2>1. CASE recreateRoute /\ Reads
    BY <2>1, EnterQuiet DEF recreateRoute
  <2>2. CASE pass' = [pass EXCEPT !.pc = "clear", !.rt = Seen] /\ Kept /\ Reads
    <3>1. pass'.pc = "clear"
      BY <2>2 DEF Pass
    <3> QED BY <2>2, <3>1, ReadsSilent DEF Silent, Quiet, HeldKept, RecordKept, Kept
  <2>3. CASE End /\ Kept /\ Reads
    BY <2>3, ReadsSilent, EndQuiet DEF Kept, RecordKept
  <2> QED BY <1>1, <2>1, <2>2, <2>3 DEF LockRoute
<1>2. CASE LockLook
  BY <1>2, ReadsSilent, GotoQuiet DEF LockLook
<1>3. CASE LockRepoint
  BY <1>3, EnterQuiet DEF LockRepoint, recreateRoute
<1>4. CASE LockGate
  <2>1. CASE End /\ Kept /\ Reads
    BY <2>1, ReadsSilent, EndQuiet DEF Kept, RecordKept
  <2>2. CASE Goto("probe") /\ Kept /\ Reads
    BY <1>4, <2>2, ReadsSilent, GotoQuiet DEF LockGate, PcRecord
  <2> QED BY <1>4, <2>1, <2>2 DEF LockGate
<1>5. CASE LockUncredited
  BY <1>5, ReadsSilent, EndQuiet DEF LockUncredited, Kept, RecordKept
<1> QED BY <1>1, <1>2, <1>3, <1>4, <1>5 DEF LockStep, LockUnmark

LEMMA AbandonQuiet == ASSUME IInv, AbandonStep PROVE Quiet
<1>0. TypeOK /\ pass \in Pass /\ auth \in Auth /\ route \in Route /\ PcRecord
  BY InvIs
<1> USE <1>0 DEF At, Holding, Looking, Early
<1>1. CASE AbandonStrip
  <2>1. Published(route') => Published(route)
    BY <1>1 DEF AbandonStrip, Published, Route
  <2>2. Silent
    BY <1>1, <2>1 DEF AbandonStrip, Env, Rest, Silent
  <2> QED BY <1>1, <2>2, GotoQuiet DEF AbandonStrip
<1>2. CASE AbandonRoute
  <2>1. Silent
    BY <1>2, DeleteSilent DEF AbandonRoute, Env, Rest
  <2> QED BY <1>2, <2>1, GotoQuiet, EndQuiet DEF AbandonRoute, Kept, RecordKept
<1>3. CASE AbandonPolicy
  <2>1. Silent
    BY <1>3 DEF AbandonPolicy, deleteAuthPolicy, Env, Rest, Silent
  <2> QED BY <1>3, <2>1, GotoQuiet, EndQuiet DEF AbandonPolicy, Kept, RecordKept
<1>4. CASE abandon
  <2>1. CASE Advance(NoAuth, "sweep") /\ Reads
    BY <2>1, EnterQuiet DEF NoAuth, Record
  <2>2. CASE Advance(Record(auth.mode), "step") /\ Reads
    <3>1. Record(auth.mode).kind = "" /\ Record(auth.mode).before = 0
      BY DEF Record, Enter
    <3> QED BY <2>2, <3>1, AnewQuiet
  <2>3. CASE Advance(Enters, "run") /\ Reads
    BY <2>3, EnterQuiet DEF Enters
  <2>4. CASE Goto("adopt") /\ Kept /\ Reads
    BY <2>4, ReadsSilent, GotoQuiet
  <2> QED BY <1>4, <2>1, <2>2, <2>3, <2>4 DEF abandon
<1> QED BY <1>1, <1>2, <1>3, <1>4 DEF AbandonStep

(* The rest of the worker's steps, and a pass that is cut short. *)
LEMMA EdgeQuiet == ASSUME IInv, gatewayStep \/ FinalStep \/ CutStep \/ Fail PROVE Quiet
<1>0. TypeOK /\ pass \in Pass /\ auth \in Auth /\ route \in Route /\ PcRecord
  BY InvIs
<1> USE <1>0 DEF At, Holding, Looking
<1>1. CASE gatewayStep \/ finalize
  <2>1. pass'.pc \in {"step", "revoke"}
    BY <1>1 DEF gatewayStep, finalize, Idle
  <2> QED BY <1>1, <2>1, ReadsSilent DEF gatewayStep, finalize, Silent, Quiet, HeldKept, RecordKept, Kept
<1>2. CASE revokeGateway
  <2>1. Silent
    BY <1>2, DeleteSilent DEF revokeGateway, Env, Rest
  <2> QED BY <1>2, <2>1, GotoQuiet DEF revokeGateway
<1>3. CASE RevokePolicy
  <2>1. Silent
    BY <1>3, ReadsSilent DEF RevokePolicy, deleteAuthPolicy, Env, Rest, Silent
  <2> QED BY <1>3, <2>1, GotoQuiet, EndQuiet DEF RevokePolicy, Kept, RecordKept
<1>4. CASE ReleaseAgent \/ Fail
  <2>1. pass'.pc = "idle"
    BY <1>4 DEF ReleaseAgent, Fail, Idle
  <2> QED BY <1>4, <2>1 DEF ReleaseAgent, Fail, objects, history, Quiet, HeldKept, RecordKept
<1>5. CASE LoseRace \/ RouteGoneLast
  BY <1>5, ReadsSilent, EndQuiet DEF LoseRace, RouteGoneLast, Kept, RecordKept
<1>6. CASE Overtaken
  <2>1. pass'.pc = "idle"
    BY <1>6 DEF Overtaken, Idle
  <2> QED BY <1>6, <2>1, ReadsSilent DEF Overtaken, Silent, Quiet, HeldKept, RecordKept, Kept
<1> QED BY <1>1, <1>2, <1>3, <1>4, <1>5, <1>6 DEF FinalStep, CutStep

-----------------------------------------------------------------------------
(***************************************************************************)
(* What others do: the record and what a pass holds stay.                  *)
(***************************************************************************)
LEMMA OthersAside ==
  ASSUME IInv, System \/ Users
  PROVE  /\ auth' = auth /\ credit' = credit /\ missed' = missed
         /\ Published(route') => Published(route)
         /\ pass'.pc = pass.pc /\ pass'.rt = pass.rt /\ pass'.answer = pass.answer
         /\ pass.pc = "probed" /\ (pass.flick \/ above) => pass'.flick \/ above'
         /\ cards' \cap SelfAuth \subseteq cards
<1>0. pass \in Pass /\ route \in Route
  BY InvIs
<1> USE <1>0 DEF Pass
<1>1. CASE SyncCache \/ PolicyReported \/ ProxySyncs
  BY <1>1 DEF SyncCache, PolicyReported, ProxySyncs, Unmoved
<1>2. CASE RouteReported \/ FinalizerReleased
  <2>1. Published(route') => Published(route)
    BY <1>2 DEF RouteReported, FinalizerReleased, Published, NoRoute, Route
  <2> QED BY <1>2, <2>1 DEF RouteReported, FinalizerReleased, Unmoved
<1>3. CASE Cleared
  <2>1. CASE UNCHANGED <<above, pass>>
    BY <1>3, <2>1 DEF Cleared, Unmoved
  <2>2. CASE pass' = [pass EXCEPT !.flick = pass.pc \in {"probe", "probed"}]
    <3> DEFINE near == pass.pc \in {"probe", "probed"}
    <3>1. pass' = [pass EXCEPT !.flick = near] /\ (pass.pc = "probed" => near)
      BY <2>2
    <3> HIDE DEF near
    <3>2. pass'.pc = pass.pc /\ pass'.rt = pass.rt /\ pass'.answer = pass.answer /\ pass'.flick = near
      BY <3>1
    <3> QED BY <1>3, <3>1, <3>2 DEF Cleared, Unmoved
  <2> QED BY <1>3, <2>1, <2>2 DEF Cleared
<1>4. CASE TamperRoute
  <2>1. Published(route') => Published(route)
    BY <1>4 DEF TamperRoute, DeleteRoute, Deleted, Published, NoRoute, Route
  <2> QED BY <1>4, <2>1 DEF TamperRoute, Tampers, Unmoved
<1>5. CASE TamperPolicy \/ TamperGateway
  BY <1>5 DEF TamperPolicy, TamperGateway, Tampers, Unmoved
<1>6. CASE Edited
  BY <1>6 DEF Edited, objects, history
<1>7. ASSUME NEW r \in Rev, CardRecorded(r) \/ CardLost(r)
      PROVE  /\ cards' \cap SelfAuth \subseteq cards
             /\ UNCHANGED <<auth, pass, credit, missed, route, above>>
  BY <1>7 DEF CardRecorded, CardLost, objects, history
<1> QED BY <1>1, <1>2, <1>3, <1>4, <1>5, <1>6, <1>7
        DEF System, Users, EditMode, RemoveBudget, DeleteAgent

LEMMA OthersUnserved == ASSUME IInv, UnservedInv, System \/ Users PROVE UnservedInv'
BY OthersAside DEF UnservedInv, UnprobedUnserved

LEMMA OthersCredit == ASSUME IInv, CreditInv, TypeOK', System \/ Users PROVE CreditInv'
<1>1. CardsOpen' /\ CreditAttributed' /\ BeforeOpen' /\ BeforeRecord'
  BY OthersAside DEF CreditInv, CardsOpen, CreditAttributed, BeforeOpen, BeforeRecord
<1>2. RouteHeld' /\ AnswerHeld'
  BY OthersAside DEF CreditInv, RouteHeld, AnswerHeld
<1> QED BY <1>1, <1>2 DEF CreditInv

-----------------------------------------------------------------------------
(***************************************************************************)
(* The steps that are not quiet, for what is served.                       *)
(***************************************************************************)
(* The route is left as routePublicationFor says, or the write is skipped on *)
(* a copy that says so and has not the route's backends.                     *)
LEMMA EnsurePrepares ==
  ASSUME TypeOK, ensureServingRoute, auth' = auth
  PROVE  (Prepared => ~Published(route') \/ missed') /\ UnprobedUnserved'
<1>1. route \in Route /\ Seen \in Route
  BY DEF TypeOK, Seen
<1>2. Prepared => Desired.backend = 0
  BY <1>1 DEF Desired, Route, routePublicationFor
<1>3. CASE ~equalRoute
  BY <1>2, <1>3 DEF ensureServingRoute, Published, Prepared, UnprobedUnserved
<1>4. CASE equalRoute /\ Seen.backend # route.backend
  BY <1>4 DEF ensureServingRoute, UnprobedUnserved
<1>5. CASE equalRoute /\ Seen.backend = route.backend
  <2>1. route' = route /\ (Prepared => route.backend = 0)
    BY <1>2, <1>5 DEF ensureServingRoute, equalRoute
  <2> QED BY <2>1 DEF Published, Prepared, UnprobedUnserved
<1> QED BY <1>3, <1>4, <1>5

LEMMA EnsureUnserved ==
  ASSUME TypeOK, NEW pc \in Pc, EnsureThen(pc), Prepared \/ pc # "prepared"
  PROVE  UnservedInv'
<1>1. auth' = auth /\ pass'.pc = pc /\ ensureServingRoute
  BY EnsuredThen DEF EnsureThen
<1> QED BY <1>1, EnsurePrepares DEF UnservedInv

LEMMA EnsureLastUnserved == ASSUME TypeOK, EnsureLast PROVE UnservedInv'
<1>1. auth' = auth /\ pass'.pc = "idle" /\ ensureServingRoute
  BY EnsuredLast DEF EnsureLast
<1> QED BY <1>1, EnsurePrepares DEF UnservedInv

LEMMA CreateUnserved == ASSUME IInv, UnservedInv, CreateStep PROVE UnservedInv'
<1>0. TypeOK /\ pass \in Pass /\ auth \in Auth /\ PcRecord
  BY InvIs
<1>1. CASE PreparingRoute
  <2>1. Prepared
    BY <1>0, <1>1 DEF PreparingRoute, At, Prepared, PcRecord
  <2> QED BY <1>0, <1>1, <2>1, PcIs, EnsureUnserved DEF PreparingRoute
<1>2. CASE CreateHolds \/ EnsureThen("published")
  BY <1>0, <1>2, PcIs, EnsureUnserved DEF CreateHolds
<1>3. CASE CreatePrepared
  <2>1. (~Published(route) \/ missed) /\ route' = route /\ missed' = missed /\ pass'.pc = "run"
    BY <1>0, <1>3 DEF CreatePrepared, At, Advance, Goto, Reads, Env, Pass, UnservedInv
  <2> QED BY <2>1 DEF UnservedInv, UnprobedUnserved, Published
<1>4. CASE CreateCredit
  <2>1. route' = route /\ missed' = missed /\ pass'.pc # "prepared"
    BY <1>0, <1>4 DEF CreateCredit, Restage, Advance, Goto, End, Idle, Credits, Reads, Env, Pass
  <2>2. auth' = auth \/ auth'.stage = "Publishing"
    BY <1>0, <1>4 DEF CreateCredit, Restage, Advance, Persist, Kept, Auth
  <2> QED BY <2>1, <2>2 DEF UnservedInv, UnprobedUnserved, Published
<1> QED BY <1>1, <1>2, <1>3, <1>4, CreateQuiet, QuietUnserved

LEMMA LockUnserved == ASSUME IInv, UnservedInv, LockStep PROVE UnservedInv'
<1>0. TypeOK /\ pass \in Pass /\ auth \in Auth /\ PcRecord
  BY InvIs
<1>1. CASE EnsureThen("clear") \/ EnsureThen("gate")
  BY <1>0, <1>1, PcIs, EnsureUnserved
<1>2. CASE EnsureLast
  BY <1>0, <1>2, EnsureLastUnserved
<1>3. CASE LockPromoted \/ ProbingBefore
  <2>1. route' = route /\ missed' = missed /\ pass'.pc # "prepared"
    BY <1>0, <1>3 DEF LockPromoted, ProbingBefore, Advance, Goto, Reads, Env, Pass
  <2>2. auth' = auth \/ (auth'.kind = auth.kind /\ auth.kind = "Lock")
    BY <1>0, <1>3 DEF LockPromoted, ProbingBefore, At, Advance, Persist, Kept, Auth, PcRecord
  <2> QED BY <2>1, <2>2 DEF UnservedInv, UnprobedUnserved, Published
<1>4. CASE lockServed
  <2>1. route' = route /\ missed' = missed /\ pass'.pc # "prepared"
    BY <1>0, <1>4 DEF lockServed, Goto, End, Idle, Credits, Env, Pass
  <2>2. auth'.kind = ""
    BY <1>4 DEF lockServed, Persist, Record, Enter
  <2> QED BY <2>1, <2>2 DEF UnservedInv, UnprobedUnserved, Published
<1> QED BY <1>1, <1>2, <1>3, <1>4, LockQuiet, QuietUnserved

(* Between writing the policy and crediting a probe of it, the route of a    *)
(* Create carries no backend, wherever its passes are cut, however the cache *)
(* lags, and however others edit, delete and tamper, unless the last route   *)
(* write was skipped on a stale copy that carried none (runCreate,           *)
(* ensureServingRoute).                                                      *)
THEOREM AuthUnserved == Spec => []UnprobedUnserved
<1>1. Init => UnservedInv
  <2>1. NoAuth.kind = "" /\ Idle.pc = "idle"
    BY DEF NoAuth, Record, Enter, Idle
  <2> QED BY <2>1 DEF Init, UnservedInv, UnprobedUnserved
<1>2. IInv /\ UnservedInv /\ [Next]_vars => UnservedInv'
  <2> SUFFICES ASSUME IInv, UnservedInv, [Next]_vars PROVE UnservedInv'
    OBVIOUS
  <2>1. TypeOK
    BY InvIs
  <2>2. CASE UNCHANGED vars
    BY <2>2 DEF vars, objects, history, UnservedInv, UnprobedUnserved, Published
  <2>3. CASE CreateStep \/ LockStep
    BY <2>3, CreateUnserved, LockUnserved
  <2>4. CASE EnsureThen("refuse") \/ EnsureLast
    BY <2>1, <2>4, PcIs, EnsureUnserved, EnsureLastUnserved
  <2>5. CASE (DecideStep /\ ~EnsureThen("refuse") /\ ~EnsureLast) \/ AbandonStep
    BY <2>5, DecideQuiet, AbandonQuiet, QuietUnserved
  <2>6. CASE SharedStep
    <3>1. CASE probeAgent
      <4>1. route' = route /\ missed' = missed /\ auth' = auth /\ pass'.pc = "probed"
        BY <3>1, InvIs DEF probeAgent, Reads, Env, Kept, Pass
      <4> QED BY <4>1 DEF UnservedInv, UnprobedUnserved, Published
    <3> QED BY <2>6, <3>1, SharedQuiet, QuietUnserved
  <2>7. CASE gatewayStep \/ FinalStep \/ CutStep \/ Fail
    BY <2>7, EdgeQuiet, QuietUnserved
  <2>8. CASE System \/ Users
    BY <2>8, OthersUnserved
  <2> QED BY <2>2, <2>3, <2>4, <2>5, <2>6, <2>7, <2>8 DEF Next, Worker
<1>3. UnservedInv => UnprobedUnserved
  BY DEF UnservedInv
<1> QED BY <1>1, <1>2, <1>3, Invariance, PTL DEF Spec

-----------------------------------------------------------------------------
(***************************************************************************)
(* The steps that are not quiet, for what is credited.                     *)
(***************************************************************************)
(* The route a pass holds once it wrote it is the one it asked for. *)
LEMMA EnsureHolds ==
  ASSUME TypeOK, NEW pc \in Pc, EnsureThen(pc)
  PROVE  /\ auth' = auth /\ credit' = credit /\ cards' = cards /\ pass'.pc = pc
         /\ Prepared => pass'.rt.backend = 0
<1>1. Seen \in Route /\ pass \in Pass
  BY DEF TypeOK, Seen
<1>2. Prepared => Desired.backend = 0
  BY <1>1 DEF Desired, Route, routePublicationFor
<1>3. pass'.rt = (IF equalRoute THEN Seen ELSE Desired)
  BY <1>1 DEF EnsureThen, Pass
<1>4. Prepared => pass'.rt.backend = 0
  BY <1>2, <1>3 DEF equalRoute
<1> QED BY <1>4, EnsuredThen DEF EnsureThen, Env, Rest

(* Such a write is quiet unless its pass goes on to probe that route, when   *)
(* it is a Create's, or one that records no answer before.                   *)
LEMMA EnsureCredit ==
  ASSUME IInv, CreditInv, TypeOK', NEW pc \in Pc, EnsureThen(pc), pc # "probed",
         pc \in Looking => Prepared, pc \in Holding => auth.kind = "Create" \/ auth.mode = "apikey"
  PROVE  CreditInv'
<1>1. /\ auth' = auth /\ credit' = credit /\ cards' = cards /\ pass'.pc = pc
      /\ Prepared => pass'.rt.backend = 0
  BY InvIs, EnsureHolds
<1>2. CardsOpen' /\ CreditAttributed' /\ BeforeOpen' /\ BeforeRecord' /\ AnswerHeld'
  BY <1>1 DEF CreditInv, CardsOpen, CreditAttributed, BeforeOpen, BeforeRecord, AnswerHeld
<1>3. RouteHeld'
  BY <1>1 DEF CreditInv, RouteHeld, BeforeRecord, Looking, Holding
<1> QED BY <1>2, <1>3 DEF CreditInv

LEMMA EnsureLastCredit == ASSUME IInv, CreditInv, TypeOK', EnsureLast PROVE CreditInv'
<1>1. auth' = auth /\ credit' = credit /\ cards' = cards /\ pass'.pc = "idle"
  BY InvIs, EnsuredLast DEF EnsureLast, Env, Rest
<1> QED BY <1>1 DEF CreditInv, CardsOpen, CreditAttributed, BeforeOpen, BeforeRecord, AnswerHeld,
              RouteHeld, Looking, Holding

LEMMA SelfAuthIs == 0 \notin SelfAuth
BY ConstantsAssumption

(* An answer is whose it says. *)
LEMMA AnswersSay ==
  ASSUME NEW a \in Answers
  PROVE  /\ a.by = "backend" => a.backend = proxy.backend /\ a.backend # 0
         /\ a.by = "backend" /\ a.code = "401" => a.backend \in SelfAuth
         /\ a.by = "above" => above
         /\ a.code = "200" /\ a.backend # 0 => a.backend \notin SelfAuth
<1>1. /\ Says("other", "", 0).by = "" /\ Says("401", "above", 0).by = "above"
      /\ Says("401", "foreign", 0).by = "foreign" /\ Says("401", "own", 0).by = "own"
      /\ Says("other", "", 0).backend = 0 /\ Says("401", "above", 0).backend = 0
      /\ Says("401", "foreign", 0).backend = 0 /\ Says("401", "own", 0).backend = 0
  BY DEF Says
<1>2. /\ Backend.by = "backend" /\ Backend.backend = proxy.backend
      /\ Backend.code = IF proxy.backend \in SelfAuth THEN "401" ELSE "200"
  BY DEF Backend, Says
<1>3. CASE a = Backend /\ proxy.backend # 0
  BY <1>2, <1>3
<1>4. CASE a \in {Says("other", "", 0), Says("401", "foreign", 0), Says("401", "own", 0)}
  BY <1>1, <1>4
<1>5. CASE a = Says("401", "above", 0) /\ above
  BY <1>1, <1>5
<1> QED BY <1>3, <1>4, <1>5 DEF Answers

(* A clean 401 is not from above, and a backend's is the named one's only if *)
(* that backend asks for credentials itself.                                 *)
LEMMA CreditNot ==
  ASSUME CreditInv, pass \in Pass, pass.pc = "probed", pass.answer.code = "401", Clean,
         pass.rt.backend \notin SelfAuth
  PROVE  Source \notin {"named", "above"}
<1>1. /\ pass.answer.by = "backend" => pass.answer.backend \in SelfAuth
      /\ pass.answer.by = "above" => pass.flick
  BY DEF CreditInv, AnswerHeld, Clean
<1>2. pass.answer.by \in {"", "own", "above", "foreign", "backend"}
  BY DEF Pass, Answer
<1>3. CASE pass.answer.by = "above"
  BY <1>1, <1>3 DEF Source
<1>4. CASE pass.answer.by = "backend"
  BY <1>1, <1>4 DEF Source
<1>5. CASE pass.answer.by \notin {"above", "backend"}
  BY <1>2, <1>5 DEF Source
<1> QED BY <1>3, <1>4, <1>5

LEMMA CreateCreditKept == ASSUME IInv, CreditInv, TypeOK', CreateStep PROVE CreditInv'
<1>0. TypeOK /\ pass \in Pass /\ auth \in Auth /\ PcRecord
  BY InvIs
<1>1. CASE PreparingRoute \/ EnsureThen("published")
  BY <1>1, PcIs, EnsureCredit DEF PreparingRoute, Looking, Holding
<1>2. CASE CreateHolds
  <2>1. Prepared /\ auth.kind = "Create"
    BY <1>0, <1>2 DEF CreateHolds, At, Prepared, PcRecord
  <2> QED BY <1>2, <2>1, PcIs, EnsureCredit DEF CreateHolds
<1>3. CASE CreatePrepared
  <2>1. auth' = [auth EXCEPT !.stage = "ApplyingPolicies", !.written = TRUE]
    BY <1>3 DEF CreatePrepared, Advance, Persist
  <2>2. /\ auth'.kind = "Create" /\ auth'.before = auth.before /\ pass'.pc = "run"
        /\ cards' = cards /\ credit' = credit
    BY <1>0, <1>3, <2>1 DEF CreatePrepared, At, Advance, Goto, Reads, Env, Rest, Pass, Auth, PcRecord
  <2> QED BY <1>0, <1>3, <2>2 DEF CreatePrepared, At, PcRecord, CreditInv, CardsOpen, CreditAttributed,
                BeforeOpen, BeforeRecord, RouteHeld, AnswerHeld, Looking
<1>4. CASE CreateCredit
  <2>1. auth.kind = "Create" /\ pass.pc = "probed" /\ pass.rt.backend = 0 /\ auth.before = 0
    BY <1>4 DEF CreateCredit, At, CreditInv, RouteHeld, BeforeRecord, Looking
  <2>2. CASE End /\ Kept /\ Reads
    BY <2>2, ReadsSilent, EndQuiet, QuietCredit DEF Kept, RecordKept
  <2>3. CASE pass.answer.code = "401" /\ Clean /\ Restage("Publishing") /\ Credits
    <3>1. 0 \notin SelfAuth
      BY SelfAuthIs
    <3>2. Source \notin {"named", "above"}
      BY <1>0, <2>1, <2>3, <3>1, CreditNot
    <3>3. auth'.kind = "Create" /\ auth'.before = 0 /\ pass'.pc = "run" /\ cards' = cards /\ credit' = Source
      BY <1>0, <2>1, <2>3 DEF Restage, Advance, Persist, Goto, Credits, Env, Rest, Pass, Auth
    <3> QED BY <3>2, <3>3 DEF CreditInv, CardsOpen, CreditAttributed, BeforeOpen, BeforeRecord,
                  RouteHeld, AnswerHeld, Looking
  <2> QED BY <1>4, <2>2, <2>3 DEF CreateCredit
<1> QED BY <1>1, <1>2, <1>3, <1>4, CreateQuiet, QuietCredit

LEMMA ProbeKept == ASSUME IInv, CreditInv, TypeOK', probeAgent PROVE CreditInv'
<1>0. pass \in Pass /\ auth' = auth /\ credit' = credit /\ cards' = cards /\ above' = above
  BY InvIs DEF probeAgent, Reads, Env, Rest, Kept
<1>1. PICK a \in Answers : pass' = [pass EXCEPT !.pc = "probed", !.answer = a]
  BY DEF probeAgent
<1>2. pass'.pc = "probed" /\ pass'.rt = pass.rt /\ pass'.answer = a
  BY <1>0, <1>1 DEF Pass
<1>3. AnswerHeld'
  BY <1>0, <1>2, AnswersSay DEF AnswerHeld
<1>4. RouteHeld'
  BY <1>0, <1>2 DEF probeAgent, At, CreditInv, RouteHeld, Looking, Holding
<1> QED BY <1>0, <1>3, <1>4 DEF CreditInv, CardsOpen, CreditAttributed, BeforeOpen, BeforeRecord

(* The answer before is recorded with the backend the pass holds, which      *)
(* answered 200 without credentials.                                         *)
LEMMA BeforeKept == ASSUME IInv, CreditInv, TypeOK', ProbingBefore PROVE CreditInv'
<1>0. /\ pass \in Pass /\ auth \in Auth /\ credit' = credit /\ cards' = cards
      /\ auth.kind = "Lock" /\ auth.mode # "apikey"
  BY InvIs DEF ProbingBefore, Reads, Env, Rest, CreditInv, BeforeRecord
<1>1. PICK a \in Answers :
        Advance([auth EXCEPT !.stage = "ApplyingPolicies", !.written = TRUE,
                             !.before = IF /\ a.code = "200" /\ cardedRevision(pass.rt.backend)
                                           /\ a.backend = pass.rt.backend
                                        THEN pass.rt.backend ELSE 0], "run")
  BY DEF ProbingBefore
<1> DEFINE b == IF /\ a.code = "200" /\ cardedRevision(pass.rt.backend)
                   /\ a.backend = pass.rt.backend
                THEN pass.rt.backend ELSE 0
<1>2. b \in {0, pass.rt.backend} /\ (b # 0 => b \notin SelfAuth)
  BY AnswersSay
<1>3. auth' = [auth EXCEPT !.stage = "ApplyingPolicies", !.written = TRUE, !.before = b] /\ Goto("run")
  BY <1>1 DEF Advance, Persist
<1> HIDE DEF b
<1>4. auth'.kind = "Lock" /\ auth'.mode = auth.mode /\ auth'.before = b
  BY <1>0, <1>3 DEF Auth
<1>5. pass'.pc = "run" /\ pass'.rt = pass.rt
  BY <1>0, <1>3 DEF Goto, Pass
<1>6. BeforeOpen' /\ BeforeRecord' /\ RouteHeld' /\ AnswerHeld'
  BY <1>0, <1>2, <1>4, <1>5 DEF BeforeOpen, BeforeRecord, RouteHeld, AnswerHeld, Looking
<1> QED BY <1>0, <1>6 DEF CreditInv, CardsOpen, CreditAttributed

(* A promotion forgets the answer before. *)
LEMMA PromotedKept == ASSUME IInv, CreditInv, TypeOK', LockPromoted PROVE CreditInv'
<1>0. pass \in Pass /\ auth \in Auth /\ credit' = credit /\ cards' = cards /\ auth.kind = "Lock"
  BY InvIs DEF LockPromoted, At, Reads, Env, Rest, PcRecord
<1>1. CASE Advance([auth EXCEPT !.before = 0], "run")
  <2>1. auth'.before = 0 /\ auth'.kind = "Lock" /\ auth'.mode = auth.mode /\ auth'.stage = auth.stage
    BY <1>0, <1>1 DEF Advance, Persist, Auth
  <2>2. pass'.pc = "run"
    BY <1>0, <1>1 DEF Advance, Goto, Pass
  <2> QED BY <1>0, <2>1, <2>2 DEF CreditInv, CardsOpen, CreditAttributed, BeforeOpen, BeforeRecord,
                RouteHeld, AnswerHeld, Looking
<1>2. CASE (isReCreation \/ auth.before \in {0, pass.rt.backend}) /\ Goto("run") /\ Kept
  <2>1. pass'.pc = "run" /\ pass'.rt = pass.rt /\ auth' = auth
    BY <1>0, <1>2 DEF Goto, Kept, Pass
  <2>2. isReCreation => auth.mode = "apikey"
    BY <1>0, InvIs DEF isReCreation, TypeOK, WellFormed
  <2>3. RouteHeld'
    BY <1>0, <1>2, <2>1, <2>2 DEF RouteHeld, Looking
  <2> QED BY <1>0, <2>1, <2>3 DEF CreditInv, CardsOpen, CreditAttributed, BeforeOpen, BeforeRecord,
                AnswerHeld
<1> QED BY <1>1, <1>2 DEF LockPromoted

(* A Lock credits a 401 only where the route's backend is known to ask for   *)
(* none: from its card, or from the answer before.                           *)
LEMMA ServedKept == ASSUME IInv, CreditInv, TypeOK', lockServed PROVE CreditInv'
<1>0. /\ pass \in Pass /\ pass.pc = "probed" /\ auth.kind = "Lock" /\ pass.answer.code = "401"
      /\ auth.before # 0 \/ pass.rt.backend \in cards
      /\ Clean
  BY InvIs DEF lockServed, At, cardAttributes, cardedRevision
<1>1. pass.rt.backend \notin SelfAuth
  <2>1. CASE pass.rt.backend \in cards
    BY <2>1 DEF CreditInv, CardsOpen
  <2>2. CASE auth.before # 0
    BY <1>0, <2>2 DEF CreditInv, BeforeOpen, BeforeRecord, RouteHeld, Holding
  <2> QED BY <1>0, <2>1, <2>2
<1>2. Source \notin {"named", "above"}
  BY <1>0, <1>1, CreditNot
<1>3. auth'.kind = "" /\ auth'.before = 0 /\ credit' = Source /\ cards' = cards
  BY DEF lockServed, Persist, Record, Enter, Credits, Env, Rest
<1>4. pass'.pc \in {"idle", "unmark"}
  BY <1>0 DEF lockServed, Goto, End, Idle, Pass
<1> QED BY <1>2, <1>3, <1>4 DEF CreditInv, CardsOpen, CreditAttributed, BeforeOpen, BeforeRecord,
              RouteHeld, AnswerHeld, Looking

LEMMA LockKept == ASSUME IInv, CreditInv, TypeOK', LockStep PROVE CreditInv'
<1>1. CASE EnsureThen("clear")
  BY <1>1, PcIs, EnsureCredit DEF Looking, Holding
<1>2. CASE LockRepoint /\ EnsureThen("gate")
  <2>1. auth.mode = "apikey"
    BY <1>2, InvIs DEF LockRepoint, At, PcRecord
  <2> QED BY <1>2, <2>1, PcIs, EnsureCredit DEF Looking
<1>3. CASE ProbingBefore \/ LockPromoted \/ lockServed \/ EnsureLast
  BY <1>3, BeforeKept, PromotedKept, ServedKept, EnsureLastCredit
<1> QED BY <1>1, <1>2, <1>3, LockQuiet, QuietCredit

(* A 401 that a transaction credited came neither from the backend the route *)
(* named nor from a policy on the Gateway that stood through the probe,      *)
(* however the cache lags, passes are cut and others interfere (cardAttri-   *)
(* butes, beforeRevisionFor, the two reads around the probe).                *)
THEOREM AuthAttributes == Spec => []CreditAttributed
<1>1. Init => CreditInv
  <2> SUFFICES ASSUME Init PROVE CreditInv
    OBVIOUS
  <2>1. /\ NoAuth.kind = "" /\ NoAuth.before = 0 /\ Idle.pc = "idle"
    BY DEF NoAuth, Record, Enter, Idle
  <2>2. TypeOK
    BY InitGood DEF IInv
  <2>3. cards = {} /\ credit = "none" /\ auth = NoAuth /\ pass = Idle
    BY DEF Init
  <2> QED BY <2>1, <2>2, <2>3 DEF CreditInv, CardsOpen, CreditAttributed, BeforeOpen, BeforeRecord,
                RouteHeld, AnswerHeld, Looking, Holding
<1>2. IInv /\ CreditInv /\ [Next]_vars => CreditInv'
  <2> SUFFICES ASSUME IInv, CreditInv, [Next]_vars PROVE CreditInv'
    OBVIOUS
  <2>1. TypeOK'
    BY NextGood DEF Good, IInv
  <2>2. CASE UNCHANGED vars
    BY <2>1, <2>2 DEF vars, history, objects, CreditInv, CardsOpen, CreditAttributed, BeforeOpen, BeforeRecord,
      RouteHeld, AnswerHeld
  <2>3. CASE CreateStep \/ LockStep
    BY <2>1, <2>3, CreateCreditKept, LockKept
  <2>4. CASE EnsureThen("refuse") \/ EnsureLast
    BY <2>1, <2>4, PcIs, EnsureCredit, EnsureLastCredit DEF Looking, Holding
  <2>5. CASE (DecideStep /\ ~EnsureThen("refuse") /\ ~EnsureLast) \/ AbandonStep
    BY <2>1, <2>5, DecideQuiet, AbandonQuiet, QuietCredit
  <2>6. CASE SharedStep
    BY <2>1, <2>6, ProbeKept, SharedQuiet, QuietCredit
  <2>7. CASE gatewayStep \/ FinalStep \/ CutStep \/ Fail
    BY <2>1, <2>7, EdgeQuiet, QuietCredit
  <2>8. CASE System \/ Users
    BY <2>1, <2>8, OthersCredit
  <2> QED BY <2>2, <2>3, <2>4, <2>5, <2>6, <2>7, <2>8 DEF Next, Worker
<1>3. CreditInv => CreditAttributed
  BY DEF CreditInv
<1> QED BY <1>1, <1>2, <1>3, Invariance, PTL DEF Spec
=============================================================================
