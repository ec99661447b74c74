-------------------------- MODULE AuthTransaction ---------------------------
(***************************************************************************)
(* The -auth transactions of one Agent (authtxn.go, httproute.go,          *)
(* gatewaywiring.go; design 03 section 3.3).                               *)
(*                                                                         *)
(* An Agent is reached through one HTTPRoute, and an API-key Agent's route *)
(* through one policy.  A pass of the reconciler moves both towards the    *)
(* spec: Create prepares a route, writes the policy, probes it and only    *)
(* then publishes; Lock writes a policy under a route that serves; Adopt   *)
(* refuses a route found published with nothing recorded.  Each stage is   *)
(* recorded in status.auth before the write it authorizes.                 *)
(*                                                                         *)
(* A pass is split before every write of the route or the policy and       *)
(* around every probe, and may be cut short at each of these points.  A    *)
(* read that only leads to a status write is folded into that write.  The  *)
(* route is read through a cache that lags, except where the code reads    *)
(* it live; policies are always read live.  The proxy lags the objects.    *)
(***************************************************************************)
EXTENDS Naturals

CONSTANTS
  MaxRev,       \* bound: revisions promoted, 1..MaxRev; 0 is none
  SelfAuth,     \* revisions whose own server answers 401 to everybody
  Origins,      \* which Agents there may be: found published (TRUE), new (FALSE)
  Budgets,      \* whether the spec may carry a spec.budget from before
  Lags,         \* whether the route cache may lag
  Holds,        \* whether somebody's finalizer may hold a deleted object
  MaxEdits,     \* bound: edits of the spec
  MaxTampers,   \* bound: what others do to the route, the policy, the Gateway
  MaxFaults     \* bound: passes cut short by a crash or a failed call

ASSUME ConstantsAssumption ==
  /\ MaxRev \in Nat \ {0}
  /\ SelfAuth \subseteq 1..MaxRev
  /\ Origins \subseteq BOOLEAN /\ Budgets \subseteq BOOLEAN
  /\ Lags \in BOOLEAN /\ Holds \in BOOLEAN
  /\ MaxEdits \in Nat /\ MaxTampers \in Nat /\ MaxFaults \in Nat

VARIABLES
  alive,        \* the Agent: live, deleting, gone
  want,         \* spec.expose.a2a.auth, and whether spec.budget is stored
  active,       \* status.activeRevision
  cards,        \* the revisions status.cards records a digest for
  auth,         \* status.auth
  route,        \* <agent>-serving
  cached,       \* the manager's cached copy of it
  policy,       \* <agent>-auth
  foreign,      \* somebody's traffic policy targets the route
  above,        \* a policy on the Gateway could answer the probe
  proxy,        \* what the proxy serves with
  pass,         \* the pass the worker is in
  edits, tampers, faults,
  legacy,       \* history: the route was published before any record
  loosed,       \* history: others took the policy away, or changed it
  credit,       \* history: who gave the 401 that was last credited
  missed        \* history: the last route write was skipped on a stale copy

objects == <<route, cached, policy, foreign, above, proxy>>
counts == <<edits, tampers, faults>>
spec == <<alive, want>>
history == <<legacy, loosed, credit, missed>>
vars == <<spec, active, cards, auth, objects, pass, counts, history>>

Rev == 1..MaxRev
Mode == {"none", "apikey", "oauth"}
Want == [mode : Mode, budget : BOOLEAN]
Presence == {"absent", "there", "held"}   \* held: deleted, kept by a finalizer

(* backend 0: a prepared route.  reported: the Gateway accepts it as it is. *)
Route == [at : Presence, backend : 0..MaxRev, marker : BOOLEAN, reported : BOOLEAN]
NoRoute == [at |-> "absent", backend |-> 0, marker |-> FALSE, reported |-> FALSE]
Published(rt) == rt.backend # 0

(* body: what the compiler renders, changed since, or not this Agent's. *)
Policy == [at : Presence, body : {"own", "drift", "foreign"}, reported : BOOLEAN, nacked : BOOLEAN]
NoPolicy == [at |-> "absent", body |-> "own", reported |-> FALSE, nacked |-> FALSE]
Present == policy.at # "absent"
Intact == Present /\ policy.body = "own"
ForeignAtOwnName == Present /\ policy.body = "foreign"
OwnUID == Present /\ policy.body # "foreign"

Stage == {"", "Refused", "ProbingBefore", "PreparingRoute", "ApplyingPolicies", "Converging",
          "ProbingAfter", "Publishing"}
Auth == [mode : {"", "none", "apikey"}, kind : {"", "Create", "Adopt", "Lock"}, stage : Stage,
         target : {"", "none", "apikey"}, written : BOOLEAN, refused : Mode \cup {""},
         before : 0..MaxRev]
Enter(mode, kind, stage, target) ==
  [mode |-> mode, kind |-> kind, stage |-> stage, target |-> target, written |-> FALSE,
   refused |-> "", before |-> 0]
Record(mode) == Enter(mode, "", "", "")
NoAuth == Record("")
Unrecorded == auth.kind = "" /\ auth.mode = ""

(* An answer, and who gave it; a 401 is somebody's. *)
Answer ==
  {a \in [code : {"none", "401", "200", "other"}, by : {"", "own", "above", "foreign", "backend"},
           backend : 0..MaxRev] : a.code = "401" => a.by # ""}
NoAnswer == [code |-> "none", by |-> "", backend |-> 0]

(* Where a pass stands; the writers of the route go through one operation. *)
RouteWriters == {"prepare", "hold", "publish", "lock", "repoint", "unmark", "adopt", "follow"}
Pc == {"idle", "step", "run", "prepared", "applied", "look", "probe", "probed", "published",
       "clear", "gate", "refuse", "strip", "unroute", "unpolicy", "abandoned", "sweep",
       "reassert", "revoke", "detach", "release"} \cup RouteWriters

(* rt: the route as the pass holds it.  held: its first read of the Gateway. *)
(* stale: the Agent was edited since.  flick: a policy of somebody else came *)
(* or went around the probe.                                                 *)
Pass == [pc : Pc, want : Want, rev : 0..MaxRev, foreign : SUBSET {"name", "other"}, rt : Route, created : BOOLEAN,
         held : BOOLEAN, answer : Answer, stale : BOOLEAN, flick : BOOLEAN]
Idle == [pc |-> "idle", want |-> [mode |-> "none", budget |-> FALSE], rev |-> 0,
         foreign |-> {}, rt |-> NoRoute, created |-> FALSE, held |-> FALSE,
         answer |-> NoAnswer, stale |-> FALSE, flick |-> FALSE]

(* A transaction has a target, unless it is the refused Adopt, and a stage   *)
(* its runner knows (runCreate and runLock stop on any other).               *)
WellFormed(a) ==
  /\ a \in Auth
  /\ a.kind = "Create" => a.stage \in Stage \ {"", "Refused", "ProbingBefore"}
  /\ a.kind = "Lock" => a.stage \in Stage \ {"", "Refused", "PreparingRoute", "Publishing"}
  /\ a.kind = "Lock" => a.target = "apikey"
  /\ a.kind \in {"Create", "Lock"} => a.target # ""
  /\ a.kind \in {"", "Adopt"} => ~a.written

(* Every variable keeps its type, and the recorded transaction is one that   *)
(* runCreate or runLock can go on with.                                      *)
TypeOK ==
  /\ alive \in {"live", "deleting", "gone"} /\ want \in Want
  /\ active \in 0..MaxRev /\ cards \subseteq Rev
  /\ WellFormed(auth)
  /\ route \in Route /\ cached \in Route /\ policy \in Policy
  /\ foreign \in BOOLEAN /\ above \in BOOLEAN
  /\ proxy \in [there : BOOLEAN, backend : 0..MaxRev, auth : BOOLEAN]
  /\ pass \in Pass
  /\ edits \in Nat /\ tampers \in Nat /\ faults \in Nat
  /\ legacy \in BOOLEAN /\ loosed \in BOOLEAN
  /\ credit \in {"none", "own", "above", "foreign", "flicker", "named", "other"}
  /\ missed \in BOOLEAN

Init ==
  /\ alive = "live"
  /\ want \in [mode : Mode, budget : Budgets]
  /\ legacy \in Origins
  /\ active = (IF legacy THEN 1 ELSE 0) /\ cards = {}
  /\ auth = NoAuth
  /\ route = [NoRoute EXCEPT !.at = IF legacy THEN "there" ELSE "absent",
                             !.backend = active, !.reported = legacy]
  /\ cached = route /\ policy = NoPolicy
  /\ foreign = FALSE /\ above = FALSE
  /\ proxy = [there |-> legacy, backend |-> active, auth |-> FALSE]
  /\ pass = Idle
  /\ edits = 0 /\ tampers = 0 /\ faults = 0
  /\ loosed = FALSE /\ credit = "none" /\ missed = FALSE

-----------------------------------------------------------------------------
(***************************************************************************)
(* What a pass computes from what it read.                                 *)
(***************************************************************************)
Compiles(w) == w.mode # "oauth" /\ ~w.budget

(* currentServingRoute; the live read is the variable itself. *)
Seen == IF Lags THEN cached ELSE route

isReCreation ==
  /\ auth.mode # ""
  /\ auth.kind = "Create" \/ (auth.kind = "Lock" /\ auth.target = auth.mode)

(* Mutant of Abandons: a re-creation is abandoned too. *)
AbandonsAny == auth.kind \in {"Create", "Lock"} /\ auth.target # pass.want.mode

Abandons ==
  /\ auth.kind \in {"Create", "Lock"} /\ ~isReCreation
  /\ auth.target # pass.want.mode

k2Consent ==
  /\ pass.want.mode = "apikey"
  /\ auth.refused \notin {"", "apikey"}

(* The backend and the marker routePublicationFor asks for. *)
Prepared == auth.kind = "Create" /\ auth.stage # "Publishing"
(* Mutants of PublishMode: a Lock drops the marker with its first route     *)
(* write, or once the policy is written.                                    *)
PublishModeTarget == IF auth.kind \in {"Create", "Lock"} THEN auth.target ELSE auth.mode
PublishModeApplied ==
  IF auth.kind = "Create" \/ auth.stage \in {"Converging", "ProbingAfter"}
  THEN auth.target ELSE auth.mode
PublishMode == IF auth.kind = "Create" THEN auth.target ELSE auth.mode
routePublicationFor(rev) ==
  [backend |-> IF Prepared THEN 0 ELSE rev, marker |-> ~Prepared /\ PublishMode = "none"]

(* ensureServingRoute: an API-key route is never created published. *)
Desired == [Seen EXCEPT
  !.at = IF @ = "absent" THEN "there" ELSE @,
  !.backend = routePublicationFor(pass.rev).backend,
  !.marker = routePublicationFor(pass.rev).marker,
  !.reported = @ /\ Seen.at # "absent" /\ Seen.backend = routePublicationFor(pass.rev).backend]
errRouteGone == Seen.at = "absent" /\ ~Prepared /\ PublishMode = "apikey"
equalRoute == Seen.at # "absent" /\ Desired = Seen
ensureServingRoute ==
  /\ ~errRouteGone
  /\ equalRoute \/ Seen = route
  /\ route' = IF equalRoute THEN route ELSE Desired
  /\ missed' = (equalRoute /\ Seen.backend # route.backend)

(* A lost race: the cache shows a route that is not the one stored. *)
errRouteRaceLost == ~errRouteGone /\ ~equalRoute /\ Seen # route

routeConverged(rt) == rt.at # "absent" /\ rt.reported
policyConverged == policy.reported
cardedRevision(rev) == rev \in cards

-----------------------------------------------------------------------------
(***************************************************************************)
(* How a pass goes on, and how it ends.                                    *)
(***************************************************************************)
At(pc) == pass.pc = pc
Goto(pc) == pass' = [pass EXCEPT !.pc = pc] /\ active' = active

(* The status write that ends a pass is refused when the Agent changed. *)
End ==
  /\ pass' = Idle
  /\ active' = IF pass.stale THEN active ELSE pass.rev

(* persistStatus: status.auth only, as a compare-and-swap on the Agent. *)
Persist(record) == ~pass.stale /\ auth' = record
Advance(record, pc) == Persist(record) /\ Goto(pc)
Restage(stage) == Advance([auth EXCEPT !.stage = stage], "run")

Rest == UNCHANGED <<spec, cards, cached, foreign, above, proxy, counts, legacy>>
Env == Rest /\ UNCHANGED missed
Reads == Env /\ UNCHANGED <<route, policy, loosed, credit>>
Kept == UNCHANGED auth

(* A delete returns, and the object is gone or held by a finalizer. *)
Deleted(gone, held) == {gone} \cup IF Holds THEN {held} ELSE {}
DeleteRoute == route' \in Deleted(NoRoute, [route EXCEPT !.at = "held"])
DeletePolicy == policy' \in Deleted(NoPolicy, [policy EXCEPT !.at = "held"])

-----------------------------------------------------------------------------
(***************************************************************************)
(* The pass: what it reads first, and authStep's cases.                    *)
(***************************************************************************)
(* The switch that promotes ran before; i1Hold keeps a served Agent's route *)
(* on its revision while the spec does not compile.                         *)
Promotable ==
  IF active = 0 \/ auth.mode = "" \/ Compiles(want) THEN {r \in Rev : r >= active} ELSE {}

foreignTrafficPolicies ==
  (IF foreign THEN {"other"} ELSE {}) \cup IF ForeignAtOwnName THEN {"name"} ELSE {}

gatewayStep ==
  /\ At("idle") /\ alive = "live"
  /\ \E r \in Promotable \cup {active} :
       pass' = [Idle EXCEPT !.pc = "step", !.want = want, !.rev = r,
                            !.foreign = foreignTrafficPolicies]
  /\ UNCHANGED active /\ Kept /\ Reads

(* A refused Adopt: K2's consent becomes a Lock, anything else is refused. *)
StepAdopt ==
  /\ At("step") /\ auth.kind = "Adopt"
  /\ IF k2Consent /\ Compiles(pass.want) /\ pass.rev # 0
       THEN Advance(Enter("", "Lock", "ProbingBefore", "apikey"), "lock")
       ELSE Goto("adopt") /\ Kept
  /\ Reads

(* Mutant of StepFound: the trigger is read through the cache. *)
StepFoundCached ==
  /\ At("step") /\ Unrecorded /\ Published(Seen)
  /\ Goto("adopt") /\ Kept /\ Reads

(* Nothing recorded: the live route decides between Adopt and Create. *)
StepFound ==
  /\ At("step") /\ Unrecorded /\ Published(route)
  /\ Goto("adopt") /\ Kept /\ Reads

Enters == Enter("", "Create", IF pass.want.mode = "none" THEN "Publishing" ELSE "PreparingRoute",
                pass.want.mode)
StepCreate ==
  /\ At("step") /\ Unrecorded /\ ~Published(route)
  /\ IF Compiles(pass.want) /\ pass.rev # 0 THEN Advance(Enters, "run")
                                           ELSE Goto("sweep") /\ Kept
  /\ Reads

StepAbandon ==
  /\ At("step") /\ Abandons
  /\ Goto(IF auth.kind = "Create" THEN "strip" ELSE "unpolicy") /\ Kept /\ Reads

StepResume ==
  /\ At("step") /\ auth.kind \in {"Create", "Lock"} /\ ~Abandons
  /\ Goto(IF auth.kind = "Create" THEN "run" ELSE "lock") /\ Kept /\ Reads

(* J2: a served none Agent edited to apikey is locked in place. *)
enterLock ==
  /\ At("step") /\ auth.kind = "" /\ auth.mode = "none"
  /\ Compiles(pass.want) /\ pass.want.mode = "apikey" /\ pass.rev # 0
  /\ Advance(Enter("none", "Lock", "ProbingBefore", "apikey"), "lock")
  /\ Reads

(* collectRoutes with nothing to keep: the cached list, deleted by name. *)
collectRoutes ==
  /\ At("sweep")
  /\ IF Seen.at # "absent" /\ route.at # "absent" THEN DeleteRoute ELSE UNCHANGED route
  /\ End /\ Kept /\ Env /\ UNCHANGED <<policy, loosed, credit>>

-----------------------------------------------------------------------------
(***************************************************************************)
(* Every write of the route but the deletes: ensureServingRoute.           *)
(***************************************************************************)
EnsureThen(pc) ==
  /\ ensureServingRoute
  /\ pass' = [pass EXCEPT !.pc = pc, !.created = Seen.at = "absent",
                          !.rt = IF equalRoute THEN Seen ELSE Desired]
  /\ UNCHANGED active /\ Kept /\ Rest /\ UNCHANGED <<policy, loosed, credit>>
EnsureLast ==
  /\ ensureServingRoute /\ End /\ Kept /\ Rest /\ UNCHANGED <<policy, loosed, credit>>

(* recreateRoute: a Create of what status.auth records, never abandoned. *)
recreateRoute == Advance(Enter(auth.mode, "Create", "PreparingRoute", auth.mode), "run")

-----------------------------------------------------------------------------
(***************************************************************************)
(* runCreate.                                                              *)
(***************************************************************************)
Create(stages) == At("run") /\ auth.kind = "Create" /\ auth.stage \in stages

CreateBegin ==
  /\ Create({"PreparingRoute", "Converging", "ProbingAfter"})
  /\ Goto(IF auth.stage = "PreparingRoute" THEN "prepare" ELSE "hold") /\ Kept /\ Reads
PreparingRoute == At("prepare") /\ EnsureThen("prepared")
CreatePrepared ==
  /\ At("prepared")
  /\ Advance([auth EXCEPT !.stage = "ApplyingPolicies", !.written = TRUE], "run") /\ Reads

(* ApplyingPolicies, of both kinds: hold on a name that is taken, or write. *)
ensureAuthPolicy ==
  /\ OwnUID \/ ~Present
  /\ policy' = IF Intact THEN policy
               ELSE [at |-> IF Present THEN policy.at ELSE "there", body |-> "own",
                     reported |-> FALSE, nacked |-> FALSE]
  /\ credit' = IF Intact THEN credit ELSE "none"
  /\ loosed' = (Intact /\ loosed)
ApplyingPolicies ==
  /\ At("run") /\ auth.stage = "ApplyingPolicies"
  /\ \/ ("name" \in pass.foreign \/ ForeignAtOwnName) /\ End /\ Reads
     \/ "name" \notin pass.foreign /\ ensureAuthPolicy /\ Goto("applied") /\ Env /\ UNCHANGED route
  /\ Kept
(* Mutant of PoliciesApplied: what is written is taken for proved. *)
PoliciesAppliedUnprobed == At("applied") /\ Restage("Publishing") /\ Reads
PoliciesApplied == At("applied") /\ Restage("Converging") /\ Reads

CreateHolds == At("hold") /\ EnsureThen("look")
(* Converging and ProbingAfter, of both kinds. *)
NotIntact == ~Intact \/ (auth.kind = "Create" /\ pass.created)
(* Mutant of LookAgain: a policy that went is waited for. *)
LookAgainWaits == At("look") /\ NotIntact /\ End /\ Kept /\ Reads
LookAgain == At("look") /\ NotIntact /\ Restage("ApplyingPolicies") /\ Reads
(* A NACK is seen unless its Event is not listed; the probe decides then. *)
freshNack ==
  /\ At("look") /\ ~NotIntact /\ policy.nacked
  /\ Persist([auth EXCEPT !.stage = "Converging"]) /\ End /\ Reads
Converging ==
  /\ At("look") /\ ~NotIntact /\ auth.stage = "Converging"
  /\ IF routeConverged(pass.rt) /\ policyConverged THEN Restage("ProbingAfter") ELSE End /\ Kept
  /\ Reads
(* The Gateway is read, and no answer is taken beside a foreign policy. *)
ReadGateway ==
  /\ At("look") /\ ~NotIntact /\ auth.stage = "ProbingAfter"
  /\ IF pass.foreign # {} THEN End
     ELSE /\ pass' = [pass EXCEPT !.held = above, !.flick = FALSE,
                                  !.pc = IF auth.kind = "Create" THEN "probe"
                                         ELSE IF isReCreation /\ cardedRevision(pass.rev)
                                              THEN "repoint" ELSE "gate"]
          /\ UNCHANGED active
  /\ Kept /\ Reads

(* What an anonymous probe may get from the proxy as it serves now.  A     *)
(* probe that times out counts as a fault.                                 *)
Says(code, by, backend) == [code |-> code, by |-> by, backend |-> backend]
Backend ==
  Says(IF proxy.backend \in SelfAuth THEN "401" ELSE "200", "backend", proxy.backend)
Answers ==
  IF ~proxy.there THEN {Says("other", "", 0)}
  ELSE (IF above THEN {Says("401", "above", 0)} ELSE {})
       \cup (IF foreign \/ ForeignAtOwnName THEN {Says("401", "foreign", 0)} ELSE {})
       \cup (IF proxy.auth THEN {Says("401", "own", 0)}
             ELSE IF proxy.backend = 0 THEN {Says("other", "", 0)} ELSE {Backend})
probeAgent ==
  /\ At("probe")
  /\ \E a \in Answers : pass' = [pass EXCEPT !.pc = "probed", !.answer = a]
  /\ UNCHANGED active /\ Kept /\ Reads

(* Mutant of Clean: the Gateway is read once, before the probe. *)
CleanBefore == ~pass.held

(* The Gateway is read again after a 401; both reads must be clean. *)
Clean == ~pass.held /\ ~above
Source ==
  CASE pass.answer.by = "above" -> IF pass.flick THEN "flicker" ELSE "above"
    [] pass.answer.by = "backend" -> IF pass.answer.backend = pass.rt.backend THEN "named" ELSE "other"
    [] OTHER -> pass.answer.by
Credits == credit' = Source /\ Env /\ UNCHANGED <<route, policy, loosed>>
CreateCredit ==
  /\ At("probed") /\ auth.kind = "Create"
  /\ IF pass.answer.code = "401" /\ Clean
       THEN Restage("Publishing") /\ Credits
       ELSE End /\ Kept /\ Reads

(* Mutants of PublishingCheck: a policy that is gone is written again in     *)
(* place; the route keeps its backends while it is.                          *)
PublishingCheckRepairs ==
  /\ Create({"Publishing"})
  /\ IF auth.target = "apikey" THEN ensureAuthPolicy /\ UNCHANGED route /\ Env ELSE Reads
  /\ IF pass.rev = 0 \/ pass.foreign # {} THEN End ELSE Goto("publish")
  /\ Kept
PublishingCheckUnstripped ==
  /\ Create({"Publishing"})
  /\ IF auth.target = "apikey" /\ ~Intact THEN Restage("ApplyingPolicies")
     ELSE IF pass.rev = 0 \/ pass.foreign # {} THEN End /\ Kept
     ELSE Goto("publish") /\ Kept
  /\ Reads

(* Publishing: the policy and the route are read before the route is        *)
(* written; an API-key route that is gone goes back to PreparingRoute.      *)
PublishingCheck ==
  /\ Create({"Publishing"})
  /\ IF auth.target = "apikey" /\ ~Intact THEN Restage("PreparingRoute")
     ELSE IF pass.rev = 0 \/ pass.foreign # {} THEN End /\ Kept
     ELSE IF auth.target = "apikey" /\ Seen.at = "absent" THEN Restage("PreparingRoute")
     ELSE Goto("publish") /\ Kept
  /\ Reads
Publishing ==
  /\ At("publish")
  /\ \/ errRouteGone /\ Restage("PreparingRoute") /\ Reads
     \/ EnsureThen("published")
recordServed ==
  /\ At("published")
  /\ routeConverged(pass.rt) => Persist(Record(auth.target))
  /\ ~routeConverged(pass.rt) => Kept
  /\ End /\ Reads

-----------------------------------------------------------------------------
(***************************************************************************)
(* runLock.                                                                *)
(***************************************************************************)
(* A missing policy's Lock takes the route as found; J2's and K2's keep it  *)
(* published on the serving revision.                                       *)
LockRoute ==
  /\ At("lock")
  /\ \/ /\ isReCreation /\ ~Published(Seen) /\ pass.rev # 0
        /\ recreateRoute /\ Reads
     \/ /\ isReCreation /\ Published(Seen)
        /\ pass' = [pass EXCEPT !.pc = "clear", !.rt = Seen]
        /\ UNCHANGED active /\ Kept /\ Reads
     \/ ~isReCreation /\ pass.rev # 0 /\ EnsureThen("clear")
     \/ pass.rev = 0 /\ End /\ Kept /\ Reads

(* A promotion puts another backend behind the probe. *)
LockPromoted ==
  /\ At("clear")
  /\ IF ~isReCreation /\ auth.before \notin {0, pass.rt.backend}
       THEN Advance([auth EXCEPT !.before = 0], "run")
       ELSE Goto("run") /\ Kept
  /\ Reads

(* One request, recorded whatever it got; a card of the route's backend is *)
(* an observation of the open route (beforeRevisionFor).                   *)
ProbingBefore ==
  /\ At("run") /\ auth.kind = "Lock" /\ auth.stage = "ProbingBefore"
  /\ \E a \in Answers :
       Advance([auth EXCEPT !.stage = "ApplyingPolicies", !.written = TRUE,
                            !.before = IF /\ a.code = "200" /\ cardedRevision(pass.rt.backend)
                                          /\ a.backend = pass.rt.backend
                                       THEN pass.rt.backend ELSE 0], "run")
  /\ Reads
LockLook ==
  /\ At("run") /\ auth.kind = "Lock" /\ auth.stage \in {"Converging", "ProbingAfter"}
  /\ Goto("look") /\ Kept /\ Reads

LockRepoint ==
  /\ At("repoint")
  /\ \/ errRouteGone /\ recreateRoute /\ Reads
     \/ EnsureThen("gate")
LockGate ==
  /\ At("gate")
  /\ IF routeConverged(pass.rt) THEN Goto("probe") ELSE End
  /\ Kept /\ Reads

(* A 401 on a published route counts only when it can be attributed. *)
cardAttributes == cardedRevision(pass.rt.backend)
lockServed ==
  /\ At("probed") /\ auth.kind = "Lock"
  /\ pass.answer.code = "401" /\ (auth.before # 0 \/ cardAttributes) /\ Clean
  /\ Persist(Record("apikey")) /\ Credits
  /\ IF isReCreation THEN End ELSE Goto("unmark")
LockUncredited ==
  /\ At("probed") /\ auth.kind = "Lock"
  /\ pass.answer.code # "401" \/ ~(auth.before # 0 \/ cardAttributes) \/ ~Clean
  /\ End /\ Kept /\ Reads
LockUnmark == At("unmark") /\ EnsureLast

-----------------------------------------------------------------------------
(***************************************************************************)
(* A served Agent, the refused Adopt, and the abandonment.                 *)
(***************************************************************************)
(* Mutant of lockMissingPolicy: it starts where a Create starts. *)
lockMissingPolicyPrepares ==
  Advance(Enter(auth.mode, "Lock", "PreparingRoute", auth.mode), "lock")

lockMissingPolicy ==
  Advance([Enter(auth.mode, "Lock", "ApplyingPolicies", auth.mode) EXCEPT !.written = TRUE], "lock")
reconcileServed ==
  /\ At("step") /\ auth.kind = "" /\ auth.mode # ""
  /\ ~(auth.mode = "none" /\ Compiles(pass.want) /\ pass.want.mode = "apikey" /\ pass.rev # 0)
  /\ IF pass.rev = 0 THEN Goto("sweep") /\ Kept
     ELSE IF auth.mode = "none" THEN Goto("follow") /\ Kept
     ELSE IF ~Published(Seen) THEN recreateRoute
     ELSE IF ~Present THEN lockMissingPolicy
     ELSE Goto("reassert") /\ Kept
  /\ Reads
reassertServedPolicy ==
  /\ At("reassert")
  /\ IF OwnUID THEN ensureAuthPolicy ELSE UNCHANGED <<policy, credit, loosed>>
  /\ Goto("follow") /\ Kept /\ Env /\ UNCHANGED route
ServedFollows ==
  /\ At("follow")
  /\ \/ errRouteGone /\ recreateRoute /\ Reads
     \/ EnsureLast

AdoptFollows ==
  /\ At("adopt")
  /\ IF pass.rev = 0 THEN Goto("refuse") /\ Kept /\ Reads ELSE EnsureThen("refuse")
refusedMode ==
  IF auth.kind = "Adopt" /\ pass.want.mode = "apikey" THEN auth.refused ELSE pass.want.mode
refuseAdopt ==
  /\ At("refuse")
  /\ Persist([Enter("", "Adopt", "Refused", "") EXCEPT !.refused = refusedMode])
  /\ End /\ Reads

(* The route loses its backends first, on the object read live. *)
AbandonStrip ==
  /\ At("strip")
  /\ route' = IF Published(route) THEN [route EXCEPT !.backend = 0, !.reported = FALSE] ELSE route
  /\ Goto(IF route.at # "absent" /\ ~Compiles(pass.want) THEN "unroute" ELSE "unpolicy")
  /\ Kept /\ Env /\ UNCHANGED <<policy, loosed, credit>>
AbandonRoute ==
  /\ At("unroute")
  /\ IF route.at = "there" THEN DeleteRoute ELSE UNCHANGED route
  /\ IF route'.at = "absent" THEN Goto("unpolicy") ELSE End
  /\ Kept /\ Env /\ UNCHANGED <<policy, loosed, credit>>

(* deleteAuthPolicy: the name and the UID label are the authority. *)
deleteAuthPolicy ==
  /\ IF OwnUID /\ policy.at = "there" THEN DeletePolicy ELSE UNCHANGED policy
  /\ UNCHANGED <<route, loosed, credit>>
PolicyWaiting == policy'.at # "absent" /\ policy'.body # "foreign"
(* Mutant of AbandonPolicy: a delete that returned is taken for done. *)
AbandonPolicyNoWait ==
  /\ At("unpolicy")
  /\ IF auth.written THEN deleteAuthPolicy ELSE UNCHANGED <<route, policy, loosed, credit>>
  /\ Goto("abandoned") /\ Kept /\ Env

AbandonPolicy ==
  /\ At("unpolicy")
  /\ IF auth.written THEN deleteAuthPolicy ELSE UNCHANGED <<route, policy, loosed, credit>>
  /\ IF auth.written /\ PolicyWaiting THEN End ELSE Goto("abandoned")
  /\ Kept /\ Env
(* The record returns to what was recorded, after what it names is gone. *)
abandon ==
  /\ At("abandoned")
  /\ IF auth.kind = "Lock" /\ auth.mode = "" THEN Goto("adopt") /\ Kept
     ELSE IF auth.kind = "Lock" THEN Advance(Record(auth.mode), "step")
     ELSE IF Compiles(pass.want) /\ pass.rev # 0 THEN Advance(Enters, "run")
     ELSE Advance(NoAuth, "sweep")
  /\ Reads

-----------------------------------------------------------------------------
(***************************************************************************)
(* The finalizer: the route first, and the policy once it is gone.         *)
(***************************************************************************)
finalize ==
  /\ At("idle") /\ alive = "deleting"
  /\ pass' = [Idle EXCEPT !.pc = "revoke", !.want = want, !.rev = active]
  /\ UNCHANGED active /\ Kept /\ Reads
revokeGateway ==
  /\ At("revoke")
  /\ IF route.at = "there" THEN DeleteRoute ELSE UNCHANGED route
  /\ Goto("detach") /\ Kept /\ Env /\ UNCHANGED <<policy, loosed, credit>>
(* Mutant of RevokePolicy: the finalizer does not wait for either object. *)
RevokePolicyNoWait ==
  /\ At("detach") /\ deleteAuthPolicy /\ Goto("release") /\ Kept /\ Env

RevokePolicy ==
  /\ At("detach")
  /\ IF route.at # "absent" THEN End /\ Reads
     ELSE /\ deleteAuthPolicy /\ Env
          /\ IF PolicyWaiting THEN End ELSE Goto("release")
  /\ Kept
ReleaseAgent ==
  /\ At("release")
  /\ alive' = "gone" /\ pass' = Idle
  /\ UNCHANGED <<want, active, cards, auth, objects, counts, history>>

-----------------------------------------------------------------------------
(***************************************************************************)
(* How a pass is cut short.                                                *)
(***************************************************************************)
LoseRace == pass.pc \in RouteWriters /\ errRouteRaceLost /\ End /\ Kept /\ Reads
RouteGoneLast == At("unmark") /\ errRouteGone /\ End /\ Kept /\ Reads

(* The Agent was edited: the next status write is refused. *)
Overtaken ==
  /\ pass.stale /\ pass' = Idle
  /\ UNCHANGED active /\ Kept /\ Reads

(* A crash, or a call that fails; an error's status write may still land. *)
Fail ==
  /\ ~At("idle") /\ faults < MaxFaults /\ faults' = faults + 1
  /\ pass' = Idle
  /\ active' \in IF pass.stale THEN {active} ELSE {active, pass.rev}
  /\ UNCHANGED <<spec, cards, auth, objects, edits, tampers, history>>

-----------------------------------------------------------------------------
(***************************************************************************)
(* Everybody else.                                                         *)
(***************************************************************************)
Edited ==
  /\ edits < MaxEdits /\ edits' = edits + 1
  /\ alive = "live"
  /\ pass' = [pass EXCEPT !.stale = pass.pc # "idle"]
  /\ UNCHANGED <<active, cards, auth, objects, tampers, faults, history>>
EditMode(m) == Edited /\ want' = [want EXCEPT !.mode = m] /\ UNCHANGED alive
RemoveBudget == Edited /\ want.budget /\ want' = [want EXCEPT !.budget = FALSE] /\ UNCHANGED alive
DeleteAgent == Edited /\ alive' = "deleting" /\ UNCHANGED want

(* The card fetch, earlier in a pass: only an anonymous 200 is recorded. *)
CardRecorded(r) ==
  /\ At("idle") /\ r \notin SelfAuth /\ cards' = cards \cup {r} /\ cards' # cards
  /\ UNCHANGED <<spec, active, auth, objects, pass, counts, history>>

(* The informer, the Gateway's controller, the proxy, the finalizers' owners. *)
Unmoved == UNCHANGED <<spec, active, cards, auth, edits, faults, legacy, credit, missed>>
SyncCache ==
  /\ Lags /\ cached # route /\ cached' = route
  /\ Unmoved /\ UNCHANGED <<route, policy, foreign, above, proxy, pass, tampers, loosed>>
RouteReported ==
  /\ route.at # "absent" /\ ~route.reported /\ route' = [route EXCEPT !.reported = TRUE]
  /\ Unmoved /\ UNCHANGED <<cached, policy, foreign, above, proxy, pass, tampers, loosed>>
PolicyReported ==
  /\ Present /\ ~policy.reported /\ policy' = [policy EXCEPT !.reported = TRUE]
  /\ Unmoved /\ UNCHANGED <<route, cached, foreign, above, proxy, pass, tampers, loosed>>
ProxyView == [there |-> route.at # "absent", backend |-> route.backend,
              auth |-> IF policy.nacked THEN proxy.auth ELSE Intact]
ProxySyncs ==
  /\ proxy # ProxyView /\ proxy' = ProxyView
  /\ Unmoved /\ UNCHANGED <<route, cached, policy, foreign, above, pass, tampers, loosed>>
FinalizerReleased ==
  /\ \/ route.at = "held" /\ route' = NoRoute /\ UNCHANGED <<policy, loosed>>
     \/ policy.at = "held" /\ policy' = NoPolicy /\ loosed' = TRUE /\ UNCHANGED route
  /\ Unmoved /\ UNCHANGED <<cached, foreign, above, proxy, pass, tampers>>
(* What stands in the way of a transaction goes in the end. *)
Cleared ==
  /\ \/ ForeignAtOwnName /\ policy' = NoPolicy /\ UNCHANGED <<foreign, above, pass>>
     \/ policy.nacked /\ policy' = [policy EXCEPT !.nacked = FALSE] /\ UNCHANGED <<foreign, above, pass>>
     \/ foreign /\ foreign' = FALSE /\ UNCHANGED <<policy, above, pass>>
     \/ /\ above /\ above' = FALSE /\ UNCHANGED <<policy, foreign>>
        /\ pass' = [pass EXCEPT !.flick = pass.pc \in {"probe", "probed"}]
  /\ Unmoved /\ UNCHANGED <<route, cached, proxy, tampers, loosed>>

Tampers == tampers < MaxTampers /\ tampers' = tampers + 1 /\ Unmoved /\ UNCHANGED <<cached, proxy, pass>>
TamperRoute ==
  /\ Tampers /\ UNCHANGED <<policy, foreign, above, loosed>>
  /\ \/ route.at = "there" /\ DeleteRoute
     \/ Published(route) /\ route' = [route EXCEPT !.backend = 0, !.reported = FALSE]
TamperPolicy ==
  /\ Tampers /\ OwnUID /\ loosed' = TRUE /\ UNCHANGED <<route, foreign, above>>
  /\ \/ policy.at = "there" /\ DeletePolicy
     \/ policy' = [policy EXCEPT !.body = "drift", !.reported = FALSE]
TamperGateway ==
  /\ Tampers /\ UNCHANGED <<route, loosed>>
  /\ \/ above' = TRUE /\ UNCHANGED <<policy, foreign>>
     \/ foreign' = TRUE /\ UNCHANGED <<policy, above>>
     \/ ~Present /\ policy' = [NoPolicy EXCEPT !.at = "there", !.body = "foreign"]
        /\ UNCHANGED <<foreign, above>>
     \/ Intact /\ ~proxy.auth /\ policy' = [policy EXCEPT !.nacked = TRUE]
        /\ UNCHANGED <<foreign, above>>
(* A failed re-read clears a card digest in place. *)
CardLost(r) ==
  /\ At("idle") /\ r \in cards /\ cards' = cards \ {r}
  /\ tampers < MaxTampers /\ tampers' = tampers + 1
  /\ UNCHANGED <<spec, active, auth, objects, pass, edits, faults, history>>

-----------------------------------------------------------------------------
CreateStep ==
  \/ CreateBegin \/ PreparingRoute \/ CreatePrepared \/ CreateHolds \/ CreateCredit
  \/ PublishingCheck \/ Publishing \/ recordServed
SharedStep ==
  \/ ApplyingPolicies \/ PoliciesApplied \/ LookAgain \/ freshNack \/ Converging
  \/ ReadGateway \/ probeAgent
LockStep ==
  \/ LockRoute \/ LockPromoted \/ ProbingBefore \/ LockLook \/ LockRepoint \/ LockGate
  \/ lockServed \/ LockUncredited \/ LockUnmark
DecideStep ==
  \/ StepAdopt \/ StepFound \/ StepCreate \/ StepAbandon \/ StepResume \/ enterLock
  \/ collectRoutes \/ reconcileServed \/ reassertServedPolicy \/ ServedFollows
  \/ AdoptFollows \/ refuseAdopt
AbandonStep == AbandonStrip \/ AbandonRoute \/ AbandonPolicy \/ abandon
FinalStep == finalize \/ revokeGateway \/ RevokePolicy \/ ReleaseAgent
CutStep == LoseRace \/ RouteGoneLast \/ Overtaken
Worker ==
  gatewayStep \/ DecideStep \/ CreateStep \/ SharedStep \/ LockStep \/ AbandonStep \/ FinalStep
  \/ CutStep
System ==
  SyncCache \/ RouteReported \/ PolicyReported \/ ProxySyncs \/ FinalizerReleased \/ Cleared
Users ==
  \/ \E m \in Mode \ {want.mode} : EditMode(m)
  \/ RemoveBudget \/ DeleteAgent
  \/ TamperRoute \/ TamperPolicy \/ TamperGateway
  \/ \E r \in Rev : CardRecorded(r) \/ CardLost(r)
Next == Worker \/ Fail \/ System \/ Users

Spec == Init /\ [][Next]_vars

(* A pass is requeued until it has nothing left to do; the informer, the    *)
(* Gateway and the proxy get round to every object; what blocks is removed. *)
FairSpec ==
  /\ Spec
  /\ WF_vars(Worker) /\ WF_vars(SyncCache) /\ WF_vars(RouteReported) /\ WF_vars(PolicyReported)
  /\ WF_vars(ProxySyncs) /\ WF_vars(FinalizerReleased) /\ WF_vars(Cleared)

-----------------------------------------------------------------------------
(***************************************************************************)
(* What the transactions promise.                                          *)
(***************************************************************************)
(* A route that carries backends and does not say it is open has the policy  *)
(* the compiler renders beside it, unless it was published before anything   *)
(* was recorded and never locked, or somebody else took the policy away: no  *)
(* crash, edit or race of a pass may publish bare (runCreate, runLock,       *)
(* abandon, revokeGateway).                                                  *)
Policed ==
  /\ Published(route) /\ ~route.marker /\ ~loosed
  /\ ~legacy \/ auth.mode = "apikey"
  => Intact

(* Only a route that was published before any record is ever adopted: what   *)
(* the operator published itself is never mistaken for it, however the cache *)
(* lags and wherever a pass was cut (authStep's trigger, isReCreation).      *)
AdoptOnlyFound ==
  auth.kind = "Adopt" \/ (auth.kind = "Lock" /\ auth.mode = "") => legacy

(* A record that names no policy means there is none of this Agent's: the    *)
(* record is written before the policy is, and returns to none or to nothing *)
(* only after the policy is gone (abandon, deleteAuthPolicy).                *)
OpenRecordUnpoliced ==
  auth.kind = "Adopt" \/ (auth.kind = "" /\ auth.mode # "apikey") => ~OwnUID

(* A route the operator opened with no policy says so on the route itself    *)
(* (routePublicationFor).                                                    *)
OpenMarked ==
  /\ Published(route)
  /\ auth.mode = "none" \/ (auth.kind = "Create" /\ auth.target = "none")
  => route.marker

(* A 401 that a transaction credited came from the Agent's own policy: not   *)
(* from the backend the route named, and not from a policy on the Gateway    *)
(* that stood through the probe (cardAttributes, beforeRevisionFor, the two  *)
(* reads around the probe).                                                  *)
CreditAttributed == credit \notin {"named", "above"}

(* A Create of an API-key route publishes only after a 401 was credited to   *)
(* the policy as it is now.                                                  *)
PublishedProved ==
  auth.kind = "Create" /\ auth.stage = "Publishing" /\ auth.target = "apikey" => credit # "none"

(* Once an Agent is recorded as locked no step records it as open (A67's one *)
(* way, authStep and abandon).                                               *)
OneWay == [][auth.mode = "apikey" => auth'.mode = "apikey"]_vars

(* Between writing the policy and crediting a probe of it, a Create's route  *)
(* carries no backend ("the route loses its backendRefs before the policy is *)
(* written again, so it never carries traffic under a policy the probe did   *)
(* not see", runCreate).  The one exception: the last ensureServingRoute     *)
(* skipped its write because a stale copy of the route was as it should be.  *)
UnprobedUnserved ==
  auth.kind = "Create" /\ auth.stage \notin {"PreparingRoute", "Publishing"}
  => ~Published(route) \/ missed

(* The Agent is released only after its route and its policy are gone.       *)
ReleasedClean == alive = "gone" => route.at = "absent" /\ ~OwnUID

(* The transactions implement Publication: seen from outside, whatever the   *)
(* stage, cut or race, the route, the policy and the recorded mode only move *)
(* as that specification lets them.                                          *)
Exposure == INSTANCE Publication WITH
  door <- IF ~Published(route) THEN "shut" ELSE IF route.marker THEN "open" ELSE "keyed",
  guard <- IF loosed THEN "lost" ELSE IF Intact THEN "own" ELSE "none",
  proof <- credit # "none",
  record <- auth.mode,
  found <- legacy
ImplementsPublication == Exposure!Spec

(* Left alone, an Agent settles: it is served in a mode its spec allows with *)
(* the route published as recorded, or released, or it waits for the user: a *)
(* spec that does not compile, a refused Adopt, a Lock that nothing can      *)
(* attribute, no revision to serve.                                          *)
Served ==
  /\ auth.kind = "" /\ auth.mode # "" /\ (want.mode = "apikey" => auth.mode = "apikey")
  /\ route.at # "absent" /\ Published(route) /\ route.marker = (auth.mode = "none")
  /\ auth.mode = "apikey" => Intact
AwaitsUser ==
  \/ alive = "live" /\ (~Compiles(want) \/ active = 0 \/ auth.kind = "Adopt")
  \/ auth.kind = "Lock" /\ auth.before = 0 /\ ~cardedRevision(route.backend)
AuthSettles == <>[](alive = "gone" \/ Served \/ AwaitsUser)
=============================================================================
