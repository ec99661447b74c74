----------------------- MODULE AuthTransactionProofs ------------------------
(***************************************************************************)
(* The -auth transactions never publish bare, never take their own route   *)
(* for a found one, and implement Publication, for any number of           *)
(* revisions, edits, tampers and faults.                                   *)
(***************************************************************************)
EXTENDS AuthTransaction, TLAPS

Running == {"Create", "Lock"}
Keyed == Published(route) /\ ~route.marker
Guarded == Intact \/ loosed

(* What a record is, whichever pass wrote it. *)
RecordOK ==
  /\ auth.kind = "Adopt" => auth.mode = ""
  /\ auth.kind = "Create" /\ auth.mode # "" => auth.mode = "apikey" /\ auth.target = "apikey"
  /\ auth.kind = "Create" /\ auth.target = "none" => auth.stage = "Publishing" /\ ~auth.written
  /\ auth.stage \in {"ApplyingPolicies", "Converging", "ProbingAfter"} =>
       auth.kind \in Running /\ auth.written

(* What a pass knows of the record where it stands. *)
PcRecord ==
  /\ pass.pc \in {"prepare", "prepared"} => auth.kind = "Create" /\ auth.stage = "PreparingRoute"
  /\ pass.pc = "hold" => auth.kind = "Create" /\ auth.stage \in {"Converging", "ProbingAfter"}
  /\ pass.pc \in {"publish", "published"} => auth.kind = "Create" /\ auth.stage = "Publishing"
  /\ pass.pc \in {"lock", "clear"} => auth.kind = "Lock"
  /\ pass.pc \in {"repoint", "gate"} => auth.kind = "Lock" /\ auth.stage = "ProbingAfter"
  /\ pass.pc = "repoint" => auth.mode = "apikey"
  /\ pass.pc \in {"run", "look", "probe", "probed", "applied", "strip", "unroute", "unpolicy", "abandoned"} =>
       auth.kind \in Running
  /\ pass.pc = "applied" => auth.stage = "ApplyingPolicies"
  /\ pass.pc = "look" => auth.stage \in {"Converging", "ProbingAfter"}
  /\ pass.pc \in {"probe", "probed"} => auth.stage = "ProbingAfter"
  /\ pass.pc \in {"strip", "unroute"} => auth.kind = "Create"
  /\ pass.pc \in {"strip", "unroute", "unpolicy", "abandoned"} => ~isReCreation
  /\ pass.pc \in {"unmark", "reassert"} => auth.kind = "" /\ auth.mode = "apikey"
  /\ pass.pc = "follow" => auth.kind = "" /\ auth.mode # ""
  /\ pass.pc \in {"adopt", "refuse"} => auth.mode = "" /\ auth.kind # "Create"

(* What it knows of the objects. *)
PcObjects ==
  /\ pass.pc \in {"unroute", "unpolicy", "abandoned"} /\ auth.kind = "Create" => ~Published(route)
  /\ pass.pc \in {"abandoned", "adopt", "refuse"} => ~OwnUID
  /\ pass.pc \in {"adopt", "refuse"} => legacy
  /\ pass.pc \in {"publish", "published"} /\ auth.target = "apikey" => Guarded
  /\ pass.pc \in {"repoint", "gate", "probe", "probed"} => Guarded
  /\ pass.pc \in {"revoke", "detach", "release"} => alive # "live"

(* The record and the objects. *)
Objects ==
  /\ route.at = "absent" => ~Published(route)
  /\ Unrecorded /\ Published(route) => legacy
  /\ auth.kind \in Running /\ ~isReCreation /\ ~auth.written => ~OwnUID
Standing ==
  /\ RecordOK /\ Objects
  /\ Policed /\ AdoptOnlyFound /\ OpenRecordUnpoliced /\ OpenMarked /\ PublishedProved

(* A locked Agent keeps its policy, unless others take it, until it is being *)
(* finalized.                                                                *)
Locked ==
  auth.mode = "apikey" =>
    Guarded \/ (alive # "live" /\ pass.pc \in {"idle", "revoke", "detach", "release"})
PcOK == PcRecord /\ PcObjects /\ Locked

IInv == TypeOK /\ Standing /\ PcOK

-----------------------------------------------------------------------------
LEMMA NatFacts == /\ MaxRev \in Nat /\ 0 \in 0..MaxRev
                  /\ \A r \in Rev : r \in 0..MaxRev
BY ConstantsAssumption DEF Rev

LEMMA IdleTyped == Idle \in Pass /\ NoRoute \in Route /\ NoPolicy \in Policy /\ NoAnswer \in Answer
BY NatFacts DEF Idle, Pass, NoRoute, Route, NoPolicy, Policy, NoAnswer, Answer, Pc, RouteWriters,
  Want, Mode, Presence

LEMMA EnterFormed ==
  ASSUME NEW m \in {"", "none", "apikey"}, NEW k \in {"", "Create", "Adopt", "Lock"},
         NEW st \in Stage, NEW t \in {"", "none", "apikey"},
         k = "Create" => st \in {"PreparingRoute", "Publishing"} /\ t # "",
         k = "Lock" => st \in {"ProbingBefore", "ApplyingPolicies"} /\ t = "apikey"
  PROVE  WellFormed(Enter(m, k, st, t))
BY NatFacts DEF WellFormed, Enter, Auth, Stage, Mode

LEMMA RecordFormed == ASSUME NEW m \in {"", "none", "apikey"} PROVE WellFormed(Record(m))
BY NatFacts DEF WellFormed, Record, Enter, Auth, Stage, Mode

LEMMA GotoTyped ==
  ASSUME TypeOK, NEW pc \in Pc, Goto(pc)
  PROVE  pass' \in Pass /\ active' \in 0..MaxRev /\ pass'.pc = pc
BY DEF TypeOK, Goto, Pass

LEMMA EndTyped ==
  ASSUME TypeOK, End
  PROVE  pass' \in Pass /\ active' \in 0..MaxRev /\ pass'.pc = "idle"
BY IdleTyped DEF TypeOK, End, Pass, Idle

(* What a step leaves alone when it only reads the objects. *)
Same == UNCHANGED <<alive, legacy, route, policy, loosed, credit>>

LEMMA ReadsTyped ==
  ASSUME TypeOK, Reads, pass' \in Pass, active' \in 0..MaxRev, WellFormed(auth')
  PROVE  TypeOK' /\ Same
BY ZenonT(60) DEF TypeOK, Reads, Env, Rest, spec, objects, counts, history, Same

(* A pass goes on, ends, or goes on with another record. *)
LEMMA Moved ==
  ASSUME TypeOK, NEW pc \in Pc, Goto(pc), Kept, Reads
  PROVE  TypeOK' /\ Same /\ auth' = auth /\ pass'.pc = pc
<1>1. WellFormed(auth') /\ auth' = auth
  BY DEF TypeOK, Kept
<1> QED BY <1>1, GotoTyped, ReadsTyped

LEMMA Ended ==
  ASSUME TypeOK, End, Kept, Reads
  PROVE  TypeOK' /\ Same /\ auth' = auth /\ pass'.pc = "idle"
<1>1. WellFormed(auth') /\ auth' = auth
  BY DEF TypeOK, Kept
<1> QED BY <1>1, EndTyped, ReadsTyped

LEMMA Advanced ==
  ASSUME TypeOK, NEW pc \in Pc, NEW a, WellFormed(a), Advance(a, pc), Reads
  PROVE  TypeOK' /\ Same /\ auth' = a /\ pass'.pc = pc
<1>1. Goto(pc) /\ auth' = a
  BY DEF Advance, Persist
<1> QED BY <1>1, GotoTyped, ReadsTyped

(* A route write leaves the route, or writes what routePublicationFor says. *)
Wrote ==
  \/ route' = route
  \/ /\ route'.at # "absent"
     /\ route'.backend = (IF Prepared THEN 0 ELSE pass.rev)
     /\ route'.marker = (~Prepared /\ PublishMode = "none")

LEMMA EnsureTyped ==
  ASSUME TypeOK, ensureServingRoute
  PROVE  missed' \in BOOLEAN /\ route' \in Route /\ Wrote /\ Seen \in Route /\ (IF equalRoute THEN Seen ELSE Desired) \in Route
<1>1. Seen \in Route /\ pass.rev \in 0..MaxRev /\ route \in Route
  BY Zenon DEF TypeOK, Seen, Pass
<1>2. /\ Desired \in Route /\ Desired.at # "absent"
      /\ Desired.backend = (IF Prepared THEN 0 ELSE pass.rev)
      /\ Desired.marker = (~Prepared /\ PublishMode = "none")
  BY <1>1, NatFacts DEF Desired, Route, Presence, routePublicationFor
<1>3. missed' \in BOOLEAN
  BY Zenon DEF ensureServingRoute
<1> QED BY <1>1, <1>2, <1>3 DEF ensureServingRoute, Wrote

LEMMA EnsuredThen ==
  ASSUME TypeOK, NEW pc \in Pc, EnsureThen(pc)
  PROVE  /\ TypeOK' /\ Wrote /\ auth' = auth /\ pass'.pc = pc
         /\ UNCHANGED <<alive, legacy, policy, loosed, credit>>
<1>1. missed' \in BOOLEAN /\ route' \in Route /\ Wrote /\ (IF equalRoute THEN Seen ELSE Desired) \in Route
  BY EnsureTyped DEF EnsureThen
<1>2. pass' \in Pass /\ pass'.pc = pc
  BY <1>1 DEF EnsureThen, Pass, TypeOK
<1> QED BY <1>1, <1>2 DEF EnsureThen, TypeOK, Kept, Rest, spec, counts, objects

LEMMA EnsuredLast ==
  ASSUME TypeOK, EnsureLast
  PROVE  /\ TypeOK' /\ Wrote /\ auth' = auth /\ pass'.pc = "idle"
         /\ UNCHANGED <<alive, legacy, policy, loosed, credit>>
<1>1. missed' \in BOOLEAN /\ route' \in Route /\ Wrote
  BY EnsureTyped DEF EnsureLast
<1>2. pass' \in Pass /\ active' \in 0..MaxRev /\ pass'.pc = "idle"
  BY EndTyped DEF EnsureLast
<1> QED BY <1>1, <1>2 DEF EnsureLast, TypeOK, Kept, Rest, spec, counts, objects

-----------------------------------------------------------------------------
(***************************************************************************)
(* Which step of Publication a step is.                                    *)
(***************************************************************************)
Implements == Exposure!Next \/ UNCHANGED Exposure!vars

LEMMA IsQuiet ==
  ASSUME UNCHANGED <<route, policy, loosed, credit, legacy>>, auth'.mode = auth.mode
  PROVE  Implements
BY DEF Implements, Exposure!vars, Published, Intact, Present

(* A route write is Shut, Open or Key, or leaves the door as it was. *)
LEMMA IsDoor ==
  ASSUME UNCHANGED <<policy, loosed, credit, legacy>>, auth'.mode = auth.mode,
         \/ ~Published(route')
         \/ route'.backend = route.backend /\ route'.marker = route.marker
         \/ route'.marker /\ auth.mode # "apikey"
         \/ ~route'.marker /\ legacy /\ auth.mode = ""
         \/ ~route'.marker /\ Guarded /\ (credit # "none" \/ auth.mode = "apikey")
  PROVE  Implements
<1> USE DEF Implements, Exposure!vars, Published, Intact, Present, Guarded
<1>1. CASE ~Published(route')
  BY <1>1 DEF Exposure!Next, Exposure!Shut
<1>2. CASE route'.backend = route.backend /\ route'.marker = route.marker
  BY <1>2
<1>3. CASE Published(route') /\ route'.marker /\ auth.mode # "apikey"
  BY <1>3 DEF Exposure!Next, Exposure!Open
<1>4. CASE Published(route') /\ ~route'.marker /\ legacy /\ auth.mode = ""
  BY <1>4 DEF Exposure!Next, Exposure!Key, Exposure!Unrecorded
<1>5. CASE Published(route') /\ ~route'.marker /\ Guarded /\ (credit # "none" \/ auth.mode = "apikey")
  BY <1>5 DEF Exposure!Next, Exposure!Key
<1> QED BY <1>1, <1>2, <1>3, <1>4, <1>5

LEMMA IsPost ==
  ASSUME UNCHANGED <<route, legacy>>, auth'.mode = auth.mode, Intact', ~loosed', credit' = "none"
  PROVE  Implements
BY DEF Implements, Exposure!Next, Exposure!Post, Published

(* A delete of the policy is Withdraw, or changes nothing yet. *)
LEMMA IsWithdraw ==
  ASSUME UNCHANGED <<route, legacy, loosed, credit>>, auth'.mode = auth.mode,
         Intact' => Intact, ~Keyed \/ (legacy /\ auth.mode = "")
  PROVE  Implements
<1>1. CASE Intact' = Intact
  BY <1>1 DEF Implements, Exposure!vars, Published
<1>2. CASE ~Intact'
  BY <1>2 DEF Implements, Exposure!Next, Exposure!Withdraw, Exposure!Unrecorded, Exposure!vars, Published, Keyed
<1> QED BY <1>1, <1>2

LEMMA IsLose ==
  ASSUME UNCHANGED <<route, legacy, credit>>, auth'.mode = auth.mode, loosed'
  PROVE  Implements
BY DEF Implements, Exposure!Next, Exposure!Lose, Published

LEMMA IsTold ==
  ASSUME UNCHANGED <<route, policy, loosed, legacy>>,
         \/ auth'.mode = auth.mode /\ Guarded /\ credit' # "none"
         \/ auth.mode # "apikey" /\ auth'.mode = "apikey" /\ Guarded /\ credit' # "none"
         \/ auth.mode # "apikey" /\ auth'.mode = "none" /\ credit' = credit
  PROVE  Implements
<1> USE DEF Implements, Published, Intact, Present, Guarded
<1>1. CASE auth'.mode = auth.mode /\ Guarded /\ credit' # "none"
  BY <1>1 DEF Exposure!Next, Exposure!Prove
<1>2. CASE auth.mode # "apikey" /\ auth'.mode = "apikey" /\ Guarded /\ credit' # "none"
  BY <1>2 DEF Exposure!Next, Exposure!Tell
<1>3. CASE auth.mode # "apikey" /\ auth'.mode = "none" /\ credit' = credit
  BY <1>3 DEF Exposure!Next, Exposure!Tell
<1> QED BY <1>1, <1>2, <1>3

-----------------------------------------------------------------------------
(***************************************************************************)
(* Every action keeps the invariant and implements Publication.  From here *)
(* on the parts of the invariant are expanded wherever they appear.        *)
(***************************************************************************)
Good == IInv' /\ Implements

USE DEF RecordOK, PcRecord, PcObjects, Locked, Objects, Policed, AdoptOnlyFound, OpenRecordUnpoliced,
  OpenMarked, PublishedProved, Running, isReCreation, Guarded, Keyed, Intact, OwnUID, Present,
  Published, Record, NoAuth, Unrecorded, Enter, Same

LEMMA Stands == ASSUME Standing, Same, auth' = auth PROVE Standing'
<1>1. RecordOK' /\ Objects' /\ Policed'
  BY DEF Standing
<1>2. AdoptOnlyFound' /\ OpenRecordUnpoliced' /\ OpenMarked' /\ PublishedProved'
  BY DEF Standing
<1> QED BY <1>1, <1>2 DEF Standing

(* A pass that ends, or goes on to pc, with the record as it was. *)
LEMMA EndGood == ASSUME IInv, End, Kept, Reads PROVE Good
<1>1. TypeOK' /\ Same /\ auth' = auth /\ pass'.pc = "idle"
  BY Ended DEF IInv
<1>2. Implements
  BY <1>1, IsQuiet
<1>3. Standing'
  BY <1>1, Stands DEF IInv
<1>4. PcOK'
  BY <1>1 DEF IInv, PcOK
<1> QED BY <1>1, <1>2, <1>3, <1>4 DEF Good, IInv

LEMMA GotoGood ==
  ASSUME IInv, NEW pc \in Pc, Goto(pc), Kept, Reads,
         Same /\ auth' = auth /\ pass'.pc = pc => PcOK'
  PROVE  Good
<1>1. TypeOK' /\ Same /\ auth' = auth /\ pass'.pc = pc
  BY Moved DEF IInv
<1>2. Implements
  BY <1>1, IsQuiet
<1>3. Standing'
  BY <1>1, Stands DEF IInv
<1> QED BY <1>1, <1>2, <1>3 DEF Good, IInv

(* A pass that goes on with another record of the same mode. *)
LEMMA AdvanceGood ==
  ASSUME IInv, NEW pc \in Pc, NEW a, WellFormed(a), Advance(a, pc), Reads, a.mode = auth.mode,
         Same /\ auth' = a /\ pass'.pc = pc => Standing' /\ PcOK'
  PROVE  Good
<1>1. TypeOK' /\ Same /\ auth' = a /\ pass'.pc = pc
  BY Advanced DEF IInv
<1>2. Implements
  BY <1>1, IsQuiet
<1> QED BY <1>1, <1>2 DEF Good, IInv

(* A route write, of each of the four kinds there are. *)
LEMMA WriteStands ==
  ASSUME IInv, Wrote, auth' = auth, UNCHANGED <<alive, legacy, policy, loosed, credit>>,
         \/ Prepared
         \/ PublishMode = "none"
         \/ /\ PublishMode = "apikey" /\ Guarded
            /\ auth.mode = "apikey" \/ (auth.kind = "Create" /\ auth.stage = "Publishing")
         \/ auth.mode = "" /\ auth.kind # "Create" /\ legacy
  PROVE  Standing' /\ Implements
<1>1. CASE route' = route
  BY <1>1, Stands, IsQuiet DEF IInv
<1>2. CASE Prepared /\ route'.at # "absent" /\ route'.backend = 0
  <2>1. Implements
    BY <1>2, IsDoor
  <2> QED BY <1>2, <2>1 DEF IInv, Standing
<1>3. CASE ~Prepared /\ PublishMode = "none" /\ route'.at # "absent" /\ route'.marker
  <2>1. auth.mode # "apikey" /\ ~Unrecorded
    BY <1>3 DEF PublishMode, IInv, Standing
  <2>2. Implements
    BY <1>3, <2>1, IsDoor
  <2> QED BY <1>3, <2>1, <2>2 DEF IInv, Standing
<1>4. CASE /\ ~Prepared /\ PublishMode = "apikey" /\ Guarded /\ route'.at # "absent" /\ ~route'.marker
           /\ auth.mode = "apikey" \/ (auth.kind = "Create" /\ auth.stage = "Publishing")
  <2>1. /\ credit # "none" \/ auth.mode = "apikey"
        /\ auth.mode # "none" /\ ~(auth.kind = "Create" /\ auth.target = "none") /\ ~Unrecorded
    BY <1>4 DEF PublishMode, IInv, Standing
  <2>2. Implements
    BY <1>4, <2>1, IsDoor
  <2> QED BY <1>4, <2>1, <2>2 DEF IInv, Standing
<1>5. CASE /\ ~Prepared /\ route'.at # "absent" /\ ~route'.marker
           /\ auth.mode = "" /\ auth.kind # "Create" /\ legacy
  <2>1. Implements
    BY <1>5, IsDoor
  <2> QED BY <1>5, <2>1 DEF IInv, Standing
<1>6. auth.mode = "" /\ auth.kind # "Create" => ~Prepared /\ PublishMode # "none"
  BY DEF Prepared, PublishMode
<1> QED BY <1>1, <1>2, <1>3, <1>4, <1>5, <1>6 DEF Wrote

LEMMA EnsureThenGood ==
  ASSUME IInv, NEW pc \in Pc, EnsureThen(pc),
         \/ Prepared
         \/ PublishMode = "none"
         \/ /\ PublishMode = "apikey" /\ Guarded
            /\ auth.mode = "apikey" \/ (auth.kind = "Create" /\ auth.stage = "Publishing")
         \/ auth.mode = "" /\ auth.kind # "Create" /\ legacy,
         auth' = auth /\ pass'.pc = pc /\ UNCHANGED <<alive, legacy, policy, loosed, credit>> => PcOK'
  PROVE  Good
<1>1. /\ TypeOK' /\ Wrote /\ auth' = auth /\ pass'.pc = pc
      /\ UNCHANGED <<alive, legacy, policy, loosed, credit>>
  BY EnsuredThen DEF IInv
<1>2. Standing' /\ Implements
  BY <1>1, WriteStands
<1> QED BY <1>1, <1>2 DEF Good, IInv

LEMMA EnsureLastGood ==
  ASSUME IInv, EnsureLast,
         \/ PublishMode = "none"
         \/ PublishMode = "apikey" /\ Guarded /\ auth.mode = "apikey"
  PROVE  Good
<1>1. /\ TypeOK' /\ Wrote /\ auth' = auth /\ pass'.pc = "idle"
      /\ UNCHANGED <<alive, legacy, policy, loosed, credit>>
  BY EnsuredLast DEF IInv
<1>2. Standing' /\ Implements
  BY <1>1, WriteStands
<1>3. PcOK'
  BY <1>1 DEF IInv, PcOK
<1> QED BY <1>1, <1>2, <1>3 DEF Good, IInv

-----------------------------------------------------------------------------
(***************************************************************************)
(* authStep's cases.                                                       *)
(***************************************************************************)
LEMMA StepAdoptGood == ASSUME IInv, StepAdopt PROVE Good
<1>1. auth.kind = "Adopt" /\ auth.mode = "" /\ pass.pc = "step" /\ Reads
  BY DEF StepAdopt, At, IInv, Standing
<1>2. CASE Advance(Enter("", "Lock", "ProbingBefore", "apikey"), "lock")
  <2>1. WellFormed(Enter("", "Lock", "ProbingBefore", "apikey"))
    BY EnterFormed DEF Stage
  <2>2. ASSUME Same, auth' = Enter("", "Lock", "ProbingBefore", "apikey"), pass'.pc = "lock"
        PROVE  Standing' /\ PcOK'
    BY <1>1, <2>2 DEF IInv, Standing, PcOK
  <2> QED BY <1>1, <1>2, <2>1, <2>2, AdvanceGood DEF Pc, RouteWriters
<1>3. CASE Goto("adopt") /\ Kept
  <2>1. ASSUME Same, auth' = auth, pass'.pc = "adopt"
        PROVE  PcOK'
    BY <1>1, <2>1 DEF IInv, PcOK, Standing
  <2> QED BY <1>1, <1>3, <2>1, GotoGood DEF Pc, RouteWriters
<1> QED BY <1>2, <1>3 DEF StepAdopt

LEMMA gatewayStepGood == ASSUME IInv, gatewayStep PROVE Good
<1>1. PICK r \in Promotable \cup {active} :
        pass' = [Idle EXCEPT !.pc = "step", !.want = want, !.rev = r, !.foreign = foreignTrafficPolicies]
  BY DEF gatewayStep
<1>2. r \in 0..MaxRev /\ want \in Want /\ foreignTrafficPolicies \in SUBSET {"name", "other"}
  BY NatFacts DEF Promotable, foreignTrafficPolicies, IInv, TypeOK
<1>3. pass' \in Pass /\ pass'.pc = "step"
  BY <1>1, <1>2, IdleTyped DEF Pass, Pc
<1>4. active' \in 0..MaxRev /\ auth' = auth /\ WellFormed(auth') /\ Reads /\ alive = "live" /\ TypeOK
  BY DEF gatewayStep, IInv, TypeOK, Kept
<1>5. TypeOK' /\ Same
  BY <1>3, <1>4, ReadsTyped
<1>6. Standing' /\ Implements
  BY <1>4, <1>5, Stands, IsQuiet DEF IInv
<1>7. PcOK'
  BY <1>3, <1>4, <1>5 DEF IInv, PcOK
<1> QED BY <1>5, <1>6, <1>7 DEF Good, IInv

LEMMA StepFoundGood == ASSUME IInv, StepFound PROVE Good
<1>1. ASSUME Same, auth' = auth, pass'.pc = "adopt" PROVE PcOK'
  BY <1>1 DEF StepFound, At, IInv, PcOK, Standing
<1> QED BY <1>1, GotoGood DEF StepFound, Pc, RouteWriters

(* The Create that a pass enters with nothing, or nothing any more, recorded. *)
LEMMA EntersGood ==
  ASSUME IInv, Advance(Enters, "run"), Reads, auth.mode = "", ~Published(route), ~OwnUID,
         pass.want.mode \in {"none", "apikey"}
  PROVE  Good
<1>1. WellFormed(Enters)
  BY EnterFormed DEF Enters, Stage
<1>2. ASSUME Same, auth' = Enters, pass'.pc = "run" PROVE Standing' /\ PcOK'
  BY <1>2 DEF Enters, IInv, Standing, PcOK
<1>3. Enters.mode = auth.mode
  BY DEF Enters
<1> QED BY <1>1, <1>2, <1>3, AdvanceGood DEF Pc

LEMMA StepCreateGood == ASSUME IInv, StepCreate PROVE Good
<1>1. Unrecorded /\ ~Published(route) /\ Reads /\ ~OwnUID /\ pass.pc = "step"
  BY DEF StepCreate, At, IInv, Standing
<1>2. CASE Compiles(pass.want) /\ Advance(Enters, "run")
  <2>1. pass.want.mode \in {"none", "apikey"}
    BY <1>2 DEF Compiles, IInv, TypeOK, Pass, Want, Mode
  <2> QED BY <1>1, <1>2, <2>1, EntersGood
<1>3. CASE Goto("sweep") /\ Kept
  <2>1. ASSUME Same, auth' = auth, pass'.pc = "sweep" PROVE PcOK'
    BY <1>1, <2>1 DEF IInv, PcOK
  <2> QED BY <1>1, <1>3, <2>1, GotoGood DEF Pc
<1> QED BY <1>2, <1>3 DEF StepCreate

LEMMA StepAbandonGood == ASSUME IInv, StepAbandon PROVE Good
<1>1. pass.pc = "step" /\ auth.kind \in Running /\ ~isReCreation /\ Reads /\ Kept
  BY DEF StepAbandon, Abandons, At
<1>2. CASE auth.kind = "Create" /\ Goto("strip")
  <2>1. ASSUME Same, auth' = auth, pass'.pc = "strip" PROVE PcOK'
    BY <1>1, <1>2, <2>1 DEF IInv, PcOK
  <2> QED BY <1>1, <1>2, <2>1, GotoGood DEF Pc
<1>3. CASE auth.kind = "Lock" /\ Goto("unpolicy")
  <2>1. ASSUME Same, auth' = auth, pass'.pc = "unpolicy" PROVE PcOK'
    BY <1>1, <1>3, <2>1 DEF IInv, PcOK
  <2> QED BY <1>1, <1>3, <2>1, GotoGood DEF Pc
<1> QED BY <1>1, <1>2, <1>3 DEF StepAbandon

LEMMA StepResumeGood == ASSUME IInv, StepResume PROVE Good
<1>1. pass.pc = "step" /\ auth.kind \in Running /\ Reads /\ Kept
  BY DEF StepResume, At
<1>2. CASE auth.kind = "Create" /\ Goto("run")
  <2>1. ASSUME Same, auth' = auth, pass'.pc = "run" PROVE PcOK'
    BY <1>1, <1>2, <2>1 DEF IInv, PcOK
  <2> QED BY <1>1, <1>2, <2>1, GotoGood DEF Pc
<1>3. CASE auth.kind = "Lock" /\ Goto("lock")
  <2>1. ASSUME Same, auth' = auth, pass'.pc = "lock" PROVE PcOK'
    BY <1>1, <1>3, <2>1 DEF IInv, PcOK
  <2> QED BY <1>1, <1>3, <2>1, GotoGood DEF Pc, RouteWriters
<1> QED BY <1>1, <1>2, <1>3 DEF StepResume

LEMMA enterLockGood == ASSUME IInv, enterLock PROVE Good
<1>1. /\ pass.pc = "step" /\ auth.kind = "" /\ auth.mode = "none" /\ Reads
      /\ Advance(Enter("none", "Lock", "ProbingBefore", "apikey"), "lock")
  BY DEF enterLock, At
<1>2. WellFormed(Enter("none", "Lock", "ProbingBefore", "apikey"))
  BY EnterFormed DEF Stage
<1>3. ASSUME Same, auth' = Enter("none", "Lock", "ProbingBefore", "apikey"), pass'.pc = "lock"
      PROVE  Standing' /\ PcOK'
  BY <1>1, <1>3 DEF IInv, Standing, PcOK
<1> QED BY <1>1, <1>2, <1>3, AdvanceGood DEF Pc, RouteWriters

(* recreateRoute, from every place that calls it. *)
LEMMA recreateRouteGood ==
  ASSUME IInv, recreateRoute, Reads, auth.mode = "apikey",
         pass.pc \notin {"idle", "revoke", "detach", "release"}
  PROVE  Good
<1>1. WellFormed(Enter(auth.mode, "Create", "PreparingRoute", auth.mode))
  BY EnterFormed DEF Stage
<1>2. ASSUME Same, auth' = Enter(auth.mode, "Create", "PreparingRoute", auth.mode), pass'.pc = "run"
      PROVE  Standing' /\ PcOK'
  BY <1>2 DEF IInv, Standing, PcOK
<1>3. Enter(auth.mode, "Create", "PreparingRoute", auth.mode).mode = auth.mode
  OBVIOUS
<1> QED BY <1>1, <1>2, <1>3, AdvanceGood DEF recreateRoute, Pc


-----------------------------------------------------------------------------
(***************************************************************************)
(* Steps that take the route or its backends away, or change the policy.   *)
(***************************************************************************)
LEMMA RouteTyped ==
  ASSUME TypeOK, Env, Kept, UNCHANGED <<policy, loosed, credit>>, route' \in Route,
         pass' \in Pass, active' \in 0..MaxRev
  PROVE  TypeOK' /\ auth' = auth /\ UNCHANGED <<alive, legacy, policy, loosed, credit>>
<1>1. /\ auth' = auth /\ alive' = alive /\ want' = want /\ cards' = cards /\ cached' = cached
      /\ foreign' = foreign /\ above' = above /\ proxy' = proxy /\ legacy' = legacy
      /\ edits' = edits /\ tampers' = tampers /\ faults' = faults /\ missed' = missed
      /\ policy' = policy /\ loosed' = loosed /\ credit' = credit
  BY DEF Env, Rest, Kept, spec, counts
<1>2. TypeOK'
  BY <1>1, ZenonT(60) DEF TypeOK
<1> QED BY <1>1, <1>2

LEMMA DeleteRouteIs ==
  ASSUME TypeOK, DeleteRoute
  PROVE  /\ route' \in Route
         /\ \/ route' = NoRoute
            \/ route'.at = "held" /\ route'.backend = route.backend /\ route'.marker = route.marker
<1>1. route' = NoRoute \/ route' = [route EXCEPT !.at = "held"]
  BY DEF DeleteRoute, Deleted
<1>2. CASE route' = NoRoute
  BY <1>2, IdleTyped
<1>3. CASE route' = [route EXCEPT !.at = "held"]
  BY <1>3 DEF TypeOK, Route, Presence
<1> QED BY <1>1, <1>2, <1>3

LEMMA CutStands ==
  ASSUME IInv, auth' = auth, UNCHANGED <<alive, legacy, policy, loosed, credit>>,
         \/ ~Published(route')
         \/ route'.at # "absent" /\ route'.backend = route.backend /\ route'.marker = route.marker
  PROVE  Standing' /\ Implements
<1>1. Implements
  BY IsDoor
<1>2. RecordOK' /\ Objects' /\ Policed'
  BY DEF IInv, Standing
<1>3. AdoptOnlyFound' /\ OpenRecordUnpoliced' /\ OpenMarked' /\ PublishedProved'
  BY DEF IInv, Standing
<1> QED BY <1>1, <1>2, <1>3 DEF Standing

LEMMA CutGood ==
  ASSUME IInv, Env, Kept, UNCHANGED <<policy, loosed, credit>>, route' \in Route,
         \/ ~Published(route')
         \/ route'.at # "absent" /\ route'.backend = route.backend /\ route'.marker = route.marker,
         pass' \in Pass, active' \in 0..MaxRev,
         auth' = auth /\ UNCHANGED <<alive, legacy, policy, loosed, credit>> => PcOK'
  PROVE  Good
<1>1. TypeOK' /\ auth' = auth /\ UNCHANGED <<alive, legacy, policy, loosed, credit>>
  BY RouteTyped DEF IInv
<1>2. Standing' /\ Implements
  BY <1>1, CutStands
<1> QED BY <1>1, <1>2 DEF Good, IInv

LEMMA NoRouteIs == ~Published(NoRoute) /\ NoRoute.at = "absent"
BY DEF NoRoute

LEMMA collectRoutesGood == ASSUME IInv, collectRoutes PROVE Good
<1>1. pass' \in Pass /\ active' \in 0..MaxRev /\ pass'.pc = "idle" /\ pass.pc = "sweep"
  BY EndTyped DEF IInv, collectRoutes, At
<1>2. /\ route' \in Route
      /\ \/ ~Published(route')
         \/ route'.at # "absent" /\ route'.backend = route.backend /\ route'.marker = route.marker
  <2>1. CASE DeleteRoute
    BY <2>1, DeleteRouteIs, NoRouteIs DEF IInv
  <2>2. CASE route' = route
    BY <2>2 DEF IInv, Standing, TypeOK
  <2> QED BY <2>1, <2>2 DEF collectRoutes
<1>3. ASSUME auth' = auth, UNCHANGED <<alive, legacy, policy, loosed, credit>> PROVE PcOK'
  BY <1>1, <1>3 DEF IInv, PcOK
<1> QED BY <1>1, <1>2, <1>3, CutGood DEF collectRoutes

LEMMA AbandonStripGood == ASSUME IInv, AbandonStrip PROVE Good
<1>1. pass.pc = "strip" /\ \E pc \in {"unroute", "unpolicy"} : Goto(pc)
  BY DEF AbandonStrip, At
<1>2. pass' \in Pass /\ active' \in 0..MaxRev /\ pass'.pc \in {"unroute", "unpolicy"}
  BY <1>1, GotoTyped DEF IInv, Pc
<1>3. route' \in Route /\ ~Published(route')
  BY NatFacts DEF AbandonStrip, IInv, TypeOK, Route
<1>4. ASSUME auth' = auth, UNCHANGED <<alive, legacy, policy, loosed, credit>> PROVE PcOK'
  BY <1>1, <1>2, <1>3, <1>4 DEF IInv, PcOK
<1> QED BY <1>2, <1>3, <1>4, CutGood DEF AbandonStrip

LEMMA AbandonRouteGood == ASSUME IInv, AbandonRoute PROVE Good
<1>1. pass.pc = "unroute" /\ (Goto("unpolicy") \/ End)
  BY DEF AbandonRoute, At
<1>2. pass' \in Pass /\ active' \in 0..MaxRev /\ pass'.pc \in {"idle", "unpolicy"}
  BY <1>1, GotoTyped, EndTyped DEF IInv, Pc
<1>3. ~Published(route)
  BY <1>1 DEF IInv, PcOK
<1>4. route' \in Route /\ ~Published(route')
  <2>1. CASE DeleteRoute
    BY <1>3, <2>1, DeleteRouteIs, NoRouteIs DEF IInv
  <2>2. CASE route' = route
    BY <1>3, <2>2 DEF IInv, TypeOK
  <2> QED BY <2>1, <2>2 DEF AbandonRoute
<1>5. ASSUME auth' = auth, UNCHANGED <<alive, legacy, policy, loosed, credit>> PROVE PcOK'
  BY <1>1, <1>2, <1>4, <1>5 DEF IInv, PcOK
<1> QED BY <1>2, <1>4, <1>5, CutGood DEF AbandonRoute

LEMMA revokeGatewayGood == ASSUME IInv, revokeGateway PROVE Good
<1>1. pass.pc = "revoke" /\ Goto("detach")
  BY DEF revokeGateway, At
<1>2. pass' \in Pass /\ active' \in 0..MaxRev /\ pass'.pc = "detach"
  BY <1>1, GotoTyped DEF IInv, Pc
<1>3. /\ route' \in Route
      /\ \/ ~Published(route')
         \/ route'.at # "absent" /\ route'.backend = route.backend /\ route'.marker = route.marker
  <2>1. CASE DeleteRoute
    BY <2>1, DeleteRouteIs, NoRouteIs DEF IInv
  <2>2. CASE route' = route
    BY <2>2 DEF IInv, Standing, TypeOK
  <2> QED BY <2>1, <2>2 DEF revokeGateway
<1>4. ASSUME auth' = auth, UNCHANGED <<alive, legacy, policy, loosed, credit>> PROVE PcOK'
  BY <1>1, <1>2, <1>4 DEF IInv, PcOK
<1> QED BY <1>2, <1>3, <1>4, CutGood DEF revokeGateway


LEMMA PolicyTyped ==
  ASSUME TypeOK, Env, Kept, route' = route, policy' \in Policy, loosed' \in BOOLEAN,
         credit' \in {credit, "none"}, pass' \in Pass, active' \in 0..MaxRev
  PROVE  TypeOK' /\ auth' = auth /\ UNCHANGED <<alive, legacy, route>>
<1>1. credit' \in {"none", "own", "above", "foreign", "flicker", "named", "other"}
  BY DEF TypeOK
<1> QED BY <1>1, Zenon DEF TypeOK, Env, Rest, Kept, spec, counts

(* The policy is written, or found as it should be. *)
LEMMA ensureAuthPolicyIs ==
  ASSUME TypeOK, ensureAuthPolicy
  PROVE  /\ policy' \in Policy /\ loosed' \in BOOLEAN /\ credit' \in {credit, "none"}
         /\ Intact'
         /\ \/ Intact /\ UNCHANGED <<policy, credit, loosed>>
            \/ credit' = "none" /\ ~loosed'
<1>1. CASE Intact
  BY <1>1 DEF ensureAuthPolicy, TypeOK
<1>2. CASE ~Intact
  BY <1>2 DEF ensureAuthPolicy, TypeOK, Policy, Presence
<1> QED BY <1>1, <1>2

LEMMA WrittenStands ==
  ASSUME IInv, ensureAuthPolicy, route' = route, auth' = auth, legacy' = legacy,
         auth.kind \in Running => auth.stage = "ApplyingPolicies",
         auth.kind \in Running \/ auth.mode = "apikey", auth.kind # "Adopt"
  PROVE  Standing' /\ Implements
<1>1. /\ Intact'
      /\ \/ Intact /\ UNCHANGED <<policy, credit, loosed>>
         \/ credit' = "none" /\ ~loosed'
  BY ensureAuthPolicyIs DEF IInv
<1>2. Implements
  BY <1>1, IsQuiet, IsPost
<1>3. RecordOK' /\ Objects' /\ Policed'
  BY <1>1 DEF IInv, Standing
<1>4. AdoptOnlyFound' /\ OpenRecordUnpoliced' /\ OpenMarked' /\ PublishedProved'
  BY <1>1 DEF IInv, Standing
<1> QED BY <1>2, <1>3, <1>4 DEF Standing

LEMMA ApplyingPoliciesGood == ASSUME IInv, ApplyingPolicies PROVE Good
<1>1. pass.pc = "run" /\ auth.stage = "ApplyingPolicies" /\ Kept /\ auth.kind \in Running
  BY DEF ApplyingPolicies, At, IInv, PcOK
<1>2. CASE End /\ Reads
  BY <1>1, <1>2, EndGood
<1>3. CASE ensureAuthPolicy /\ Goto("applied") /\ Env /\ UNCHANGED route
  <2>1. pass' \in Pass /\ active' \in 0..MaxRev /\ pass'.pc = "applied"
    BY <1>3, GotoTyped DEF IInv, Pc
  <2>2. TypeOK' /\ auth' = auth /\ UNCHANGED <<alive, legacy, route>> /\ Intact'
    BY <1>1, <1>3, <2>1, ensureAuthPolicyIs, PolicyTyped DEF IInv
  <2>3. Standing' /\ Implements
    BY <1>1, <1>3, <2>2, WrittenStands
  <2>4. PcOK'
    BY <1>1, <2>1, <2>2 DEF IInv, PcOK
  <2> QED BY <2>2, <2>3, <2>4 DEF Good, IInv
<1> QED BY <1>2, <1>3 DEF ApplyingPolicies

LEMMA reassertServedPolicyGood == ASSUME IInv, reassertServedPolicy PROVE Good
<1>1. pass.pc = "reassert" /\ auth.kind = "" /\ auth.mode = "apikey" /\ Kept /\ Env /\ route' = route
  BY DEF reassertServedPolicy, At, IInv, PcOK
<1>2. pass' \in Pass /\ active' \in 0..MaxRev /\ pass'.pc = "follow"
  BY GotoTyped DEF reassertServedPolicy, IInv, Pc, RouteWriters
<1>3. CASE ensureAuthPolicy
  <2>1. TypeOK' /\ auth' = auth /\ UNCHANGED <<alive, legacy, route>> /\ Intact'
    BY <1>1, <1>2, <1>3, ensureAuthPolicyIs, PolicyTyped DEF IInv
  <2>2. Standing' /\ Implements
    BY <1>1, <1>3, <2>1, WrittenStands
  <2>3. PcOK'
    BY <1>1, <1>2, <2>1 DEF IInv, PcOK
  <2> QED BY <2>1, <2>2, <2>3 DEF Good, IInv
<1>4. CASE UNCHANGED <<policy, credit, loosed>>
  <2>1. TypeOK' /\ auth' = auth /\ UNCHANGED <<alive, legacy, route>>
    <3>1. policy' \in Policy /\ loosed' \in BOOLEAN /\ credit' \in {credit, "none"}
      BY <1>4 DEF IInv, TypeOK
    <3> QED BY <1>1, <1>2, <3>1, PolicyTyped DEF IInv
  <2>2. Standing' /\ Implements
    BY <1>4, <2>1, Stands, IsQuiet DEF IInv
  <2>3. PcOK'
    BY <1>1, <1>2, <1>4, <2>1 DEF IInv, PcOK
  <2> QED BY <2>1, <2>2, <2>3 DEF Good, IInv
<1> QED BY <1>3, <1>4 DEF reassertServedPolicy

(* The policy is deleted, held by a finalizer, or left as found. *)
LEMMA deleteAuthPolicyIs ==
  ASSUME TypeOK, deleteAuthPolicy
  PROVE  /\ policy' \in Policy /\ UNCHANGED <<route, loosed, credit>>
         /\ Intact' => Intact
         /\ OwnUID' => OwnUID
         /\ ~PolicyWaiting => ~OwnUID'
<1>1. CASE policy' = policy
  BY <1>1 DEF deleteAuthPolicy, PolicyWaiting, TypeOK
<1>2. CASE OwnUID /\ policy' = NoPolicy
  BY <1>2, IdleTyped DEF deleteAuthPolicy, NoPolicy, PolicyWaiting
<1>3. CASE OwnUID /\ policy' = [policy EXCEPT !.at = "held"]
  BY <1>3 DEF deleteAuthPolicy, PolicyWaiting, TypeOK, Policy, Presence
<1> QED BY <1>1, <1>2, <1>3 DEF deleteAuthPolicy, DeletePolicy, Deleted

LEMMA DeletedStands ==
  ASSUME IInv, auth' = auth, UNCHANGED <<route, loosed, credit, legacy>>, Intact' => Intact,
         OwnUID' => OwnUID, ~Keyed \/ (legacy /\ auth.mode = "")
  PROVE  Standing' /\ Implements
<1>1. Implements
  BY IsWithdraw
<1>2. RecordOK' /\ Objects' /\ Policed'
  BY DEF IInv, Standing
<1>3. AdoptOnlyFound' /\ OpenRecordUnpoliced' /\ OpenMarked' /\ PublishedProved'
  BY DEF IInv, Standing
<1> QED BY <1>1, <1>2, <1>3 DEF Standing

LEMMA AbandonPolicyGood == ASSUME IInv, AbandonPolicy PROVE Good
<1>1. pass.pc = "unpolicy" /\ auth.kind \in Running /\ ~isReCreation /\ Kept /\ Env
  BY DEF AbandonPolicy, At, IInv, PcOK
<1>2. /\ policy' \in Policy /\ UNCHANGED <<route, loosed, credit>>
      /\ (Intact' => Intact) /\ (OwnUID' => OwnUID)
      /\ Goto("abandoned") => ~OwnUID'
      /\ End \/ Goto("abandoned")
  <2>1. CASE auth.written /\ deleteAuthPolicy
    BY <2>1, deleteAuthPolicyIs DEF AbandonPolicy, IInv, Goto, End, Idle
  <2>2. CASE ~auth.written /\ UNCHANGED <<route, policy, loosed, credit>>
    BY <1>1, <2>2 DEF AbandonPolicy, IInv, TypeOK, Standing
  <2> QED BY <2>1, <2>2 DEF AbandonPolicy
<1>3. /\ pass' \in Pass /\ active' \in 0..MaxRev /\ pass'.pc \in {"idle", "abandoned"}
      /\ pass'.pc = "abandoned" => ~OwnUID'
  BY <1>2, GotoTyped, EndTyped DEF IInv, Pc
<1>4. TypeOK' /\ auth' = auth /\ UNCHANGED <<alive, legacy, route>>
  <2>1. loosed' \in BOOLEAN /\ credit' \in {credit, "none"}
    BY <1>2 DEF IInv, TypeOK
  <2> QED BY <1>1, <1>2, <1>3, <2>1, PolicyTyped DEF IInv
<1>5. ~Keyed \/ (legacy /\ auth.mode = "")
  <2>1. CASE auth.kind = "Create"
    BY <1>1, <2>1 DEF IInv, PcOK
  <2>2. CASE auth.kind = "Lock"
    <3>1. auth.target = "apikey" /\ auth.mode \in {"", "none", "apikey"}
      BY <2>2 DEF IInv, TypeOK, WellFormed, Auth
    <3> QED BY <1>1, <2>2, <3>1 DEF IInv, Standing
  <2> QED BY <1>1, <2>1, <2>2
<1>6. Standing' /\ Implements
  BY <1>2, <1>4, <1>5, DeletedStands
<1>7. auth.mode # "apikey"
  <2>1. auth.kind = "Lock" => auth.target = "apikey"
    BY DEF IInv, TypeOK, WellFormed
  <2> QED BY <1>1, <2>1
<1>8. PcOK'
  BY <1>1, <1>2, <1>3, <1>4, <1>7 DEF IInv, PcOK
<1> QED BY <1>4, <1>6, <1>8 DEF Good, IInv

LEMMA RevokePolicyGood == ASSUME IInv, RevokePolicy PROVE Good
<1>1. pass.pc = "detach" /\ alive # "live" /\ Kept
  BY DEF RevokePolicy, At, IInv, PcOK
<1>2. CASE End /\ Reads
  BY <1>1, <1>2, EndGood
<1>3. CASE /\ route.at = "absent" /\ deleteAuthPolicy /\ Env
           /\ End \/ Goto("release")
  <2>1. /\ pass' \in Pass /\ active' \in 0..MaxRev /\ pass'.pc \in {"idle", "release"}
    BY <1>3, GotoTyped, EndTyped DEF IInv, Pc
  <2>2. /\ policy' \in Policy /\ UNCHANGED <<route, loosed, credit>>
        /\ (Intact' => Intact) /\ (OwnUID' => OwnUID)
    BY <1>3, deleteAuthPolicyIs DEF IInv
  <2>3. TypeOK' /\ auth' = auth /\ UNCHANGED <<alive, legacy, route>>
    <3>1. loosed' \in BOOLEAN /\ credit' \in {credit, "none"}
      BY <2>2 DEF IInv, TypeOK
    <3> QED BY <1>1, <1>3, <2>1, <2>2, <3>1, PolicyTyped DEF IInv
  <2>4. ~Keyed
    BY <1>3 DEF IInv, Standing
  <2>5. Standing' /\ Implements
    BY <2>2, <2>3, <2>4, DeletedStands
  <2>6. PcOK'
    BY <1>1, <2>1, <2>3 DEF IInv, PcOK
  <2> QED BY <2>3, <2>5, <2>6 DEF Good, IInv
<1> QED BY <1>2, <1>3 DEF RevokePolicy


-----------------------------------------------------------------------------
(***************************************************************************)
(* runCreate and what it shares with runLock.                              *)
(***************************************************************************)
LEMMA PassGood ==
  ASSUME IInv, pass' \in Pass, active' \in 0..MaxRev, Kept, Reads,
         Same /\ auth' = auth => PcOK'
  PROVE  Good
<1>1. WellFormed(auth') /\ auth' = auth
  BY DEF IInv, TypeOK, Kept
<1>2. TypeOK' /\ Same
  BY <1>1, ReadsTyped DEF IInv
<1>3. Standing' /\ Implements
  BY <1>1, <1>2, Stands, IsQuiet DEF IInv
<1> QED BY <1>1, <1>2, <1>3 DEF Good, IInv

LEMMA CreateBeginGood == ASSUME IInv, CreateBegin PROVE Good
<1>1. pass.pc = "run" /\ auth.kind = "Create" /\ Kept /\ Reads
  BY DEF CreateBegin, Create, At
<1>2. CASE auth.stage = "PreparingRoute" /\ Goto("prepare")
  <2>1. ASSUME Same, auth' = auth, pass'.pc = "prepare" PROVE PcOK'
    BY <1>1, <1>2, <2>1 DEF IInv, PcOK
  <2> QED BY <1>1, <1>2, <2>1, GotoGood DEF Pc, RouteWriters
<1>3. CASE auth.stage \in {"Converging", "ProbingAfter"} /\ Goto("hold")
  <2>1. ASSUME Same, auth' = auth, pass'.pc = "hold" PROVE PcOK'
    BY <1>1, <1>3, <2>1 DEF IInv, PcOK
  <2> QED BY <1>1, <1>3, <2>1, GotoGood DEF Pc, RouteWriters
<1> QED BY <1>2, <1>3 DEF CreateBegin, Create

LEMMA PreparingRouteGood == ASSUME IInv, PreparingRoute PROVE Good
<1>1. pass.pc = "prepare" /\ EnsureThen("prepared") /\ Prepared
  BY DEF PreparingRoute, At, IInv, PcOK, Prepared
<1>2. ASSUME auth' = auth, pass'.pc = "prepared", UNCHANGED <<alive, legacy, policy, loosed, credit>>
      PROVE  PcOK'
  BY <1>1, <1>2 DEF IInv, PcOK
<1> QED BY <1>1, <1>2, EnsureThenGood DEF Pc

LEMMA CreateHoldsGood == ASSUME IInv, CreateHolds PROVE Good
<1>1. pass.pc = "hold" /\ EnsureThen("look") /\ Prepared
  BY DEF CreateHolds, At, IInv, PcOK, Prepared
<1>2. ASSUME auth' = auth, pass'.pc = "look", UNCHANGED <<alive, legacy, policy, loosed, credit>>
      PROVE  PcOK'
  BY <1>1, <1>2 DEF IInv, PcOK
<1> QED BY <1>1, <1>2, EnsureThenGood DEF Pc

LEMMA CreatePreparedGood == ASSUME IInv, CreatePrepared PROVE Good
<1> DEFINE a == [auth EXCEPT !.stage = "ApplyingPolicies", !.written = TRUE]
<1>1. /\ pass.pc = "prepared" /\ Reads /\ Advance(a, "run")
      /\ auth.kind = "Create" /\ auth.stage = "PreparingRoute"
  BY DEF CreatePrepared, At, IInv, PcOK
<1>2. /\ WellFormed(a) /\ a.mode = auth.mode /\ a.kind = auth.kind /\ a.target = auth.target
      /\ a.stage = "ApplyingPolicies" /\ a.written
  BY <1>1 DEF IInv, TypeOK, WellFormed, Auth, Stage
<1> HIDE DEF a
<1>3. ASSUME Same, auth' = a, pass'.pc = "run" PROVE Standing' /\ PcOK'
  BY <1>1, <1>2, <1>3 DEF IInv, Standing, PcOK
<1> QED BY <1>1, <1>2, <1>3, AdvanceGood DEF Pc

(* The record with another stage. *)
LEMMA RestageIs ==
  ASSUME TypeOK, NEW st \in {"PreparingRoute", "ApplyingPolicies", "Converging", "ProbingAfter", "Publishing"},
         NEW a, a = [auth EXCEPT !.stage = st], auth.kind \in Running,
         auth.kind = "Lock" => st \notin {"PreparingRoute", "Publishing"}
  PROVE  /\ WellFormed(a) /\ a.mode = auth.mode /\ a.kind = auth.kind /\ a.target = auth.target
         /\ a.stage = st /\ a.written = auth.written
BY DEF TypeOK, WellFormed, Auth, Stage

LEMMA RestageGood ==
  ASSUME IInv, NEW st \in {"PreparingRoute", "ApplyingPolicies", "Converging", "ProbingAfter", "Publishing"},
         Restage(st), Reads, auth.kind \in Running,
         pass.pc \notin {"idle", "revoke", "detach", "release"},
         auth.kind = "Lock" => st \notin {"PreparingRoute", "Publishing"},
         auth.kind = "Create" => auth.target = "apikey",
         auth.written \/ st = "PreparingRoute",
         st # "Publishing"
  PROVE  Good
<1> DEFINE a == [auth EXCEPT !.stage = st]
<1>1. /\ WellFormed(a) /\ a.mode = auth.mode /\ a.kind = auth.kind /\ a.target = auth.target
      /\ a.stage = st /\ a.written = auth.written
  BY RestageIs DEF IInv
<1>2. Advance(a, "run")
  BY DEF Restage
<1> HIDE DEF a
<1>3. ASSUME Same, auth' = a, pass'.pc = "run" PROVE Standing' /\ PcOK'
  BY <1>1, <1>3, ZenonT(60) DEF IInv, Standing, PcOK
<1> QED BY <1>1, <1>2, <1>3, AdvanceGood DEF Pc

(* A record at one of the middle stages has a policy in its name. *)
LEMMA MiddleStage ==
  ASSUME IInv, auth.stage \in {"ApplyingPolicies", "Converging", "ProbingAfter"}
  PROVE  auth.kind \in Running /\ auth.written /\ auth.target = "apikey"
<1>1. auth.target \in {"", "none", "apikey"} /\ (auth.kind \in Running => auth.target # "")
      /\ (auth.kind = "Lock" => auth.target = "apikey")
  BY DEF IInv, TypeOK, WellFormed, Auth
<1> QED BY <1>1 DEF IInv, Standing

LEMMA PoliciesAppliedGood == ASSUME IInv, PoliciesApplied PROVE Good
<1>1. pass.pc = "applied" /\ auth.stage = "ApplyingPolicies" /\ Reads /\ Restage("Converging")
  BY DEF PoliciesApplied, At, IInv, PcOK
<1> QED BY <1>1, MiddleStage, RestageGood

LEMMA LookAgainGood == ASSUME IInv, LookAgain PROVE Good
<1>1. /\ pass.pc = "look" /\ auth.stage \in {"Converging", "ProbingAfter"} /\ Reads
      /\ Restage("ApplyingPolicies")
  BY DEF LookAgain, At, IInv, PcOK
<1> QED BY <1>1, MiddleStage, RestageGood

LEMMA ConvergingGood == ASSUME IInv, Converging PROVE Good
<1>1. pass.pc = "look" /\ auth.stage \in {"Converging", "ProbingAfter"} /\ Reads
  BY DEF Converging, At, IInv, PcOK
<1>2. CASE Restage("ProbingAfter")
  BY <1>1, <1>2, MiddleStage, RestageGood
<1>3. CASE End /\ Kept
  BY <1>1, <1>3, EndGood
<1> QED BY <1>2, <1>3 DEF Converging

LEMMA freshNackGood == ASSUME IInv, freshNack PROVE Good
<1> DEFINE a == [auth EXCEPT !.stage = "Converging"]
<1>1. /\ pass.pc = "look" /\ auth.stage \in {"Converging", "ProbingAfter"} /\ Reads
      /\ auth' = a /\ End /\ auth.kind \in Running /\ auth.written /\ auth.target = "apikey"
  BY MiddleStage DEF freshNack, At, IInv, PcOK, Persist
<1>2. /\ WellFormed(a) /\ a.mode = auth.mode /\ a.kind = auth.kind /\ a.target = auth.target
      /\ a.stage = "Converging" /\ a.written = auth.written
  BY <1>1, RestageIs DEF IInv
<1> HIDE DEF a
<1>3. TypeOK' /\ Same /\ pass'.pc = "idle"
  BY <1>1, <1>2, EndTyped, ReadsTyped DEF IInv
<1>4. Implements
  BY <1>1, <1>2, <1>3, IsQuiet
<1>5. Standing' /\ PcOK'
  BY <1>1, <1>2, <1>3 DEF IInv, Standing, PcOK
<1> QED BY <1>3, <1>4, <1>5 DEF Good, IInv

LEMMA ProbesIs == {"probe", "repoint", "gate"} \subseteq Pc
BY DEF Pc, RouteWriters

LEMMA ReadGatewayGood == ASSUME IInv, ReadGateway PROVE Good
<1>1. /\ pass.pc = "look" /\ auth.stage = "ProbingAfter" /\ Intact /\ Kept /\ Reads
      /\ auth.kind \in Running /\ auth.written /\ auth.target = "apikey"
  BY MiddleStage DEF ReadGateway, At, NotIntact
<1>2. CASE End
  BY <1>1, <1>2, EndGood
<1>3. CASE /\ pass' = [pass EXCEPT !.held = above, !.flick = FALSE,
                                   !.pc = IF auth.kind = "Create" THEN "probe"
                                          ELSE IF isReCreation /\ cardedRevision(pass.rev)
                                               THEN "repoint" ELSE "gate"]
           /\ UNCHANGED active
  <2> DEFINE pc == IF auth.kind = "Create" THEN "probe"
                   ELSE IF isReCreation /\ cardedRevision(pass.rev) THEN "repoint" ELSE "gate"
  <2>0. pc \in {"probe", "repoint", "gate"} /\ above \in BOOLEAN /\ pass \in Pass
    BY DEF IInv, TypeOK
  <2>5. /\ pc = "probe" => auth.kind = "Create"
        /\ pc = "repoint" => isReCreation
        /\ pc \in {"repoint", "gate"} => auth.kind # "Create"
    OBVIOUS
  <2>6. pass' = [pass EXCEPT !.held = above, !.flick = FALSE, !.pc = pc]
    BY <1>3
  <2> HIDE DEF pc
  <2>4. pc \in Pc
    BY <2>0, ProbesIs
  <2>3. pass' \in Pass /\ pass'.pc = pc
    BY <2>0, <2>4, <2>6 DEF Pass
  <2>1. /\ pass' \in Pass /\ pass'.pc \in {"probe", "repoint", "gate"}
        /\ pass'.pc = "probe" => auth.kind = "Create"
        /\ pass'.pc = "repoint" => isReCreation
        /\ pass'.pc \in {"repoint", "gate"} => auth.kind # "Create"
        /\ active' \in 0..MaxRev
    BY <1>1, <1>3, <2>0, <2>3, <2>5 DEF IInv, TypeOK
  <2>2. ASSUME Same, auth' = auth PROVE PcOK'
    BY <1>1, <2>1, <2>2 DEF IInv, PcOK
  <2> QED BY <1>1, <2>1, <2>2, PassGood
<1> QED BY <1>2, <1>3 DEF ReadGateway

LEMMA AnswersTyped == ASSUME TypeOK PROVE Answers \subseteq Answer
<1>1. proxy.backend \in 0..MaxRev
  BY DEF TypeOK
<1>2. \A c \in {"none", "401", "200", "other"}, b \in {"", "own", "above", "foreign", "backend"},
        r \in 0..MaxRev : b # "" \/ c # "401" => Says(c, b, r) \in Answer
  BY DEF Says, Answer
<1>3. Backend \in Answer
  BY <1>1, <1>2 DEF Backend
<1>4. /\ Says("other", "", 0) \in Answer /\ Says("401", "above", 0) \in Answer
      /\ Says("401", "foreign", 0) \in Answer /\ Says("401", "own", 0) \in Answer
  BY <1>2, NatFacts
<1> HIDE DEF Says
<1> QED BY <1>3, <1>4 DEF Answers

LEMMA probeAgentGood == ASSUME IInv, probeAgent PROVE Good
<1>1. pass.pc = "probe" /\ Kept /\ Reads
  BY DEF probeAgent, At
<1>2. pass' \in Pass /\ pass'.pc = "probed" /\ active' \in 0..MaxRev
  BY AnswersTyped DEF probeAgent, IInv, TypeOK, Pass, Pc
<1>3. ASSUME Same, auth' = auth PROVE PcOK'
  BY <1>1, <1>2, <1>3 DEF IInv, PcOK
<1> QED BY <1>1, <1>2, <1>3, PassGood


(* The source of a 401 is somebody. *)
LEMMA SourceTyped ==
  ASSUME TypeOK, pass.answer.code = "401"
  PROVE  Source \in {"own", "above", "foreign", "flicker", "named", "other"}
<1>1. pass.answer.by \in {"own", "above", "foreign", "backend"}
  BY DEF TypeOK, Pass, Answer
<1> QED BY <1>1 DEF Source

LEMMA CreditsTyped ==
  ASSUME TypeOK, Credits, pass.answer.code = "401", WellFormed(auth'), pass' \in Pass, active' \in 0..MaxRev
  PROVE  TypeOK' /\ credit' # "none" /\ UNCHANGED <<alive, legacy, route, policy, loosed>>
<1>1. /\ credit' \in {"none", "own", "above", "foreign", "flicker", "named", "other"}
      /\ credit' # "none"
  BY SourceTyped DEF Credits
<1>2. UNCHANGED <<alive, want, cards, cached, foreign, above, proxy, edits, tampers, faults, legacy,
                  missed, route, policy, loosed>>
  BY Zenon DEF Credits, Env, Rest, spec, counts
<1> QED BY <1>1, <1>2, Zenon DEF TypeOK

LEMMA CreateCreditGood == ASSUME IInv, CreateCredit PROVE Good
<1>1. /\ pass.pc = "probed" /\ auth.kind = "Create" /\ auth.stage = "ProbingAfter" /\ Guarded
      /\ auth.written /\ auth.target = "apikey"
  BY MiddleStage DEF CreateCredit, At, IInv, PcOK
<1>2. CASE pass.answer.code = "401" /\ Restage("Publishing") /\ Credits
  <2> DEFINE a == [auth EXCEPT !.stage = "Publishing"]
  <2>1. /\ WellFormed(a) /\ a.mode = auth.mode /\ a.kind = auth.kind /\ a.target = auth.target
        /\ a.stage = "Publishing" /\ a.written = auth.written
    BY <1>1, RestageIs DEF IInv
  <2>2. auth' = a /\ pass' \in Pass /\ active' \in 0..MaxRev /\ pass'.pc = "run"
    BY <1>2, GotoTyped DEF Restage, Advance, Persist, IInv, Pc
  <2> HIDE DEF a
  <2>3. TypeOK' /\ credit' # "none" /\ UNCHANGED <<alive, legacy, route, policy, loosed>>
    BY <1>2, <2>1, <2>2, CreditsTyped DEF IInv
  <2>4. Implements
    BY <1>1, <2>1, <2>2, <2>3, IsTold
  <2>5. Standing' /\ PcOK'
    BY <1>1, <2>1, <2>2, <2>3 DEF IInv, Standing, PcOK
  <2> QED BY <2>3, <2>4, <2>5 DEF Good, IInv
<1>3. CASE End /\ Kept /\ Reads
  BY <1>1, <1>3, EndGood
<1> QED BY <1>2, <1>3 DEF CreateCredit

LEMMA PublishingCheckGood == ASSUME IInv, PublishingCheck PROVE Good
<1>1. pass.pc = "run" /\ auth.kind = "Create" /\ auth.stage = "Publishing" /\ Reads
  BY DEF PublishingCheck, Create, At
<1>2. CASE auth.target = "apikey" /\ Restage("PreparingRoute")
  BY <1>1, <1>2, RestageGood
<1>3. CASE End /\ Kept
  BY <1>1, <1>3, EndGood
<1>4. CASE (auth.target = "apikey" => Intact) /\ Goto("publish") /\ Kept
  <2>1. ASSUME Same, auth' = auth, pass'.pc = "publish" PROVE PcOK'
    BY <1>1, <1>4, <2>1 DEF IInv, PcOK
  <2> QED BY <1>1, <1>4, <2>1, GotoGood DEF Pc, RouteWriters
<1> QED BY <1>2, <1>3, <1>4 DEF PublishingCheck

LEMMA PublishingGood == ASSUME IInv, Publishing PROVE Good
<1>1. /\ pass.pc = "publish" /\ auth.kind = "Create" /\ auth.stage = "Publishing"
      /\ auth.target = "apikey" => Guarded
  BY DEF Publishing, At, IInv, PcOK
<1>2. auth.target \in {"none", "apikey"} /\ PublishMode = auth.target
  BY <1>1 DEF PublishMode, IInv, TypeOK, WellFormed, Auth
<1>3. CASE errRouteGone /\ Restage("PreparingRoute") /\ Reads
  <2>1. auth.target = "apikey"
    BY <1>2, <1>3 DEF errRouteGone
  <2> QED BY <1>1, <1>3, <2>1, RestageGood
<1>4. CASE EnsureThen("published")
  <2>1. ASSUME auth' = auth, pass'.pc = "published", UNCHANGED <<alive, legacy, policy, loosed, credit>>
        PROVE  PcOK'
    BY <1>1, <2>1 DEF IInv, PcOK
  <2> QED BY <1>1, <1>2, <1>4, <2>1, EnsureThenGood DEF Pc
<1> QED BY <1>3, <1>4 DEF Publishing

LEMMA recordServedGood == ASSUME IInv, recordServed PROVE Good
<1>1. /\ pass.pc = "published" /\ auth.kind = "Create" /\ auth.stage = "Publishing"
      /\ (auth.target = "apikey" => Guarded) /\ End /\ Reads
  BY DEF recordServed, At, IInv, PcOK
<1>2. auth.target \in {"none", "apikey"} /\ auth.mode \in {"", "none", "apikey"}
  BY <1>1 DEF IInv, TypeOK, WellFormed, Auth
<1>3. CASE Kept
  BY <1>1, <1>3, EndGood
<1>4. CASE auth' = Record(auth.target)
  <2>1. WellFormed(auth')
    BY <1>2, <1>4, RecordFormed
  <2>2. TypeOK' /\ Same /\ pass'.pc = "idle"
    BY <1>1, <2>1, EndTyped, ReadsTyped DEF IInv
  <2>3. /\ auth'.mode = auth.target /\ auth'.kind = "" /\ auth'.stage = "" /\ auth'.target = ""
        /\ auth'.written = FALSE
    BY <1>4
  <2>4. /\ auth.target = "none" => auth.mode = "" /\ ~auth.written
        /\ auth.target = "apikey" => credit # "none" /\ Guarded
        /\ auth.mode # "" => auth.mode = "apikey" /\ auth.target = "apikey"
    BY <1>1 DEF IInv, Standing
  <2>5. Implements
    BY <1>1, <1>2, <2>2, <2>3, <2>4, IsTold
  <2>6. RecordOK' /\ Objects' /\ Policed'
    BY <1>1, <1>2, <2>2, <2>3, <2>4 DEF IInv, Standing
  <2>7. AdoptOnlyFound' /\ OpenRecordUnpoliced' /\ OpenMarked' /\ PublishedProved'
    BY <1>1, <1>2, <2>2, <2>3, <2>4 DEF IInv, Standing
  <2>8. PcOK'
    BY <1>1, <1>2, <2>2, <2>3, <2>4 DEF IInv, PcOK
  <2> QED BY <2>2, <2>5, <2>6, <2>7, <2>8 DEF Good, IInv, Standing
<1> QED BY <1>3, <1>4 DEF recordServed, Persist


-----------------------------------------------------------------------------
(***************************************************************************)
(* runLock.                                                                *)
(***************************************************************************)
LEMMA LockIs ==
  ASSUME IInv, auth.kind = "Lock"
  PROVE  /\ auth.target = "apikey" /\ auth.mode \in {"", "none", "apikey"}
         /\ isReCreation <=> auth.mode = "apikey"
         /\ ~Prepared /\ PublishMode = auth.mode
         /\ auth.mode = "" => legacy
BY DEF IInv, TypeOK, WellFormed, Auth, Prepared, PublishMode, Standing

LEMMA LockRouteGood == ASSUME IInv, LockRoute PROVE Good
<1>1. pass.pc = "lock" /\ auth.kind = "Lock"
  BY DEF LockRoute, At, IInv, PcOK
<1>2. CASE isReCreation /\ recreateRoute /\ Reads
  BY <1>1, <1>2, LockIs, recreateRouteGood
<1>3. CASE pass' = [pass EXCEPT !.pc = "clear", !.rt = Seen] /\ UNCHANGED active /\ Kept /\ Reads
  <2>1. pass' \in Pass /\ pass'.pc = "clear" /\ active' \in 0..MaxRev
    BY <1>3 DEF IInv, TypeOK, Pass, Pc, Seen
  <2>2. ASSUME Same, auth' = auth PROVE PcOK'
    BY <1>1, <2>1, <2>2 DEF IInv, PcOK
  <2> QED BY <1>3, <2>1, <2>2, PassGood
<1>4. CASE ~isReCreation /\ EnsureThen("clear")
  <2>1. ASSUME auth' = auth, pass'.pc = "clear", UNCHANGED <<alive, legacy, policy, loosed, credit>>
        PROVE  PcOK'
    BY <1>1, <2>1 DEF IInv, PcOK
  <2>2. auth.mode \in {"", "none"} /\ PublishMode = auth.mode /\ (auth.mode = "" => legacy)
    BY <1>1, <1>4, LockIs
  <2> QED BY <1>1, <1>4, <2>1, <2>2, EnsureThenGood DEF Pc
<1>5. CASE End /\ Kept /\ Reads
  BY <1>1, <1>5, EndGood
<1> QED BY <1>2, <1>3, <1>4, <1>5 DEF LockRoute

LEMMA LockPromotedGood == ASSUME IInv, LockPromoted PROVE Good
<1>1. pass.pc = "clear" /\ auth.kind = "Lock" /\ Reads
  BY DEF LockPromoted, At, IInv, PcOK
<1>2. CASE Advance([auth EXCEPT !.before = 0], "run")
  <2> DEFINE a == [auth EXCEPT !.before = 0]
  <2>1. /\ WellFormed(a) /\ a.mode = auth.mode /\ a.kind = auth.kind /\ a.target = auth.target
        /\ a.stage = auth.stage /\ a.written = auth.written
    BY NatFacts DEF IInv, TypeOK, WellFormed, Auth
  <2>2. Advance(a, "run")
    BY <1>2
  <2> HIDE DEF a
  <2>3. ASSUME Same, auth' = a, pass'.pc = "run" PROVE Standing' /\ PcOK'
    BY <1>1, <2>1, <2>3 DEF IInv, Standing, PcOK
  <2> QED BY <1>1, <2>1, <2>2, <2>3, AdvanceGood DEF Pc
<1>3. CASE Goto("run") /\ Kept
  <2>1. ASSUME Same, auth' = auth, pass'.pc = "run" PROVE PcOK'
    BY <1>1, <2>1 DEF IInv, PcOK
  <2> QED BY <1>1, <1>3, <2>1, GotoGood DEF Pc
<1> QED BY <1>2, <1>3 DEF LockPromoted

LEMMA ProbingBeforeGood == ASSUME IInv, ProbingBefore PROVE Good
<1>1. pass.pc = "run" /\ auth.kind = "Lock" /\ auth.stage = "ProbingBefore" /\ Reads
  BY DEF ProbingBefore, At
<1>2. PICK b \in 0..MaxRev :
        Advance([auth EXCEPT !.stage = "ApplyingPolicies", !.written = TRUE, !.before = b], "run")
  <2>1. pass.rt.backend \in 0..MaxRev /\ 0 \in 0..MaxRev
    BY NatFacts DEF IInv, TypeOK, Pass, Route
  <2> QED BY <2>1 DEF ProbingBefore
<1> DEFINE a == [auth EXCEPT !.stage = "ApplyingPolicies", !.written = TRUE, !.before = b]
<1>3. /\ WellFormed(a) /\ a.mode = auth.mode /\ a.kind = auth.kind /\ a.target = auth.target
      /\ a.stage = "ApplyingPolicies" /\ a.written
  BY <1>1 DEF IInv, TypeOK, WellFormed, Auth, Stage
<1>4. Advance(a, "run")
  BY <1>2
<1> HIDE DEF a
<1>5. ASSUME Same, auth' = a, pass'.pc = "run" PROVE Standing' /\ PcOK'
  BY <1>1, <1>3, <1>5 DEF IInv, Standing, PcOK
<1> QED BY <1>1, <1>3, <1>4, <1>5, AdvanceGood DEF Pc

LEMMA LockLookGood == ASSUME IInv, LockLook PROVE Good
<1>1. /\ pass.pc = "run" /\ auth.kind = "Lock" /\ auth.stage \in {"Converging", "ProbingAfter"}
      /\ Goto("look") /\ Kept /\ Reads
  BY DEF LockLook, At
<1>2. ASSUME Same, auth' = auth, pass'.pc = "look" PROVE PcOK'
  BY <1>1, <1>2 DEF IInv, PcOK
<1> QED BY <1>1, <1>2, GotoGood DEF Pc

LEMMA LockRepointGood == ASSUME IInv, LockRepoint PROVE Good
<1>1. /\ pass.pc = "repoint" /\ auth.kind = "Lock" /\ auth.stage = "ProbingAfter" /\ auth.mode = "apikey"
      /\ Guarded
  BY DEF LockRepoint, At, IInv, PcOK
<1>2. CASE recreateRoute /\ Reads
  BY <1>1, <1>2, recreateRouteGood
<1>3. CASE EnsureThen("gate")
  <2>1. ASSUME auth' = auth, pass'.pc = "gate", UNCHANGED <<alive, legacy, policy, loosed, credit>>
        PROVE  PcOK'
    BY <1>1, <2>1 DEF IInv, PcOK
  <2> QED BY <1>1, <1>3, <2>1, LockIs, EnsureThenGood DEF Pc
<1> QED BY <1>2, <1>3 DEF LockRepoint

LEMMA LockGateGood == ASSUME IInv, LockGate PROVE Good
<1>1. /\ pass.pc = "gate" /\ auth.kind = "Lock" /\ auth.stage = "ProbingAfter" /\ Guarded
      /\ Kept /\ Reads
  BY DEF LockGate, At, IInv, PcOK
<1>2. CASE Goto("probe")
  <2>1. ASSUME Same, auth' = auth, pass'.pc = "probe" PROVE PcOK'
    BY <1>1, <2>1 DEF IInv, PcOK
  <2> QED BY <1>1, <1>2, <2>1, GotoGood DEF Pc
<1>3. CASE End
  BY <1>1, <1>3, EndGood
<1> QED BY <1>2, <1>3 DEF LockGate

LEMMA lockServedGood == ASSUME IInv, lockServed PROVE Good
<1>1. /\ pass.pc = "probed" /\ auth.kind = "Lock" /\ Guarded /\ auth' = Record("apikey")
      /\ Credits /\ pass.answer.code = "401" /\ (End \/ Goto("unmark"))
  BY DEF lockServed, At, IInv, PcOK, Persist
<1>2. pass' \in Pass /\ active' \in 0..MaxRev /\ pass'.pc \in {"idle", "unmark"}
  BY <1>1, EndTyped, GotoTyped DEF IInv, Pc, RouteWriters
<1>3. WellFormed(auth')
  BY <1>1, RecordFormed
<1>4. TypeOK' /\ credit' # "none" /\ UNCHANGED <<alive, legacy, route, policy, loosed>>
  BY <1>1, <1>2, <1>3, CreditsTyped DEF IInv
<1>5. /\ auth'.mode = "apikey" /\ auth'.kind = "" /\ auth'.stage = "" /\ auth'.target = ""
      /\ auth'.written = FALSE
  BY <1>1
<1>6. Implements
  BY <1>1, <1>4, <1>5, IsTold
<1>7. RecordOK' /\ Objects' /\ Policed'
  BY <1>1, <1>4, <1>5 DEF IInv, Standing
<1>8. AdoptOnlyFound' /\ OpenRecordUnpoliced' /\ OpenMarked' /\ PublishedProved'
  BY <1>1, <1>4, <1>5 DEF IInv, Standing
<1>9. PcOK'
  BY <1>1, <1>2, <1>4, <1>5 DEF IInv, PcOK
<1> QED BY <1>4, <1>6, <1>7, <1>8, <1>9 DEF Good, IInv, Standing

LEMMA LockUncreditedGood == ASSUME IInv, LockUncredited PROVE Good
BY EndGood DEF LockUncredited

LEMMA LockUnmarkGood == ASSUME IInv, LockUnmark PROVE Good
<1>1. pass.pc = "unmark" /\ auth.kind = "" /\ auth.mode = "apikey" /\ Guarded /\ EnsureLast
  BY DEF LockUnmark, At, IInv, PcOK
<1>2. PublishMode = "apikey"
  BY <1>1 DEF PublishMode
<1> QED BY <1>1, <1>2, EnsureLastGood

-----------------------------------------------------------------------------
(***************************************************************************)
(* A served Agent, the refused Adopt, the abandonment and the finalizer.   *)
(***************************************************************************)
LEMMA reconcileServedGood == ASSUME IInv, reconcileServed PROVE Good
<1>1. pass.pc = "step" /\ auth.kind = "" /\ auth.mode # "" /\ Reads
  BY DEF reconcileServed, At
<1>2. auth.mode \in {"none", "apikey"}
  BY <1>1 DEF IInv, TypeOK, WellFormed, Auth
<1>3. CASE Goto("sweep") /\ Kept
  <2>1. ASSUME Same, auth' = auth, pass'.pc = "sweep" PROVE PcOK'
    BY <1>1, <2>1 DEF IInv, PcOK
  <2> QED BY <1>1, <1>3, <2>1, GotoGood DEF Pc
<1>4. CASE Goto("follow") /\ Kept
  <2>1. ASSUME Same, auth' = auth, pass'.pc = "follow" PROVE PcOK'
    BY <1>1, <2>1 DEF IInv, PcOK
  <2> QED BY <1>1, <1>4, <2>1, GotoGood DEF Pc, RouteWriters
<1>5. CASE auth.mode = "apikey" /\ recreateRoute
  BY <1>1, <1>5, recreateRouteGood
<1>6. CASE auth.mode = "apikey" /\ lockMissingPolicy
  <2> DEFINE a == [Enter(auth.mode, "Lock", "ApplyingPolicies", auth.mode) EXCEPT !.written = TRUE]
  <2>1. /\ WellFormed(a) /\ a.mode = auth.mode /\ a.kind = "Lock" /\ a.target = auth.mode
        /\ a.stage = "ApplyingPolicies" /\ a.written
    BY <1>6, NatFacts DEF WellFormed, Auth, Stage, Mode
  <2>2. Advance(a, "lock")
    BY <1>6 DEF lockMissingPolicy
  <2> HIDE DEF a
  <2>3. ASSUME Same, auth' = a, pass'.pc = "lock" PROVE Standing' /\ PcOK'
    BY <1>1, <1>6, <2>1, <2>3 DEF IInv, Standing, PcOK
  <2> QED BY <1>1, <2>1, <2>2, <2>3, AdvanceGood DEF Pc, RouteWriters
<1>7. CASE auth.mode = "apikey" /\ Goto("reassert") /\ Kept
  <2>1. ASSUME Same, auth' = auth, pass'.pc = "reassert" PROVE PcOK'
    BY <1>1, <1>7, <2>1 DEF IInv, PcOK
  <2> QED BY <1>1, <1>7, <2>1, GotoGood DEF Pc
<1> QED BY <1>1, <1>2, <1>3, <1>4, <1>5, <1>6, <1>7 DEF reconcileServed

LEMMA ServedFollowsGood == ASSUME IInv, ServedFollows PROVE Good
<1>1. pass.pc = "follow" /\ auth.kind = "" /\ auth.mode # ""
  BY DEF ServedFollows, At, IInv, PcOK
<1>2. auth.mode \in {"none", "apikey"} /\ PublishMode = auth.mode
  BY <1>1 DEF IInv, TypeOK, WellFormed, Auth, PublishMode
<1>3. CASE errRouteGone /\ recreateRoute /\ Reads
  <2>1. auth.mode = "apikey"
    BY <1>2, <1>3 DEF errRouteGone
  <2> QED BY <1>1, <1>3, <2>1, recreateRouteGood
<1>4. CASE EnsureLast
  <2>1. auth.mode = "apikey" => Guarded
    BY <1>1 DEF IInv, PcOK
  <2> QED BY <1>2, <1>4, <2>1, EnsureLastGood
<1> QED BY <1>3, <1>4 DEF ServedFollows

LEMMA AdoptFollowsGood == ASSUME IInv, AdoptFollows PROVE Good
<1>1. pass.pc = "adopt" /\ auth.mode = "" /\ auth.kind # "Create" /\ legacy /\ ~OwnUID
  BY DEF AdoptFollows, At, IInv, PcOK
<1>2. CASE Goto("refuse") /\ Kept /\ Reads
  <2>1. ASSUME Same, auth' = auth, pass'.pc = "refuse" PROVE PcOK'
    BY <1>1, <2>1 DEF IInv, PcOK
  <2> QED BY <1>2, <2>1, GotoGood DEF Pc
<1>3. CASE EnsureThen("refuse")
  <2>1. ASSUME auth' = auth, pass'.pc = "refuse", UNCHANGED <<alive, legacy, policy, loosed, credit>>
        PROVE  PcOK'
    BY <1>1, <2>1 DEF IInv, PcOK
  <2> QED BY <1>1, <1>3, <2>1, EnsureThenGood DEF Pc
<1> QED BY <1>2, <1>3 DEF AdoptFollows

LEMMA refuseAdoptGood == ASSUME IInv, refuseAdopt PROVE Good
<1> DEFINE a == [Enter("", "Adopt", "Refused", "") EXCEPT !.refused = refusedMode]
<1>1. /\ pass.pc = "refuse" /\ auth.mode = "" /\ legacy /\ ~OwnUID /\ auth' = a /\ End /\ Reads
  BY DEF refuseAdopt, At, IInv, PcOK, Persist
<1>2. refusedMode \in Mode \cup {""}
  BY DEF refusedMode, IInv, TypeOK, WellFormed, Auth, Pass, Want
<1>3. /\ WellFormed(a) /\ a.mode = "" /\ a.kind = "Adopt" /\ a.stage = "Refused" /\ a.target = ""
      /\ ~a.written
  BY <1>2, NatFacts DEF WellFormed, Auth, Stage
<1> HIDE DEF a
<1>4. TypeOK' /\ Same /\ pass'.pc = "idle"
  BY <1>1, <1>3, EndTyped, ReadsTyped DEF IInv
<1>5. Implements
  BY <1>1, <1>3, <1>4, IsQuiet
<1>6. Standing' /\ PcOK'
  BY <1>1, <1>3, <1>4 DEF IInv, Standing, PcOK
<1> QED BY <1>4, <1>5, <1>6 DEF Good, IInv

LEMMA abandonGood == ASSUME IInv, abandon PROVE Good
<1>1. /\ pass.pc = "abandoned" /\ auth.kind \in Running /\ ~isReCreation /\ ~OwnUID /\ Reads
      /\ auth.kind = "Create" => ~Published(route)
  BY DEF abandon, At, IInv, PcOK
<1>2. CASE auth.kind = "Lock" /\ auth.mode = "" /\ Goto("adopt") /\ Kept
  <2>1. ASSUME Same, auth' = auth, pass'.pc = "adopt" PROVE PcOK'
    BY <1>1, <1>2, <2>1, LockIs DEF IInv, PcOK
  <2> QED BY <1>1, <1>2, <2>1, GotoGood DEF Pc, RouteWriters
<1>3. CASE auth.kind = "Lock" /\ auth.mode # "" /\ Advance(Record(auth.mode), "step")
  <2>1. auth.mode = "none"
    BY <1>1, <1>3, LockIs
  <2>2. WellFormed(Record(auth.mode)) /\ Record(auth.mode).mode = auth.mode
    BY <2>1, RecordFormed
  <2>3. ASSUME Same, auth' = Record(auth.mode), pass'.pc = "step" PROVE Standing' /\ PcOK'
    BY <1>1, <2>1, <2>3 DEF IInv, Standing, PcOK
  <2> QED BY <1>1, <1>3, <2>2, <2>3, AdvanceGood DEF Pc
<1>4. CASE auth.kind = "Create" /\ Compiles(pass.want) /\ Advance(Enters, "run")
  <2>1. pass.want.mode \in {"none", "apikey"}
    BY <1>4 DEF Compiles, IInv, TypeOK, Pass, Want, Mode
  <2> QED BY <1>1, <1>4, <2>1, EntersGood
<1>5. CASE auth.kind = "Create" /\ Advance(NoAuth, "sweep")
  <2>1. auth.mode = ""
    BY <1>1, <1>5
  <2>2. WellFormed(NoAuth) /\ NoAuth.mode = auth.mode
    BY <2>1, RecordFormed
  <2>3. ASSUME Same, auth' = NoAuth, pass'.pc = "sweep" PROVE Standing' /\ PcOK'
    BY <1>1, <1>5, <2>1, <2>3 DEF IInv, Standing, PcOK
  <2> QED BY <1>1, <1>5, <2>2, <2>3, AdvanceGood DEF Pc
<1> QED BY <1>1, <1>2, <1>3, <1>4, <1>5 DEF abandon

LEMMA finalizeGood == ASSUME IInv, finalize PROVE Good
<1>1. alive = "deleting" /\ Kept /\ Reads
  BY DEF finalize
<1>2. pass' \in Pass /\ pass'.pc = "revoke" /\ active' \in 0..MaxRev
  BY IdleTyped DEF finalize, IInv, TypeOK, Pass, Pc
<1>3. ASSUME Same, auth' = auth PROVE PcOK'
  BY <1>1, <1>2, <1>3 DEF IInv, PcOK
<1> QED BY <1>1, <1>2, <1>3, PassGood

(* A step that leaves the record, the route, the policy and the history. *)
LEMMA AsideGood ==
  ASSUME IInv, TypeOK', UNCHANGED <<auth, route, policy, loosed, credit, legacy>>, PcOK'
  PROVE  Good
<1>1. Implements
  BY IsQuiet
<1>2. RecordOK' /\ Objects' /\ Policed'
  BY DEF IInv, Standing
<1>3. AdoptOnlyFound' /\ OpenRecordUnpoliced' /\ OpenMarked' /\ PublishedProved'
  BY DEF IInv, Standing
<1> QED BY <1>1, <1>2, <1>3 DEF Good, IInv, Standing

LEMMA ReleaseAgentGood == ASSUME IInv, ReleaseAgent PROVE Good
<1>1. /\ pass.pc = "release" /\ alive' = "gone" /\ pass' = Idle
      /\ UNCHANGED <<want, active, cards, auth, route, cached, policy, foreign, above, proxy, edits,
                     tampers, faults, legacy, loosed, credit, missed>>
  BY DEF ReleaseAgent, At, objects, counts, history
<1>2. TypeOK' /\ pass'.pc = "idle"
  BY <1>1, IdleTyped DEF IInv, TypeOK, Idle
<1>3. PcOK'
  BY <1>1, <1>2 DEF IInv, PcOK
<1> QED BY <1>1, <1>2, <1>3, AsideGood

-----------------------------------------------------------------------------
(***************************************************************************)
(* A pass that is cut short.                                               *)
(***************************************************************************)
LEMMA LoseRaceGood == ASSUME IInv, LoseRace PROVE Good
BY EndGood DEF LoseRace

LEMMA RouteGoneLastGood == ASSUME IInv, RouteGoneLast PROVE Good
BY EndGood DEF RouteGoneLast

LEMMA OvertakenGood == ASSUME IInv, Overtaken PROVE Good
<1>1. Kept /\ Reads
  BY DEF Overtaken
<1>2. pass' \in Pass /\ pass'.pc = "idle" /\ active' \in 0..MaxRev
  BY IdleTyped DEF Overtaken, IInv, TypeOK, Idle
<1>3. ASSUME Same, auth' = auth PROVE PcOK'
  BY <1>2, <1>3 DEF IInv, PcOK
<1> QED BY <1>1, <1>2, <1>3, PassGood

LEMMA FailGood == ASSUME IInv, Fail PROVE Good
<1>1. /\ pass' = Idle /\ faults' = faults + 1 /\ active' \in {active, pass.rev}
      /\ UNCHANGED <<alive, want, cards, auth, route, cached, policy, foreign, above, proxy, edits,
                     tampers, legacy, loosed, credit, missed>>
  BY DEF Fail, spec, objects, history
<1>2. active' \in 0..MaxRev /\ faults' \in Nat /\ pass' \in Pass /\ pass'.pc = "idle"
  BY <1>1, IdleTyped DEF IInv, TypeOK, Pass, Idle
<1>3. TypeOK'
  BY <1>1, <1>2 DEF IInv, TypeOK
<1>4. PcOK'
  BY <1>1, <1>2 DEF IInv, PcOK
<1> QED BY <1>1, <1>3, <1>4, AsideGood

-----------------------------------------------------------------------------
(***************************************************************************)
(* Everybody else.                                                         *)
(***************************************************************************)
LEMMA EditedGood ==
  ASSUME IInv, Edited, want' \in Want, alive' \in {"live", "deleting"}
  PROVE  Good
<1>1. /\ pass' = [pass EXCEPT !.stale = pass.pc # "idle"] /\ edits' = edits + 1
      /\ UNCHANGED <<active, cards, auth, route, cached, policy, foreign, above, proxy, tampers, faults,
                     legacy, loosed, credit, missed>>
      /\ alive = "live"
  BY DEF Edited, objects, history
<1>2. edits' \in Nat /\ pass' \in Pass /\ pass'.pc = pass.pc
  <2>1. edits' \in Nat
    BY <1>1 DEF IInv, TypeOK
  <2>2. pass' = [pass EXCEPT !.stale = TRUE] \/ pass' = [pass EXCEPT !.stale = FALSE]
    BY <1>1
  <2>3. pass' \in Pass /\ pass'.pc = pass.pc
    BY <2>2 DEF IInv, TypeOK, Pass
  <2> QED BY <2>1, <2>3
<1>3. TypeOK'
  BY <1>1, <1>2 DEF IInv, TypeOK
<1>4. PcOK'
  BY <1>1, <1>2, ZenonT(60) DEF IInv, PcOK
<1> QED BY <1>1, <1>3, <1>4, AsideGood

LEMMA EditsGood ==
  ASSUME IInv, (\E m \in Mode \ {want.mode} : EditMode(m)) \/ RemoveBudget \/ DeleteAgent PROVE Good
<1>1. want' \in Want /\ Edited
  BY DEF EditMode, RemoveBudget, DeleteAgent, IInv, TypeOK, Want
<1>2. alive' \in {"live", "deleting"}
  BY DEF EditMode, RemoveBudget, DeleteAgent, Edited
<1> QED BY <1>1, <1>2, EditedGood

LEMMA CardsGood == ASSUME IInv, NEW r \in Rev, CardRecorded(r) \/ CardLost(r) PROVE Good
<1>1. /\ cards' \subseteq Rev /\ tampers' \in Nat
      /\ UNCHANGED <<alive, want, active, auth, route, cached, policy, foreign, above, proxy, pass, edits,
                     faults, legacy, loosed, credit, missed>>
  BY DEF CardRecorded, CardLost, IInv, TypeOK, spec, objects, counts, history
<1>2. TypeOK'
  BY <1>1, ZenonT(60) DEF IInv, TypeOK
<1>3. PcOK'
  BY <1>1, ZenonT(60) DEF IInv, PcOK
<1> QED BY <1>1, <1>2, <1>3, AsideGood

LEMMA SyncCacheGood == ASSUME IInv, SyncCache PROVE Good
<1>1. /\ cached' = route
      /\ UNCHANGED <<alive, want, active, cards, auth, route, policy, foreign, above, proxy, pass, edits,
                     tampers, faults, legacy, loosed, credit, missed>>
  BY DEF SyncCache, Unmoved, spec
<1>2. TypeOK'
  BY <1>1, ZenonT(60) DEF IInv, TypeOK
<1>3. PcOK'
  BY <1>1, ZenonT(60) DEF IInv, PcOK
<1> QED BY <1>1, <1>2, <1>3, AsideGood

LEMMA ProxySyncsGood == ASSUME IInv, ProxySyncs PROVE Good
<1>1. /\ proxy' = ProxyView
      /\ UNCHANGED <<alive, want, active, cards, auth, route, policy, foreign, above, cached, pass, edits,
                     tampers, faults, legacy, loosed, credit, missed>>
  BY DEF ProxySyncs, Unmoved, spec
<1>2. ProxyView \in [there : BOOLEAN, backend : 0..MaxRev, auth : BOOLEAN]
  BY DEF ProxyView, IInv, TypeOK, Route
<1>3. TypeOK'
  BY <1>1, <1>2, ZenonT(60) DEF IInv, TypeOK
<1>4. PcOK'
  BY <1>1, ZenonT(60) DEF IInv, PcOK
<1> QED BY <1>1, <1>3, <1>4, AsideGood

LEMMA PcStands ==
  ASSUME PcOK, UNCHANGED <<alive, legacy, policy, loosed, auth, pass>>,
         ~Published(route') \/ route'.backend = route.backend
  PROVE  PcOK'
<1>1. PcRecord'
  BY DEF PcOK
<1>2. PcObjects'
  BY DEF PcOK
<1>3. Locked'
  BY DEF PcOK
<1> QED BY <1>1, <1>2, <1>3 DEF PcOK

(* Somebody's change of the route leaves its backends, or takes them away. *)
LEMMA RouteTouchedGood ==
  ASSUME IInv, route' \in Route, tampers' \in Nat, Unmoved,
         UNCHANGED <<cached, policy, foreign, above, proxy, pass, loosed>>,
         \/ ~Published(route')
         \/ route'.at # "absent" /\ route'.backend = route.backend /\ route'.marker = route.marker
  PROVE  Good
<1>1. UNCHANGED <<alive, want, active, cards, auth, cached, policy, foreign, above, proxy, pass, edits,
                  faults, legacy, loosed, credit, missed>>
  BY DEF Unmoved, spec
<1>2. TypeOK'
  BY <1>1, Zenon DEF IInv, TypeOK
<1>3. Standing' /\ Implements
  BY <1>1, CutStands
<1>4. PcOK'
  <2>1. ~Published(route') \/ route'.backend = route.backend
    OBVIOUS
  <2> QED BY <1>1, <2>1, PcStands DEF IInv
<1> QED BY <1>2, <1>3, <1>4 DEF Good, IInv

LEMMA RouteReportedGood == ASSUME IInv, RouteReported PROVE Good
<1>1. /\ route' \in Route /\ route'.at # "absent" /\ route'.backend = route.backend
      /\ route'.marker = route.marker
  BY DEF RouteReported, IInv, TypeOK, Route
<1>2. tampers' \in Nat
  BY DEF RouteReported, IInv, TypeOK
<1> QED BY <1>1, <1>2, RouteTouchedGood DEF RouteReported

LEMMA TamperRouteGood == ASSUME IInv, TamperRoute PROVE Good
<1>1. /\ tampers' \in Nat /\ Unmoved
      /\ UNCHANGED <<cached, policy, foreign, above, proxy, pass, loosed>>
  BY DEF TamperRoute, Tampers, IInv, TypeOK
<1>2. CASE DeleteRoute
  BY <1>1, <1>2, DeleteRouteIs, NoRouteIs, RouteTouchedGood DEF IInv
<1>3. CASE route' = [route EXCEPT !.backend = 0, !.reported = FALSE]
  <2>1. route' \in Route /\ ~Published(route')
    BY <1>3, NatFacts DEF IInv, TypeOK, Route
  <2> QED BY <1>1, <2>1, RouteTouchedGood
<1> QED BY <1>2, <1>3 DEF TamperRoute

(* Somebody's change of a policy leaves the Agent's own as it is, or counts *)
(* as a loss; it never makes one of this Agent's.                           *)
LEMMA PolicyTouchedGood ==
  ASSUME IInv, policy' \in Policy, loosed' \in BOOLEAN, foreign' \in BOOLEAN, above' \in BOOLEAN,
         tampers' \in Nat, pass' \in Pass, pass'.pc = pass.pc, Unmoved,
         UNCHANGED <<route, cached, proxy>>, OwnUID' => OwnUID,
         loosed' \/ (Intact' = Intact /\ loosed' = loosed)
  PROVE  Good
<1>1. UNCHANGED <<alive, want, active, cards, auth, route, cached, proxy, edits, faults, legacy, credit,
                  missed>>
  BY DEF Unmoved, spec
<1>2. TypeOK'
  BY <1>1, Zenon DEF IInv, TypeOK
<1>3. Implements
  <2>1. CASE loosed'
    BY <1>1, <2>1, IsLose
  <2>2. CASE Intact' = Intact /\ loosed' = loosed
    BY <1>1, <2>2 DEF Implements, Exposure!vars
  <2> QED BY <2>1, <2>2
<1>4. Guarded => Guarded'
  OBVIOUS
<1>5. RecordOK' /\ Objects'
  BY <1>1 DEF IInv, Standing
<1>6. Policed'
  BY <1>1 DEF IInv, Standing
<1>7. AdoptOnlyFound' /\ OpenRecordUnpoliced' /\ OpenMarked' /\ PublishedProved'
  BY <1>1 DEF IInv, Standing
<1>8. PcRecord'
  BY <1>1 DEF IInv, PcOK
<1>9. PcObjects'
  BY <1>1, <1>4 DEF IInv, PcOK
<1>10. Locked'
  BY <1>1, <1>4 DEF IInv, PcOK
<1> QED BY <1>2, <1>3, <1>5, <1>6, <1>7, <1>8, <1>9, <1>10 DEF Good, IInv, Standing, PcOK

LEMMA NoPolicyIs == NoPolicy \in Policy /\ NoPolicy.at = "absent"
BY IdleTyped DEF NoPolicy

LEMMA PolicyReportedGood == ASSUME IInv, PolicyReported PROVE Good
<1>1. /\ policy' \in Policy /\ policy'.at = policy.at /\ policy'.body = policy.body
  BY DEF PolicyReported, IInv, TypeOK, Policy
<1>2. /\ Unmoved /\ UNCHANGED <<route, cached, foreign, above, proxy, pass, tampers, loosed>>
  BY DEF PolicyReported
<1>3. /\ loosed' \in BOOLEAN /\ foreign' \in BOOLEAN /\ above' \in BOOLEAN /\ tampers' \in Nat
      /\ pass' \in Pass /\ pass'.pc = pass.pc
  BY <1>2 DEF IInv, TypeOK
<1> QED BY <1>1, <1>2, <1>3, PolicyTouchedGood

LEMMA FinalizerReleasedGood == ASSUME IInv, FinalizerReleased PROVE Good
<1>1. Unmoved /\ UNCHANGED <<cached, foreign, above, proxy, pass, tampers>>
  BY DEF FinalizerReleased
<1>2. /\ foreign' \in BOOLEAN /\ above' \in BOOLEAN /\ tampers' \in Nat
      /\ pass' \in Pass /\ pass'.pc = pass.pc
  BY <1>1 DEF IInv, TypeOK
<1>3. CASE route' = NoRoute /\ UNCHANGED <<policy, loosed>>
  BY <1>1, <1>2, <1>3, IdleTyped, NoRouteIs, RouteTouchedGood
<1>4. CASE policy' = NoPolicy /\ loosed' = TRUE /\ UNCHANGED route
  BY <1>1, <1>2, <1>4, NoPolicyIs, PolicyTouchedGood
<1> QED BY <1>3, <1>4 DEF FinalizerReleased

LEMMA ClearedGood == ASSUME IInv, Cleared PROVE Good
<1>1. /\ Unmoved /\ UNCHANGED <<route, cached, proxy, tampers, loosed>>
      /\ tampers' \in Nat /\ loosed' \in BOOLEAN
  BY DEF Cleared, IInv, TypeOK
<1>2. CASE ForeignAtOwnName /\ policy' = NoPolicy /\ UNCHANGED <<foreign, above, pass>>
  <2>1. foreign' \in BOOLEAN /\ above' \in BOOLEAN /\ pass' \in Pass /\ pass'.pc = pass.pc
    BY <1>2 DEF IInv, TypeOK
  <2>2. Intact' = Intact /\ ~OwnUID'
    BY <1>2, NoPolicyIs DEF ForeignAtOwnName
  <2> QED BY <1>1, <1>2, <2>1, <2>2, NoPolicyIs, PolicyTouchedGood
<1>3. CASE policy' = [policy EXCEPT !.nacked = FALSE] /\ UNCHANGED <<foreign, above, pass>>
  <2>1. foreign' \in BOOLEAN /\ above' \in BOOLEAN /\ pass' \in Pass /\ pass'.pc = pass.pc
    BY <1>3 DEF IInv, TypeOK
  <2>2. policy' \in Policy /\ Intact' = Intact /\ OwnUID' = OwnUID
    BY <1>3 DEF IInv, TypeOK, Policy
  <2> QED BY <1>1, <2>1, <2>2, PolicyTouchedGood
<1>4. CASE foreign' = FALSE /\ UNCHANGED <<policy, above, pass>>
  <2>1. policy' \in Policy /\ above' \in BOOLEAN /\ pass' \in Pass /\ pass'.pc = pass.pc
    BY <1>4 DEF IInv, TypeOK
  <2> QED BY <1>1, <1>4, <2>1, PolicyTouchedGood
<1>5. CASE /\ above' = FALSE /\ UNCHANGED <<policy, foreign>>
           /\ pass' = [pass EXCEPT !.flick = pass.pc \in {"probe", "probed"}]
  <2>1. policy' \in Policy /\ foreign' \in BOOLEAN
    BY <1>5 DEF IInv, TypeOK
  <2>2. pass' = [pass EXCEPT !.flick = TRUE] \/ pass' = [pass EXCEPT !.flick = FALSE]
    <3>1. CASE pass.pc \in {"probe", "probed"}
      <4>1. (pass.pc \in {"probe", "probed"}) = TRUE
        BY <3>1
      <4> QED BY <1>5, <4>1
    <3>2. CASE pass.pc \notin {"probe", "probed"}
      <4>1. (pass.pc \in {"probe", "probed"}) = FALSE
        BY <3>2
      <4> QED BY <1>5, <4>1
    <3> QED BY <3>1, <3>2
  <2>3. pass' \in Pass /\ pass'.pc = pass.pc
    BY <2>2 DEF IInv, TypeOK, Pass
  <2> QED BY <1>1, <1>5, <2>1, <2>3, PolicyTouchedGood
<1> QED BY <1>2, <1>3, <1>4, <1>5 DEF Cleared

LEMMA TampersTyped ==
  ASSUME IInv, Tampers
  PROVE  Unmoved /\ UNCHANGED <<cached, proxy, pass>> /\ tampers' \in Nat /\ pass' \in Pass /\ pass'.pc = pass.pc
<1>1. tampers' \in Nat
  BY DEF Tampers, IInv, TypeOK
<1> QED BY <1>1 DEF Tampers, IInv, TypeOK

LEMMA TamperPolicyGood == ASSUME IInv, TamperPolicy PROVE Good
<1>1. /\ Unmoved /\ UNCHANGED <<cached, proxy, pass, route, foreign, above>> /\ loosed' = TRUE /\ OwnUID
      /\ tampers' \in Nat /\ pass' \in Pass /\ pass'.pc = pass.pc
  BY TampersTyped DEF TamperPolicy
<1>2. policy' \in Policy /\ foreign' \in BOOLEAN /\ above' \in BOOLEAN
  <2>1. policy \in Policy /\ foreign \in BOOLEAN /\ above \in BOOLEAN
    BY DEF IInv, TypeOK
  <2>2. \/ policy' = NoPolicy \/ policy' = [policy EXCEPT !.at = "held"]
        \/ policy' = [policy EXCEPT !.body = "drift", !.reported = FALSE]
    BY DEF TamperPolicy, DeletePolicy, Deleted
  <2> QED BY <1>1, <2>1, <2>2, NoPolicyIs DEF Policy, Presence
<1> QED BY <1>1, <1>2, PolicyTouchedGood

LEMMA TamperGatewayGood == ASSUME IInv, TamperGateway PROVE Good
<1>1. /\ Unmoved /\ UNCHANGED <<cached, proxy, pass, route, loosed>> /\ loosed' \in BOOLEAN
      /\ tampers' \in Nat /\ pass' \in Pass /\ pass'.pc = pass.pc
  BY TampersTyped DEF TamperGateway, IInv, TypeOK
<1>2. foreign' \in BOOLEAN /\ above' \in BOOLEAN
  BY DEF TamperGateway, IInv, TypeOK
<1>3. policy' \in Policy /\ Intact' = Intact /\ OwnUID' = OwnUID
  <2>1. policy \in Policy
    BY DEF IInv, TypeOK
  <2>2. CASE policy' = policy
    BY <2>1, <2>2
  <2>3. CASE ~Present /\ policy' = [NoPolicy EXCEPT !.at = "there", !.body = "foreign"]
    BY <2>3 DEF NoPolicy, Policy, Presence
  <2>4. CASE policy' = [policy EXCEPT !.nacked = TRUE]
    BY <2>1, <2>4 DEF Policy
  <2> QED BY <2>2, <2>3, <2>4 DEF TamperGateway
<1> QED BY <1>1, <1>2, <1>3, PolicyTouchedGood

-----------------------------------------------------------------------------
(***************************************************************************)
(* The specification.                                                      *)
(***************************************************************************)
LEMMA InitGood == ASSUME Init PROVE IInv /\ Exposure!Init
<1>1. /\ auth.mode = "" /\ auth.kind = "" /\ auth.stage = "" /\ auth.target = "" /\ ~auth.written
      /\ auth = Record("") /\ policy = NoPolicy /\ pass = Idle /\ legacy \in BOOLEAN
      /\ ~loosed /\ credit = "none" /\ alive = "live"
  BY ConstantsAssumption DEF Init
<1>2. active \in 0..MaxRev /\ (legacy => active = 1) /\ (~legacy => active = 0)
  <2>1. active = IF legacy THEN 1 ELSE 0
    BY DEF Init
  <2>2. MaxRev \in Nat /\ MaxRev # 0
    BY ConstantsAssumption
  <2> QED BY <2>1, <2>2
<1>3. /\ route \in Route /\ route.backend = active /\ ~route.marker
      /\ route.at = (IF legacy THEN "there" ELSE "absent")
  BY <1>1, <1>2 DEF Init, NoRoute, Route, Presence
<1>4. TypeOK
  <2>1. want \in Want
    BY ConstantsAssumption DEF Init, Want
  <2>2. WellFormed(auth) /\ pass \in Pass /\ policy \in Policy
    BY <1>1, RecordFormed, IdleTyped
  <2>3. proxy \in [there : BOOLEAN, backend : 0..MaxRev, auth : BOOLEAN]
    BY <1>1, <1>2 DEF Init
  <2> QED BY <1>1, <1>2, <1>3, <2>1, <2>2, <2>3 DEF Init, TypeOK
<1>5. pass.pc = "idle" /\ policy.at = "absent"
  BY <1>1 DEF Idle, NoPolicy
<1>6. Standing
  BY <1>1, <1>2, <1>3, <1>5 DEF Standing
<1>7. PcOK
  BY <1>1, <1>5 DEF PcOK
<1>8. Exposure!Init
  <2>1. /\ legacy => route.backend # 0
        /\ ~legacy => route.backend = 0
    BY <1>2, <1>3
  <2> QED BY <1>1, <1>3, <1>5, <2>1 DEF Exposure!Init
<1> QED BY <1>4, <1>6, <1>7, <1>8 DEF IInv

LEMMA NextGood == ASSUME IInv, [Next]_vars PROVE Good
<1>1. CASE DecideStep
  BY <1>1, StepAdoptGood, StepFoundGood, StepCreateGood, StepAbandonGood, StepResumeGood, enterLockGood,
     collectRoutesGood, reconcileServedGood, reassertServedPolicyGood, ServedFollowsGood,
     AdoptFollowsGood, refuseAdoptGood DEF DecideStep
<1>2. CASE CreateStep
  BY <1>2, CreateBeginGood, PreparingRouteGood, CreatePreparedGood, CreateHoldsGood, CreateCreditGood,
     PublishingCheckGood, PublishingGood, recordServedGood DEF CreateStep
<1>3. CASE SharedStep
  BY <1>3, ApplyingPoliciesGood, PoliciesAppliedGood, LookAgainGood, freshNackGood, ConvergingGood,
     ReadGatewayGood, probeAgentGood DEF SharedStep
<1>4. CASE LockStep
  BY <1>4, LockRouteGood, LockPromotedGood, ProbingBeforeGood, LockLookGood, LockRepointGood,
     LockGateGood, lockServedGood, LockUncreditedGood, LockUnmarkGood DEF LockStep
<1>5. CASE AbandonStep
  BY <1>5, AbandonStripGood, AbandonRouteGood, AbandonPolicyGood, abandonGood DEF AbandonStep
<1>6. CASE FinalStep
  BY <1>6, finalizeGood, revokeGatewayGood, RevokePolicyGood, ReleaseAgentGood DEF FinalStep
<1>7. CASE CutStep
  BY <1>7, LoseRaceGood, RouteGoneLastGood, OvertakenGood DEF CutStep
<1>8. CASE System
  BY <1>8, SyncCacheGood, RouteReportedGood, PolicyReportedGood, ProxySyncsGood, FinalizerReleasedGood,
     ClearedGood DEF System
<1>9. CASE Users
  BY <1>9, EditsGood, TamperRouteGood, TamperPolicyGood, TamperGatewayGood, CardsGood DEF Users
<1>10. CASE UNCHANGED vars
  <2>1. UNCHANGED <<alive, want, active, cards, auth, route, cached, policy, foreign, above, proxy, pass,
                    edits, tampers, faults, legacy, loosed, credit, missed>>
    BY <1>10 DEF vars, spec, objects, counts, history
  <2>2. TypeOK'
    BY <2>1, ZenonT(60) DEF IInv, TypeOK
  <2>3. PcOK'
    BY <2>1, ZenonT(60) DEF IInv, PcOK
  <2> QED BY <2>1, <2>2, <2>3, AsideGood
<1> QED BY <1>1, <1>2, <1>3, <1>4, <1>5, <1>6, <1>7, <1>8, <1>9, <1>10, gatewayStepGood, FailGood
        DEF Next, Worker

(* The inductive invariant holds for ever. *)
LEMMA Invariance == Spec => []IInv
<1>1. Init => IInv
  BY InitGood
<1>2. IInv /\ [Next]_vars => IInv'
  BY NextGood DEF Good
<1> QED BY <1>1, <1>2, PTL DEF Spec

(* Every variable keeps its type and the recorded transaction is one that   *)
(* runCreate or runLock can go on with.                                     *)
THEOREM AuthTypes == Spec => []TypeOK
<1>1. IInv => TypeOK
  BY DEF IInv
<1> QED BY <1>1, Invariance, PTL

(* No pass, crash, edit or race publishes an API-key route bare: it has its *)
(* policy beside it unless others took it (runCreate, runLock, abandon).    *)
THEOREM AuthPoliced == Spec => []Policed
<1>1. IInv => Policed
  BY DEF IInv, Standing
<1> QED BY <1>1, Invariance, PTL

(* The operator never adopts a route it published itself (authStep).        *)
THEOREM AuthAdopts == Spec => []AdoptOnlyFound
<1>1. IInv => AdoptOnlyFound
  BY DEF IInv, Standing
<1> QED BY <1>1, Invariance, PTL

(* A record that names no policy means this Agent has none: every stage is  *)
(* recorded before its write and unrecorded after its delete (abandon).     *)
THEOREM AuthRecordsFirst == Spec => []OpenRecordUnpoliced
<1>1. IInv => OpenRecordUnpoliced
  BY DEF IInv, Standing
<1> QED BY <1>1, Invariance, PTL

(* A route the operator opened with no policy says so (routePublicationFor). *)
THEOREM AuthMarks == Spec => []OpenMarked
<1>1. IInv => OpenMarked
  BY DEF IInv, Standing
<1> QED BY <1>1, Invariance, PTL

(* A Create of an API-key route publishes only after a credited 401.        *)
THEOREM AuthProves == Spec => []PublishedProved
<1>1. IInv => PublishedProved
  BY DEF IInv, Standing
<1> QED BY <1>1, Invariance, PTL

(* The transactions implement the abstract specification of a published     *)
(* Agent, whatever the stage, cut or race.                                  *)
THEOREM AuthImplements == Spec => ImplementsPublication
<1>1. Init => Exposure!Init
  BY InitGood
<1>2. IInv /\ [Next]_vars => [Exposure!Next]_Exposure!vars
  BY NextGood DEF Good, Implements
<1> QED BY <1>1, <1>2, Invariance, PTL DEF Spec, ImplementsPublication, Exposure!Spec

(* No step records a locked Agent as open (A67: authStep, abandon).         *)
THEOREM AuthOneWay == Spec => OneWay
<1>1. ASSUME Implements, auth.mode = "apikey" PROVE auth'.mode = "apikey"
  BY <1>1 DEF Implements, Exposure!Next, Exposure!vars, Exposure!Shut, Exposure!Open, Exposure!Key,
    Exposure!Post, Exposure!Withdraw, Exposure!Lose, Exposure!Prove, Exposure!Tell
<1>2. IInv /\ [Next]_vars => [auth.mode = "apikey" => auth'.mode = "apikey"]_vars
  BY <1>1, NextGood DEF Good
<1> QED BY <1>2, Invariance, PTL DEF Spec, OneWay
-----------------------------------------------------------------------------
(***************************************************************************)
(* The finalizer.  Only RevokePolicy leads to the release, and once there  *)
(* nobody makes a route or a policy of this Agent again: the worker is in  *)
(* the finalizer, and others delete.                                       *)
(***************************************************************************)
Released ==
  /\ alive = "gone" => pass.pc = "idle"
  /\ pass.pc = "release" \/ alive = "gone" => route.at = "absent" /\ ~OwnUID

(* A step of a pass that neither is at the release nor leads there. *)
Onward == pass.pc # "idle" /\ alive' = alive /\ pass'.pc # "release"

LEMMA OnwardKept == ASSUME Released, Onward PROVE Released'
BY DEF Released, Onward

LEMMA PcIs == {"refuse", "prepared", "look", "published", "clear", "gate"} \subseteq Pc
BY DEF Pc

USE DEF At, Goto, End, Idle, Advance, Persist, Restage, recreateRoute, Env, Rest, Reads, spec

LEMMA DecideOnward == ASSUME TypeOK, DecideStep PROVE Onward
<1>0. pass \in Pass
  BY DEF TypeOK
<1> USE <1>0 DEF Onward, Pass
<1>1. CASE StepAdopt \/ StepFound \/ StepCreate \/ StepAbandon \/ StepResume \/ enterLock
  BY <1>1 DEF StepAdopt, StepFound, StepCreate, StepAbandon, StepResume, enterLock
<1>2. CASE collectRoutes \/ reassertServedPolicy
  BY <1>2 DEF collectRoutes, reassertServedPolicy
<1>3. CASE reconcileServed
  BY <1>3 DEF reconcileServed, lockMissingPolicy
<1>4. CASE ServedFollows
  BY <1>4, EnsuredLast DEF ServedFollows
<1>5. CASE AdoptFollows
  BY <1>5, PcIs, EnsuredThen DEF AdoptFollows
<1>6. CASE refuseAdopt
  BY <1>6 DEF refuseAdopt
<1> QED BY <1>1, <1>2, <1>3, <1>4, <1>5, <1>6 DEF DecideStep

LEMMA CreateOnward == ASSUME TypeOK, CreateStep PROVE Onward
<1>0. pass \in Pass
  BY DEF TypeOK
<1> USE <1>0 DEF Onward, Pass, Create
<1>1. CASE CreateBegin \/ CreatePrepared
  BY <1>1 DEF CreateBegin, CreatePrepared
<1>4. CASE PreparingRoute \/ CreateHolds
  BY <1>4, PcIs, EnsuredThen DEF PreparingRoute, CreateHolds
<1>2. CASE CreateCredit \/ PublishingCheck
  BY <1>2 DEF CreateCredit, PublishingCheck, Credits
<1>3. CASE Publishing
  BY <1>3, PcIs, EnsuredThen DEF Publishing
<1>5. CASE recordServed
  BY <1>5 DEF recordServed
<1> QED BY <1>1, <1>2, <1>3, <1>4, <1>5 DEF CreateStep

LEMMA SharedOnward == ASSUME TypeOK, SharedStep PROVE Onward
<1>0. pass \in Pass
  BY DEF TypeOK
<1> USE <1>0 DEF Onward, Pass
<1>1. CASE ApplyingPolicies \/ PoliciesApplied \/ LookAgain
  BY <1>1 DEF ApplyingPolicies, PoliciesApplied, LookAgain
<1>2. CASE freshNack \/ Converging
  BY <1>2 DEF freshNack, Converging
<1>3. CASE ReadGateway
  <2>1. pass.pc = "look" /\ alive' = alive
    BY <1>3 DEF ReadGateway
  <2>2. CASE End
    BY <2>1, <2>2
  <2>3. CASE pass' = [pass EXCEPT !.held = above, !.flick = FALSE,
                                  !.pc = IF auth.kind = "Create" THEN "probe"
                                         ELSE IF isReCreation /\ cardedRevision(pass.rev)
                                              THEN "repoint" ELSE "gate"]
    <3>1. pass'.pc \in {"probe", "repoint", "gate"}
      BY <2>3 DEF Pc
    <3> QED BY <2>1, <3>1
  <2> QED BY <1>3, <2>2, <2>3 DEF ReadGateway
<1>4. CASE probeAgent
  BY <1>4 DEF probeAgent
<1> QED BY <1>1, <1>2, <1>3, <1>4 DEF SharedStep

LEMMA LockOnward == ASSUME TypeOK, LockStep PROVE Onward
<1>0. pass \in Pass
  BY DEF TypeOK
<1> USE <1>0 DEF Onward, Pass
<1>1. CASE LockRoute
  <2>1. pass.pc = "lock"
    BY <1>1 DEF LockRoute
  <2>2. CASE recreateRoute /\ Reads
    BY <2>1, <2>2
  <2>3. CASE pass' = [pass EXCEPT !.pc = "clear", !.rt = Seen] /\ Reads
    BY <2>1, <2>3
  <2>4. CASE EnsureThen("clear")
    BY <2>1, <2>4, PcIs, EnsuredThen
  <2>5. CASE End /\ Reads
    BY <2>1, <2>5
  <2> QED BY <1>1, <2>2, <2>3, <2>4, <2>5 DEF LockRoute
<1>2. CASE LockPromoted
  BY <1>2 DEF LockPromoted
<1>3. CASE ProbingBefore
  BY <1>3 DEF ProbingBefore
<1>4. CASE LockLook \/ LockGate
  BY <1>4 DEF LockLook, LockGate
<1>5. CASE LockRepoint
  BY <1>5, PcIs, EnsuredThen DEF LockRepoint
<1>6. CASE lockServed \/ LockUncredited
  <2>1. pass.pc = "probed" /\ alive' = alive /\ (End \/ Goto("unmark"))
    BY <1>6 DEF lockServed, LockUncredited, Credits
  <2> QED BY <2>1
<1>7. CASE LockUnmark
  BY <1>7, EnsuredLast DEF LockUnmark
<1> QED BY <1>1, <1>2, <1>3, <1>4, <1>5, <1>6, <1>7 DEF LockStep

LEMMA AbandonOnward == ASSUME TypeOK, AbandonStep PROVE Onward
<1>0. pass \in Pass
  BY DEF TypeOK
<1> USE <1>0 DEF Onward, Pass
<1>1. CASE AbandonStrip
  BY <1>1 DEF AbandonStrip
<1>3. CASE AbandonRoute
  BY <1>3 DEF AbandonRoute
<1>2. CASE AbandonPolicy
  <2>1. pass.pc = "unpolicy" /\ alive' = alive /\ (End \/ Goto("abandoned"))
    BY <1>2 DEF AbandonPolicy
  <2> QED BY <2>1
<1>4. CASE abandon
  BY <1>4 DEF abandon
<1> QED BY <1>1, <1>2, <1>3, <1>4 DEF AbandonStep

LEMMA CutReleased == ASSUME Released, pass \in Pass, CutStep \/ Fail PROVE Released'
<1>1. CASE LoseRace \/ RouteGoneLast
  BY <1>1, OnwardKept DEF LoseRace, RouteGoneLast, Onward, Pass, RouteWriters
<1>2. CASE Overtaken \/ Fail
  BY <1>2 DEF Overtaken, Fail, Released, objects
<1> QED BY <1>1, <1>2 DEF CutStep

(* A pass begins on an Agent that is there, and RevokePolicy goes to the     *)
(* release only with the route gone and no policy of this Agent left.        *)
LEMMA FinalReleased == ASSUME Released, IInv, FinalStep \/ gatewayStep PROVE Released'
<1> USE DEF Released
<1>1. CASE finalize \/ gatewayStep
  BY <1>1 DEF finalize, gatewayStep
<1>2. CASE revokeGateway
  BY <1>2 DEF revokeGateway, IInv, TypeOK, Pass
<1>3. CASE RevokePolicy
  <2>1. pass.pc = "detach" /\ alive' = alive /\ alive # "gone"
    BY <1>3 DEF RevokePolicy
  <2>2. CASE pass'.pc = "idle"
    BY <2>1, <2>2
  <2>3. CASE route.at = "absent" /\ deleteAuthPolicy /\ ~PolicyWaiting
    BY <2>1, <2>3 DEF deleteAuthPolicy, PolicyWaiting
  <2> QED BY <1>3, <2>2, <2>3 DEF RevokePolicy
<1>4. CASE ReleaseAgent
  BY <1>4 DEF ReleaseAgent, objects
<1> QED BY <1>1, <1>2, <1>3, <1>4 DEF FinalStep

(* Nobody else makes a route, or a policy that carries this Agent's UID. *)
LEMMA OthersReleased == ASSUME Released, IInv, System \/ Users PROVE Released'
<1> USE DEF Released, Unmoved
<1>1. CASE SyncCache \/ RouteReported \/ ProxySyncs
  BY <1>1 DEF SyncCache, RouteReported, ProxySyncs
<1>2. CASE PolicyReported \/ FinalizerReleased
  BY <1>2 DEF PolicyReported, FinalizerReleased, NoRoute, NoPolicy, IInv, TypeOK, Policy
<1>3. CASE Cleared
  <2>1. pass'.pc = pass.pc
    BY <1>3 DEF Cleared, IInv, TypeOK, Pass
  <2>2. route' = route /\ alive' = alive /\ (OwnUID' => OwnUID)
    BY <1>3 DEF Cleared, NoPolicy, IInv, TypeOK, Policy
  <2> QED BY <2>1, <2>2
<1>4. CASE TamperRoute
  <2>1. UNCHANGED <<alive, pass, policy>> /\ (route.at = "absent" => route'.at = "absent")
    BY <1>4 DEF TamperRoute, Tampers, DeleteRoute, Deleted, IInv, TypeOK, Route
  <2> QED BY <2>1
<1>8. CASE TamperPolicy
  <2>1. UNCHANGED <<alive, pass>> /\ OwnUID
    BY <1>8 DEF TamperPolicy, Tampers
  <2> QED BY <2>1
<1>5. CASE TamperGateway
  BY <1>5 DEF TamperGateway, Tampers, NoPolicy, IInv, TypeOK, Policy
<1>6. CASE Users /\ Edited
  <2>1. alive = "live" /\ alive' # "gone" /\ pass'.pc = pass.pc /\ UNCHANGED <<route, policy>>
    BY <1>6 DEF Users, Edited, EditMode, RemoveBudget, DeleteAgent, objects, IInv, TypeOK, Pass,
      TamperRoute, TamperPolicy, TamperGateway, Tampers, CardRecorded, CardLost
  <2> QED BY <2>1
<1>7. ASSUME NEW r \in Rev, CardRecorded(r) \/ CardLost(r) PROVE Released'
  BY <1>7 DEF CardRecorded, CardLost, objects
<1> QED BY <1>1, <1>2, <1>3, <1>4, <1>5, <1>6, <1>7, <1>8
        DEF System, Users, EditMode, RemoveBudget, DeleteAgent

(* The Agent is released only after its route and its policy are gone,      *)
(* however often the finalizer is cut short and whoever holds a delete      *)
(* (finalize, revokeGateway).                                               *)
THEOREM AuthReleases == Spec => []ReleasedClean
<1>1. Init => Released
  <2>1. Init => alive = "live" /\ pass = Idle
    BY DEF Init
  <2>2. Idle.pc = "idle"
    OBVIOUS
  <2> QED BY <2>1, <2>2 DEF Released
<1>2. IInv /\ Released /\ [Next]_vars => Released'
  <2> SUFFICES ASSUME IInv, Released, [Next]_vars PROVE Released'
    OBVIOUS
  <2>1. TypeOK /\ pass \in Pass
    BY DEF IInv, TypeOK
  <2>2. CASE UNCHANGED vars
    BY <2>2 DEF vars, objects, Released
  <2>3. CASE DecideStep \/ CreateStep \/ SharedStep \/ LockStep \/ AbandonStep
    <3>1. Onward
      BY <2>1, <2>3, DecideOnward, CreateOnward, SharedOnward, LockOnward, AbandonOnward
    <3> QED BY <3>1, OnwardKept
  <2>4. CASE CutStep \/ Fail
    BY <2>1, <2>4, CutReleased
  <2>5. CASE FinalStep \/ gatewayStep
    BY <2>5, FinalReleased
  <2>6. CASE System \/ Users
    BY <2>6, OthersReleased
  <2> QED BY <2>2, <2>3, <2>4, <2>5, <2>6 DEF Next, Worker
<1>3. Released => ReleasedClean
  BY DEF Released, ReleasedClean
<1> QED BY <1>1, <1>2, <1>3, Invariance, PTL DEF Spec
=============================================================================
