-------------------------- MODULE RevisionsProofs ---------------------------
(***************************************************************************)
(* What Revisions keeps, for every set of digests and names, any history   *)
(* limit and any number of edits, tamperings and faults.                   *)
(*                                                                         *)
(* No theorem has a hypothesis: the caches may lag, and what goes wrong    *)
(* then is named in the properties by the history variables.               *)
(***************************************************************************)
EXTENDS Revisions, TLAPS

-----------------------------------------------------------------------------
(***************************************************************************)
(* The inductive invariants.                                               *)
(***************************************************************************)
(* The revision an Agent asks for. *)
TargetOf(a) == IF a.pin = None THEN a.want ELSE a.pin

(* No Service stands and none is on record with a UID that was not given. *)
Issued ==
  /\ \A n \in Name : svc[n].uid <= uids
  /\ \A d \in Digest : /\ agent.record[d] <= uids /\ seen.record[d] <= uids
                       /\ pass.ag.record[d] <= uids /\ pass.base.record[d] <= uids
  /\ pass.pc = "record" => pass.ag.record[pass.rev] # 0

Busy == pass.pc # "idle"
(* The pass has not decided yet, or only reports. *)
Early == {"material", "workload", "service", "record", "wipe", "recreate", "switch", "report"}
(* The pass has written the status and collects. *)
Collecting == pass.pc \in {"collect", "copies", "services", "prune"}

(* Between a read of the Agent and the write of its status nobody else      *)
(* writes anything but the spec, or the pass is stale.                      *)
CacheOK == Lags /\ synced => seen = agent
BaseOK == Busy /\ ~pass.stale => agent = pass.base

(* The cached Agent is behind by at most one promotion, of the revision it  *)
(* asks for itself: a pass that reads a status that was overtaken writes    *)
(* none.                                                                    *)
SeenOK == Lags => agent.active \in {seen.active, TargetOf(seen)}
ReadOK ==
  Busy /\ ~Collecting =>
    /\ pass.rev = TargetOf(pass.base)
    /\ agent.active \in {pass.base.active, pass.rev}
    /\ pass.ag.active \in {pass.base.active, pass.rev}
    /\ pass.ag.want = pass.base.want /\ pass.ag.pin = pass.base.pin
    /\ Lags /\ ~pass.stale =>
         seen.active = agent.active /\ seen.want = agent.want /\ seen.pin = agent.pin

(* A collection protects the active revision and the one it was about. *)
CollectOK ==
  /\ pass.pc = "write" \/ Collecting => pass.rev \in {pass.ag.active, pass.ag.candidate}
  /\ Collecting => agent.active \in {pass.ag.active, pass.ag.candidate} /\ pass.ag = pass.base
  /\ pass.pc = "copies" => pass.drop \cap Protected = {}
  /\ pass.pc \in {"copies", "services", "prune"} => Protected \subseteq pass.keep

StatusInv == CacheOK /\ BaseOK /\ SeenOK /\ ReadOK /\ CollectOK

(* Every UID on record, anywhere, is of a Service that the operator created *)
(* or converged.                                                            *)
Known == Created \cup adopted \cup {0}
KnownOK ==
  \A d \in Digest : /\ agent.record[d] \in Known /\ seen.record[d] \in Known
                    /\ pass.ag.record[d] \in Known /\ pass.base.record[d] \in Known
WipeOK == pass.pc = "wipe" => pass.ag.record[pass.rev] # 0

(* A created Service that stands is on record, and in the status that a     *)
(* pass will write over it.                                                 *)
Stands(m) == m.uid \notin lost /\ svc[NameOf[m.for]].uid = m.uid
OnRecord ==
  \A m \in made : Stands(m) /\ ~(pass.pc = "record" /\ pass.rev = m.for) =>
    agent.record[m.for] = m.uid /\ (Busy /\ ~pass.stale => pass.ag.record[m.for] = m.uid)
OthersKept ==
  Busy /\ ~pass.stale => \A d \in Digest \ {pass.rev} : pass.ag.record[d] = pass.base.record[d]
RecordsNew ==
  pass.pc = "record" => svc[At].uid = pass.ag.record[pass.rev] \/ svc[At].uid \notin Created

RecordInv == KnownOK /\ WipeOK /\ OnRecord /\ OthersKept /\ RecordsNew

(* A workload that nobody touched is of the digest it is stamped with; it   *)
(* has its copy, unless it was swept unseen; what nobody touched is whole.  *)
Stamped(n) == fleet.at[n].there =>
  fleet.at[n].own /\ fleet.at[n].stamp = fleet.at[n].runs /\ fleet.at[n].runs # None
Copied(n) == n \notin unlisted /\ fleet.at[n].there => mat[n].holds = Content[fleet.at[n].runs]
Intact(n) == (mat[n].holds # None => mat[n].frozen) /\ svc[n].shape # "headless"
UntouchedOK == \A n \in Name \ touched : Stamped(n) /\ Copied(n) /\ Intact(n)

(* However old the cache: if it shows a workload, and one stands there, the *)
(* two are of one digest.  A workload is created only where the cache shows *)
(* none, and never changes its digest.                                      *)
CachedOK ==
  Lags => \A n \in Name \ touched : listed.at[n].there /\ fleet.at[n].there =>
    listed.at[n].stamp = fleet.at[n].stamp /\ listed.at[n].runs = fleet.at[n].runs

(* The pass has made the copy, and then the workload, of its revision; what *)
(* it read as active does not share its name.                               *)
MadeOK ==
  /\ pass.pc \in {"workload", "service"} /\ At \notin touched => mat[At].holds = Content[pass.rev]
  /\ pass.pc = "service" /\ At \notin touched /\ fleet.at[At].there => fleet.at[At].stamp = pass.rev
  /\ pass.pc \in Early \cup {"write"} /\ pass.base.active # None /\ NameOf[pass.base.active] = At =>
       pass.base.active = pass.rev

(* The active revision, and the one that a pass is about to make active. *)
Runs(d) == d # None /\ NameOf[d] \notin touched =>
  /\ fleet.at[NameOf[d]].there => fleet.at[NameOf[d]].stamp = d
  /\ fleet.at[NameOf[d]].there \/ NameOf[d] \in ghosts
RunsOK ==
  /\ Runs(agent.active)
  /\ pass.pc \in Early \cup {"write"} /\ pass.ag.active # pass.base.active => Runs(pass.ag.active)

(* What the collection may come upon: every workload that it listed is one  *)
(* it keeps or one it deletes.                                              *)
Accounted ==
  \A n \in Name \ touched : fleet.at[n].there =>
    /\ pass.pc = "copies" /\ n \in pass.owned => n \in pass.keep \cup pass.drop
    /\ pass.pc \in {"services", "prune"} => n \in pass.keep \cup unlisted

(* A workload has a Service, but on the pass that makes it. *)
Addressed ==
  /\ pass.pc \in {"wipe", "recreate"} => At \in touched
  /\ \A n \in Name \ (touched \cup unlisted \cup cut) :
       fleet.at[n].there /\ ~(pass.pc = "service" /\ At = n) => svc[n].uid # 0

ObjectsOK == UntouchedOK /\ MadeOK /\ RunsOK /\ Accounted /\ Addressed /\ ActiveAddressed
FleetInv == ObjectsOK /\ CachedOK

-----------------------------------------------------------------------------
(***************************************************************************)
(* Types.                                                                  *)
(***************************************************************************)
LEMMA Types ==
  /\ None \notin Digest /\ None \notin Name
  /\ \A d \in Digest : NameOf[d] \in Name /\ Content[d] # None
BY ConstantsAssumption

LEMMA AtTyped == ASSUME TypeOK PROVE At \in Name /\ pass.rev \in Digest
BY ConstantsAssumption DEF TypeOK, Pass, At

LEMMA IdleTyped == ASSUME TypeOK PROVE Idle \in Pass
<1>1. Digest # {}
  BY DEF TypeOK, Agent
<1>2. (CHOOSE d \in Digest : TRUE) \in Digest
  BY <1>1
<1>3. NoAgent(CHOOSE d \in Digest : TRUE) \in Agent
  BY <1>2 DEF NoAgent, Agent, Maybe
<1>4. NoOrder \in Order
  BY DEF NoOrder, Order
<1> QED BY <1>2, <1>3, <1>4 DEF Idle, Pass, Pc, NoAgent

LEMMA GotoTyped ==
  ASSUME TypeOK, NEW pc \in Pc, Goto(pc)
  PROVE  pass' \in Pass
BY DEF TypeOK, Goto, Pass

LEMMA RefuseTyped == ASSUME TypeOK, Refuse PROVE pass' \in Pass
BY ZenonT(60) DEF TypeOK, Refuse, Pass, Pc, Agent

LEMMA QuitTyped == ASSUME TypeOK, Quit PROVE pass' \in Pass
BY IdleTyped DEF Quit

LEMMA InitTypes == Init => TypeOK
<1> SUFFICES ASSUME Init PROVE TypeOK
  OBVIOUS
<1>1. PICK d \in Digest : agent = NoAgent(d)
  BY DEF Init
<1>2. agent \in Agent
  BY <1>1 DEF NoAgent, Agent, Maybe
<1>3. Idle \in Pass
  <2>2. (CHOOSE e \in Digest : TRUE) \in Digest
    BY <1>1
  <2>3. NoAgent(CHOOSE e \in Digest : TRUE) \in Agent
    BY <2>2 DEF NoAgent, Agent, Maybe
  <2>4. NoOrder \in Order
    BY DEF NoOrder, Order
  <2> QED BY <2>2, <2>3, <2>4 DEF Idle, Pass, Pc, NoAgent
<1>4. fleet \in Fleet
  BY DEF Init, Fleet, NoWorkload, Workload, Maybe, NoOrder, Order
<1>5. mat \in [Name -> Copy] /\ svc \in [Name -> Service]
  BY DEF Init, NoCopy, Copy, NoService, Service, Maybe
<1> QED BY <1>2, <1>3, <1>4, <1>5 DEF Init, TypeOK

LEMMA BeginTyped == ASSUME TypeOK, Begin PROVE TypeOK'
<1> DEFINE a == SeenAgent
           d == IF a.pin # None THEN a.pin ELSE a.want
<1>1. a \in Agent /\ Workloads \in Fleet
  BY DEF TypeOK, SeenAgent, Workloads
<1>2. d \in Digest
  BY <1>1 DEF Agent, Maybe
<1>3. supersede(a, d) \in Agent
  BY <1>1, <1>2 DEF supersede, Agent, Maybe
<1>4. ownedWorkloads \in SUBSET Name /\ Workloads.newer \in Order
  BY <1>1 DEF ownedWorkloads, Fleet
<1>5. /\ pass'.pc \in Pc /\ pass'.stale \in BOOLEAN /\ pass'.pinned \in BOOLEAN
      /\ pass'.ag = supersede(a, d) /\ pass'.base = a /\ pass'.rev = d
      /\ pass'.owned = ownedWorkloads /\ pass'.newer = Workloads.newer
      /\ pass'.drop = {} /\ pass'.keep = {}
      /\ pass' = [pc |-> pass'.pc, ag |-> pass'.ag, base |-> pass'.base, stale |-> pass'.stale,
                  rev |-> pass'.rev, pinned |-> pass'.pinned, owned |-> pass'.owned,
                  newer |-> pass'.newer, drop |-> pass'.drop, keep |-> pass'.keep]
  BY DEF Begin, Pc
<1>8. pass' \in Pass
  <2> HIDE DEF a, d
  <2> QED BY <1>1, <1>2, <1>3, <1>4, <1>5 DEF Pass
<1> QED BY <1>8 DEF Begin, TypeOK, caches, objects, counts, history, gaps

LEMMA MaterialTyped == ASSUME TypeOK, ensureRevisionMaterial PROVE TypeOK'
<1>1. pass' \in Pass
  BY GotoTyped, RefuseTyped DEF ensureRevisionMaterial, Pc
<1>2. [holds |-> Content[pass.rev], frozen |-> TRUE, marked |-> TRUE] \in Copy /\ NoCopy \in Copy
  BY AtTyped, ConstantsAssumption DEF NoCopy, Copy, Maybe
<1>3. mat' \in [Name -> Copy]
  BY <1>2, AtTyped DEF ensureRevisionMaterial, TypeOK
<1> QED BY <1>1, <1>3 DEF ensureRevisionMaterial, TypeOK, caches, counts, history, gaps

LEMMA CreateWorkloadTyped ==
  ASSUME TypeOK, NEW n \in Name, NEW w \in Workload, CreateWorkload(n, w)
  PROVE  fleet' \in Fleet
<1>1. fleet.at \in [Name -> Workload] /\ fleet.newer \in Order
  BY DEF TypeOK, Fleet
<1>2. fleet'.newer \in Order
  BY <1>1 DEF CreateWorkload, Order
<1>3. fleet'.at \in [Name -> Workload]
  BY <1>1 DEF CreateWorkload
<1> QED BY <1>2, <1>3 DEF CreateWorkload, Fleet

LEMMA DeleteWorkloadTyped ==
  ASSUME TypeOK, NEW n \in Name, DeleteWorkload(n)
  PROVE  fleet' \in Fleet
<1>1. fleet.at \in [Name -> Workload] /\ fleet.newer \in Order
  BY DEF TypeOK, Fleet
<1>2. fleet'.newer \in Order
  BY <1>1 DEF DeleteWorkload, Order
<1>3. fleet'.at \in [Name -> Workload]
  BY <1>1 DEF DeleteWorkload, NoWorkload, Workload, Maybe
<1> QED BY <1>2, <1>3 DEF DeleteWorkload, Fleet

LEMMA WorkloadTyped == ASSUME TypeOK, ensureWorkload PROVE TypeOK'
<1> DEFINE r == [there |-> TRUE, own |-> TRUE, stamp |-> pass.rev, runs |-> pass.rev, ready |-> FALSE]
           w == Workloads.at[At]
<1>1. w \in Workload
  BY AtTyped DEF TypeOK, Workloads, Fleet
<1>2. r \in Workload /\ [r EXCEPT !.ready = w.ready] \in Workload
  BY AtTyped, <1>1 DEF Workload, Maybe
<1>3. pass' \in Pass
  BY GotoTyped, RefuseTyped, QuitTyped DEF ensureWorkload, Pc
<1>4. fleet' \in Fleet
  <2>1. CASE CreateWorkload(At, r)
    BY <2>1, <1>2, AtTyped, CreateWorkloadTyped
  <2>2. CASE fleet' = fleet
    BY <2>2 DEF TypeOK
  <2>3. CASE fleet' = [fleet EXCEPT !.at[At] = [r EXCEPT !.ready = w.ready]]
    BY <2>3, <1>2, AtTyped DEF TypeOK, Fleet
  <2> QED BY <2>1, <2>2, <2>3 DEF ensureWorkload
<1> QED BY <1>3, <1>4 DEF ensureWorkload, TypeOK, caches, counts, history, gaps

(* A pass keeps its type when the parts that a step changes keep theirs. *)
LEMMA PassKept ==
  ASSUME TypeOK, NEW p, NEW pc \in Pc, NEW a \in Agent,
         p = [pass EXCEPT !.pc = pc, !.ag = a]
  PROVE  p \in Pass
BY DEF TypeOK, Pass

LEMMA PassRebased ==
  ASSUME TypeOK, NEW p, NEW pc \in Pc, NEW a \in Agent,
         p = [pass EXCEPT !.pc = pc, !.base = a]
  PROVE  p \in Pass
BY DEF TypeOK, Pass

LEMMA RecordTyped ==
  ASSUME NEW a \in Agent, NEW d \in Digest, NEW u \in Nat
  PROVE  [a EXCEPT !.record[d] = u] \in Agent
BY DEF Agent

LEMMA CreatedTyped ==
  ASSUME TypeOK, CreateService
  PROVE  /\ svc' \in [Name -> Service] /\ uids' \in Nat
         /\ made' \subseteq [uid : 1..uids', for : Digest]
         /\ adopted' \subseteq 1..uids' /\ lost \subseteq 1..uids'
<1>1. uids \in Nat /\ uids' = uids + 1 /\ adopted' = adopted
  BY DEF TypeOK, CreateService
<1>2. [uid |-> uids + 1, own |-> TRUE, stamp |-> pass.rev, shape |-> "rendered"] \in Service
  BY <1>1, AtTyped DEF Service, Maybe
<1>3. svc' \in [Name -> Service]
  BY <1>2, AtTyped DEF CreateService, TypeOK
<1>4. \A i \in 1..uids : i \in 1..uids'
  BY <1>1
<1>5. [uid |-> uids + 1, for |-> pass.rev] \in [uid : 1..uids', for : Digest]
  BY <1>1, AtTyped
<1>6. made \subseteq [uid : 1..uids', for : Digest]
  BY <1>4 DEF TypeOK
<1>7. adopted' \subseteq 1..uids' /\ lost \subseteq 1..uids'
  BY <1>1, <1>4 DEF TypeOK
<1> QED BY <1>1, <1>3, <1>5, <1>6, <1>7 DEF CreateService

LEMMA ServiceTyped == ASSUME TypeOK, Issued, ensureService PROVE TypeOK'
<1> DEFINE s == svc[At]
<1>1. s \in Service /\ pass.ag \in Agent /\ uids \in Nat /\ pass \in Pass
  BY AtTyped DEF TypeOK, Pass
<1>2. CASE s.uid = 0 /\ CreateService
              /\ pass' = [pass EXCEPT !.pc = "record", !.ag.record[pass.rev] = uids + 1]
  <2>1. [pass.ag EXCEPT !.record[pass.rev] = uids + 1] \in Agent
    BY <1>1, AtTyped, RecordTyped, SMTT(30)
  <2>2. pass' = [pass EXCEPT !.pc = "record", !.ag = [pass.ag EXCEPT !.record[pass.rev] = uids + 1]]
    BY <1>1, <1>2 DEF Pass
  <2>3. pass' \in Pass
    BY <2>1, <2>2, PassKept DEF Pc
  <2> QED BY <2>3, <1>2, CreatedTyped DEF ensureService, TypeOK, caches, counts
<1>3. CASE pass' = [pass EXCEPT !.pc = "switch", !.ag = adoptServiceRecord(s.uid)]
           /\ svc' = [svc EXCEPT ![At] =
                [uid |-> s.uid, own |-> TRUE, stamp |-> pass.rev, shape |-> "rendered"]]
           /\ adopted' = adopted \cup ({s.uid} \ Created) /\ UNCHANGED <<uids, made>> /\ s.uid # 0
  <2>1. adoptServiceRecord(s.uid) \in Agent
    BY <1>1, AtTyped, RecordTyped DEF adoptServiceRecord, Service
  <2>2. pass' \in Pass
    BY <2>1, <1>3, PassKept DEF Pc
  <2>3. svc' \in [Name -> Service]
    BY <1>3, <1>1, AtTyped DEF TypeOK, Service, Maybe
  <2>4. adopted' \subseteq 1..uids'
    <3>1. s.uid \in Nat /\ s.uid <= uids /\ s.uid \in 1..uids
      BY <1>1, <1>3, AtTyped DEF Issued, Service
    <3> QED BY <3>1, <1>3 DEF TypeOK
  <2> QED BY <2>2, <2>3, <2>4, <1>3 DEF ensureService, TypeOK, caches, counts
<1>4. CASE (Refuse \/ Goto("wipe")) /\ UNCHANGED <<svc, uids, made, adopted>>
  <2>1. pass' \in Pass
    BY <1>4, RefuseTyped, GotoTyped DEF Pc
  <2> QED BY <2>1, <1>4 DEF ensureService, TypeOK, caches, counts
<1> QED BY <1>2, <1>3, <1>4 DEF ensureService

LEMMA WipeTyped == ASSUME TypeOK, replaceDeletes PROVE TypeOK'
<1>1. pass' \in Pass
  BY GotoTyped, RefuseTyped DEF replaceDeletes, Pc
<1>2. NoService \in Service
  BY DEF NoService, Service, Maybe
<1>3. svc' \in [Name -> Service] /\ recent' \subseteq Name
  BY <1>2, AtTyped DEF replaceDeletes, TypeOK
<1> QED BY <1>1, <1>3 DEF replaceDeletes, TypeOK, caches, counts, history, gaps

LEMMA RecreateTyped == ASSUME TypeOK, replaceCreates PROVE TypeOK'
<1>1. pass.ag \in Agent /\ uids \in Nat /\ pass \in Pass
  BY DEF TypeOK, Pass
<1>2. CASE CreateService /\ pass' = [pass EXCEPT !.pc = "record", !.ag.record[pass.rev] = uids + 1,
                                                  !.ag.replaced = At]
  <2> DEFINE a == [pass.ag EXCEPT !.record[pass.rev] = uids + 1, !.replaced = At]
         b == [pass.ag EXCEPT !.record[pass.rev] = uids + 1]
  <2>0. b \in Agent
    BY <1>1, AtTyped, RecordTyped
  <2>1. a \in Agent
    <3>1. a = [b EXCEPT !.replaced = At]
      BY <1>1 DEF Agent
    <3> HIDE DEF b
    <3> QED BY <2>0, <3>1, AtTyped DEF Agent, Maybe
  <2>2. pass' = [pass EXCEPT !.pc = "record", !.ag = a]
    BY <1>1, <1>2 DEF Pass, Agent
  <2>3. pass' \in Pass
    BY <2>1, <2>2, PassKept DEF Pc
  <2> QED BY <2>3, <1>2, CreatedTyped DEF replaceCreates, TypeOK, caches, counts, gaps
<1>3. CASE Refuse /\ UNCHANGED <<svc, uids, made, adopted>>
  BY <1>3, RefuseTyped DEF replaceCreates, TypeOK, caches, counts, gaps
<1> QED BY <1>2, <1>3 DEF replaceCreates

LEMMA RecordedTyped == ASSUME TypeOK, NEW a \in Agent PROVE Recorded(a) \in Agent
BY AtTyped DEF TypeOK, Recorded, Pass, Agent

LEMMA StoreTyped == ASSUME TypeOK, NEW a \in Agent, Store(a) PROVE agent' \in Agent /\ synced' \in BOOLEAN
BY ConstantsAssumption DEF Store

LEMMA PersistTyped == ASSUME TypeOK, persistServiceRecord PROVE TypeOK'
<1>1. agent \in Agent /\ pass.base \in Agent
  BY DEF TypeOK, Pass
<1>2. Reapplied \in Agent /\ Recorded(pass.base) \in Agent
  BY <1>1, RecordedTyped DEF Reapplied
<1>3. pass' \in Pass
  BY <1>1, <1>2, PassRebased DEF persistServiceRecord, Pc
<1> QED BY <1>2, <1>3, StoreTyped DEF persistServiceRecord, TypeOK, objects, counts, history, gaps

LEMMA RidesTyped == ASSUME TypeOK, Issued, RecordRides PROVE TypeOK'
<1>1. pass' \in Pass
  BY GotoTyped DEF RecordRides, Pc
<1>2. lost' \subseteq 1..uids /\ faults' \in Nat
  <2>1. pass.ag.record[pass.rev] \in Nat /\ uids \in Nat
    BY AtTyped DEF TypeOK, Pass, Agent
  <2>2. pass.ag.record[pass.rev] \in 1..uids
    BY <2>1, AtTyped DEF RecordRides, Issued
  <2>3. lost \subseteq 1..uids /\ faults \in Nat
    BY DEF TypeOK
  <2>4. lost' = lost \cup {pass.ag.record[pass.rev]} /\ faults' = faults + 1
    BY DEF RecordRides
  <2>5. lost' \subseteq 1..uids
    BY <2>2, <2>3, <2>4
  <2>6. faults' \in Nat
    BY <2>3, <2>4
  <2> QED BY <2>5, <2>6
<1> QED BY <1>1, <1>2 DEF RecordRides, TypeOK, caches, objects, gaps

LEMMA SwitchTyped ==
  ASSUME TypeOK, NEW a \in Agent, Switch(a)
  PROVE  pass' \in Pass
<1>1. [a EXCEPT !.ready = @ /\ ~activeRevisionUnaddressable(a)] \in Agent
  BY DEF Agent
<1> QED BY <1>1, PassKept DEF Switch, Pc

LEMMA CardedTyped == ASSUME TypeOK, NEW a \in Agent PROVE Carded(a) \in Agent
BY AtTyped DEF Carded, Agent

LEMMA NotAvailableTyped == ASSUME TypeOK, NotAvailable PROVE TypeOK'
<1> DEFINE c == IF pass.ag.active = pass.rev THEN None ELSE pass.rev
           r == pass.ag.active \notin {None, pass.rev} /\ workloadAvailable(pass.ag.active)
<1>1. pass.ag \in Agent /\ c \in Maybe(Digest) /\ r \in BOOLEAN
  BY AtTyped DEF TypeOK, Pass, Maybe
<1>2. [pass.ag EXCEPT !.candidate = c, !.ready = r] \in Agent
  <2> HIDE DEF c, r
  <2> QED BY <1>1 DEF Agent
<1>3. pass' \in Pass
  BY <1>2, SwitchTyped DEF NotAvailable
<1> QED BY <1>3 DEF NotAvailable, TypeOK, caches, objects, counts, history, gaps

LEMMA HeldTyped == ASSUME TypeOK, Held PROVE TypeOK'
<1> DEFINE b == Carded(pass.ag)
           r == pass.ag.active # None
<1>1. b \in Agent /\ r \in BOOLEAN
  BY CardedTyped DEF TypeOK, Pass
<1>2. [b EXCEPT !.candidate = pass.rev, !.ready = r] \in Agent
  <2> HIDE DEF b, r
  <2> QED BY <1>1, AtTyped DEF Agent, Maybe
<1>3. pass' \in Pass
  BY <1>2, SwitchTyped DEF Held
<1> QED BY <1>3 DEF Held, TypeOK, caches, objects, counts, history, gaps

LEMMA PromoteTyped == ASSUME TypeOK, Promote PROVE TypeOK'
<1> DEFINE b == Carded(pass.ag)
<1>1. b \in Agent
  BY CardedTyped DEF TypeOK, Pass
<1>2. [b EXCEPT !.active = pass.rev, !.candidate = None, !.ready = TRUE] \in Agent
  <2> HIDE DEF b
  <2> QED BY <1>1, AtTyped DEF Agent, Maybe
<1>3. pass' \in Pass
  BY <1>2, SwitchTyped DEF Promote
<1>4. ghosts' \subseteq Name
  BY AtTyped DEF Promote, TypeOK
<1> QED BY <1>3, <1>4 DEF Promote, TypeOK, caches, objects, counts

LEMMA WriteTyped ==
  ASSUME TypeOK, NEW next \in Pc, writeStatus(next),
         UNCHANGED <<seen, listed, svcListed, objects, counts, history>>
  PROVE  TypeOK'
<1>1. pass.ag \in Agent /\ agent \in Agent
  BY DEF TypeOK, Pass
<1>2. [pass.ag EXCEPT !.want = agent.want, !.pin = agent.pin] \in Agent
  BY <1>1 DEF Agent
<1>3. pass' \in Pass
  BY <1>1, QuitTyped, PassRebased DEF writeStatus, Goes, Quit
<1>4. agent' \in Agent /\ synced' \in BOOLEAN
  <2>1. CASE Store([pass.ag EXCEPT !.want = agent.want, !.pin = agent.pin])
    BY <2>1, <1>2, StoreTyped
  <2>2. CASE UNCHANGED <<agent, synced>>
    BY <2>2 DEF TypeOK
  <2> QED BY <2>1, <2>2 DEF writeStatus
<1> QED BY <1>3, <1>4 DEF TypeOK, objects, counts, history, gaps

LEMMA GatewayTyped == ASSUME TypeOK, GatewayFails PROVE TypeOK'
<1>1. pass' \in Pass
  BY GotoTyped DEF GatewayFails, Pc
<1> QED BY <1>1 DEF GatewayFails, TypeOK, caches, objects, history, gaps

LEMMA ProtectedTyped == ASSUME TypeOK PROVE Protected \subseteq Name
BY ConstantsAssumption DEF TypeOK, Pass, Agent, Maybe, Protected, NamesOf

LEMMA GarbageTyped == ASSUME TypeOK, collectGarbage PROVE TypeOK'
<1>1. pass \in Pass
  BY DEF TypeOK
<1>2. Retainable \subseteq Name
  BY <1>1 DEF Retainable, Pass
<1>3. Retained \subseteq Retainable
  BY DEF Retained
<1>4. Keep \in SUBSET Name /\ Retainable \ Retained \in SUBSET Name
  BY <1>2, <1>3, ProtectedTyped DEF Keep
<1>5. pass' \in Pass
  BY <1>1, <1>4 DEF collectGarbage, Pass, Pc
<1> QED BY <1>5 DEF collectGarbage, TypeOK, caches, objects, counts, history, gaps

LEMMA CollectTyped == ASSUME TypeOK, NEW n \in Name, CollectWorkload(n) PROVE TypeOK'
<1>1. pass' \in Pass
  BY DEF CollectWorkload, TypeOK, Pass
<1>2. fleet' \in Fleet
  BY DeleteWorkloadTyped DEF CollectWorkload
<1> QED BY <1>1, <1>2 DEF CollectWorkload, TypeOK, caches, counts, history, gaps

LEMMA SweepTyped == ASSUME TypeOK, collectRevisionMaterial PROVE TypeOK'
<1>1. pass' \in Pass
  BY GotoTyped DEF collectRevisionMaterial, Pc
<1>2. mat' \in [Name -> Copy]
  BY DEF collectRevisionMaterial, TypeOK, NoCopy, Copy, Maybe
<1> QED BY <1>1, <1>2 DEF collectRevisionMaterial, TypeOK, caches, counts, history, gaps

LEMMA ServicesTyped == ASSUME TypeOK, collectRevisionServices PROVE TypeOK'
<1>1. pass' \in Pass
  BY GotoTyped DEF collectRevisionServices, Pc
<1>2. svc' \in [Name -> Service]
  BY DEF collectRevisionServices, TypeOK, NoService, Service, Maybe
<1> QED BY <1>1, <1>2 DEF collectRevisionServices, TypeOK, caches, counts, history, gaps

LEMMA PrunedTyped == ASSUME TypeOK, NEW a \in Agent PROVE Pruned(a) \in Agent
BY DEF Pruned, Agent

LEMMA PruneTyped == ASSUME TypeOK, Issued, Prune PROVE TypeOK'
<1>1. pass' \in Pass
  BY QuitTyped DEF Prune
<1>2. pass.ag \in Agent /\ uids \in Nat
  BY DEF TypeOK, Pass
<1>3. agent' \in Agent /\ synced' \in BOOLEAN
  <2>1. CASE Store(Pruned(pass.ag))
    BY <2>1, <1>2, PrunedTyped, StoreTyped
  <2>2. CASE UNCHANGED <<agent, synced>>
    BY <2>2 DEF TypeOK
  <2> QED BY <2>1, <2>2 DEF Prune
<1>4. Forgotten \subseteq 1..uids
  <2> SUFFICES ASSUME NEW d \in Digest, pass.ag.record[d] # 0
               PROVE  pass.ag.record[d] \in 1..uids
    BY DEF Forgotten
  <2>1. pass.ag.record[d] \in Nat /\ pass.ag.record[d] <= uids
    BY <1>2 DEF Agent, Issued
  <2> QED BY <2>1, <1>2
<1>5. lost' \subseteq 1..uids
  BY <1>4 DEF Prune, TypeOK
<1> QED BY <1>1, <1>3, <1>5 DEF Prune, TypeOK, objects, counts, gaps

LEMMA FailTyped == ASSUME TypeOK, Issued, Fail PROVE TypeOK'
<1>1. pass' \in Pass
  BY QuitTyped DEF Fail
<1>2. lost' \subseteq 1..uids
  <2>1. CASE pass.pc = "record"
    <3>1. pass.ag.record[pass.rev] \in Nat /\ uids \in Nat
      BY AtTyped DEF TypeOK, Pass, Agent
    <3>2. pass.ag.record[pass.rev] \in 1..uids
      BY <2>1, <3>1, AtTyped DEF Issued
    <3>3. lost \subseteq 1..uids /\ lost' = lost \cup {pass.ag.record[pass.rev]}
      BY <2>1 DEF Fail, TypeOK
    <3> QED BY <3>2, <3>3
  <2>2. CASE pass.pc # "record"
    BY <2>2 DEF Fail, TypeOK
  <2> QED BY <2>1, <2>2
<1>3. faults' \in Nat
  BY DEF Fail, TypeOK
<1>4. ghosts' \subseteq Name /\ unlisted' \subseteq Name /\ cut' \subseteq Name
  BY AtTyped DEF Fail, TypeOK
<1> QED BY <1>1, <1>2, <1>3, <1>4 DEF Fail, TypeOK, caches, objects

LEMMA EditTyped == ASSUME TypeOK, Edit PROVE TypeOK'
<1>1. agent \in Agent
  BY DEF TypeOK
<1>2. agent' \in Agent /\ synced' \in BOOLEAN
  <2>1. CASE \E d \in Digest \ {agent.want} : Store([agent EXCEPT !.want = d])
    <3>1. PICK d \in Digest : Store([agent EXCEPT !.want = d])
      BY <2>1
    <3>2. [agent EXCEPT !.want = d] \in Agent
      BY <1>1 DEF Agent
    <3> QED BY <3>1, <3>2, StoreTyped
  <2>2. CASE \E p \in Maybe(Digest) \ {agent.pin} : Store([agent EXCEPT !.pin = p])
    <3>1. PICK p \in Maybe(Digest) : Store([agent EXCEPT !.pin = p])
      BY <2>2
    <3>2. [agent EXCEPT !.pin = p] \in Agent
      BY <1>1 DEF Agent
    <3> QED BY <3>1, <3>2, StoreTyped
  <2> QED BY <2>1, <2>2 DEF Edit
<1>3. pass' \in Pass
  BY DEF Edit, TypeOK, Pass
<1>4. edits' \in Nat
  BY DEF Edit, TypeOK
<1> QED BY <1>2, <1>3, <1>4 DEF Edit, TypeOK, objects, history, gaps

LEMMA SyncTyped ==
  ASSUME TypeOK, SyncAgent \/ SyncWorkloads \/ SyncServices \/ WindowPasses
  PROVE  TypeOK'
<1>1. CASE SyncAgent
  BY <1>1 DEF SyncAgent, TypeOK, objects, counts, history, gaps
<1>2. CASE SyncWorkloads
  BY <1>2 DEF SyncWorkloads, TypeOK, objects, counts, history, gaps
<1>3. CASE SyncServices
  BY <1>3 DEF SyncServices, TypeOK, objects, counts, history, gaps, MarkedServices
<1>4. CASE WindowPasses
  BY <1>4 DEF WindowPasses, TypeOK, caches, counts, history, gaps
<1> QED BY <1>1, <1>2, <1>3, <1>4

LEMMA ReadyTyped == ASSUME TypeOK, NEW n \in Name, BecomesReady(n) PROVE TypeOK'
<1>1. fleet' \in Fleet
  BY ZenonT(60) DEF BecomesReady, TypeOK, Fleet, Workload
<1> QED BY <1>1 DEF BecomesReady, TypeOK, caches, counts, history, gaps

LEMMA TampersTyped ==
  ASSUME TypeOK, NEW n \in Name, NEW what, Tampers(what, n),
         fleet' \in Fleet, mat' \in [Name -> Copy], svc' \in [Name -> Service],
         recent' = recent, uids' \in Nat, uids <= uids'
  PROVE  TypeOK'
<1>1. touched' \subseteq Name /\ tampers' \in Nat
  BY DEF Tampers, TypeOK
<1>2. \A i \in 1..uids : i \in 1..uids'
  BY DEF TypeOK
<1>3. made \subseteq [uid : 1..uids', for : Digest] /\ adopted \subseteq 1..uids' /\ lost \subseteq 1..uids'
  BY <1>2 DEF TypeOK
<1> QED BY <1>1, <1>3 DEF Tampers, TypeOK, caches, gaps

LEMMA TamperWorkloadTyped == ASSUME TypeOK, NEW n \in Name, TamperWorkload(n) PROVE TypeOK'
<1>1. fleet.at[n] \in Workload /\ fleet \in Fleet /\ uids \in Nat
  BY DEF TypeOK, Fleet
<1>2. fleet' \in Fleet
  <2>1. CASE DeleteWorkload(n)
    BY <2>1, DeleteWorkloadTyped
  <2>2. ASSUME NEW w \in {[fleet.at[n] EXCEPT !.stamp = None], [fleet.at[n] EXCEPT !.runs = None],
                  [fleet.at[n] EXCEPT !.own = FALSE], [fleet.at[n] EXCEPT !.ready = FALSE]},
               fleet' = [fleet EXCEPT !.at[n] = w]
        PROVE  fleet' \in Fleet
    <3>1. w \in Workload
      BY <1>1, <2>2 DEF Workload, Maybe
    <3> QED BY <1>1, <2>2, <3>1 DEF Fleet
  <2> QED BY <2>1, <2>2 DEF TamperWorkload
<1> QED BY <1>1, <1>2, TampersTyped DEF TamperWorkload, TypeOK

LEMMA HeadlessTyped == ASSUME TypeOK, NEW n \in Name, MakeHeadless(n) PROVE TypeOK'
<1>1. svc[n] \in Service /\ uids \in Nat
  BY DEF TypeOK
<1>2. PICK s \in {svc[n], [svc[n] EXCEPT !.stamp = None, !.own = FALSE]} :
        svc' = [svc EXCEPT ![n] = [s EXCEPT !.shape = "headless"]]
  BY DEF MakeHeadless
<1>3. s \in Service
  BY <1>1, <1>2 DEF Service, Maybe
<1>4. [s EXCEPT !.shape = "headless"] \in Service
  BY <1>3 DEF Service
<1>5. svc' \in [Name -> Service]
  BY <1>2, <1>4 DEF TypeOK
<1> QED BY <1>1, <1>5, TampersTyped DEF MakeHeadless, TypeOK

LEMMA TamperServiceTyped == ASSUME TypeOK, NEW n \in Name, TamperService(n) PROVE TypeOK'
<1>1. svc[n] \in Service /\ uids \in Nat
  BY DEF TypeOK
<1>2. ASSUME NEW s \in {[svc[n] EXCEPT !.shape = "drift"], [svc[n] EXCEPT !.stamp = None, !.own = FALSE], NoService},
             svc' = [svc EXCEPT ![n] = s], UNCHANGED uids
      PROVE  TypeOK'
  <2>1. s \in Service
    <3>1. /\ [svc[n] EXCEPT !.shape = "drift"] \in Service
          /\ [svc[n] EXCEPT !.stamp = None, !.own = FALSE] \in Service
      BY <1>1 DEF Service, Maybe
    <3>2. NoService \in Service
      BY DEF Service, Maybe, NoService
    <3> QED BY <1>2, <3>1, <3>2
  <2>2. svc' \in [Name -> Service]
    BY <1>2, <2>1 DEF TypeOK
  <2> QED BY <1>1, <1>2, <2>2, TampersTyped DEF TamperService, TypeOK
<1>3. ASSUME uids' = uids + 1, NEW o \in BOOLEAN, NEW d \in Digest, NEW sh \in {"rendered", "headless"},
             svc' = [svc EXCEPT ![n] = [uid |-> uids + 1, own |-> o, stamp |-> d, shape |-> sh]]
      PROVE  TypeOK'
  <2>1. [uid |-> uids + 1, own |-> o, stamp |-> d, shape |-> sh] \in Service
    BY <1>1, <1>3 DEF Service, Maybe
  <2>2. svc' \in [Name -> Service]
    BY <1>3, <2>1 DEF TypeOK
  <2> QED BY <1>1, <1>3, <2>2, TampersTyped DEF TamperService, TypeOK
<1> QED BY <1>2, <1>3 DEF TamperService

LEMMA TamperCopyTyped == ASSUME TypeOK, NEW n \in Name, TamperCopy(n) PROVE TypeOK'
<1>1. mat[n] \in Copy /\ uids \in Nat
  BY DEF TypeOK
<1>2. PICK c \in {NoCopy, [mat[n] EXCEPT !.marked = FALSE], [mat[n] EXCEPT !.frozen = FALSE]}
            \cup {[mat[n] EXCEPT !.holds = Content[d]] : d \in Digest} :
        mat' = [mat EXCEPT ![n] = c]
  BY DEF TamperCopy
<1>3. c \in Copy
  <2>1. /\ [mat[n] EXCEPT !.marked = FALSE] \in Copy /\ [mat[n] EXCEPT !.frozen = FALSE] \in Copy
        /\ NoCopy \in Copy
    BY <1>1 DEF Copy, NoCopy, Maybe
  <2>2. ASSUME NEW d \in Digest PROVE [mat[n] EXCEPT !.holds = Content[d]] \in Copy
    BY <1>1 DEF Copy, Maybe
  <2> QED BY <1>2, <2>1, <2>2
<1>4. mat' \in [Name -> Copy]
  BY <1>2, <1>3 DEF TypeOK
<1> QED BY <1>1, <1>4, TampersTyped DEF TamperCopy, TypeOK

LEMMA OthersTyped == ASSUME TypeOK, Others PROVE TypeOK'
<1>1. ASSUME NEW n \in Name, BecomesReady(n) \/ TamperWorkload(n) \/ MakeHeadless(n) \/ TamperService(n)
                             \/ TamperCopy(n)
      PROVE  TypeOK'
  BY <1>1, ReadyTyped, TamperWorkloadTyped, HeadlessTyped, TamperServiceTyped, TamperCopyTyped
<1> QED BY <1>1, EditTyped, SyncTyped DEF Others

LEMMA TypeStep == ASSUME TypeOK, Issued, [Next]_vars PROVE TypeOK'
<1>1. CASE Worker
  <2>1. CASE WriteStatus
    BY <2>1, WriteTyped DEF WriteStatus, Pc
  <2>2. CASE Report
    BY <2>2, WriteTyped DEF Report, Pc
  <2> QED BY <1>1, <2>1, <2>2, BeginTyped, MaterialTyped, WorkloadTyped, ServiceTyped, WipeTyped,
             RecreateTyped, PersistTyped, NotAvailableTyped, HeldTyped, PromoteTyped, GarbageTyped,
             CollectTyped, SweepTyped, ServicesTyped, PruneTyped DEF Worker
<1>2. CASE UNCHANGED vars
  BY <1>2 DEF vars, caches, objects, counts, history, gaps, TypeOK
<1> QED BY <1>1, <1>2, RidesTyped, GatewayTyped, FailTyped, OthersTyped DEF Next

-----------------------------------------------------------------------------
(***************************************************************************)
(* What each step does to the pass and to the Agent.                       *)
(***************************************************************************)
SameStatus == UNCHANGED <<agent, seen, synced>>
SameRead == /\ pass'.base = pass.base /\ pass'.stale = pass.stale /\ pass'.rev = pass.rev
            /\ pass'.owned = pass.owned
SameClaim == /\ pass'.ag.active = pass.ag.active /\ pass'.ag.candidate = pass.ag.candidate
             /\ pass'.ag.want = pass.ag.want /\ pass'.ag.pin = pass.ag.pin
SameObjects == UNCHANGED <<fleet, mat, svc, uids, touched, made, adopted>>

(* The pass goes from one place to another and leaves the Agent, and what   *)
(* it holds of it, alone.                                                   *)
Walk(from, to) ==
  /\ pass.pc \in from /\ pass'.pc \in to
  /\ SameStatus /\ SameRead /\ SameClaim /\ pass'.ag.record = pass.ag.record
Stop == pass' = Idle /\ SameStatus

LEMMA GotoShape ==
  ASSUME TypeOK, NEW pc, Goto(pc)
  PROVE  /\ pass'.pc = pc /\ SameRead /\ pass'.ag = pass.ag
         /\ pass'.drop = pass.drop /\ pass'.keep = pass.keep
BY DEF TypeOK, Pass, Goto, SameRead

LEMMA RefuseShape ==
  ASSUME TypeOK, Refuse
  PROVE  pass'.pc = "report" /\ SameRead /\ SameClaim /\ pass'.ag.record = pass.ag.record
<1>1. pass \in Pass /\ pass.ag \in Agent
  BY DEF TypeOK, Pass
<1>2. pass'.ag = [pass.ag EXCEPT !.ready = FALSE] /\ pass'.pc = "report" /\ SameRead
  BY <1>1 DEF Refuse, Pass, SameRead
<1> QED BY <1>1, <1>2 DEF Agent, SameClaim

LEMMA GotoWalks ==
  ASSUME TypeOK, NEW pc, Goto(pc), SameStatus
  PROVE  Walk({pass.pc}, {pc})
BY GotoShape DEF Walk, SameClaim

LEMMA RefuseWalks ==
  ASSUME TypeOK, Refuse, SameStatus
  PROVE  Walk({pass.pc}, {"report"})
BY RefuseShape DEF Walk

LEMMA MaterialShape ==
  ASSUME TypeOK, ensureRevisionMaterial
  PROVE  Walk({"material"}, {"workload", "report"})
<1>1. SameStatus /\ pass.pc = "material"
  BY DEF ensureRevisionMaterial, SameStatus, caches
<1>2. Goto("workload") \/ Refuse
  BY DEF ensureRevisionMaterial
<1> QED BY <1>1, <1>2, GotoWalks, RefuseWalks DEF Walk

LEMMA WorkloadShape ==
  ASSUME TypeOK, ensureWorkload
  PROVE  Walk({"workload"}, {"service", "report"}) \/ (pass.pc = "workload" /\ Stop)
<1>1. SameStatus /\ pass.pc = "workload"
  BY DEF ensureWorkload, SameStatus, caches
<1>2. Goto("service") \/ Refuse \/ Quit
  BY DEF ensureWorkload
<1> QED BY <1>1, <1>2, GotoWalks, RefuseWalks DEF Walk, Stop, Quit

(* A pass that creates a Service or adopts one changes the record of its    *)
(* own revision.                                                            *)
Notes(from, to, u) ==
  /\ pass.pc = from /\ pass'.pc = to
  /\ SameStatus /\ SameRead /\ SameClaim
  /\ pass'.ag.record = [pass.ag.record EXCEPT ![pass.rev] = u]

LEMMA NoteShape ==
  ASSUME TypeOK, NEW pc, NEW u, pass' = [pass EXCEPT !.pc = pc, !.ag.record[pass.rev] = u], SameStatus
  PROVE  Notes(pass.pc, pc, u)
<1>1. pass \in Pass /\ pass.ag \in Agent
  BY DEF TypeOK, Pass
<1>2. pass'.pc = pc /\ SameRead /\ pass'.ag = [pass.ag EXCEPT !.record[pass.rev] = u]
  BY <1>1 DEF Pass, SameRead
<1> QED BY <1>1, <1>2 DEF Agent, SameClaim, Notes

ServiceCreates ==
  svc[At].uid = 0 /\ CreateService /\ Notes("service", "record", uids + 1)
ServiceAdopts ==
  /\ svc[At].uid # 0 /\ UNCHANGED <<uids, made>>
  /\ svc' = [svc EXCEPT ![At] =
       [uid |-> svc[At].uid, own |-> TRUE, stamp |-> pass.rev, shape |-> "rendered"]]
  /\ adopted' = adopted \cup ({svc[At].uid} \ Created)
  /\ \/ pass.ag.record[pass.rev] = 0 /\ Notes("service", "switch", svc[At].uid)
     \/ pass.ag.record[pass.rev] # 0 /\ Walk({"service"}, {"switch"})
ServiceRefuses ==
  /\ svc[At].uid # 0 /\ UNCHANGED <<svc, uids, made, adopted>>
  /\ \/ Walk({"service"}, {"report"})
     \/ ours /\ svc[At].shape = "headless" /\ Walk({"service"}, {"wipe"})

LEMMA ServiceShape ==
  ASSUME TypeOK, ensureService
  PROVE  /\ ServiceCreates \/ ServiceAdopts \/ ServiceRefuses
         /\ UNCHANGED <<fleet, mat, touched, lost, faults>>
<1> DEFINE s == svc[At]
<1>1. SameStatus /\ pass.pc = "service" /\ UNCHANGED <<fleet, mat, touched, lost, faults>>
  BY DEF ensureService, SameStatus, caches, counts
<1>2. CASE s.uid = 0 /\ CreateService
              /\ pass' = [pass EXCEPT !.pc = "record", !.ag.record[pass.rev] = uids + 1]
  BY <1>1, <1>2, NoteShape DEF ServiceCreates
<1>3. CASE pass' = [pass EXCEPT !.pc = "switch", !.ag = adoptServiceRecord(s.uid)]
           /\ svc' = [svc EXCEPT ![At] =
                [uid |-> s.uid, own |-> TRUE, stamp |-> pass.rev, shape |-> "rendered"]]
           /\ adopted' = adopted \cup ({s.uid} \ Created) /\ UNCHANGED <<uids, made>> /\ s.uid # 0
  <2>1. pass \in Pass /\ pass.ag \in Agent
    BY DEF TypeOK, Pass
  <2>2. pass'.pc = "switch" /\ SameRead /\ pass'.ag = adoptServiceRecord(s.uid)
    BY <1>3, <2>1 DEF Pass, SameRead
  <2>3. CASE pass.ag.record[pass.rev] = 0
    <3>1. pass'.ag = [pass.ag EXCEPT !.record[pass.rev] = s.uid]
      BY <2>2, <2>3 DEF adoptServiceRecord, recordedServiceUID
    <3>2. SameClaim /\ pass'.ag.record = [pass.ag.record EXCEPT ![pass.rev] = s.uid]
      BY <3>1, <2>1 DEF Agent, SameClaim
    <3> QED BY <1>1, <1>3, <2>2, <2>3, <3>2 DEF ServiceAdopts, Notes
  <2>4. CASE pass.ag.record[pass.rev] # 0
    <3>1. pass'.ag = pass.ag
      BY <2>2, <2>4 DEF adoptServiceRecord, recordedServiceUID
    <3> QED BY <1>1, <1>3, <2>2, <2>4, <3>1 DEF ServiceAdopts, Walk, SameClaim
  <2> QED BY <1>1, <2>3, <2>4
<1>4. CASE s.uid # 0 /\ UNCHANGED <<svc, uids, made, adopted>> /\ Refuse
  BY <1>1, <1>4, RefuseWalks DEF ServiceRefuses
<1>5. CASE s.uid # 0 /\ UNCHANGED <<svc, uids, made, adopted>> /\ Goto("wipe") /\ ours /\ s.shape = "headless"
  BY <1>1, <1>5, GotoWalks DEF ServiceRefuses
<1> QED BY <1>1, <1>2, <1>3, <1>4, <1>5 DEF ensureService

LEMMA WipeShape ==
  ASSUME TypeOK, replaceDeletes
  PROVE  /\ \/ /\ Walk({"wipe"}, {"recreate"})
               /\ svc[At].uid = pass.ag.record[pass.rev] /\ svc' = [svc EXCEPT ![At] = NoService]
            \/ Walk({"wipe"}, {"report"}) /\ svc' = svc
         /\ UNCHANGED <<fleet, mat, uids, touched, made, adopted, lost, faults>>
<1>1. SameStatus /\ pass.pc = "wipe" /\ UNCHANGED <<fleet, mat, uids, touched, made, adopted, lost, faults>>
  BY DEF replaceDeletes, SameStatus, caches, counts, history, gaps
<1>2. CASE Refuse /\ svc' = svc
  BY <1>1, <1>2, RefuseWalks
<1>3. CASE svc[At].uid = recordedServiceUID(pass.rev) /\ svc' = [svc EXCEPT ![At] = NoService] /\ Goto("recreate")
  BY <1>1, <1>3, GotoWalks DEF recordedServiceUID
<1> QED BY <1>1, <1>2, <1>3 DEF replaceDeletes

LEMMA RecreateShape ==
  ASSUME TypeOK, replaceCreates
  PROVE  /\ \/ svc[At].uid = 0 /\ CreateService /\ Notes("recreate", "record", uids + 1)
            \/ Walk({"recreate"}, {"report"}) /\ UNCHANGED <<svc, uids, made, adopted>>
         /\ UNCHANGED <<fleet, mat, touched, lost, faults>>
<1>1. SameStatus /\ pass.pc = "recreate" /\ UNCHANGED <<fleet, mat, touched, lost, faults>>
  BY DEF replaceCreates, SameStatus, caches, counts
<1>2. CASE svc[At].uid = 0 /\ CreateService /\ pass' = [pass EXCEPT !.pc = "record", !.ag.record[pass.rev] = uids + 1,
                                                  !.ag.replaced = At]
  <2>1. pass \in Pass /\ pass.ag \in Agent
    BY DEF TypeOK, Pass
  <2> DEFINE b == [pass.ag EXCEPT !.record[pass.rev] = uids + 1]
  <2>2. /\ pass'.pc = "record" /\ SameRead
        /\ pass'.ag = [b EXCEPT !.replaced = At]
    BY <1>2, <2>1 DEF Pass, SameRead
  <2>3. b \in Agent
    <3>1. pass.rev \in Digest /\ uids + 1 \in Nat
      BY <2>1 DEF TypeOK, Pass
    <3> QED BY <2>1, <3>1, RecordTyped
  <2>4. /\ pass'.ag.active = b.active /\ pass'.ag.candidate = b.candidate
        /\ pass'.ag.want = b.want /\ pass'.ag.pin = b.pin /\ pass'.ag.record = b.record
    <3> HIDE DEF b
    <3> QED BY <2>2, <2>3 DEF Agent
  <2>5. SameClaim /\ pass'.ag.record = [pass.ag.record EXCEPT ![pass.rev] = uids + 1]
    BY <2>1, <2>4 DEF Agent, SameClaim
  <2> QED BY <1>1, <1>2, <2>2, <2>5 DEF Notes
<1>3. CASE Refuse /\ UNCHANGED <<svc, uids, made, adopted>>
  BY <1>1, <1>3, RefuseWalks
<1> QED BY <1>1, <1>2, <1>3 DEF replaceCreates

(* The record is written onto the Agent as it is now. *)
LEMMA RecordedFields ==
  ASSUME TypeOK, NEW a \in Agent
  PROVE  /\ Recorded(a).active = a.active /\ Recorded(a).candidate = a.candidate
         /\ Recorded(a).want = a.want /\ Recorded(a).pin = a.pin
         /\ Recorded(a).record = [a.record EXCEPT ![pass.rev] = pass.ag.record[pass.rev]]
BY DEF Recorded, Agent

LEMMA PersistShape ==
  ASSUME TypeOK, persistServiceRecord
  PROVE  /\ pass.pc = "record" /\ pass'.pc = "switch"
         /\ agent' = Recorded(agent) /\ synced' = ~Lags /\ seen' = seen
         /\ pass'.ag = pass.ag /\ pass'.stale = pass.stale /\ pass'.rev = pass.rev
         /\ pass'.owned = pass.owned
         /\ pass'.base = IF pass.stale THEN pass.base ELSE Recorded(pass.base)
         /\ SameObjects /\ UNCHANGED <<lost, faults>>
BY DEF persistServiceRecord, TypeOK, Pass, Reapplied, Store, objects, history, gaps, counts, SameObjects

LEMMA RidesShape ==
  ASSUME TypeOK, RecordRides
  PROVE  /\ Walk({"record"}, {"switch"}) /\ SameObjects
         /\ lost' = lost \cup {pass.ag.record[pass.rev]} /\ faults' = faults + 1
<1>1. SameStatus /\ pass.pc = "record"
  BY DEF RecordRides, SameStatus, caches
<1>2. Walk({"record"}, {"switch"})
  BY <1>1, GotoWalks DEF RecordRides
<1> QED BY <1>2 DEF RecordRides, SameObjects, objects

(* The pass decides which revision is active. *)
Decides(act, cand) ==
  /\ pass.pc = "switch" /\ pass'.pc = "write" /\ SameStatus /\ SameRead /\ SameObjects
  /\ pass'.ag.active = act /\ pass'.ag.candidate = cand
  /\ pass'.ag.want = pass.ag.want /\ pass'.ag.pin = pass.ag.pin /\ pass'.ag.record = pass.ag.record
  /\ UNCHANGED <<lost, faults>>

LEMMA SwitchShape ==
  ASSUME TypeOK, NEW a \in Agent, Switch(a)
  PROVE  /\ pass'.pc = "write" /\ SameRead
         /\ pass'.ag.active = a.active /\ pass'.ag.candidate = a.candidate
         /\ pass'.ag.want = a.want /\ pass'.ag.pin = a.pin /\ pass'.ag.record = a.record
<1>1. pass'.pc = "write" /\ SameRead
      /\ pass'.ag = [a EXCEPT !.ready = @ /\ ~activeRevisionUnaddressable(a)]
  BY DEF Switch, TypeOK, Pass, SameRead
<1> QED BY <1>1 DEF Agent

LEMMA CardedFields ==
  ASSUME TypeOK, NEW a \in Agent
  PROVE  /\ Carded(a).active = a.active /\ Carded(a).candidate = a.candidate
         /\ Carded(a).want = a.want /\ Carded(a).pin = a.pin /\ Carded(a).record = a.record
BY DEF Carded, Agent

LEMMA NotAvailableShape ==
  ASSUME TypeOK, NotAvailable
  PROVE  Decides(pass.ag.active, IF pass.ag.active = pass.rev THEN None ELSE pass.rev)
<1> DEFINE c == IF pass.ag.active = pass.rev THEN None ELSE pass.rev
           r == pass.ag.active \notin {None, pass.rev} /\ workloadAvailable(pass.ag.active)
           a == [pass.ag EXCEPT !.candidate = c, !.ready = r]
<1>1. pass.ag \in Agent /\ c \in Maybe(Digest) /\ r \in BOOLEAN
  BY AtTyped DEF TypeOK, Pass, Maybe
<1>2. /\ a \in Agent /\ a.active = pass.ag.active /\ a.candidate = c
      /\ a.want = pass.ag.want /\ a.pin = pass.ag.pin /\ a.record = pass.ag.record
  <2> HIDE DEF c, r
  <2> QED BY <1>1 DEF Agent
<1>3. pass.pc = "switch" /\ SameStatus /\ SameObjects /\ Switch(a) /\ UNCHANGED <<lost, faults>>
  BY DEF NotAvailable, SameStatus, SameObjects, caches, objects, history, gaps, counts
<1> HIDE DEF a
<1> QED BY <1>2, <1>3, SwitchShape DEF Decides

LEMMA HeldShape ==
  ASSUME TypeOK, Held
  PROVE  Decides(pass.ag.active, pass.rev)
<1> DEFINE b == Carded(pass.ag)
           r == pass.ag.active # None
           a == [b EXCEPT !.candidate = pass.rev, !.ready = r]
<1>1. pass.ag \in Agent /\ b \in Agent /\ r \in BOOLEAN
  BY CardedTyped DEF TypeOK, Pass
<1>2. /\ a \in Agent /\ a.active = b.active /\ a.candidate = pass.rev
      /\ a.want = b.want /\ a.pin = b.pin /\ a.record = b.record
  <2> HIDE DEF b, r
  <2> QED BY <1>1, AtTyped DEF Agent, Maybe
<1>3. pass.pc = "switch" /\ SameStatus /\ SameObjects /\ Switch(a) /\ UNCHANGED <<lost, faults>>
  BY DEF Held, SameStatus, SameObjects, caches, objects, history, gaps, counts
<1> HIDE DEF a
<1> QED BY <1>1, <1>2, <1>3, SwitchShape, CardedFields DEF Decides

LEMMA PromoteShape ==
  ASSUME TypeOK, Promote
  PROVE  Decides(pass.rev, None) /\ workloadAvailable(pass.rev)
<1> DEFINE b == Carded(pass.ag)
           a == [b EXCEPT !.active = pass.rev, !.candidate = None, !.ready = TRUE]
<1>1. pass.ag \in Agent /\ b \in Agent
  BY CardedTyped DEF TypeOK, Pass
<1>2. /\ a \in Agent /\ a.active = pass.rev /\ a.candidate = None
      /\ a.want = b.want /\ a.pin = b.pin /\ a.record = b.record
  <2> HIDE DEF b
  <2> QED BY <1>1, AtTyped DEF Agent, Maybe
<1>3. pass.pc = "switch" /\ SameStatus /\ SameObjects /\ Switch(a) /\ UNCHANGED <<lost, faults>>
      /\ workloadAvailable(pass.rev)
  BY DEF Promote, SameStatus, SameObjects, caches, objects, history, gaps, counts
<1> HIDE DEF a
<1> QED BY <1>1, <1>2, <1>3, SwitchShape, CardedFields DEF Decides

(* The status is written, or the pass was overtaken: then it stops, or goes *)
(* on if it had nothing to write.                                           *)
Rebased(pc) ==
  /\ pass'.pc = pc /\ pass'.ag = pass.ag /\ pass'.base = pass.ag
  /\ pass'.stale = pass.stale /\ pass'.rev = pass.rev /\ pass'.owned = pass.owned
Written ==
  /\ ~pass.stale /\ seen' = seen
  /\ \/ pass.ag = pass.base /\ agent' = agent /\ synced' = synced
     \/ agent' = [pass.ag EXCEPT !.want = agent.want, !.pin = agent.pin] /\ synced' = ~Lags
Passes == pass.stale /\ pass.ag = pass.base /\ SameStatus

LEMMA WriteShape ==
  ASSUME TypeOK, NEW next, writeStatus(next), seen' = seen
  PROVE  \/ Stop
         \/ Written /\ (IF next = "idle" THEN pass' = Idle ELSE Rebased(next))
         \/ Passes /\ (IF next = "idle" THEN pass' = Idle ELSE Rebased(next))
<1>1. Goes(next) => (IF next = "idle" THEN pass' = Idle ELSE Rebased(next))
  BY DEF Goes, Rebased, TypeOK, Pass
<1> QED BY <1>1 DEF writeStatus, Overtaken, Written, Passes, Stop, SameStatus, Quit, Store

LEMMA GatewayShape ==
  ASSUME TypeOK, GatewayFails
  PROVE  Walk({"write"}, {"report"}) /\ SameObjects /\ lost' = lost /\ faults' = faults + 1
<1>1. SameStatus /\ pass.pc = "write"
  BY DEF GatewayFails, SameStatus, caches
<1>2. Walk({"write"}, {"report"})
  BY <1>1, GotoWalks DEF GatewayFails
<1> QED BY <1>2 DEF GatewayFails, SameObjects, objects, history, gaps

LEMMA GarbageShape ==
  ASSUME TypeOK, collectGarbage
  PROVE  /\ pass.pc = "collect" /\ pass'.pc = "copies" /\ pass'.ag = pass.ag /\ SameRead /\ SameStatus
         /\ pass'.keep = Keep /\ pass'.drop = Retainable \ Retained
         /\ SameObjects /\ UNCHANGED <<lost, faults>>
<1>1. pass' = [pass EXCEPT !.pc = "copies", !.keep = Keep, !.drop = Retainable \ Retained]
  BY DEF collectGarbage
<1>2. /\ pass'.pc = "copies" /\ pass'.ag = pass.ag /\ SameRead /\ pass'.keep = Keep
      /\ pass'.drop = Retainable \ Retained
  BY <1>1 DEF TypeOK, Pass, SameRead
<1> QED BY <1>2 DEF collectGarbage, SameStatus, SameObjects, caches, objects, history, gaps, counts

LEMMA CollectShape ==
  ASSUME TypeOK, NEW n \in Name, CollectWorkload(n)
  PROVE  /\ pass.pc = "copies" /\ pass'.pc = "copies" /\ pass'.ag = pass.ag /\ SameRead /\ SameStatus
         /\ pass'.keep = pass.keep /\ pass'.drop = pass.drop \ {n} /\ n \in pass.drop
         /\ fleet'.at = [fleet.at EXCEPT ![n] = NoWorkload]
         /\ UNCHANGED <<mat, svc, uids, touched, made, adopted, lost, faults>>
<1>1. /\ pass'.pc = "copies" /\ pass'.ag = pass.ag /\ SameRead /\ pass'.keep = pass.keep
      /\ pass'.drop = pass.drop \ {n}
  BY DEF CollectWorkload, TypeOK, Pass, SameRead
<1>2. fleet'.at = [fleet.at EXCEPT ![n] = NoWorkload]
  BY DEF CollectWorkload, DeleteWorkload
<1> QED BY <1>1, <1>2 DEF CollectWorkload, SameStatus, caches, history, gaps, counts

LEMMA SweepShape ==
  ASSUME TypeOK, collectRevisionMaterial
  PROVE  /\ pass.pc = "copies" /\ pass'.pc = "services" /\ pass'.ag = pass.ag /\ SameRead /\ SameStatus
         /\ pass'.keep = pass.keep /\ pass.drop = {}
         /\ UNCHANGED <<fleet, svc, uids, touched, made, adopted, lost, faults>>
BY GotoShape DEF collectRevisionMaterial, SameStatus, caches, history, gaps, counts

LEMMA ServicesShape ==
  ASSUME TypeOK, collectRevisionServices
  PROVE  /\ pass.pc = "services" /\ pass'.pc = "prune" /\ pass'.ag = pass.ag /\ SameRead /\ SameStatus
         /\ pass'.keep = pass.keep
         /\ UNCHANGED <<fleet, mat, uids, touched, made, adopted, lost, faults>>
BY GotoShape DEF collectRevisionServices, SameStatus, caches, history, gaps, counts

LEMMA PrunedFields ==
  ASSUME TypeOK, NEW a \in Agent
  PROVE  /\ Pruned(a).active = a.active /\ Pruned(a).want = a.want /\ Pruned(a).pin = a.pin
         /\ Pruned(a).record = [d \in Digest |-> IF NameOf[d] \in pass.keep THEN a.record[d] ELSE 0]
BY DEF Pruned, Agent

LEMMA PruneShape ==
  ASSUME TypeOK, Prune
  PROVE  /\ pass.pc = "prune" /\ pass' = Idle /\ SameObjects /\ faults' = faults
         /\ \/ SameStatus /\ lost' = lost
            \/ /\ ~pass.stale /\ agent' = Pruned(pass.ag) /\ synced' = ~Lags /\ seen' = seen
               /\ lost' = lost \cup Forgotten
BY DEF Prune, Quit, Store, SameObjects, SameStatus, objects, counts

LEMMA FailShape ==
  ASSUME TypeOK, Fail
  PROVE  /\ Busy /\ Stop /\ SameObjects /\ faults' = faults + 1
         /\ lost' = IF pass.pc = "record" THEN lost \cup {pass.ag.record[pass.rev]} ELSE lost
BY DEF Fail, Quit, Stop, SameStatus, SameObjects, caches, objects, Busy

LEMMA EditShape ==
  ASSUME TypeOK, Edit
  PROVE  /\ agent'.active = agent.active /\ agent'.record = agent.record
         /\ synced' = ~Lags /\ seen' = seen /\ SameObjects /\ UNCHANGED <<lost, faults>>
         /\ pass'.pc = pass.pc /\ pass'.ag = pass.ag /\ pass'.base = pass.base /\ pass'.rev = pass.rev
         /\ pass'.owned = pass.owned /\ pass'.drop = pass.drop /\ pass'.keep = pass.keep
         /\ Busy => pass'.stale
<1>1. agent \in Agent /\ pass \in Pass
  BY DEF TypeOK
<1>2. agent'.active = agent.active /\ agent'.record = agent.record /\ synced' = ~Lags
  BY <1>1 DEF Edit, Store, Agent
<1>3. /\ pass'.pc = pass.pc /\ pass'.ag = pass.ag /\ pass'.base = pass.base /\ pass'.rev = pass.rev
      /\ pass'.owned = pass.owned /\ pass'.drop = pass.drop /\ pass'.keep = pass.keep
  BY <1>1 DEF Edit, Pass
<1>4. Busy => pass'.stale
  BY <1>1 DEF Edit, Pass, Busy
<1> QED BY <1>2, <1>3, <1>4 DEF Edit, SameObjects, objects, history, gaps

LEMMA BeginShape ==
  ASSUME TypeOK, Begin
  PROVE  /\ pass.pc = "idle" /\ pass'.pc \in {"material", "switch", "report"}
         /\ SameStatus /\ SameObjects /\ UNCHANGED <<lost, faults>>
         /\ pass'.base = SeenAgent /\ pass'.stale = (Lags /\ ~synced) /\ pass'.rev = TargetOf(SeenAgent)
         /\ pass'.ag.active = SeenAgent.active /\ pass'.ag.record = SeenAgent.record
         /\ pass'.ag.want = SeenAgent.want /\ pass'.ag.pin = SeenAgent.pin
         /\ pass'.owned = ownedWorkloads
<1> DEFINE a == SeenAgent
           d == IF a.pin # None THEN a.pin ELSE a.want
<1>1. a \in Agent
  BY DEF TypeOK, SeenAgent
<1>2. /\ pass'.pc \in {"material", "switch", "report"} /\ pass'.stale = (Lags /\ ~synced)
      /\ pass'.ag = supersede(a, d) /\ pass'.base = a /\ pass'.rev = d
      /\ pass'.owned = ownedWorkloads
  BY DEF Begin
<1>3. d = TargetOf(a)
  BY DEF TargetOf
<1>4. /\ supersede(a, d).active = a.active /\ supersede(a, d).record = a.record
      /\ supersede(a, d).want = a.want /\ supersede(a, d).pin = a.pin
  <2> HIDE DEF a, d
  <2> QED BY <1>1 DEF supersede, Agent
<1> HIDE DEF a, d
<1>5. pass.pc = "idle" /\ SameStatus /\ SameObjects /\ UNCHANGED <<lost, faults>>
  BY DEF Begin, SameStatus, SameObjects, caches, objects, counts, history, gaps
<1>6. a = SeenAgent
  BY DEF a
<1> QED BY <1>2, <1>3, <1>4, <1>5, <1>6

LEMMA IdleFields ==
  /\ Idle.pc = "idle" /\ \A d \in Digest : Idle.ag.record[d] = 0 /\ Idle.base.record[d] = 0
BY DEF Idle, NoAgent

(* Everybody else, users and the Agent's informer apart, leaves the Agent   *)
(* and the pass alone.                                                      *)
Elsewhere == UNCHANGED <<agent, seen, synced, pass, made, adopted, lost, faults>>

LEMMA OthersShape ==
  ASSUME Others
  PROVE  Edit \/ SyncAgent \/ Elsewhere
<1>1. ASSUME NEW n \in Name, BecomesReady(n) \/ TamperWorkload(n) \/ MakeHeadless(n) \/ TamperService(n)
                             \/ TamperCopy(n)
      PROVE  Elsewhere
  BY <1>1 DEF BecomesReady, TamperWorkload, MakeHeadless, TamperService, TamperCopy, Tampers, Elsewhere,
     caches, counts, history, gaps
<1>2. CASE SyncWorkloads \/ SyncServices \/ WindowPasses
  BY <1>2 DEF SyncWorkloads, SyncServices, WindowPasses, Elsewhere, caches, counts, history, gaps
<1> QED BY <1>1, <1>2 DEF Others

-----------------------------------------------------------------------------
(***************************************************************************)
(* The status and the pass.                                                *)
(***************************************************************************)
LEMMA InitStatus == Init => StatusInv
<1> SUFFICES ASSUME Init PROVE StatusInv
  OBVIOUS
<1>1. pass.pc = "idle"
  BY IdleFields DEF Init
<1>2. seen = agent
  BY DEF Init
<1> QED BY <1>1, <1>2 DEF StatusInv, CacheOK, BaseOK, SeenOK, ReadOK, CollectOK, Busy, Collecting

LEMMA StillStatus ==
  ASSUME StatusInv, SameStatus, pass' = pass
  PROVE  StatusInv'
BY DEF StatusInv, CacheOK, BaseOK, SeenOK, ReadOK, CollectOK, Busy, Collecting, SameStatus, Protected

LEMMA StopStatus ==
  ASSUME StatusInv, SameStatus, pass'.pc = "idle"
  PROVE  StatusInv'
BY DEF StatusInv, CacheOK, BaseOK, SeenOK, ReadOK, CollectOK, Busy, Collecting, SameStatus

LEMMA EarlyStatus ==
  ASSUME StatusInv, SameStatus, SameRead, pass.pc \in Early \cup {"write"}, pass'.pc \in Early,
         pass'.ag.active = pass.ag.active, pass'.ag.want = pass.ag.want, pass'.ag.pin = pass.ag.pin
  PROVE  StatusInv'
BY DEF StatusInv, CacheOK, BaseOK, SeenOK, ReadOK, CollectOK, Busy, Collecting, SameStatus, SameRead, Early

LEMMA DecidesStatus ==
  ASSUME StatusInv, NEW act, NEW cand, Decides(act, cand),
         act \in {pass.ag.active, pass.rev}, pass.rev \in {act, cand}
  PROVE  StatusInv'
BY DEF StatusInv, CacheOK, BaseOK, SeenOK, ReadOK, CollectOK, Busy, Collecting, SameStatus, SameRead, Decides

LEMMA PersistStatus ==
  ASSUME TypeOK, StatusInv, persistServiceRecord
  PROVE  StatusInv'
<1>1. pass.base \in Agent /\ agent \in Agent
  BY DEF TypeOK, Pass
<1>2. /\ agent'.active = agent.active /\ agent'.want = agent.want /\ agent'.pin = agent.pin
      /\ pass'.base.active = pass.base.active /\ pass'.base.want = pass.base.want
      /\ pass'.base.pin = pass.base.pin
  BY <1>1, PersistShape, RecordedFields
<1>3. BaseOK'
  BY PersistShape DEF StatusInv, BaseOK, Busy
<1>4. CacheOK'
  BY PersistShape DEF CacheOK
<1> QED BY <1>2, <1>3, <1>4, PersistShape DEF StatusInv, SeenOK, ReadOK, CollectOK, Busy, Collecting, TargetOf

LEMMA WrittenStatus ==
  ASSUME TypeOK, StatusInv, pass.pc \in {"write", "report"}, Written
  PROVE  /\ CacheOK' /\ SeenOK' /\ agent' = pass.ag
<1>1. /\ agent = pass.base /\ pass.rev = TargetOf(pass.base)
      /\ pass.ag.active \in {pass.base.active, pass.rev}
      /\ pass.ag.want = agent.want /\ pass.ag.pin = agent.pin
      /\ Lags => seen.active = agent.active /\ seen.want = agent.want /\ seen.pin = agent.pin
  BY DEF StatusInv, BaseOK, ReadOK, Busy, Collecting, Written
<1>2. pass.ag \in Agent
  BY DEF TypeOK, Pass
<1>3. [pass.ag EXCEPT !.want = agent.want, !.pin = agent.pin] = pass.ag
  BY <1>1, <1>2 DEF Agent
<1>4. agent' = pass.ag
  BY <1>1, <1>3 DEF Written
<1>5. Lags => TargetOf(seen) = pass.rev
  BY <1>1 DEF TargetOf
<1>6. SeenOK'
  BY <1>1, <1>4, <1>5 DEF SeenOK, Written
<1>7. CacheOK'
  BY DEF StatusInv, CacheOK, Written
<1> QED BY <1>4, <1>6, <1>7

LEMMA WriteStatusStatus ==
  ASSUME TypeOK, StatusInv, WriteStatus
  PROVE  StatusInv'
<1>1. pass.pc = "write" /\ writeStatus("collect") /\ seen' = seen
  BY DEF WriteStatus
<1>2. pass.rev \in {pass.ag.active, pass.ag.candidate} /\ agent.active \in {pass.base.active, pass.rev}
  BY <1>1 DEF StatusInv, CollectOK, ReadOK, Busy, Collecting
<1>3. CASE Stop
  BY <1>3, IdleFields, StopStatus DEF Stop
<1>4. CASE Written /\ Rebased("collect")
  BY <1>1, <1>2, <1>4, WrittenStatus
     DEF StatusInv, BaseOK, ReadOK, CollectOK, Busy, Collecting, Rebased
<1>5. CASE Passes /\ Rebased("collect")
  BY <1>1, <1>2, <1>5
     DEF StatusInv, CacheOK, SeenOK, BaseOK, ReadOK, CollectOK, Busy, Collecting, Rebased, Passes, SameStatus
<1> QED BY <1>1, <1>3, <1>4, <1>5, WriteShape

LEMMA ReportStatus ==
  ASSUME TypeOK, StatusInv, Report
  PROVE  StatusInv'
<1>1. pass.pc = "report" /\ writeStatus("idle") /\ seen' = seen
  BY DEF Report
<1>2. CASE Stop
  BY <1>2, IdleFields, StopStatus DEF Stop
<1>3. CASE Written /\ pass' = Idle
  BY <1>1, <1>3, WrittenStatus, IdleFields DEF StatusInv, BaseOK, ReadOK, CollectOK, Busy, Collecting
<1>4. CASE Passes /\ pass' = Idle
  BY <1>4, IdleFields, StopStatus DEF Passes
<1> QED BY <1>1, <1>2, <1>3, <1>4, WriteShape

LEMMA GarbageStatus ==
  ASSUME TypeOK, StatusInv, collectGarbage
  PROVE  StatusInv'
<1>1. Protected' = Protected
  BY GarbageShape DEF Protected
<1>2. Protected \subseteq Keep /\ (Retainable \ Retained) \cap Protected = {}
  BY DEF Keep, Retainable
<1> QED BY <1>1, <1>2, GarbageShape
        DEF StatusInv, CacheOK, SeenOK, BaseOK, ReadOK, CollectOK, Busy, Collecting, SameStatus, SameRead

LEMMA GatherStatus ==
  ASSUME StatusInv, SameStatus, SameRead, pass'.ag = pass.ag,
         pass.pc \in {"copies", "services"}, pass'.pc \in {"copies", "services", "prune"},
         pass'.keep = pass.keep, pass'.pc = "copies" => pass.pc = "copies" /\ pass'.drop \subseteq pass.drop
  PROVE  StatusInv'
<1>1. Protected' = Protected
  BY DEF Protected
<1> QED BY <1>1
        DEF StatusInv, CacheOK, SeenOK, BaseOK, ReadOK, CollectOK, Busy, Collecting, SameStatus, SameRead

LEMMA PruneStatus ==
  ASSUME TypeOK, StatusInv, Prune
  PROVE  StatusInv'
<1>1. pass'.pc = "idle"
  BY PruneShape, IdleFields
<1>2. CASE SameStatus
  BY <1>1, <1>2, StopStatus
<1>3. CASE ~pass.stale /\ agent' = Pruned(pass.ag) /\ synced' = ~Lags /\ seen' = seen
  <2>1. pass.pc = "prune" /\ pass.ag \in Agent
    BY PruneShape DEF TypeOK, Pass
  <2>2. agent = pass.ag
    BY <1>3, <2>1 DEF StatusInv, BaseOK, CollectOK, Busy, Collecting
  <2>3. agent'.active = agent.active
    BY <1>3, <2>1, <2>2, PrunedFields
  <2> QED BY <1>1, <1>3, <2>3
          DEF StatusInv, CacheOK, SeenOK, BaseOK, ReadOK, CollectOK, Busy, Collecting
<1> QED BY <1>2, <1>3, PruneShape

LEMMA EditStatus ==
  ASSUME TypeOK, StatusInv, Edit
  PROVE  StatusInv'
<1>1. Protected' = Protected
  BY EditShape DEF Protected
<1> QED BY <1>1, EditShape
        DEF StatusInv, CacheOK, SeenOK, BaseOK, ReadOK, CollectOK, Busy, Collecting

LEMMA SyncStatus ==
  ASSUME TypeOK, StatusInv, SyncAgent
  PROVE  StatusInv'
<1>1. Protected' = Protected
  BY DEF Protected, SyncAgent
<1> QED BY <1>1
        DEF StatusInv, CacheOK, SeenOK, BaseOK, ReadOK, CollectOK, Busy, Collecting, SyncAgent

LEMMA BeginStatus ==
  ASSUME TypeOK, StatusInv, Begin
  PROVE  StatusInv'
<1>1. CASE Lags
  <2>1. SeenAgent = seen
    BY <1>1 DEF SeenAgent
  <2>2. ~pass'.stale => agent = seen
    BY <1>1, BeginShape DEF StatusInv, CacheOK
  <2>3. /\ pass'.base = seen /\ pass'.rev = TargetOf(seen) /\ pass'.ag.active = seen.active
        /\ pass'.ag.want = seen.want /\ pass'.ag.pin = seen.pin
        /\ pass'.pc \in {"material", "switch", "report"} /\ SameStatus
    BY <2>1, BeginShape
  <2>4. ReadOK'
    BY <1>1, <2>2, <2>3 DEF StatusInv, SeenOK, ReadOK, SameStatus
  <2>5. CacheOK' /\ SeenOK' /\ BaseOK' /\ CollectOK'
    BY <2>2, <2>3 DEF StatusInv, CacheOK, SeenOK, BaseOK, CollectOK, Collecting, SameStatus
  <2> QED BY <2>4, <2>5 DEF StatusInv
<1>2. CASE ~Lags
  <2>1. SeenAgent = agent
    BY <1>2 DEF SeenAgent
  <2> QED BY <1>2, <2>1, BeginShape
          DEF StatusInv, CacheOK, SeenOK, BaseOK, ReadOK, CollectOK, Busy, Collecting, SameStatus
<1> QED BY <1>1, <1>2

LEMMA StatusStep == ASSUME TypeOK, StatusInv, [Next]_vars PROVE StatusInv'
<1>1. CASE ensureRevisionMaterial
  BY <1>1, MaterialShape, EarlyStatus DEF Walk, SameClaim, Early
<1>2. CASE ensureWorkload
  BY <1>2, WorkloadShape, EarlyStatus, StopStatus, IdleFields DEF Walk, SameClaim, Early, Stop
<1>3. CASE ensureService
  <2>1. pass.pc = "service" /\ pass'.pc \in {"record", "switch", "report", "wipe"}
        /\ SameStatus /\ SameRead /\ SameClaim
    BY <1>3, ServiceShape DEF ServiceCreates, ServiceAdopts, ServiceRefuses, Notes, Walk
  <2> QED BY <2>1, EarlyStatus DEF SameClaim, Early
<1>4. CASE replaceDeletes
  BY <1>4, WipeShape, EarlyStatus DEF Walk, SameClaim, Early
<1>5. CASE replaceCreates
  <2>1. pass.pc = "recreate" /\ pass'.pc \in {"record", "report"} /\ SameStatus /\ SameRead /\ SameClaim
    BY <1>5, RecreateShape DEF Notes, Walk
  <2> QED BY <2>1, EarlyStatus DEF SameClaim, Early
<1>6. CASE RecordRides
  BY <1>6, RidesShape, EarlyStatus DEF Walk, SameClaim, Early
<1>7. CASE GatewayFails
  BY <1>7, GatewayShape, EarlyStatus DEF Walk, SameClaim, Early
<1>8. CASE NotAvailable
  BY <1>8, NotAvailableShape, DecidesStatus
<1>9. CASE Held
  BY <1>9, HeldShape, DecidesStatus
<1>10. CASE Promote
  BY <1>10, PromoteShape, DecidesStatus
<1>11. ASSUME NEW n \in Name, CollectWorkload(n) PROVE StatusInv'
  BY <1>11, CollectShape, GatherStatus
<1>12. CASE collectRevisionMaterial
  BY <1>12, SweepShape, GatherStatus
<1>13. CASE collectRevisionServices
  BY <1>13, ServicesShape, GatherStatus
<1>14. CASE Fail
  BY <1>14, FailShape, StopStatus, IdleFields DEF Stop
<1>15. CASE Others
  BY <1>15, OthersShape, EditStatus, SyncStatus, StillStatus DEF Elsewhere, SameStatus
<1>16. CASE UNCHANGED vars
  BY <1>16, StillStatus DEF vars, caches, SameStatus
<1>17. CASE Worker
  BY <1>17, <1>1, <1>2, <1>3, <1>4, <1>5, <1>8, <1>9, <1>10, <1>11, <1>12, <1>13, BeginStatus,
     PersistStatus, WriteStatusStatus, ReportStatus, GarbageStatus, PruneStatus DEF Worker
<1> QED BY <1>6, <1>7, <1>14, <1>15, <1>16, <1>17 DEF Next

-----------------------------------------------------------------------------
(***************************************************************************)
(* UIDs and records.                                                       *)
(***************************************************************************)
LEMMA InitIssued == Init => Issued
<1> SUFFICES ASSUME Init PROVE Issued
  OBVIOUS
<1>1. PICK e \in Digest : agent = NoAgent(e)
  BY DEF Init
<1>2. \A d \in Digest : agent.record[d] = 0
  BY <1>1 DEF NoAgent
<1>3. \A n \in Name : svc[n].uid = 0
  BY DEF Init, NoService
<1> QED BY <1>2, <1>3, IdleFields DEF Init, Issued

(* No record is of anything new. *)
Carries ==
  \A d \in Digest :
    LET old == {0, agent.record[d], seen.record[d], pass.ag.record[d], pass.base.record[d]} IN
    /\ agent'.record[d] \in old /\ seen'.record[d] \in old
    /\ pass'.ag.record[d] \in old /\ pass'.base.record[d] \in old

LEMMA CarriesIssued ==
  ASSUME TypeOK, Issued, Carries, uids' \in Nat, uids <= uids',
         \A n \in Name : svc'[n].uid \in Nat /\ svc'[n].uid <= uids',
         pass'.pc # "record"
  PROVE  Issued'
<1>1. ASSUME NEW d \in Digest
      PROVE  /\ agent'.record[d] <= uids' /\ seen'.record[d] <= uids'
             /\ pass'.ag.record[d] <= uids' /\ pass'.base.record[d] <= uids'
  <2>1. /\ agent.record[d] \in Nat /\ seen.record[d] \in Nat
        /\ pass.ag.record[d] \in Nat /\ pass.base.record[d] \in Nat
        /\ uids \in Nat
    BY DEF TypeOK, Pass, Agent
  <2>2. /\ agent.record[d] <= uids' /\ seen.record[d] <= uids'
        /\ pass.ag.record[d] <= uids' /\ pass.base.record[d] <= uids'
        /\ 0 <= uids'
    BY <2>1 DEF Issued
  <2> QED BY <2>2 DEF Carries
<1> QED BY <1>1 DEF Issued

(* What becomes of the Services: one goes, stays the object it is, or a new *)
(* one takes the next UID.                                                  *)
SvcMoves ==
  /\ uids' \in Nat /\ uids <= uids'
  /\ \A n \in Name : \/ svc'[n].uid \in {0, svc[n].uid}
                     \/ svc'[n].uid = uids + 1 /\ uids' = uids + 1

LEMMA SvcStill == ASSUME TypeOK, svc' = svc, uids' = uids PROVE SvcMoves
BY DEF TypeOK, SvcMoves

LEMMA SvcChanged ==
  ASSUME TypeOK, NEW k \in Name, NEW s, svc' = [svc EXCEPT ![k] = s],
         \/ s.uid \in {0, svc[k].uid} /\ uids' = uids
         \/ s.uid = uids + 1 /\ uids' = uids + 1
  PROVE  SvcMoves
<1>1. uids \in Nat /\ svc \in [Name -> Service]
  BY DEF TypeOK
<1>2. \A n \in Name : svc'[n] = IF n = k THEN s ELSE svc[n]
  BY <1>1
<1> QED BY <1>1, <1>2 DEF SvcMoves

LEMMA CreatesMoves == ASSUME TypeOK, CreateService PROVE SvcMoves
BY AtTyped, SvcChanged DEF CreateService

LEMMA OthersMove == ASSUME TypeOK, Others PROVE SvcMoves
<1>1. ASSUME NEW n \in Name, MakeHeadless(n) PROVE SvcMoves
  <2>1. PICK s \in {svc[n], [svc[n] EXCEPT !.stamp = None, !.own = FALSE]} :
          svc' = [svc EXCEPT ![n] = [s EXCEPT !.shape = "headless"]]
    BY <1>1 DEF MakeHeadless
  <2>2. svc[n] \in Service
    BY DEF TypeOK
  <2>3. [s EXCEPT !.shape = "headless"].uid = svc[n].uid
    BY <2>1, <2>2 DEF Service
  <2> QED BY <1>1, <2>1, <2>3, SvcChanged DEF MakeHeadless
<1>2. ASSUME NEW n \in Name, TamperService(n) PROVE SvcMoves
  <2>1. svc[n] \in Service
    BY DEF TypeOK
  <2>2. ASSUME NEW s \in {[svc[n] EXCEPT !.shape = "drift"], [svc[n] EXCEPT !.stamp = None, !.own = FALSE], NoService},
               svc' = [svc EXCEPT ![n] = s], UNCHANGED uids
        PROVE  SvcMoves
    <3>1. s.uid \in {0, svc[n].uid}
      <4>1. /\ [svc[n] EXCEPT !.shape = "drift"].uid = svc[n].uid
            /\ [svc[n] EXCEPT !.stamp = None, !.own = FALSE].uid = svc[n].uid
        BY <2>1 DEF Service
      <4>2. NoService.uid = 0
        BY DEF NoService
      <4> QED BY <2>2, <4>1, <4>2
    <3> QED BY <2>2, <3>1, SvcChanged
  <2>3. ASSUME uids' = uids + 1, NEW o \in BOOLEAN, NEW d \in Digest, NEW sh \in {"rendered", "headless"},
             svc' = [svc EXCEPT ![n] = [uid |-> uids + 1, own |-> o, stamp |-> d, shape |-> sh]]
        PROVE  SvcMoves
    BY <2>3, SvcChanged
  <2> QED BY <1>2, <2>2, <2>3 DEF TamperService
<1>3. ASSUME NEW n \in Name, BecomesReady(n) \/ TamperWorkload(n) \/ TamperCopy(n) PROVE SvcMoves
  BY <1>3, SvcStill DEF BecomesReady, TamperWorkload, TamperCopy
<1>4. CASE Edit \/ SyncAgent \/ SyncWorkloads \/ SyncServices \/ WindowPasses
  BY <1>4, SvcStill DEF Edit, SyncAgent, SyncWorkloads, SyncServices, WindowPasses, objects
<1> QED BY <1>1, <1>2, <1>3, <1>4 DEF Others

LEMMA SvcStep == ASSUME TypeOK, [Next]_vars PROVE SvcMoves
<1>1. CASE ensureService
  <2>1. CASE ServiceCreates
    BY <2>1, CreatesMoves DEF ServiceCreates
  <2>2. CASE ServiceAdopts
    BY <2>2, AtTyped, SvcChanged DEF ServiceAdopts
  <2>3. CASE ServiceRefuses
    BY <2>3, SvcStill DEF ServiceRefuses
  <2> QED BY <1>1, <2>1, <2>2, <2>3, ServiceShape
<1>2. CASE replaceDeletes
  <2>1. NoService.uid = 0
    BY DEF NoService
  <2> QED BY <1>2, <2>1, WipeShape, AtTyped, SvcChanged, SvcStill
<1>3. CASE replaceCreates
  BY <1>3, RecreateShape, CreatesMoves, SvcStill
<1>4. CASE collectRevisionServices
  BY <1>4 DEF collectRevisionServices, NoService, TypeOK, SvcMoves
<1>5. CASE WriteStatus \/ Report \/ Begin \/ collectGarbage \/ NotAvailable \/ Held \/ Promote \/ persistServiceRecord
            \/ Prune \/ RecordRides \/ GatewayFails \/ Fail
  BY <1>5, SvcStill DEF WriteStatus, Report, Begin, collectGarbage, NotAvailable, Held, Promote,
     persistServiceRecord, Prune, RecordRides, GatewayFails, Fail, objects
<1>6. CASE ensureRevisionMaterial \/ ensureWorkload \/ collectRevisionMaterial \/ \E n \in Name : CollectWorkload(n)
  BY <1>6, SvcStill DEF ensureRevisionMaterial, ensureWorkload, collectRevisionMaterial, CollectWorkload
<1>7. CASE UNCHANGED vars
  BY <1>7, SvcStill DEF vars, objects
<1> QED BY <1>1, <1>2, <1>3, <1>4, <1>5, <1>6, <1>7, OthersMove DEF Next, Worker

(* A Service that stands after a step stood before it, or is new. *)
LEMMA StoodBefore ==
  ASSUME TypeOK, Issued, SvcMoves, NEW m \in made, lost \subseteq lost', Stands(m)'
  PROVE  Stands(m)
<1>1. m.uid \in 1..uids /\ m.for \in Digest /\ uids \in Nat
  BY DEF TypeOK
<1>2. NameOf[m.for] \in Name
  BY <1>1, ConstantsAssumption
<1>3. svc'[NameOf[m.for]].uid = m.uid /\ m.uid # 0 /\ m.uid # uids + 1 /\ m.uid \notin lost
  BY <1>1 DEF Stands
<1> QED BY <1>2, <1>3 DEF SvcMoves, Stands

LEMMA MovesIssued ==
  ASSUME TypeOK, Issued, SvcMoves
  PROVE  \A n \in Name : svc'[n].uid \in Nat /\ svc'[n].uid <= uids'
<1> SUFFICES ASSUME NEW n \in Name PROVE svc'[n].uid \in Nat /\ svc'[n].uid <= uids'
  OBVIOUS
<1>1. svc[n].uid \in Nat /\ uids \in Nat /\ svc[n].uid <= uids
  BY DEF TypeOK, Service, Issued
<1> QED BY <1>1 DEF SvcMoves

(* What is known stays known, and no record is of anything else. *)
LEMMA CarriesKnown ==
  ASSUME TypeOK, KnownOK, Carries, made \subseteq made', adopted \subseteq adopted'
  PROVE  KnownOK'
<1>1. Known \subseteq Known'
  BY DEF Known, Created
<1>2. 0 \in Known
  BY DEF Known
<1> QED BY <1>1, <1>2 DEF KnownOK, Carries

(* A step of a pass that changes no record. *)
LEMMA WalkRecord ==
  ASSUME TypeOK, Issued, RecordInv, SvcMoves, SameStatus, SameRead, pass'.ag.record = pass.ag.record,
         Busy, Busy', pass'.pc # "record", made' = made, adopted \subseteq adopted', lost \subseteq lost',
         pass.pc = "record" => pass.ag.record[pass.rev] \in lost',
         pass'.pc = "wipe" => pass.ag.record[pass.rev] # 0
  PROVE  Issued' /\ RecordInv'
<1>1. Carries
  BY DEF Carries, SameStatus, SameRead
<1>2. Issued'
  BY <1>1, CarriesIssued, MovesIssued DEF SvcMoves
<1>3. KnownOK'
  BY <1>1, CarriesKnown DEF RecordInv
<1>4. WipeOK' /\ OthersKept' /\ RecordsNew'
  BY DEF RecordInv, WipeOK, OthersKept, RecordsNew, SameRead
<1>5. OnRecord'
  <2> SUFFICES ASSUME NEW m \in made, Stands(m)'
               PROVE  /\ agent'.record[m.for] = m.uid
                      /\ ~pass'.stale => pass'.ag.record[m.for] = m.uid
    BY DEF OnRecord
  <2>1. Stands(m)
    BY StoodBefore
  <2>2. ~(pass.pc = "record" /\ pass.rev = m.for)
    <3> SUFFICES ASSUME pass.pc = "record", pass.rev = m.for PROVE FALSE
      OBVIOUS
    <3>1. svc[At].uid = m.uid /\ m.uid \in Created
      BY <2>1 DEF Stands, At, Created
    <3>2. m.uid \in lost'
      BY <3>1 DEF RecordInv, RecordsNew
    <3> QED BY <3>2 DEF Stands
  <2> QED BY <2>1, <2>2 DEF RecordInv, OnRecord, SameStatus, SameRead
<1> QED BY <1>2, <1>3, <1>4, <1>5 DEF RecordInv

(* The pass ends; what it could not record is lost. *)
LEMMA StopRecord ==
  ASSUME TypeOK, Issued, RecordInv, SvcMoves, SameStatus, pass' = Idle,
         made' = made, adopted' = adopted, lost \subseteq lost',
         pass.pc = "record" => pass.ag.record[pass.rev] \in lost'
  PROVE  Issued' /\ RecordInv'
<1>0. pass'.pc = "idle"
  BY IdleFields
<1>1. Carries
  BY IdleFields DEF Carries, SameStatus
<1>2. Issued'
  BY <1>0, <1>1, CarriesIssued, MovesIssued DEF SvcMoves
<1>3. KnownOK'
  BY <1>1, CarriesKnown DEF RecordInv
<1>4. WipeOK' /\ OthersKept' /\ RecordsNew'
  BY <1>0 DEF WipeOK, OthersKept, RecordsNew, Busy
<1>5. OnRecord'
  <2> SUFFICES ASSUME NEW m \in made, Stands(m)'
               PROVE  agent'.record[m.for] = m.uid
    BY <1>0 DEF OnRecord, Busy
  <2>1. Stands(m)
    BY StoodBefore
  <2>2. ~(pass.pc = "record" /\ pass.rev = m.for)
    <3> SUFFICES ASSUME pass.pc = "record", pass.rev = m.for PROVE FALSE
      OBVIOUS
    <3>1. svc[At].uid = m.uid /\ m.uid \in Created
      BY <2>1 DEF Stands, At, Created
    <3>2. m.uid \in lost'
      BY <3>1 DEF RecordInv, RecordsNew
    <3> QED BY <3>2 DEF Stands
  <2> QED BY <2>1, <2>2 DEF RecordInv, OnRecord, SameStatus
<1> QED BY <1>2, <1>3, <1>4, <1>5 DEF RecordInv

(* The pass and the records stay as they are. *)
LEMMA StillRecord ==
  ASSUME TypeOK, Issued, RecordInv, SvcMoves,
         agent'.record = agent.record, seen'.record \in {agent.record, seen.record},
         pass'.pc = pass.pc, pass'.ag = pass.ag, pass'.base = pass.base, pass'.rev = pass.rev,
         Busy => (pass'.stale = pass.stale \/ pass'.stale),
         made' = made, adopted' = adopted, lost' = lost
  PROVE  Issued' /\ RecordInv'
<1>1. Carries
  BY DEF Carries
<1>2. Issued'
  <2>1. CASE pass'.pc # "record"
    BY <1>1, <2>1, CarriesIssued, MovesIssued DEF SvcMoves
  <2>2. CASE pass'.pc = "record"
    <3>1. pass.ag.record[pass.rev] # 0
      BY <2>2 DEF Issued
    <3>2. ASSUME NEW d \in Digest
          PROVE  /\ agent'.record[d] <= uids' /\ seen'.record[d] <= uids'
                 /\ pass'.ag.record[d] <= uids' /\ pass'.base.record[d] <= uids'
      <4>1. /\ agent.record[d] \in Nat /\ seen.record[d] \in Nat
            /\ pass.ag.record[d] \in Nat /\ pass.base.record[d] \in Nat
            /\ uids \in Nat
        BY DEF TypeOK, Pass, Agent
      <4> QED BY <4>1 DEF Issued, SvcMoves
    <3> QED BY <3>1, <3>2, MovesIssued DEF Issued
  <2> QED BY <2>1, <2>2
<1>3. KnownOK'
  BY <1>1, CarriesKnown DEF RecordInv
<1>4. WipeOK' /\ OthersKept'
  BY DEF RecordInv, WipeOK, OthersKept, Busy
<1>5. RecordsNew'
  <2> SUFFICES ASSUME pass.pc = "record", svc'[At].uid \in Created
               PROVE  svc'[At].uid = pass.ag.record[pass.rev]
    BY DEF RecordsNew, At, Created
  <2>1. PICK m \in made : m.uid = svc'[At].uid
    BY DEF Created
  <2>2. m.uid \in 1..uids /\ uids \in Nat /\ At \in Name
    BY AtTyped DEF TypeOK
  <2>3. svc'[At].uid = svc[At].uid
    BY <2>1, <2>2 DEF SvcMoves
  <2> QED BY <2>3 DEF RecordInv, RecordsNew
<1>6. OnRecord'
  <2> SUFFICES ASSUME NEW m \in made, Stands(m)', ~(pass'.pc = "record" /\ pass'.rev = m.for)
               PROVE  /\ agent'.record[m.for] = m.uid
                      /\ Busy' /\ ~pass'.stale => pass'.ag.record[m.for] = m.uid
    BY DEF OnRecord
  <2>1. Stands(m)
    BY StoodBefore
  <2> QED BY <2>1 DEF RecordInv, OnRecord, Busy
<1> QED BY <1>2, <1>3, <1>4, <1>5, <1>6 DEF RecordInv

(* A Service is created: a new UID, of this revision, at its name. *)
LEMMA CreateRecord ==
  ASSUME TypeOK, Issued, RecordInv, SvcMoves, CreateService, lost' = lost,
         NEW from, from # "record", from # "idle", Notes(from, "record", uids + 1)
  PROVE  Issued' /\ RecordInv'
<1> DEFINE new == [uid |-> uids + 1, for |-> pass.rev]
<1>1. /\ uids \in Nat /\ uids' = uids + 1 /\ made' = made \cup {new} /\ adopted' = adopted
      /\ At \in Name /\ pass.rev \in Digest
  BY AtTyped DEF TypeOK, CreateService
<1>2. /\ pass.ag.record \in [Digest -> Nat] /\ pass.base.record \in [Digest -> Nat]
      /\ agent.record \in [Digest -> Nat] /\ seen.record \in [Digest -> Nat]
  BY DEF TypeOK, Pass, Agent
<1>3. svc' = [svc EXCEPT ![At] = [uid |-> uids + 1, own |-> TRUE, stamp |-> pass.rev, shape |-> "rendered"]]
  BY DEF CreateService
<1>4. svc'[At].uid = uids + 1
  BY <1>1, <1>3 DEF TypeOK
<1>5. /\ pass'.pc = "record" /\ pass'.rev = pass.rev /\ pass'.base = pass.base /\ pass'.stale = pass.stale
      /\ pass'.ag.record = [pass.ag.record EXCEPT ![pass.rev] = uids + 1]
      /\ agent' = agent /\ seen' = seen /\ pass.pc = from
  BY DEF Notes, SameStatus, SameRead
<1>6. Issued'
  <2>1. ASSUME NEW d \in Digest
        PROVE  /\ agent'.record[d] <= uids' /\ seen'.record[d] <= uids'
               /\ pass'.ag.record[d] <= uids' /\ pass'.base.record[d] <= uids'
    BY <1>1, <1>2, <1>5 DEF Issued
  <2>2. pass'.ag.record[pass'.rev] # 0
    BY <1>1, <1>2, <1>5
  <2> QED BY <2>1, <2>2, MovesIssued DEF Issued
<1>7. KnownOK'
  <2>0. new \in made' /\ new.uid = uids + 1 /\ made \subseteq made'
    BY <1>1
  <2>1. Known \subseteq Known' /\ uids + 1 \in Known'
    <3> HIDE DEF new
    <3> QED BY <2>0, <1>1 DEF Known, Created
  <2> QED BY <2>1, <1>1, <1>2, <1>5 DEF RecordInv, KnownOK
<1>8. WipeOK' /\ OthersKept' /\ RecordsNew'
  <2>1. At' = At
    BY <1>5 DEF At
  <2>2. RecordsNew'
    BY <2>1, <1>1, <1>2, <1>4, <1>5 DEF RecordsNew
  <2>3. Busy
    BY <1>5 DEF Busy
  <2> QED BY <2>2, <2>3, <1>1, <1>2, <1>5 DEF RecordInv, WipeOK, OthersKept
<1>9. OnRecord'
  <2> SUFFICES ASSUME NEW m \in made', Stands(m)', m.for # pass.rev
               PROVE  /\ agent'.record[m.for] = m.uid
                      /\ ~pass'.stale => pass'.ag.record[m.for] = m.uid
    BY <1>5 DEF OnRecord
  <2>1. m \in made
    BY <1>1
  <2>2. Stands(m)
    BY <2>1, StoodBefore
  <2>3. m.for \in Digest
    BY <2>1 DEF TypeOK
  <2>4. Busy
    BY <1>5 DEF Busy
  <2> QED BY <2>1, <2>2, <2>3, <2>4, <1>1, <1>2, <1>5 DEF RecordInv, OnRecord
<1> QED BY <1>6, <1>7, <1>8, <1>9 DEF RecordInv

(* A Service is adopted where nothing is on record. *)
LEMMA AdoptRecord ==
  ASSUME TypeOK, Issued, RecordInv, SvcMoves, ServiceAdopts, lost' = lost,
         pass.ag.record[pass.rev] = 0, Notes("service", "switch", svc[At].uid)
  PROVE  Issued' /\ RecordInv'
<1> DEFINE u == svc[At].uid
<1>1. /\ uids \in Nat /\ uids' = uids /\ made' = made /\ adopted' = adopted \cup ({u} \ Created)
      /\ At \in Name /\ pass.rev \in Digest /\ u \in Nat /\ u <= uids
  BY AtTyped DEF TypeOK, ServiceAdopts, Issued, Service
<1>2. /\ pass.ag.record \in [Digest -> Nat] /\ pass.base.record \in [Digest -> Nat]
      /\ agent.record \in [Digest -> Nat] /\ seen.record \in [Digest -> Nat]
  BY DEF TypeOK, Pass, Agent
<1>5. /\ pass'.pc = "switch" /\ pass'.rev = pass.rev /\ pass'.base = pass.base /\ pass'.stale = pass.stale
      /\ pass'.ag.record = [pass.ag.record EXCEPT ![pass.rev] = u]
      /\ agent' = agent /\ seen' = seen /\ pass.pc = "service"
  BY DEF Notes, SameStatus, SameRead
<1>6. Issued'
  <2>1. ASSUME NEW d \in Digest
        PROVE  /\ agent'.record[d] <= uids' /\ seen'.record[d] <= uids'
               /\ pass'.ag.record[d] <= uids' /\ pass'.base.record[d] <= uids'
    BY <1>1, <1>2, <1>5 DEF Issued
  <2> QED BY <2>1, <1>5, MovesIssued DEF Issued
<1>7. KnownOK'
  <2>1. Known \subseteq Known' /\ u \in Known'
    BY <1>1 DEF Known, Created
  <2> QED BY <2>1, <1>1, <1>2, <1>5 DEF RecordInv, KnownOK
<1>8. WipeOK' /\ OthersKept' /\ RecordsNew'
  <2>1. Busy
    BY <1>5 DEF Busy
  <2> QED BY <2>1, <1>1, <1>2, <1>5 DEF RecordInv, WipeOK, OthersKept, RecordsNew
<1>9. OnRecord'
  <2> SUFFICES ASSUME NEW m \in made, Stands(m)'
               PROVE  /\ agent'.record[m.for] = m.uid
                      /\ ~pass'.stale => pass'.ag.record[m.for] = m.uid
    BY <1>1 DEF OnRecord
  <2>2. Stands(m)
    BY StoodBefore
  <2>3. m.for \in Digest
    BY DEF TypeOK
  <2>4. Busy
    BY <1>5 DEF Busy
  <2>5. agent.record[m.for] = m.uid /\ (~pass.stale => pass.ag.record[m.for] = m.uid)
    BY <2>2, <2>4, <1>5 DEF RecordInv, OnRecord
  <2>6. m.for = pass.rev => m.uid = u
    BY <2>2 DEF Stands, At
  <2> QED BY <2>3, <2>5, <2>6, <1>1, <1>2, <1>5
<1> QED BY <1>6, <1>7, <1>8, <1>9 DEF RecordInv

(* The new record reaches the Agent, whatever the Agent is by now. *)
LEMMA PersistRecord ==
  ASSUME TypeOK, Issued, RecordInv, StatusInv, SvcMoves, persistServiceRecord
  PROVE  Issued' /\ RecordInv'
<1>1. /\ pass.ag.record \in [Digest -> Nat] /\ pass.base.record \in [Digest -> Nat]
      /\ agent.record \in [Digest -> Nat] /\ seen.record \in [Digest -> Nat]
      /\ pass.rev \in Digest /\ agent \in Agent /\ pass.base \in Agent
  BY AtTyped DEF TypeOK, Pass, Agent
<1>2. /\ agent'.record = [agent.record EXCEPT ![pass.rev] = pass.ag.record[pass.rev]]
      /\ pass.stale => pass'.base = pass.base
      /\ ~pass.stale => pass'.base.record = [pass.base.record EXCEPT ![pass.rev] = pass.ag.record[pass.rev]]
  BY <1>1, PersistShape, RecordedFields
<1>3. /\ pass.pc = "record" /\ pass'.pc = "switch" /\ seen' = seen /\ pass'.ag = pass.ag
      /\ pass'.stale = pass.stale /\ pass'.rev = pass.rev
      /\ svc' = svc /\ made' = made /\ adopted' = adopted /\ lost' = lost
  BY PersistShape DEF SameObjects
<1>4. Carries
  BY <1>1, <1>2, <1>3 DEF Carries
<1>5. Issued'
  BY <1>3, <1>4, CarriesIssued, MovesIssued DEF SvcMoves
<1>6. KnownOK'
  BY <1>3, <1>4, CarriesKnown DEF RecordInv
<1>7. WipeOK' /\ OthersKept' /\ RecordsNew'
  <2>1. OthersKept'
    BY <1>1, <1>2, <1>3 DEF RecordInv, OthersKept, Busy
  <2> QED BY <2>1, <1>3 DEF WipeOK, RecordsNew
<1>8. OnRecord'
  <2> SUFFICES ASSUME NEW m \in made, Stands(m)'
               PROVE  /\ agent'.record[m.for] = m.uid
                      /\ ~pass'.stale => pass'.ag.record[m.for] = m.uid
    BY <1>3 DEF OnRecord
  <2>1. Stands(m) /\ m.for \in Digest
    BY <1>3 DEF Stands, TypeOK
  <2>2. CASE m.for = pass.rev
    <3>1. svc[At].uid = m.uid /\ m.uid \in Created
      BY <2>1, <2>2 DEF Stands, At, Created
    <3>2. m.uid = pass.ag.record[pass.rev]
      BY <3>1, <1>3 DEF RecordInv, RecordsNew
    <3> QED BY <3>2, <2>2, <1>1, <1>2, <1>3
  <2>3. CASE m.for # pass.rev
    BY <2>1, <2>3, <1>1, <1>2, <1>3 DEF RecordInv, OnRecord, Busy
  <2> QED BY <2>2, <2>3
<1> QED BY <1>5, <1>6, <1>7, <1>8 DEF RecordInv

LEMMA WriteRecord ==
  ASSUME TypeOK, Issued, RecordInv, StatusInv, SvcMoves, pass.pc \in {"write", "report"},
         Written \/ Passes, pass' = Idle \/ Rebased("collect"),
         made' = made, adopted' = adopted, lost' = lost
  PROVE  Issued' /\ RecordInv'
<1>1. Written => agent' = pass.ag /\ seen' = seen /\ ~pass.stale
  BY WrittenStatus DEF Written
<1>2. Passes => agent' = agent /\ seen' = seen /\ pass.stale
  BY DEF Passes, SameStatus
<1>3. pass'.pc \in {"idle", "collect"}
  BY IdleFields DEF Rebased
<1>4. Carries
  BY <1>1, <1>2, IdleFields DEF Carries, Rebased
<1>5. Issued'
  BY <1>3, <1>4, CarriesIssued, MovesIssued DEF SvcMoves
<1>6. KnownOK'
  BY <1>4, CarriesKnown DEF RecordInv
<1>7. WipeOK' /\ OthersKept' /\ RecordsNew'
  <2>1. CASE pass' = Idle
    BY <2>1, IdleFields DEF WipeOK, OthersKept, RecordsNew, Busy
  <2>2. CASE Rebased("collect")
    BY <2>2 DEF Rebased, WipeOK, OthersKept, RecordsNew
  <2> QED BY <2>1, <2>2
<1>8. OnRecord'
  <2> SUFFICES ASSUME NEW m \in made, Stands(m)'
               PROVE  /\ agent'.record[m.for] = m.uid
                      /\ Busy' /\ ~pass'.stale => pass'.ag.record[m.for] = m.uid
    BY DEF OnRecord
  <2>1. Stands(m)
    BY StoodBefore
  <2>2. agent.record[m.for] = m.uid /\ (~pass.stale => pass.ag.record[m.for] = m.uid)
    BY <2>1 DEF RecordInv, OnRecord, Busy
  <2>3. Busy' => Rebased("collect")
    BY IdleFields DEF Busy
  <2> QED BY <1>1, <1>2, <2>2, <2>3 DEF Rebased
<1> QED BY <1>5, <1>6, <1>7, <1>8 DEF RecordInv

LEMMA PruneRecord ==
  ASSUME TypeOK, Issued, RecordInv, StatusInv, SvcMoves, Prune
  PROVE  Issued' /\ RecordInv'
<1>1. pass.pc = "prune" /\ pass' = Idle /\ made' = made /\ adopted' = adopted /\ svc' = svc
  BY PruneShape DEF SameObjects
<1>2. CASE SameStatus /\ lost' = lost
  BY <1>1, <1>2, StopRecord
<1>3. CASE ~pass.stale /\ agent' = Pruned(pass.ag) /\ seen' = seen /\ lost' = lost \cup Forgotten
  <2>1. pass.ag \in Agent
    BY DEF TypeOK, Pass
  <2>2. \A d \in Digest : agent'.record[d] = IF NameOf[d] \in pass.keep THEN pass.ag.record[d] ELSE 0
    BY <1>3, <2>1, PrunedFields
  <2>3. Carries
    BY <1>1, <1>3, <2>2, IdleFields DEF Carries
  <2>4. Issued'
    BY <1>1, <2>3, IdleFields, CarriesIssued, MovesIssued DEF SvcMoves
  <2>5. KnownOK'
    BY <1>1, <2>3, CarriesKnown DEF RecordInv
  <2>6. WipeOK' /\ OthersKept' /\ RecordsNew'
    BY <1>1, IdleFields DEF WipeOK, OthersKept, RecordsNew, Busy
  <2>7. OnRecord'
    <3> SUFFICES ASSUME NEW m \in made, Stands(m)'
                 PROVE  agent'.record[m.for] = m.uid
      BY <1>1, IdleFields DEF OnRecord, Busy
    <3>1. Stands(m) /\ m.for \in Digest /\ m.uid \in 1..uids /\ uids \in Nat
      BY <1>3, StoodBefore DEF TypeOK
    <3>2. pass.ag.record[m.for] = m.uid
      BY <3>1, <1>1, <1>3 DEF RecordInv, OnRecord, Busy
    <3>3. m.uid \notin Forgotten /\ m.uid # 0
      BY <1>3, <3>1 DEF Stands
    <3>4. NameOf[m.for] \in pass.keep
      BY <3>1, <3>2, <3>3 DEF Forgotten
    <3> QED BY <2>2, <3>1, <3>2, <3>4
  <2> QED BY <2>4, <2>5, <2>6, <2>7 DEF RecordInv
<1> QED BY <1>2, <1>3, PruneShape

LEMMA BeginRecord ==
  ASSUME TypeOK, Issued, RecordInv, StatusInv, SvcMoves, Begin
  PROVE  Issued' /\ RecordInv'
<1>1. /\ agent' = agent /\ seen' = seen /\ made' = made /\ adopted' = adopted /\ lost' = lost
      /\ pass'.base.record = SeenAgent.record /\ pass'.ag.record = SeenAgent.record
      /\ pass'.pc \in {"material", "switch", "report"} /\ pass.pc = "idle"
  BY BeginShape DEF SameStatus, SameObjects
<1>2. SeenAgent \in {agent, seen}
  BY DEF SeenAgent
<1>3. Carries
  BY <1>1, <1>2 DEF Carries
<1>4. Issued'
  BY <1>1, <1>3, CarriesIssued, MovesIssued DEF SvcMoves
<1>5. KnownOK'
  BY <1>1, <1>3, CarriesKnown DEF RecordInv
<1>6. WipeOK' /\ OthersKept' /\ RecordsNew'
  BY <1>1 DEF WipeOK, OthersKept, RecordsNew
<1>7. ~pass'.stale => SeenAgent = agent
  BY BeginShape DEF StatusInv, CacheOK, SeenAgent
<1>8. OnRecord'
  <2> SUFFICES ASSUME NEW m \in made, Stands(m)'
               PROVE  /\ agent'.record[m.for] = m.uid
                      /\ ~pass'.stale => pass'.ag.record[m.for] = m.uid
    BY <1>1 DEF OnRecord
  <2>1. Stands(m)
    BY <1>1, StoodBefore
  <2>2. agent.record[m.for] = m.uid
    BY <2>1, <1>1 DEF RecordInv, OnRecord
  <2> QED BY <1>1, <1>7, <2>2
<1> QED BY <1>4, <1>5, <1>6, <1>8 DEF RecordInv

LEMMA InitRecord == Init => RecordInv
<1> SUFFICES ASSUME Init PROVE RecordInv
  OBVIOUS
<1>1. PICK e \in Digest : agent = NoAgent(e)
  BY DEF Init
<1>2. \A d \in Digest : agent.record[d] = 0
  BY <1>1 DEF NoAgent
<1>3. KnownOK
  BY <1>2, IdleFields DEF Init, KnownOK, Known
<1> QED BY <1>3, IdleFields DEF Init, RecordInv, WipeOK, OnRecord, OthersKept, RecordsNew, Busy

LEMMA RecordStep ==
  ASSUME TypeOK, Issued, StatusInv, RecordInv, [Next]_vars
  PROVE  Issued' /\ RecordInv'
<1>0. SvcMoves
  BY SvcStep
<1>1. CASE ensureRevisionMaterial
  <2>1. made' = made /\ adopted' = adopted /\ lost' = lost
    BY <1>1 DEF ensureRevisionMaterial, history, gaps
  <2> QED BY <1>0, <1>1, <2>1, MaterialShape, WalkRecord DEF Walk, Busy
<1>2. CASE ensureWorkload
  <2>1. made' = made /\ adopted' = adopted /\ lost' = lost
    BY <1>2 DEF ensureWorkload, history, gaps
  <2> QED BY <1>0, <1>2, <2>1, WorkloadShape, WalkRecord, StopRecord DEF Walk, Busy, Stop
<1>3. CASE ensureService
  <2>0. lost' = lost
    BY <1>3, ServiceShape
  <2>1. CASE ServiceCreates
    BY <1>0, <2>0, <2>1, CreateRecord DEF ServiceCreates
  <2>2. CASE ServiceAdopts
    <3>1. made' = made /\ adopted \subseteq adopted'
      BY <2>2 DEF ServiceAdopts
    <3>2. CASE pass.ag.record[pass.rev] = 0
      BY <1>0, <2>0, <2>2, <3>2, AdoptRecord DEF ServiceAdopts
    <3>3. CASE pass.ag.record[pass.rev] # 0
      <4>1. Walk({"service"}, {"switch"})
        BY <2>2, <3>3 DEF ServiceAdopts
      <4> QED BY <1>0, <2>0, <3>1, <4>1, WalkRecord DEF Walk, Busy
    <3> QED BY <3>2, <3>3
  <2>3. CASE ServiceRefuses
    <3>1. made' = made /\ adopted' = adopted
      BY <2>3 DEF ServiceRefuses
    <3>2. CASE Walk({"service"}, {"report"})
      BY <1>0, <2>0, <3>1, <3>2, WalkRecord DEF Walk, Busy
    <3>3. CASE ours /\ Walk({"service"}, {"wipe"})
      BY <1>0, <2>0, <3>1, <3>3, WalkRecord DEF Walk, Busy, ours, recordedServiceUID
    <3> QED BY <2>3, <3>2, <3>3 DEF ServiceRefuses
  <2> QED BY <1>3, <2>1, <2>2, <2>3, ServiceShape
<1>4. CASE replaceDeletes
  BY <1>0, <1>4, WipeShape, WalkRecord DEF Walk, Busy
<1>5. CASE replaceCreates
  <2>1. lost' = lost
    BY <1>5, RecreateShape
  <2>2. CASE CreateService /\ Notes("recreate", "record", uids + 1)
    BY <1>0, <2>1, <2>2, CreateRecord
  <2>3. CASE Walk({"recreate"}, {"report"}) /\ UNCHANGED <<svc, uids, made, adopted>>
    BY <1>0, <2>1, <2>3, WalkRecord DEF Walk, Busy
  <2> QED BY <1>5, <2>2, <2>3, RecreateShape
<1>6. CASE RecordRides
  BY <1>0, <1>6, RidesShape, WalkRecord DEF Walk, Busy, SameObjects
<1>7. CASE GatewayFails
  BY <1>0, <1>7, GatewayShape, WalkRecord DEF Walk, Busy, SameObjects
<1>8. ASSUME NEW act, NEW cand, Decides(act, cand) PROVE Issued' /\ RecordInv'
  BY <1>0, <1>8, WalkRecord DEF Decides, Busy, SameObjects
<1>9. ASSUME NEW n \in Name, CollectWorkload(n) PROVE Issued' /\ RecordInv'
  BY <1>0, <1>9, CollectShape, WalkRecord DEF Busy
<1>10. CASE collectGarbage
  BY <1>0, <1>10, GarbageShape, WalkRecord DEF Busy, SameObjects
<1>11. CASE collectRevisionMaterial
  BY <1>0, <1>11, SweepShape, WalkRecord DEF Busy
<1>12. CASE collectRevisionServices
  BY <1>0, <1>12, ServicesShape, WalkRecord DEF Busy
<1>13. CASE WriteStatus
  <2>1. pass.pc = "write" /\ writeStatus("collect") /\ seen' = seen
        /\ made' = made /\ adopted' = adopted /\ lost' = lost
    BY <1>13 DEF WriteStatus, history, gaps
  <2> QED BY <1>0, <2>1, WriteShape, WriteRecord, StopRecord DEF Stop
<1>14. CASE Report
  <2>1. pass.pc = "report" /\ writeStatus("idle") /\ seen' = seen
        /\ made' = made /\ adopted' = adopted /\ lost' = lost
    BY <1>14 DEF Report, history, gaps
  <2> QED BY <1>0, <2>1, WriteShape, WriteRecord, StopRecord DEF Stop
<1>15. CASE Fail
  BY <1>0, <1>15, FailShape, StopRecord DEF Stop, SameObjects
<1>16. CASE Edit
  BY <1>0, <1>16, EditShape, StillRecord DEF SameObjects
<1>17. CASE SyncAgent
  BY <1>0, <1>17, StillRecord DEF SyncAgent, history, gaps
<1>18. CASE Elsewhere
  BY <1>0, <1>18, StillRecord DEF Elsewhere
<1>19. CASE UNCHANGED vars
  BY <1>0, <1>19, StillRecord DEF vars, caches, history, gaps
<1>20. CASE Worker
  BY <1>0, <1>20, <1>1, <1>2, <1>3, <1>4, <1>5, <1>8, <1>9, <1>10, <1>11, <1>12, <1>13, <1>14,
     BeginRecord, PersistRecord, PruneRecord, NotAvailableShape, HeldShape, PromoteShape DEF Worker
<1> QED BY <1>6, <1>7, <1>15, <1>16, <1>17, <1>18, <1>19, <1>20, OthersShape DEF Next

-----------------------------------------------------------------------------
(***************************************************************************)
(* The objects.                                                            *)
(***************************************************************************)
(* What nobody touched stays as it is. *)
SameAt ==
  /\ touched \subseteq touched' /\ ghosts' = ghosts /\ unlisted' = unlisted /\ cut \subseteq cut'
  /\ \A n \in Name \ touched' :
       /\ fleet'.at[n].there = fleet.at[n].there /\ fleet'.at[n].own = fleet.at[n].own
       /\ fleet'.at[n].stamp = fleet.at[n].stamp /\ fleet'.at[n].runs = fleet.at[n].runs
       /\ mat'[n] = mat[n] /\ svc'[n] = svc[n]

LEMMA NamesTyped == ASSUME NEW d \in Maybe(Digest), d # None PROVE d \in Digest /\ NameOf[d] \in Name
BY ConstantsAssumption DEF Maybe

LEMMA StatusTyped ==
  ASSUME TypeOK
  PROVE  agent.active \in Maybe(Digest) /\ pass.ag.active \in Maybe(Digest)
         /\ pass.ag.candidate \in Maybe(Digest) /\ pass.base.active \in Maybe(Digest)
BY DEF TypeOK, Pass, Agent

LEMMA InitFleet == Init => FleetInv
<1> SUFFICES ASSUME Init PROVE FleetInv
  OBVIOUS
<1>1. PICK e \in Digest : agent = NoAgent(e)
  BY DEF Init
<1>2. agent.active = None /\ pass.pc = "idle"
  BY <1>1, IdleFields DEF NoAgent, Init
<1>3. \A n \in Name : ~fleet.at[n].there /\ mat[n].holds = None /\ svc[n].shape = "rendered"
  BY DEF Init, NoWorkload, NoCopy, NoService
<1>4. UntouchedOK /\ CachedOK /\ Accounted /\ Addressed
  BY <1>2, <1>3 DEF UntouchedOK, Stamped, Copied, Intact, CachedOK, Accounted, Addressed
<1> QED BY <1>2, <1>4 DEF FleetInv, ObjectsOK, MadeOK, RunsOK, Runs, ActiveAddressed, Early

LEMMA SameUntouched == ASSUME UntouchedOK, SameAt PROVE UntouchedOK'
BY DEF UntouchedOK, SameAt, Stamped, Copied, Intact

LEMMA SameRuns == ASSUME NEW d \in Maybe(Digest), Runs(d), SameAt PROVE Runs(d)'
BY NamesTyped DEF Runs, SameAt

LEMMA SameAddressed ==
  ASSUME TypeOK, ActiveAddressed, SameAt, agent'.active = agent.active
  PROVE  ActiveAddressed'
BY NamesTyped, StatusTyped DEF ActiveAddressed, SameAt

LEMMA WalkFleet ==
  ASSUME TypeOK, ObjectsOK, SameAt, agent'.active = agent.active,
         pass'.base.active = pass.base.active, pass'.ag.active = pass.ag.active,
         pass'.rev = pass.rev,
         pass.pc \in (Early \cup {"write"}) \ {"service"},
         pass'.pc \in (Early \cup {"write"}) \ {"workload", "service"},
         pass'.pc \in {"wipe", "recreate"} => At \in touched'
  PROVE  ObjectsOK'
<1>0. At' = At
  BY DEF At
<1>1. UntouchedOK' /\ ActiveAddressed'
  BY SameUntouched, SameAddressed DEF ObjectsOK
<1>2. RunsOK'
  BY SameRuns, StatusTyped DEF ObjectsOK, RunsOK, Runs
<1>3. MadeOK'
  BY <1>0 DEF ObjectsOK, MadeOK
<1>4. Accounted'
  BY DEF Accounted, Early
<1>5. Addressed'
  BY <1>0 DEF ObjectsOK, Addressed, SameAt
<1> QED BY <1>1, <1>2, <1>3, <1>4, <1>5 DEF ObjectsOK

LEMMA StopFleet ==
  ASSUME TypeOK, ObjectsOK, SameAt, agent'.active = agent.active,
         pass' = Idle, pass.pc = "service" => At \in cut'
  PROVE  ObjectsOK'
<1>0. pass'.pc = "idle"
  BY IdleFields
<1>1. UntouchedOK' /\ ActiveAddressed'
  BY SameUntouched, SameAddressed DEF ObjectsOK
<1>2. RunsOK' /\ MadeOK' /\ Accounted'
  BY <1>0, SameRuns, StatusTyped DEF ObjectsOK, RunsOK, Runs, MadeOK, Accounted, Early
<1>3. Addressed'
  BY <1>0 DEF ObjectsOK, Addressed, SameAt
<1> QED BY <1>1, <1>2, <1>3 DEF ObjectsOK

(* Nothing happens to the pass but that it may become stale. *)
LEMMA StillFleet ==
  ASSUME TypeOK, ObjectsOK, SameAt, agent'.active = agent.active,
         pass'.pc = pass.pc, pass'.ag = pass.ag, pass'.base = pass.base, pass'.rev = pass.rev,
         pass'.owned = pass.owned, pass'.drop = pass.drop, pass'.keep = pass.keep
  PROVE  ObjectsOK'
<1>0. At' = At /\ At \in Name
  BY AtTyped DEF At
<1>1. UntouchedOK' /\ ActiveAddressed'
  BY SameUntouched, SameAddressed DEF ObjectsOK
<1>2. RunsOK'
  BY SameRuns, StatusTyped DEF ObjectsOK, RunsOK, Runs
<1>3. MadeOK'
  BY <1>0 DEF ObjectsOK, MadeOK, SameAt
<1>4. Accounted'
  BY <1>0 DEF ObjectsOK, Accounted, SameAt
<1>5. Addressed'
  BY <1>0 DEF ObjectsOK, Addressed, SameAt
<1> QED BY <1>1, <1>2, <1>3, <1>4, <1>5 DEF ObjectsOK

LEMMA MaterialFleet ==
  ASSUME TypeOK, ObjectsOK, ensureRevisionMaterial
  PROVE  ObjectsOK'
<1> DEFINE c == mat[At]
           r == [holds |-> Content[pass.rev], frozen |-> TRUE, marked |-> TRUE]
<1>1. /\ Walk({"material"}, {"workload", "report"})
      /\ fleet' = fleet /\ svc' = svc /\ touched' = touched /\ UNCHANGED <<ghosts, unlisted, cut>>
  BY MaterialShape DEF ensureRevisionMaterial, counts, history, gaps
<1>2. At \in Name /\ pass.rev \in Digest /\ Content[pass.rev] # None /\ At' = At
  BY AtTyped, <1>1, Types DEF At, Walk, SameRead
<1>3. /\ \/ pass'.pc = "workload" /\ (c.holds = None \/ c.holds = Content[pass.rev]) /\ mat' = [mat EXCEPT ![At] = r]
         \/ pass'.pc = "report" /\ mat' = mat
         \/ pass'.pc = "report" /\ mat' = [mat EXCEPT ![At] = NoCopy] /\ ~c.frozen /\ c.holds # None
  BY GotoShape, RefuseShape DEF ensureRevisionMaterial, CopyDiffers
<1>4. UntouchedOK'
  <2> SUFFICES ASSUME NEW n \in Name \ touched
               PROVE  (Stamped(n) /\ Copied(n) /\ Intact(n))'
    BY <1>1 DEF UntouchedOK
  <2>1. Stamped(n) /\ Copied(n) /\ Intact(n)
    BY DEF ObjectsOK, UntouchedOK
  <2>2. CASE mat'[n] = mat[n]
    BY <1>1, <2>1, <2>2 DEF Stamped, Copied, Intact
  <2>3. CASE n = At /\ mat' = [mat EXCEPT ![At] = r] /\ (c.holds = None \/ c.holds = Content[pass.rev])
    <3>1. mat'[n].holds = Content[pass.rev] /\ mat'[n].frozen
      BY <1>2, <2>3 DEF TypeOK
    <3>2. fleet.at[n].there => fleet.at[n].runs \in Digest
      BY <2>1 DEF Stamped, TypeOK, Fleet, Workload, Maybe
    <3>3. n \notin unlisted /\ fleet.at[n].there => c.holds = Content[pass.rev]
      BY <2>1, <2>3, <3>2, Types DEF Copied
    <3> QED BY <1>1, <2>1, <2>3, <3>1, <3>3 DEF Stamped, Copied, Intact
  <2>4. CASE n = At /\ ~c.frozen /\ c.holds # None
    BY <2>1, <2>4 DEF Intact
  <2>5. \/ mat'[n] = mat[n] \/ n = At
    BY <1>3 DEF TypeOK
  <2> QED BY <1>3, <2>2, <2>3, <2>4, <2>5
<1>5. MadeOK'
  <2>1. pass'.pc = "workload" => mat'[At].holds = Content[pass.rev]
    BY <1>2, <1>3 DEF TypeOK
  <2> QED BY <1>1, <1>2, <2>1 DEF ObjectsOK, MadeOK, Walk, SameRead, Early
<1>6. ActiveAddressed' /\ RunsOK'
  BY <1>1 DEF ObjectsOK, ActiveAddressed, RunsOK, Runs, Walk, SameStatus, SameRead, SameClaim, Early
<1>7. Accounted' /\ Addressed'
  BY <1>1, <1>2 DEF ObjectsOK, Accounted, Addressed, Walk, SameRead
<1> QED BY <1>4, <1>5, <1>6, <1>7 DEF ObjectsOK

(* What is read of a workload that nobody touched, if it stands. *)
LEMMA ReadTrue ==
  ASSUME TypeOK, CachedOK, NEW n \in Name \ touched, Workloads.at[n].there, fleet.at[n].there
  PROVE  Workloads.at[n].stamp = fleet.at[n].stamp /\ Workloads.at[n].runs = fleet.at[n].runs
BY DEF CachedOK, Workloads

(* A pass for a revision that shares its name with the active one is a pass *)
(* for that very revision.                                                  *)
LEMMA ActiveApart ==
  ASSUME TypeOK, ObjectsOK, StatusInv, pass.pc \in Early \cup {"write"},
         agent.active # None, NameOf[agent.active] = At
  PROVE  agent.active = pass.rev
<1>1. agent.active \in {pass.base.active, pass.rev}
  BY DEF StatusInv, ReadOK, Busy, Collecting, Early
<1> QED BY <1>1 DEF ObjectsOK, MadeOK

LEMMA WorkloadFleet ==
  ASSUME TypeOK, ObjectsOK, CachedOK, StatusInv, ensureWorkload
  PROVE  ObjectsOK'
<1> DEFINE w == Workloads.at[At]
           f == fleet.at[At]
           r == [there |-> TRUE, own |-> TRUE, stamp |-> pass.rev, runs |-> pass.rev, ready |-> FALSE]
<1>1. /\ mat' = mat /\ svc' = svc /\ touched' = touched /\ pass.pc = "workload"
      /\ agent' = agent /\ UNCHANGED <<ghosts, unlisted, cut>>
  BY DEF ensureWorkload, counts, history, gaps
<1>2. At \in Name /\ pass.rev \in Digest /\ pass.rev # None /\ fleet.at \in [Name -> Workload]
  BY AtTyped, Types DEF TypeOK, Fleet
<1>3. CASE fleet' = fleet /\ Stop
  BY <1>1, <1>3, StopFleet DEF SameAt, Stop
<1>4. CASE fleet' = fleet /\ Walk({"workload"}, {"report"})
  <2>1. SameAt
    BY <1>1, <1>4 DEF SameAt
  <2> QED BY <1>1, <1>4, <2>1, WalkFleet DEF Walk, SameRead, SameClaim, Early
(* The pass goes on to the Service: with a workload of its own digest, or   *)
(* none, and nothing else changed.                                          *)
<1>5. ASSUME Walk({"workload"}, {"service"}),
             UntouchedOK',
             At \notin touched /\ fleet'.at[At].there => fleet'.at[At].stamp = pass.rev,
             \A n \in Name \ touched : n # At \/ fleet.at[n].there =>
               /\ fleet'.at[n].there = fleet.at[n].there /\ fleet'.at[n].stamp = fleet.at[n].stamp
      PROVE  ObjectsOK'
  <2>1. /\ At' = At /\ pass'.pc = "service" /\ pass'.rev = pass.rev
        /\ pass'.ag.active = pass.ag.active /\ pass'.base = pass.base
    BY <1>5 DEF Walk, SameRead, SameClaim, At
  <2>2. MadeOK'
    BY <1>1, <1>5, <2>1 DEF ObjectsOK, MadeOK, Early
  <2>3. ASSUME NEW d \in Maybe(Digest), Runs(d), d # None /\ NameOf[d] = At => d = pass.rev
        PROVE  Runs(d)'
    <3> SUFFICES ASSUME d # None, NameOf[d] \notin touched
                 PROVE  /\ fleet'.at[NameOf[d]].there => fleet'.at[NameOf[d]].stamp = d
                        /\ fleet'.at[NameOf[d]].there \/ NameOf[d] \in ghosts
      BY <1>1 DEF Runs
    <3>1. /\ fleet.at[NameOf[d]].there => fleet.at[NameOf[d]].stamp = d
          /\ fleet.at[NameOf[d]].there \/ NameOf[d] \in ghosts
          /\ NameOf[d] \in Name
      BY <2>3, NamesTyped DEF Runs
    <3>2. CASE NameOf[d] # At
      BY <1>5, <3>1, <3>2
    <3>3. CASE NameOf[d] = At
      BY <1>5, <2>3, <3>1, <3>3
    <3> QED BY <3>2, <3>3
  <2>4. RunsOK'
    <3>1. Runs(agent.active)'
      <4>1. agent.active # None /\ NameOf[agent.active] = At => agent.active = pass.rev
        BY <1>1, ActiveApart DEF Early
      <4>2. agent.active \in Maybe(Digest) /\ Runs(agent.active)
        BY StatusTyped DEF ObjectsOK, RunsOK
      <4>3. \A d \in Maybe(Digest) : Runs(d) /\ (d # None /\ NameOf[d] = At => d = pass.rev) => Runs(d)'
        BY <2>3
      <4> QED BY <1>1, <4>1, <4>2, <4>3 DEF Runs
    <3>2. pass.ag.active # pass.base.active => Runs(pass.ag.active)'
      <4>1. pass.ag.active \in {pass.base.active, pass.rev}
        BY <1>1 DEF StatusInv, ReadOK, Busy, Collecting
      <4>2. pass.ag.active # pass.base.active => Runs(pass.ag.active)
        BY <1>1 DEF ObjectsOK, RunsOK, Early
      <4>3. pass.ag.active # pass.base.active =>
              /\ pass'.ag.active # None /\ NameOf[pass'.ag.active] \notin touched' =>
                   /\ fleet'.at[NameOf[pass'.ag.active]].there => fleet'.at[NameOf[pass'.ag.active]].stamp = pass'.ag.active
                   /\ fleet'.at[NameOf[pass'.ag.active]].there \/ NameOf[pass'.ag.active] \in ghosts'
        BY <1>1, <1>2, <1>5, <2>1, <4>1, <4>2 DEF Runs, At
      <4> QED BY <4>3 DEF Runs
    <3> QED BY <1>1, <2>1, <3>1, <3>2 DEF RunsOK, Runs
  <2>5. Accounted'
    BY <2>1 DEF Accounted
  <2>6. Addressed'
    BY <1>1, <1>5, <2>1 DEF ObjectsOK, Addressed
  <2>7. ActiveAddressed'
    BY <1>1 DEF ObjectsOK, ActiveAddressed
  <2> QED BY <1>5, <2>2, <2>4, <2>5, <2>6, <2>7 DEF ObjectsOK
<1>6. CASE fleet' = fleet /\ Walk({"workload"}, {"service"}) /\ w.there /\ w.stamp = pass.rev
  <2>1. UntouchedOK'
    BY <1>1, <1>6 DEF ObjectsOK, UntouchedOK, Stamped, Copied, Intact
  <2>2. At \notin touched /\ fleet'.at[At].there => fleet'.at[At].stamp = pass.rev
    BY <1>2, <1>6, ReadTrue
  <2> QED BY <1>5, <1>6, <2>1, <2>2
<1>7. CASE /\ w.there /\ Provenance(w) /\ ~(w.runs = pass.rev /\ w.stamp = pass.rev) /\ w = f
           /\ Walk({"workload"}, {"service"})
           /\ fleet' = [fleet EXCEPT !.at[At] = [r EXCEPT !.ready = w.ready]]
  <2>1. At \in touched
    <3> SUFFICES ASSUME At \notin touched PROVE FALSE
      OBVIOUS
    <3>1. w.stamp = w.runs /\ w.runs # None
      BY <1>2, <1>7 DEF ObjectsOK, UntouchedOK, Stamped
    <3> QED BY <3>1, <1>7 DEF Provenance
  <2>2. \A n \in Name \ {At} : fleet'.at[n] = fleet.at[n]
    BY <1>2, <1>7 DEF TypeOK, Fleet
  <2>3. UntouchedOK'
    BY <1>1, <2>1, <2>2 DEF ObjectsOK, UntouchedOK, Stamped, Copied, Intact
  <2> QED BY <1>5, <1>7, <2>1, <2>2, <2>3
<1>8. CASE ~f.there /\ CreateWorkload(At, r) /\ Walk({"workload"}, {"service"})
  <2>1. fleet'.at = [fleet.at EXCEPT ![At] = r]
    BY <1>8 DEF CreateWorkload
  <2>2. fleet'.at[At] = r /\ \A n \in Name \ {At} : fleet'.at[n] = fleet.at[n]
    BY <1>2, <2>1
  <2>3. UntouchedOK'
    <3> SUFFICES ASSUME NEW n \in Name \ touched
                 PROVE  (Stamped(n) /\ Copied(n) /\ Intact(n))'
      BY <1>1 DEF UntouchedOK
    <3>1. Stamped(n) /\ Copied(n) /\ Intact(n)
      BY DEF ObjectsOK, UntouchedOK
    <3>2. CASE n # At
      BY <1>1, <2>2, <3>1, <3>2 DEF Stamped, Copied, Intact
    <3>3. CASE n = At
      <4>1. mat[At].holds = Content[pass.rev]
        BY <1>1, <3>3 DEF ObjectsOK, MadeOK
      <4> QED BY <1>1, <1>2, <2>2, <3>1, <3>3, <4>1 DEF Stamped, Copied, Intact
    <3> QED BY <3>2, <3>3
  <2> QED BY <1>5, <1>8, <2>2, <2>3
<1>9. SameStatus
  BY DEF ensureWorkload, SameStatus, caches
<1>10. (Goto("service") => Walk({"workload"}, {"service"})) /\ (Refuse => Walk({"workload"}, {"report"}))
      /\ (Quit => Stop)
  BY <1>1, <1>9, GotoWalks, RefuseWalks DEF Quit, Stop
<1> QED BY <1>3, <1>4, <1>6, <1>7, <1>8, <1>10 DEF ensureWorkload

LEMMA ServiceFleet ==
  ASSUME TypeOK, ObjectsOK, ensureService
  PROVE  ObjectsOK'
<1>1. /\ fleet' = fleet /\ mat' = mat /\ touched' = touched /\ agent' = agent /\ ghosts' = ghosts
      /\ unlisted' = unlisted \ {At} /\ cut' = cut \ {At}
  BY ServiceShape DEF ensureService
<1>2. At \in Name /\ pass.rev \in Digest /\ svc \in [Name -> Service]
  BY AtTyped DEF TypeOK
<1>3. /\ pass.pc = "service" /\ pass'.pc \in {"record", "switch", "report", "wipe"}
      /\ SameStatus /\ SameRead /\ SameClaim /\ (pass'.pc = "wipe" => svc[At].shape = "headless")
  BY ServiceShape DEF ServiceCreates, ServiceAdopts, ServiceRefuses, Notes, Walk
<1>4. /\ \A n \in Name \ {At} : svc'[n] = svc[n]
      /\ svc'[At].uid # 0 /\ (svc'[At].shape # "headless" \/ svc'[At] = svc[At])
  <2>1. CASE ServiceCreates
    <3>1. svc' = [svc EXCEPT ![At] = [uid |-> uids + 1, own |-> TRUE, stamp |-> pass.rev, shape |-> "rendered"]]
          /\ uids \in Nat
      BY <2>1 DEF ServiceCreates, CreateService, TypeOK
    <3> QED BY <1>2, <3>1
  <2>2. CASE ServiceAdopts
    BY <1>2, <2>2 DEF ServiceAdopts
  <2>3. CASE ServiceRefuses
    BY <2>3 DEF ServiceRefuses
  <2> QED BY <2>1, <2>2, <2>3, ServiceShape
<1>5. UntouchedOK'
  <2> SUFFICES ASSUME NEW n \in Name \ touched
               PROVE  (Stamped(n) /\ Copied(n) /\ Intact(n))'
    BY <1>1 DEF UntouchedOK
  <2>1. Stamped(n) /\ Copied(n) /\ Intact(n)
    BY DEF ObjectsOK, UntouchedOK
  <2>2. Stamped(n)' /\ Intact(n)'
    BY <1>1, <1>4, <2>1 DEF Stamped, Intact
  <2>3. n = At => (fleet.at[n].there => mat[n].holds = Content[fleet.at[n].runs])
    BY <1>3, <2>1 DEF ObjectsOK, MadeOK, Stamped
  <2>4. Copied(n)'
    BY <1>1, <2>1, <2>3 DEF Copied
  <2> QED BY <2>2, <2>4
<1>6. RunsOK'
  BY <1>1, <1>3 DEF ObjectsOK, RunsOK, Runs, SameRead, SameClaim, Early
<1>7. MadeOK'
  BY <1>1, <1>3 DEF ObjectsOK, MadeOK, SameRead, At, Early
<1>8. Accounted'
  BY <1>3 DEF Accounted
<1>9. Addressed'
  <2>1. At' = At
    BY <1>3 DEF At, SameRead
  <2>2. pass'.pc = "wipe" => At \in touched
    BY <1>2, <1>3 DEF ObjectsOK, UntouchedOK, Intact
  <2> QED BY <1>1, <1>3, <1>4, <2>1, <2>2 DEF ObjectsOK, Addressed
<1>10. ActiveAddressed'
  BY <1>1, <1>4, NamesTyped, StatusTyped DEF ObjectsOK, ActiveAddressed
<1> QED BY <1>5, <1>6, <1>7, <1>8, <1>9, <1>10 DEF ObjectsOK

LEMMA ReplaceFleet ==
  ASSUME TypeOK, ObjectsOK, replaceDeletes \/ replaceCreates
  PROVE  ObjectsOK'
<1>1. /\ fleet' = fleet /\ mat' = mat /\ touched' = touched /\ agent' = agent
      /\ UNCHANGED <<ghosts, unlisted, cut>>
  BY WipeShape, RecreateShape DEF replaceDeletes, replaceCreates, history, gaps
<1>2. /\ pass.pc \in {"wipe", "recreate"} /\ pass'.pc \in {"recreate", "record", "report"}
      /\ SameRead /\ SameClaim
  BY WipeShape, RecreateShape DEF Walk, Notes
<1>3. At \in touched /\ At \in Name
  BY <1>2, AtTyped DEF ObjectsOK, Addressed
<1>4. \A n \in Name \ {At} : svc'[n] = svc[n]
  <2>1. CASE replaceDeletes
    BY <2>1, WipeShape DEF TypeOK
  <2>2. CASE replaceCreates
    BY <2>2, RecreateShape DEF TypeOK, CreateService
  <2> QED BY <2>1, <2>2
<1>5. SameAt
  BY <1>1, <1>3, <1>4 DEF SameAt
<1> QED BY <1>1, <1>2, <1>3, <1>5, WalkFleet DEF SameRead, SameClaim, Early

(* A promotion notes whether the workload stood. *)
LEMMA DecidesFleet ==
  ASSUME TypeOK, ObjectsOK, NEW act \in Maybe(Digest), NEW cand, Decides(act, cand),
         UNCHANGED <<unlisted, cut>>,
         ghosts' = ghosts \/ ghosts' = (IF fleet.at[At].there THEN ghosts \ {At} ELSE ghosts \cup {At}),
         act # pass.base.active => Runs(act)'
  PROVE  ObjectsOK'
<1>1. pass.pc = "switch" /\ pass'.pc = "write" /\ SameStatus /\ SameRead /\ SameObjects /\ pass'.ag.active = act
      /\ At' = At
  BY DEF Decides, SameRead, At
<1>2. UntouchedOK'
  BY <1>1 DEF ObjectsOK, UntouchedOK, Stamped, Copied, Intact, SameObjects
<1>3. Runs(agent.active)'
  <2>1. Runs(agent.active)
    BY DEF ObjectsOK, RunsOK
  <2>2. \A n : fleet.at[n].there \/ n \in ghosts => fleet.at[n].there \/ n \in ghosts'
    OBVIOUS
  <2> QED BY <1>1, <2>1, <2>2 DEF Runs, SameObjects, SameStatus
<1>4. RunsOK'
  BY <1>1, <1>3 DEF RunsOK, Runs, SameRead
<1>5. MadeOK' /\ Accounted' /\ Addressed'
  BY <1>1 DEF ObjectsOK, MadeOK, Accounted, Addressed, SameRead, SameObjects, Early
<1>6. ActiveAddressed'
  BY <1>1, <1>3, <1>5, NamesTyped, StatusTyped DEF ActiveAddressed, Addressed, Runs, SameStatus
<1> QED BY <1>2, <1>4, <1>5, <1>6 DEF ObjectsOK

LEMMA WriteFleet ==
  ASSUME TypeOK, ObjectsOK, StatusInv, pass.pc \in {"write", "report"},
         Written \/ Passes, pass' = Idle \/ Rebased("collect"), SameObjects, UNCHANGED <<ghosts, unlisted, cut>>
  PROVE  ObjectsOK'
<1>1. SameAt
  BY DEF SameAt, SameObjects
<1>2. agent'.active = agent.active \/ (agent'.active = pass.ag.active /\ pass.ag.active # pass.base.active)
  <2>1. CASE Written
    <3>1. agent'.active = pass.ag.active
      BY <2>1, WrittenStatus
    <3>2. agent = pass.base
      BY <2>1 DEF Written, StatusInv, BaseOK, Busy
    <3> QED BY <3>1, <3>2
  <2>2. CASE Passes
    BY <2>2 DEF Passes, SameStatus
  <2> QED BY <2>1, <2>2
<1>3. pass'.pc \in {"idle", "collect"}
  BY IdleFields DEF Rebased
<1>4. UntouchedOK'
  BY <1>1, SameUntouched DEF ObjectsOK
<1>5. /\ agent'.active # None /\ NameOf[agent'.active] \notin touched =>
           /\ fleet.at[NameOf[agent'.active]].there => fleet.at[NameOf[agent'.active]].stamp = agent'.active
           /\ fleet.at[NameOf[agent'.active]].there \/ NameOf[agent'.active] \in ghosts
      /\ agent'.active \in Maybe(Digest)
  BY <1>2, StatusTyped DEF ObjectsOK, RunsOK, Runs, Early
<1>6. RunsOK'
  BY <1>3, <1>5 DEF RunsOK, Runs, SameObjects, Early
<1>7. MadeOK' /\ Accounted'
  BY <1>3 DEF MadeOK, Accounted, Early
<1>8. Addressed'
  BY <1>3 DEF ObjectsOK, Addressed, SameObjects
<1>9. ActiveAddressed'
  BY <1>5, NamesTyped DEF ObjectsOK, Addressed, ActiveAddressed, SameObjects
<1> QED BY <1>4, <1>6, <1>7, <1>8, <1>9 DEF ObjectsOK

LEMMA GarbageFleet ==
  ASSUME TypeOK, ObjectsOK, collectGarbage
  PROVE  ObjectsOK'
<1>1. /\ pass.pc = "collect" /\ pass'.pc = "copies" /\ SameRead /\ SameStatus
      /\ pass'.keep = Keep /\ pass'.drop = Retainable \ Retained /\ SameObjects
      /\ UNCHANGED <<ghosts, unlisted, cut>>
  BY GarbageShape DEF collectGarbage, history, gaps
<1>2. \A n \in pass.owned : n \in Keep \cup (Retainable \ Retained)
  BY DEF Keep, Retainable
<1>3. SameAt
  BY <1>1 DEF SameAt, SameObjects
<1>4. UntouchedOK' /\ ActiveAddressed'
  BY <1>1, <1>3, SameUntouched, SameAddressed DEF ObjectsOK, SameStatus
<1>5. RunsOK' /\ MadeOK'
  BY <1>1 DEF ObjectsOK, RunsOK, Runs, MadeOK, SameStatus, SameObjects, Early
<1>6. Accounted'
  BY <1>1, <1>2 DEF Accounted, SameRead
<1>7. Addressed'
  BY <1>1 DEF ObjectsOK, Addressed, SameObjects
<1> QED BY <1>4, <1>5, <1>6, <1>7 DEF ObjectsOK

(* The active revision is kept by the collection that is under way. *)
LEMMA ActiveProtected ==
  ASSUME TypeOK, StatusInv, Collecting, agent.active # None
  PROVE  /\ NameOf[agent.active] \in Name
         /\ pass.pc = "copies" => NameOf[agent.active] \notin pass.drop
         /\ pass.pc \in {"copies", "services", "prune"} => NameOf[agent.active] \in pass.keep
<1>1. agent.active \in {pass.ag.active, pass.ag.candidate}
  BY DEF StatusInv, CollectOK
<1>2. NameOf[agent.active] \in Protected /\ NameOf[agent.active] \in Name
  BY <1>1, NamesTyped, StatusTyped DEF Protected, NamesOf
<1> QED BY <1>2 DEF StatusInv, CollectOK

LEMMA CollectFleet ==
  ASSUME TypeOK, ObjectsOK, StatusInv, NEW n \in Name, CollectWorkload(n)
  PROVE  ObjectsOK'
<1>1. /\ pass.pc = "copies" /\ pass'.pc = "copies" /\ pass'.ag = pass.ag /\ SameRead /\ SameStatus
      /\ pass'.keep = pass.keep /\ pass'.drop = pass.drop \ {n} /\ n \in pass.drop
      /\ UNCHANGED <<mat, svc, touched, ghosts, unlisted, cut>>
  BY CollectShape DEF CollectWorkload, history, gaps
<1>2. ~fleet'.at[n].there /\ \A k \in Name \ {n} : fleet'.at[k] = fleet.at[k]
  <2>1. fleet'.at = [fleet.at EXCEPT ![n] = NoWorkload] /\ fleet.at \in [Name -> Workload]
    BY CollectShape DEF TypeOK, Fleet
  <2> QED BY <2>1 DEF NoWorkload
<1>3. agent.active # None => NameOf[agent.active] \in Name \ {n}
  BY <1>1, ActiveProtected DEF Collecting
<1>5. UntouchedOK'
  BY <1>1, <1>2 DEF ObjectsOK, UntouchedOK, Stamped, Copied, Intact
<1>6. RunsOK'
  BY <1>1, <1>2, <1>3 DEF ObjectsOK, RunsOK, Runs, SameStatus, Early
<1>7. MadeOK' /\ ActiveAddressed'
  BY <1>1 DEF ObjectsOK, MadeOK, ActiveAddressed, SameStatus, Early
<1>8. Addressed' /\ Accounted'
  BY <1>1, <1>2 DEF ObjectsOK, Addressed, Accounted, SameRead
<1> QED BY <1>5, <1>6, <1>7, <1>8 DEF ObjectsOK

LEMMA SweepFleet ==
  ASSUME TypeOK, ObjectsOK, collectRevisionMaterial
  PROVE  ObjectsOK'
<1>1. /\ pass.pc = "copies" /\ pass'.pc = "services" /\ pass'.ag = pass.ag /\ SameRead /\ SameStatus
      /\ pass'.keep = pass.keep /\ pass.drop = {} /\ UNCHANGED <<fleet, svc, touched, ghosts, cut>>
      /\ unlisted' = unlisted \cup {n \in Name \ (pass.keep \cup pass.owned) : fleet.at[n].there}
  BY SweepShape DEF collectRevisionMaterial
<1>2. \A n \in Name : mat'[n] = mat[n] \/ (mat'[n] = NoCopy /\ n \notin pass.keep)
  BY DEF collectRevisionMaterial, Swept
<1>3. \A n \in Name \ touched : fleet.at[n].there => n \in pass.keep \cup unlisted'
  BY <1>1 DEF ObjectsOK, Accounted
<1>4. NoCopy.holds = None
  BY DEF NoCopy
<1>5. UntouchedOK'
  BY <1>1, <1>2, <1>3, <1>4 DEF ObjectsOK, UntouchedOK, Stamped, Copied, Intact
<1>6. RunsOK' /\ MadeOK' /\ ActiveAddressed'
  BY <1>1 DEF ObjectsOK, RunsOK, Runs, MadeOK, ActiveAddressed, SameStatus, SameRead, Early
<1>7. Accounted' /\ Addressed'
  BY <1>1, <1>3 DEF ObjectsOK, Accounted, Addressed
<1> QED BY <1>5, <1>6, <1>7 DEF ObjectsOK

LEMMA ServicesFleet ==
  ASSUME TypeOK, ObjectsOK, StatusInv, collectRevisionServices
  PROVE  ObjectsOK'
<1>1. /\ pass.pc = "services" /\ pass'.pc = "prune" /\ pass'.ag = pass.ag /\ SameRead /\ SameStatus
      /\ pass'.keep = pass.keep /\ UNCHANGED <<fleet, mat, touched, ghosts, unlisted, cut>>
  BY ServicesShape DEF collectRevisionServices, history, gaps
<1>2. \A n \in Name : svc'[n] = svc[n] \/ (svc'[n] = NoService /\ n \notin pass.keep)
  BY DEF collectRevisionServices
<1>3. \A n \in Name \ touched : fleet.at[n].there => n \in pass.keep \cup unlisted
  BY <1>1 DEF ObjectsOK, Accounted
<1>4. NoService.shape = "rendered"
  BY DEF NoService
<1>5. UntouchedOK'
  BY <1>1, <1>2, <1>4 DEF ObjectsOK, UntouchedOK, Stamped, Copied, Intact
<1>6. RunsOK' /\ MadeOK'
  BY <1>1 DEF ObjectsOK, RunsOK, Runs, MadeOK, SameStatus, SameRead, Early
<1>7. Accounted' /\ Addressed'
  BY <1>1, <1>2, <1>3 DEF ObjectsOK, Accounted, Addressed
<1>8. ActiveAddressed'
  BY <1>1, <1>2, ActiveProtected DEF ObjectsOK, ActiveAddressed, SameStatus, Collecting
<1> QED BY <1>5, <1>6, <1>7, <1>8 DEF ObjectsOK

LEMMA PruneFleet ==
  ASSUME TypeOK, ObjectsOK, StatusInv, Prune
  PROVE  ObjectsOK'
<1>1. pass.pc = "prune" /\ pass' = Idle /\ SameObjects /\ UNCHANGED <<ghosts, unlisted, cut>>
  BY PruneShape DEF Prune, gaps
<1>2. agent'.active = agent.active
  <2>1. CASE ~pass.stale /\ agent' = Pruned(pass.ag)
    <3>1. agent = pass.ag /\ pass.ag \in Agent
      BY <1>1, <2>1 DEF StatusInv, BaseOK, CollectOK, Busy, Collecting, TypeOK, Pass
    <3> QED BY <2>1, <3>1, PrunedFields
  <2> QED BY <2>1, PruneShape DEF SameStatus
<1>3. SameAt
  BY <1>1 DEF SameAt, SameObjects
<1> QED BY <1>1, <1>2, <1>3, StopFleet

LEMMA BeginFleet ==
  ASSUME TypeOK, ObjectsOK, Begin
  PROVE  ObjectsOK'
<1>1. /\ pass'.pc \in {"material", "switch", "report"} /\ SameStatus /\ SameObjects
      /\ pass'.base = SeenAgent /\ pass'.ag.active = SeenAgent.active /\ pass.pc = "idle"
      /\ UNCHANGED <<ghosts, unlisted, cut>>
  BY BeginShape DEF Begin, history, gaps
<1>2. pass'.base.active # None /\ NameOf[pass'.base.active] = NameOf[pass'.rev] => pass'.base.active = pass'.rev
  BY DEF Begin, collisionAgainstStatus
<1>3. UntouchedOK' /\ ActiveAddressed' /\ RunsOK'
  BY <1>1 DEF ObjectsOK, UntouchedOK, Stamped, Copied, Intact, ActiveAddressed, RunsOK, Runs, SameStatus,
     SameObjects
<1>4. MadeOK'
  BY <1>1, <1>2 DEF MadeOK, At
<1>5. Accounted' /\ Addressed'
  BY <1>1 DEF ObjectsOK, Accounted, Addressed, SameObjects
<1> QED BY <1>3, <1>4, <1>5 DEF ObjectsOK

LEMMA TampersFleet ==
  ASSUME TypeOK, ObjectsOK, NEW n \in Name, NEW what, Tampers(what, n),
         \A k \in Name \ {n} : fleet'.at[k] = fleet.at[k] /\ mat'[k] = mat[k] /\ svc'[k] = svc[k]
  PROVE  ObjectsOK'
<1>1. SameAt
  BY DEF SameAt, Tampers, gaps
<1>2. agent' = agent /\ pass' = pass
  BY DEF Tampers
<1> QED BY <1>1, <1>2, StillFleet

LEMMA OthersFleet ==
  ASSUME TypeOK, ObjectsOK, Others
  PROVE  ObjectsOK'
<1>0. fleet \in Fleet /\ fleet.at \in [Name -> Workload] /\ mat \in [Name -> Copy] /\ svc \in [Name -> Service]
  BY DEF TypeOK, Fleet
<1>1. ASSUME NEW n \in Name, TamperWorkload(n) PROVE ObjectsOK'
  <2>1. \A k \in Name \ {n} : fleet'.at[k] = fleet.at[k]
    BY <1>0, <1>1 DEF TamperWorkload, DeleteWorkload, Fleet
  <2> QED BY <1>1, <2>1, TampersFleet DEF TamperWorkload
<1>2. ASSUME NEW n \in Name, MakeHeadless(n) \/ TamperService(n) PROVE ObjectsOK'
  <2>1. \A k \in Name \ {n} : svc'[k] = svc[k]
    BY <1>0, <1>2 DEF MakeHeadless, TamperService
  <2> QED BY <1>2, <2>1, TampersFleet DEF MakeHeadless, TamperService
<1>3. ASSUME NEW n \in Name, TamperCopy(n) PROVE ObjectsOK'
  <2>1. \A k \in Name \ {n} : mat'[k] = mat[k]
    BY <1>0, <1>3 DEF TamperCopy
  <2> QED BY <1>3, <2>1, TampersFleet DEF TamperCopy
<1>4. ASSUME NEW n \in Name, BecomesReady(n) PROVE ObjectsOK'
  <2>1. \A k \in Name : /\ fleet'.at[k].there = fleet.at[k].there /\ fleet'.at[k].own = fleet.at[k].own
                        /\ fleet'.at[k].stamp = fleet.at[k].stamp /\ fleet'.at[k].runs = fleet.at[k].runs
    BY <1>0, <1>4 DEF BecomesReady, Fleet, Workload
  <2>2. SameAt
    BY <1>4, <2>1 DEF SameAt, BecomesReady, history, gaps
  <2> QED BY <1>4, <2>2, StillFleet DEF BecomesReady
<1>5. CASE Edit
  <2>1. SameAt
    BY <1>5, EditShape DEF SameAt, SameObjects, Edit, history, gaps
  <2> QED BY <1>5, <2>1, EditShape, StillFleet
<1>6. CASE SyncAgent \/ SyncWorkloads \/ SyncServices \/ WindowPasses
  <2>1. /\ fleet' = fleet /\ mat' = mat /\ svc' = svc /\ touched' = touched /\ pass' = pass
        /\ agent' = agent /\ UNCHANGED <<ghosts, unlisted, cut>>
    BY <1>6 DEF SyncAgent, SyncWorkloads, SyncServices, WindowPasses, objects, history, gaps
  <2> QED BY <2>1, StillFleet DEF SameAt
<1> QED BY <1>1, <1>2, <1>3, <1>4, <1>5, <1>6 DEF Others

LEMMA ObjectsStep ==
  ASSUME TypeOK, StatusInv, ObjectsOK, CachedOK, [Next]_vars
  PROVE  ObjectsOK'
<1>1. CASE persistServiceRecord
  <2>1. pass.base \in Agent /\ agent \in Agent
    BY DEF TypeOK, Pass
  <2>2. agent'.active = agent.active /\ pass'.base.active = pass.base.active
    BY <1>1, <2>1, PersistShape, RecordedFields
  <2>3. SameAt
    BY <1>1, PersistShape DEF SameAt, SameObjects, persistServiceRecord, history, gaps
  <2> QED BY <1>1, <2>2, <2>3, PersistShape, WalkFleet DEF Early
<1>2. CASE RecordRides \/ GatewayFails
  <2>1. /\ SameStatus /\ SameRead /\ SameClaim /\ SameObjects /\ UNCHANGED <<ghosts, unlisted, cut>>
        /\ pass.pc \in {"record", "write"} /\ pass'.pc \in {"switch", "report"}
    BY <1>2, RidesShape, GatewayShape DEF Walk, RecordRides, GatewayFails, history, gaps
  <2>2. SameAt
    BY <2>1 DEF SameAt, SameObjects
  <2> QED BY <2>1, <2>2, WalkFleet DEF SameStatus, SameRead, SameClaim, Early
<1>3. CASE NotAvailable \/ Held
  <2>1. SameObjects /\ UNCHANGED <<ghosts, unlisted, cut>> /\ pass.pc = "switch" /\ pass'.ag.active = pass.ag.active
    BY <1>3, NotAvailableShape, HeldShape DEF NotAvailable, Held, Decides, history, gaps
  <2>2. pass.ag.active # pass.base.active => Runs(pass.ag.active)
    BY <2>1 DEF ObjectsOK, RunsOK, Early
  <2>4. pass.ag.active # pass.base.active =>
          /\ pass'.ag.active # None /\ NameOf[pass'.ag.active] \notin touched' =>
               /\ fleet'.at[NameOf[pass'.ag.active]].there => fleet'.at[NameOf[pass'.ag.active]].stamp = pass'.ag.active
               /\ fleet'.at[NameOf[pass'.ag.active]].there \/ NameOf[pass'.ag.active] \in ghosts'
    BY <2>1, <2>2 DEF Runs, SameObjects
  <2>5. \E cand : Decides(pass.ag.active, cand)
    BY <1>3, NotAvailableShape, HeldShape
  <2>6. PICK act \in Maybe(Digest) : act = pass.ag.active /\ \E cand : Decides(act, cand)
    BY <2>5, StatusTyped
  <2>7. act # pass.base.active => Runs(act)'
    BY <2>1, <2>4, <2>6 DEF Runs
  <2> QED BY <2>1, <2>6, <2>7, DecidesFleet
<1>4. CASE Promote
  <2>1. /\ Decides(pass.rev, None) /\ workloadAvailable(pass.rev) /\ UNCHANGED <<unlisted, cut>>
        /\ ghosts' = (IF fleet.at[At].there THEN ghosts \ {At} ELSE ghosts \cup {At})
    BY <1>4, PromoteShape DEF Promote
  <2>2. At \in Name /\ pass.rev \in Digest /\ pass.rev \in Maybe(Digest)
    BY AtTyped DEF Maybe
  <2>3. At \notin touched /\ fleet.at[At].there => fleet.at[At].stamp = pass.rev
    BY <2>1, <2>2, ReadTrue DEF workloadAvailable, At
  <2>4. PICK act \in Maybe(Digest) : act = pass.rev
    BY <2>2
  <2>5. Runs(act)'
    BY <2>1, <2>2, <2>3, <2>4 DEF Runs, Decides, SameObjects, At
  <2> QED BY <2>1, <2>4, <2>5, DecidesFleet
<1>5. CASE WriteStatus
  <2>1. /\ pass.pc = "write" /\ writeStatus("collect") /\ seen' = seen
        /\ SameObjects /\ UNCHANGED <<ghosts, unlisted, cut>>
    BY <1>5 DEF WriteStatus, SameObjects, objects, history, gaps
  <2>2. SameAt
    BY <2>1 DEF SameAt, SameObjects
  <2> QED BY <2>1, <2>2, WriteShape, WriteFleet, StopFleet DEF Stop, SameStatus
<1>6. CASE Report
  <2>1. /\ pass.pc = "report" /\ writeStatus("idle") /\ seen' = seen
        /\ SameObjects /\ UNCHANGED <<ghosts, unlisted, cut>>
    BY <1>6 DEF Report, SameObjects, objects, history, gaps
  <2>2. SameAt
    BY <2>1 DEF SameAt, SameObjects
  <2> QED BY <2>1, <2>2, WriteShape, WriteFleet, StopFleet DEF Stop, SameStatus
<1>7. CASE Fail
  <2>1. SameObjects /\ SameStatus /\ pass' = Idle /\ UNCHANGED <<ghosts, unlisted>>
        /\ cut' = IF pass.pc = "service" THEN cut \cup {At} ELSE cut
    BY <1>7, FailShape DEF Stop, Fail
  <2>2. SameAt
    BY <2>1 DEF SameAt, SameObjects
  <2> QED BY <2>1, <2>2, StopFleet DEF SameStatus
<1>8. CASE UNCHANGED vars
  BY <1>8, StillFleet DEF vars, objects, counts, history, gaps, SameAt
<1>9. CASE Worker
  BY <1>9, <1>1, <1>3, <1>4, <1>5, <1>6, BeginFleet, MaterialFleet, WorkloadFleet, ServiceFleet,
     ReplaceFleet, GarbageFleet, CollectFleet, SweepFleet, ServicesFleet, PruneFleet DEF Worker
<1> QED BY <1>2, <1>7, <1>8, <1>9, OthersFleet DEF Next

(* How the workload at a name comes to stand, and what the cache does. *)
Stays(n) ==
  fleet.at[n].there /\ fleet'.at[n].stamp = fleet.at[n].stamp /\ fleet'.at[n].runs = fleet.at[n].runs

LEMMA FleetMoves ==
  ASSUME TypeOK, UntouchedOK, [Next]_vars, NEW n \in Name \ touched', fleet'.at[n].there
  PROVE  n \notin touched /\ (Stays(n) \/ ~Workloads.at[n].there)
<1>0. fleet \in Fleet /\ fleet.at \in [Name -> Workload] /\ At \in Name
  BY AtTyped DEF TypeOK, Fleet
<1>1. CASE ensureWorkload
  <2> DEFINE r == [there |-> TRUE, own |-> TRUE, stamp |-> pass.rev, runs |-> pass.rev, ready |-> FALSE]
             w == Workloads.at[At]
  <2>1. n \notin touched
    BY <1>1 DEF ensureWorkload, history
  <2>2. CASE fleet' = fleet
    BY <2>1, <2>2 DEF Stays
  <2>3. CASE ~w.there /\ CreateWorkload(At, r)
    <3>1. \A k \in Name \ {At} : fleet'.at[k] = fleet.at[k]
      BY <1>0, <2>3 DEF CreateWorkload
    <3> QED BY <2>1, <2>3, <3>1 DEF Stays
  <2>4. CASE /\ w.there /\ Provenance(w) /\ ~(w.runs = pass.rev /\ w.stamp = pass.rev) /\ w = fleet.at[At]
             /\ fleet' = [fleet EXCEPT !.at[At] = [r EXCEPT !.ready = w.ready]]
    <3>1. \A k \in Name \ {At} : fleet'.at[k] = fleet.at[k]
      BY <1>0, <2>4 DEF Fleet
    <3>2. n # At
      <4> SUFFICES ASSUME n = At PROVE FALSE
        OBVIOUS
      <4>1. w.stamp = w.runs /\ w.runs # None
        BY <2>1, <2>4 DEF UntouchedOK, Stamped
      <4> QED BY <4>1, <2>4 DEF Provenance
    <3> QED BY <2>1, <3>1, <3>2 DEF Stays
  <2> QED BY <1>1, <2>2, <2>3, <2>4 DEF ensureWorkload
<1>2. ASSUME NEW m \in Name, CollectWorkload(m)
      PROVE  n \notin touched /\ Stays(n)
  <2>1. fleet'.at = [fleet.at EXCEPT ![m] = NoWorkload] /\ touched' = touched
    BY <1>2, CollectShape
  <2> QED BY <1>0, <2>1 DEF NoWorkload, Stays
<1>3. ASSUME NEW m \in Name, BecomesReady(m)
      PROVE  n \notin touched /\ Stays(n)
  <2>1. \A k \in Name : /\ fleet'.at[k].there = fleet.at[k].there
                        /\ fleet'.at[k].stamp = fleet.at[k].stamp /\ fleet'.at[k].runs = fleet.at[k].runs
    BY <1>0, <1>3 DEF BecomesReady, Fleet, Workload
  <2> QED BY <1>3, <2>1 DEF BecomesReady, history, Stays
<1>4. ASSUME NEW m \in Name, TamperWorkload(m)
      PROVE  n \notin touched /\ Stays(n)
  <2>1. \A k \in Name \ {m} : fleet'.at[k] = fleet.at[k]
    BY <1>0, <1>4 DEF TamperWorkload, DeleteWorkload, Fleet
  <2> QED BY <1>4, <2>1 DEF TamperWorkload, Tampers, Stays
<1>5. CASE fleet' = fleet /\ touched \subseteq touched'
  BY <1>5 DEF Stays
<1>6. CASE Worker /\ ~ensureWorkload /\ ~\E m \in Name : CollectWorkload(m)
  <2>1. fleet' = fleet /\ touched' = touched
    BY <1>6 DEF Worker, Begin, ensureRevisionMaterial, ensureService, replaceDeletes, replaceCreates,
       persistServiceRecord, NotAvailable, Held, Promote, WriteStatus, Report, collectGarbage,
       collectRevisionMaterial, collectRevisionServices, Prune, objects, history
  <2> QED BY <1>5, <2>1
<1>7. CASE RecordRides \/ GatewayFails \/ Fail \/ UNCHANGED vars
  BY <1>5, <1>7 DEF RecordRides, GatewayFails, Fail, vars, objects, history
<1>8. CASE Others
  <2>1. CASE Edit \/ SyncAgent \/ SyncWorkloads \/ SyncServices \/ WindowPasses
    BY <1>5, <2>1 DEF Edit, SyncAgent, SyncWorkloads, SyncServices, WindowPasses, objects, history
  <2>2. ASSUME NEW m \in Name, MakeHeadless(m) \/ TamperService(m) \/ TamperCopy(m)
        PROVE  fleet' = fleet /\ touched \subseteq touched'
    BY <2>2 DEF MakeHeadless, TamperService, TamperCopy, Tampers
  <2> QED BY <1>3, <1>4, <1>5, <1>8, <2>1, <2>2 DEF Others
<1> QED BY <1>1, <1>2, <1>6, <1>7, <1>8 DEF Next

LEMMA ListedMoves ==
  ASSUME [Next]_vars
  PROVE  listed' = listed \/ (listed' = fleet /\ fleet' = fleet)
<1>1. CASE Worker
  BY <1>1 DEF Worker, Begin, ensureRevisionMaterial, ensureWorkload, ensureService, replaceDeletes, replaceCreates,
     persistServiceRecord, NotAvailable, Held, Promote, WriteStatus, Report, collectGarbage, CollectWorkload,
     collectRevisionMaterial, collectRevisionServices, Prune, caches
<1>2. CASE RecordRides \/ GatewayFails \/ Fail
  BY <1>2 DEF RecordRides, GatewayFails, Fail, caches
<1>3. CASE UNCHANGED vars
  BY <1>3 DEF vars, caches
<1>4. CASE SyncWorkloads
  BY <1>4 DEF SyncWorkloads, objects
<1>5. CASE Edit \/ SyncAgent \/ SyncServices \/ WindowPasses
  BY <1>5 DEF Edit, SyncAgent, SyncServices, WindowPasses, caches
<1>6. ASSUME NEW m \in Name,
             BecomesReady(m) \/ TamperWorkload(m) \/ MakeHeadless(m) \/ TamperService(m) \/ TamperCopy(m)
      PROVE  listed' = listed
  BY <1>6 DEF BecomesReady, TamperWorkload, MakeHeadless, TamperService, TamperCopy, Tampers, caches
<1> QED BY <1>1, <1>2, <1>3, <1>4, <1>5, <1>6 DEF Next, Others

LEMMA CachedStep ==
  ASSUME TypeOK, UntouchedOK, CachedOK, [Next]_vars
  PROVE  CachedOK'
<1> SUFFICES ASSUME Lags, NEW n \in Name \ touched', listed'.at[n].there, fleet'.at[n].there
             PROVE  listed'.at[n].stamp = fleet'.at[n].stamp /\ listed'.at[n].runs = fleet'.at[n].runs
  BY DEF CachedOK
<1>1. n \notin touched /\ (Stays(n) \/ ~listed.at[n].there)
  BY FleetMoves DEF Workloads
<1>2. CASE listed' = listed
  BY <1>1, <1>2 DEF CachedOK, Stays
<1>3. CASE listed' = fleet /\ fleet' = fleet
  BY <1>3
<1> QED BY <1>2, <1>3, ListedMoves

-----------------------------------------------------------------------------
(***************************************************************************)
(* The results.                                                            *)
(***************************************************************************)
Inv == TypeOK /\ Issued /\ StatusInv /\ RecordInv /\ FleetInv

LEMMA InvHolds == Spec => []Inv
<1>1. Init => Inv
  BY InitTypes, InitIssued, InitStatus, InitRecord, InitFleet DEF Inv
<1>2. Inv /\ [Next]_vars => Inv'
  <2> SUFFICES ASSUME Inv, [Next]_vars PROVE Inv'
    OBVIOUS
  <2>1. TypeOK' /\ StatusInv'
    BY TypeStep, StatusStep DEF Inv
  <2>2. Issued' /\ RecordInv'
    BY RecordStep DEF Inv
  <2>3. FleetInv'
    BY ObjectsStep, CachedStep DEF Inv, FleetInv, ObjectsOK
  <2> QED BY <2>1, <2>2, <2>3 DEF Inv
<1> QED BY <1>1, <1>2, PTL DEF Spec

(* Every variable keeps its type, and no UID is recorded that the API       *)
(* server has not given.                                                    *)
THEOREM RevisionsTyped == Spec => []TypeOK
BY InvHolds, PTL DEF Inv

(* A Service that the operator created and that stands is on record         *)
(* (persistServiceRecord, writeStatus, pruneServiceRecords), whatever lags. *)
THEOREM ServicesRecorded == Spec => []ServiceRecorded
<1>1. Inv => ServiceRecorded
  BY DEF Inv, RecordInv, OnRecord, ServiceRecorded, Stands
<1> QED BY <1>1, InvHolds, PTL

(* A replace deletes a headless Service only if its UID is on record, and   *)
(* only the UIDs of Services the operator created or converged are          *)
(* (replaceUnrepairableService).                                            *)
THEOREM ReplacesOnlyOwn == Spec => OnlyOwnReplaced
<1>1. Inv /\ [Next]_vars /\ pass.pc = "wipe" /\ pass'.pc = "recreate" =>
        svc[At].uid \in Created \cup adopted
  <2> SUFFICES ASSUME Inv, [Next]_vars, pass.pc = "wipe", pass'.pc = "recreate"
               PROVE  svc[At].uid \in Created \cup adopted
    OBVIOUS
  <2>1. CASE replaceDeletes
    <3>1. svc[At].uid = pass.ag.record[pass.rev]
      BY <2>1, WipeShape DEF Walk, Inv
    <3>2. pass.ag.record[pass.rev] \in Known /\ pass.ag.record[pass.rev] # 0
      BY AtTyped DEF Inv, RecordInv, KnownOK, WipeOK
    <3> QED BY <3>1, <3>2 DEF Known
  <2>2. CASE Fail
    BY <2>2, FailShape, IdleFields DEF Stop, Inv
  <2>3. CASE Others
    BY <2>3, OthersShape, EditShape DEF SyncAgent, Elsewhere, Inv
  <2>4. CASE UNCHANGED vars
    BY <2>4 DEF vars
  <2>5. CASE Worker
    BY <2>1, <2>5 DEF Worker, Begin, ensureRevisionMaterial, ensureWorkload, ensureService, replaceCreates,
       persistServiceRecord, NotAvailable, Held, Promote, WriteStatus, Report, collectGarbage,
       CollectWorkload, collectRevisionMaterial, collectRevisionServices, Prune
  <2> QED BY <2>2, <2>3, <2>4, <2>5 DEF Next, RecordRides, GatewayFails
<1> QED BY <1>1, InvHolds, PTL DEF Spec, OnlyOwnReplaced

(* The collection spares the workload, the copy and the Service of the      *)
(* active revision (collectGarbage, collectRevisionMaterial,                *)
(* collectRevisionServices), though the pass may have read an old Agent and *)
(* old lists: an overtaken pass that goes on had nothing to write, so it    *)
(* protects the revision that was active and the one that may have become   *)
(* so.                                                                      *)
THEOREM ActiveSpared == Spec => ActiveNotCollected
<1>1. ASSUME Inv, Collects, agent.active # None
      PROVE  LET n == NameOf[agent.active] IN
             fleet'.at[n] = fleet.at[n] /\ mat'[n] = mat[n] /\ svc'[n] = svc[n]
  <2> DEFINE n == NameOf[agent.active]
  <2>1. pass.pc \in {"copies", "services"}
    BY <1>1 DEF Collects, collectRevisionMaterial, collectRevisionServices, CollectWorkload
  <2>2. n \in Name /\ n \in pass.keep /\ (pass.pc = "copies" => n \notin pass.drop)
    BY <1>1, <2>1, ActiveProtected DEF Inv, Collecting
  <2>3. ASSUME NEW m \in Name, CollectWorkload(m)
        PROVE  fleet'.at[n] = fleet.at[n] /\ mat' = mat /\ svc' = svc
    <3>1. m # n /\ fleet'.at = [fleet.at EXCEPT ![m] = NoWorkload] /\ mat' = mat /\ svc' = svc
      BY <1>1, <2>2, <2>3, CollectShape DEF Inv
    <3>2. fleet.at \in [Name -> Workload]
      BY <1>1 DEF Inv, TypeOK, Fleet
    <3> QED BY <2>2, <3>1, <3>2
  <2>4. CASE collectRevisionMaterial
    BY <2>2, <2>4 DEF collectRevisionMaterial, Swept
  <2>5. CASE collectRevisionServices
    BY <2>2, <2>5 DEF collectRevisionServices
  <2> QED BY <1>1, <2>3, <2>4, <2>5 DEF Collects
<1>2. Inv => [Collects /\ agent.active # None =>
                LET n == NameOf[agent.active] IN
                fleet'.at[n] = fleet.at[n] /\ mat'[n] = mat[n] /\ svc'[n] = svc[n]]_vars
  BY <1>1
<1> QED BY <1>2, InvHolds, PTL DEF ActiveNotCollected

(* The workload of the active revision runs what status names, for any      *)
(* number of digests under one name and however far the caches lag, and it  *)
(* is there unless it was promoted on a cached Deployment that was gone     *)
(* (ensureWorkload, collisionAgainstStatus, collectGarbage).                *)
THEOREM ActiveAlwaysRuns == Spec => []ActiveRuns
<1>1. Inv => ActiveRuns
  BY NamesTyped, StatusTyped DEF Inv, FleetInv, ObjectsOK, RunsOK, Runs, UntouchedOK, Stamped, ActiveRuns
<1> QED BY <1>1, InvHolds, PTL

(* A workload keeps the copy it was minted with, but for what a collection  *)
(* on a list that did not show it took away (ensureOneCopy,                 *)
(* collectRevisionMaterial).                                                *)
THEOREM CopiesAlwaysKept == Spec => []CopiesKept
<1>1. Inv => CopiesKept
  BY DEF Inv, FleetInv, ObjectsOK, UntouchedOK, Copied, CopiesKept
<1> QED BY <1>1, InvHolds, PTL

(* The active revision has a Service, through crashes and lagging caches,   *)
(* unless a pin promoted what no pass had completed (ensureService,         *)
(* collectRevisionServices).                                                *)
THEOREM ActiveAlwaysAddressed == Spec => []ActiveAddressed
<1>1. Inv => ActiveAddressed
  BY DEF Inv, FleetInv, ObjectsOK
<1> QED BY <1>1, InvHolds, PTL
=============================================================================
