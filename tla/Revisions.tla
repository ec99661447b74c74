----------------------------- MODULE Revisions ------------------------------
(***************************************************************************)
(* The objects of an Agent's revisions (agent_controller.go, service.go,   *)
(* material.go, release.go, card.go; design 02 section 3.3).               *)
(*                                                                         *)
(* A revision is a Deployment, an immutable copy of each env source and a  *)
(* Service, all under one 40-bit name.  A pass makes the revision that the *)
(* spec mints, or selects the retained one it pins, decides which revision *)
(* is active, writes the status and collects what left the retained set.   *)
(*                                                                         *)
(* A pass is split around every write of the API server and may be cut     *)
(* short at each of these points.  Agents, Deployments and lists of        *)
(* Services are read through caches that may lag; copies and a revision's  *)
(* own Service are read live.  An exit that only reports a condition       *)
(* changes nothing here: the guard of its step is false.                   *)
(***************************************************************************)
EXTENDS Naturals, FiniteSets

CONSTANTS
  Digest,       \* what specs, with the contents of their env sources, hash to
  Name,         \* revision names
  NameOf,       \* the first 40 bits of a digest: two digests may share a name
  Content,      \* the bytes of the env source a digest was minted from
  None,
  Limit,        \* DefaultRevisionHistoryLimit
  Gated,        \* whether eval gates are declared and enforced
  Lags,         \* whether the caches may lag
  Tampering,    \* what others do: workload, service, headless, copy
  MaxEdits,     \* bound: edits of the spec
  MaxTampers,   \* bound: what others do to the objects
  MaxFaults     \* bound: passes cut short by a crash or a failed call

ASSUME ConstantsAssumption ==
  /\ NameOf \in [Digest -> Name] /\ DOMAIN Content = Digest
  /\ None \notin Digest \cup Name \cup {Content[d] : d \in Digest}
  /\ Limit \in Nat /\ Gated \in BOOLEAN /\ Lags \in BOOLEAN
  /\ Tampering \subseteq {"workload", "service", "headless", "copy"}
  /\ MaxEdits \in Nat /\ MaxTampers \in Nat /\ MaxFaults \in Nat

VARIABLES
  agent,        \* the Agent: what its spec mints and pins, and its status
  seen,         \* the cached Agent
  synced,       \* the cached Agent is the latest
  fleet,        \* the Deployments, and the order they were created in
  listed,       \* the cached Deployments
  mat,          \* the copies of the env source
  svc,          \* the Services
  svcListed,    \* the Services the cache lists as this Agent's
  recent,       \* names whose Service was replaced less than a cooldown ago
  uids,         \* the last UID the API server gave a Service
  pass,         \* the pass the worker is in
  edits, tampers, faults,
  touched,      \* history: names with an object others have touched
  made,         \* history: Services the operator created
  adopted,      \* history: Services it found and converged to the render
  lost,         \* history: Services it could not record, or dropped the record of
  ghosts,       \* history: names last promoted on a cached Deployment that was gone
  unlisted,     \* history: names swept under a Deployment the pass had not listed
  cut           \* history: names whose pass died before it came to the Service

caches == <<seen, synced, listed, svcListed>>
objects == <<fleet, mat, svc, recent, uids>>
counts == <<edits, tampers, faults>>
gaps == <<ghosts, unlisted, cut>>
history == <<touched, made, adopted, lost, gaps>>
vars == <<agent, caches, objects, pass, counts, history>>

Maybe(S) == S \cup {None}
Agent == [want : Digest, pin : Maybe(Digest), active : Maybe(Digest), candidate : Maybe(Digest),
          record : [Digest -> Nat], replaced : Maybe(Name), cards : SUBSET Digest,
          ready : BOOLEAN]

(* own: the object carries the Agent's UID.  runs: the digest its template  *)
(* is of.                                                                   *)
Workload == [there : BOOLEAN, own : BOOLEAN, stamp : Maybe(Digest), runs : Maybe(Digest), ready : BOOLEAN]
NoWorkload == [there |-> FALSE, own |-> FALSE, stamp |-> None, runs |-> None, ready |-> FALSE]

(* newer[n]: the Deployments created after the one at n. *)
Order == [Name -> SUBSET Name]
NoOrder == [n \in Name |-> {}]
Fleet == [at : [Name -> Workload], newer : Order]

(* marked: its labels and annotations are the operator's. *)
Copy == [holds : Maybe({Content[d] : d \in Digest}), frozen : BOOLEAN, marked : BOOLEAN]
NoCopy == [holds |-> None, frozen |-> FALSE, marked |-> FALSE]

(* uid 0: no such Service.  drift: any shape an Update repairs. *)
Service == [uid : Nat, own : BOOLEAN, stamp : Maybe(Digest), shape : {"rendered", "drift", "headless"}]
NoService == [uid |-> 0, own |-> FALSE, stamp |-> None, shape |-> "rendered"]

Pc == {"idle", "material", "workload", "service", "record", "wipe", "recreate", "switch",
       "write", "report", "collect", "copies", "services", "prune"}
(* ag: the Agent as the pass holds it, its status changed as it goes.       *)
(* base: the same as it was read.  stale: the Agent was written since.      *)
(* owned, newer: the workloads listed at its start.  drop, keep: what the   *)
(* collection has yet to delete, and what it retains.                       *)
Pass == [pc : Pc, ag : Agent, base : Agent, stale : BOOLEAN, rev : Digest, pinned : BOOLEAN,
         owned : SUBSET Name, newer : Order, drop : SUBSET Name, keep : SUBSET Name]

NoAgent(d) == [want |-> d, pin |-> None, active |-> None, candidate |-> None,
               record |-> [e \in Digest |-> 0], replaced |-> None, cards |-> {}, ready |-> FALSE]
Idle ==
  LET a == NoAgent(CHOOSE d \in Digest : TRUE) IN
  [pc |-> "idle", ag |-> a, base |-> a, stale |-> FALSE, rev |-> a.want, pinned |-> FALSE,
   owned |-> {}, newer |-> NoOrder, drop |-> {}, keep |-> {}]

(* Every variable keeps its type. *)
TypeOK ==
  /\ agent \in Agent /\ seen \in Agent /\ synced \in BOOLEAN
  /\ fleet \in Fleet /\ listed \in Fleet
  /\ mat \in [Name -> Copy] /\ svc \in [Name -> Service] /\ svcListed \subseteq Name
  /\ recent \subseteq Name /\ uids \in Nat
  /\ pass \in Pass
  /\ edits \in Nat /\ tampers \in Nat /\ faults \in Nat
  /\ touched \subseteq Name /\ made \subseteq [uid : 1..uids, for : Digest]
  /\ adopted \subseteq 1..uids /\ lost \subseteq 1..uids
  /\ ghosts \subseteq Name /\ unlisted \subseteq Name /\ cut \subseteq Name

Init ==
  /\ \E d \in Digest : agent = NoAgent(d)
  /\ seen = agent /\ synced = TRUE
  /\ fleet = [at |-> [n \in Name |-> NoWorkload], newer |-> NoOrder] /\ listed = fleet
  /\ mat = [n \in Name |-> NoCopy] /\ svc = [n \in Name |-> NoService] /\ svcListed = {}
  /\ recent = {} /\ uids = 0
  /\ pass = Idle
  /\ edits = 0 /\ tampers = 0 /\ faults = 0
  /\ touched = {} /\ made = {} /\ adopted = {} /\ lost = {}
  /\ ghosts = {} /\ unlisted = {} /\ cut = {}

-----------------------------------------------------------------------------
(***************************************************************************)
(* What a pass reads and computes.                                         *)
(***************************************************************************)
SeenAgent == IF Lags THEN seen ELSE agent
Workloads == IF Lags THEN listed ELSE fleet
MarkedServices == {n \in Name : svc[n].uid # 0 /\ svc[n].own}
SeenServices == IF Lags THEN svcListed ELSE MarkedServices

At == NameOf[pass.rev]
NamesOf(S) == {NameOf[d] : d \in S \ {None}}

(* ownedWorkloads: name shape, revision label and the Agent's UID. *)
ownedWorkloads == {n \in Name : Workloads.at[n].there /\ Workloads.at[n].own}

resolveReleasePin(d) ==
  \E n \in Name : Workloads.at[n].there /\ Workloads.at[n].own /\ Workloads.at[n].stamp = d
verifyRetainedMaterial(d) == mat[NameOf[d]].holds # None /\ mat[NameOf[d]].marked

collisionAgainstStatus(a, d) ==
  \E e \in {a.active, a.candidate} \ {None} : NameOf[e] = NameOf[d] /\ e # d

vouched == pass.rev \in {pass.ag.active, pass.ag.candidate}

(* The three grounds on which an object at a revision's name is refused. *)
Provenance(o) == o.own /\ (o.stamp = pass.rev \/ (o.stamp = None /\ vouched))

(* Mutant of recordedServiceUID: what stands there is taken for the record. *)
recordedFromLive(d) == IF pass.ag.record[d] = 0 THEN svc[NameOf[d]].uid ELSE pass.ag.record[d]
recordedServiceUID(d) == pass.ag.record[d]
ours == recordedServiceUID(pass.rev) # 0 /\ svc[At].uid = recordedServiceUID(pass.rev)

ServiceReplaceHeld == pass.ag.replaced = At /\ At \in recent

workloadAvailable(d) ==
  LET w == Workloads.at[NameOf[d]] IN w.there /\ w.own /\ w.stamp = d /\ w.ready

(* Where the pass stands next, and how it ends. *)
Goto(pc) == pass' = [pass EXCEPT !.pc = pc]
Quit == pass' = Idle
Refuse == pass' = [pass EXCEPT !.pc = "report", !.ag.ready = FALSE]

(* The pass ends, or goes on with the status it has written. *)
Goes(pc) == pass' = IF pc = "idle" THEN Idle ELSE [pass EXCEPT !.pc = pc, !.base = pass.ag]

(* The API server stores a new Agent; a cache that does not lag has it. *)
Store(a) == agent' = a /\ synced' = ~Lags

-----------------------------------------------------------------------------
(***************************************************************************)
(* The pass.                                                               *)
(***************************************************************************)
(* supersede: a candidate the spec no longer asks for is dropped. *)
supersede(a, d) == IF a.candidate \in {None, d} THEN a ELSE [a EXCEPT !.candidate = None]

(* A gated pin is judged before the candidate is superseded, an ungated one *)
(* after; pinRule may refuse a gated pin, which only reports.               *)
Begin ==
  /\ pass.pc = "idle"
  /\ LET a == SeenAgent
         pinned == a.pin # None
         d == IF pinned THEN a.pin ELSE a.want IN
     /\ pinned => resolveReleasePin(d)
     /\ pinned /\ Gated => verifyRetainedMaterial(d)
     /\ ~collisionAgainstStatus(a, d)
     /\ pass' =
          [pc |-> IF ~pinned THEN "material" ELSE IF verifyRetainedMaterial(d) THEN "switch" ELSE "report",
           ag |-> supersede(a, d), base |-> a, stale |-> Lags /\ ~synced, rev |-> d, pinned |-> pinned,
           owned |-> ownedWorkloads, newer |-> Workloads.newer, drop |-> {}, keep |-> {}]
  /\ UNCHANGED <<agent, caches, objects, counts, history>>

(* ensureOneCopy: content first; a copy that is not immutable is deleted for *)
(* the next pass to make again.                                              *)
(* Mutant of CopyDiffers: a copy with other bytes is converged. *)
CopyConverged == FALSE
CopyDiffers == mat[At].holds \notin {None, Content[pass.rev]}
ensureRevisionMaterial ==
  /\ pass.pc = "material"
  /\ LET c == mat[At]
         rendered == [holds |-> Content[pass.rev], frozen |-> TRUE, marked |-> TRUE] IN
     \/ c.holds = None /\ mat' = [mat EXCEPT ![At] = rendered] /\ Goto("workload")
     \/ CopyDiffers /\ Refuse /\ UNCHANGED mat
     \/ /\ c.holds # None /\ ~CopyDiffers /\ ~c.frozen
        /\ mat' = [mat EXCEPT ![At] = NoCopy] /\ Refuse
     \/ /\ c.holds # None /\ ~CopyDiffers /\ c.frozen
        /\ mat' = [mat EXCEPT ![At] = rendered] /\ Goto("workload")
  /\ UNCHANGED <<agent, caches, fleet, svc, recent, uids, counts, history>>

(* The API server creates and deletes a Deployment. *)
CreateWorkload(n, w) ==
  fleet' = [at |-> [fleet.at EXCEPT ![n] = w],
            newer |-> [m \in Name |-> IF fleet.at[m].there THEN fleet.newer[m] \cup {n} ELSE {}]]
DeleteWorkload(n) ==
  fleet' = [at |-> [fleet.at EXCEPT ![n] = NoWorkload],
            newer |-> [m \in Name |-> IF m = n THEN {} ELSE fleet.newer[m] \ {n}]]

(* The read is cached: a write based on a stale one fails, which is a bare   *)
(* error.                                                                    *)
ensureWorkload ==
  /\ pass.pc = "workload"
  /\ LET w == Workloads.at[At]
         rendered == [there |-> TRUE, own |-> TRUE, stamp |-> pass.rev, runs |-> pass.rev, ready |-> FALSE] IN
     \/ /\ ~w.there /\ ~fleet.at[At].there
        /\ CreateWorkload(At, rendered) /\ Goto("service")
     \/ w.there /\ ~Provenance(w) /\ Refuse /\ UNCHANGED fleet
     \/ /\ w.there /\ Provenance(w) /\ w.runs = pass.rev /\ w.stamp = pass.rev
        /\ Goto("service") /\ UNCHANGED fleet
     \/ /\ w.there /\ Provenance(w) /\ ~(w.runs = pass.rev /\ w.stamp = pass.rev)
        /\ w = fleet.at[At]
        /\ fleet' = [fleet EXCEPT !.at[At] = [rendered EXCEPT !.ready = w.ready]]
        /\ Goto("service")
     \/ /\ ~w.there \/ (Provenance(w) /\ ~(w.runs = pass.rev /\ w.stamp = pass.rev))
        /\ w # fleet.at[At] /\ Quit /\ UNCHANGED fleet
  /\ UNCHANGED <<agent, caches, mat, svc, recent, uids, counts, history>>

Created == {m.uid : m \in made}

(* The operator's own Create, and the UID it is answered with. *)
CreateService ==
  /\ uids' = uids + 1
  /\ svc' = [svc EXCEPT ![At] =
       [uid |-> uids + 1, own |-> TRUE, stamp |-> pass.rev, shape |-> "rendered"]]
  /\ made' = made \cup {[uid |-> uids + 1, for |-> pass.rev]} /\ UNCHANGED adopted

(* adoptServiceRecord: no record at this digest is overwritten. *)
adoptServiceRecord(uid) ==
  IF recordedServiceUID(pass.rev) = 0 THEN [pass.ag EXCEPT !.record[pass.rev] = uid] ELSE pass.ag

ensureService ==
  /\ pass.pc = "service"
  /\ LET s == svc[At] IN
     \/ /\ s.uid = 0 /\ CreateService
        /\ pass' = [pass EXCEPT !.pc = "record", !.ag.record[pass.rev] = uids + 1]
     \/ /\ s.uid # 0 /\ ~ours /\ ~Provenance(s)
        /\ Refuse /\ UNCHANGED <<svc, uids, made, adopted>>
     \/ /\ s.uid # 0 /\ (ours \/ Provenance(s)) /\ s.shape = "headless"
        /\ (IF ours /\ ~ServiceReplaceHeld THEN Goto("wipe") ELSE Refuse)
        /\ UNCHANGED <<svc, uids, made, adopted>>
     \/ /\ s.uid # 0 /\ (ours \/ Provenance(s)) /\ s.shape # "headless"
        /\ svc' = [svc EXCEPT ![At] =
             [uid |-> s.uid, own |-> TRUE, stamp |-> pass.rev, shape |-> "rendered"]]
        /\ pass' = [pass EXCEPT !.pc = "switch", !.ag = adoptServiceRecord(s.uid)]
        /\ adopted' = adopted \cup ({s.uid} \ Created) /\ UNCHANGED <<uids, made>>
  /\ unlisted' = unlisted \ {At} /\ cut' = cut \ {At}
  /\ UNCHANGED <<agent, caches, fleet, mat, recent, counts, touched, lost, ghosts>>

(* replaceUnrepairableService: the Delete carries the recorded UID. *)
replaceDeletes ==
  /\ pass.pc = "wipe"
  /\ \/ /\ svc[At].uid = recordedServiceUID(pass.rev)
        /\ svc' = [svc EXCEPT ![At] = NoService] /\ recent' = recent \cup {At}
        /\ Goto("recreate")
     \/ svc[At].uid # recordedServiceUID(pass.rev) /\ Refuse /\ UNCHANGED <<svc, recent>>
  /\ UNCHANGED <<agent, caches, fleet, mat, uids, counts, history>>

replaceCreates ==
  /\ pass.pc = "recreate"
  /\ \/ /\ svc[At].uid = 0 /\ CreateService
        /\ pass' = [pass EXCEPT !.pc = "record", !.ag.record[pass.rev] = uids + 1,
                                !.ag.replaced = At]
     \/ svc[At].uid # 0 /\ Refuse /\ UNCHANGED <<svc, uids, made, adopted>>
  /\ UNCHANGED <<agent, caches, fleet, mat, recent, counts, touched, lost, gaps>>

(* A write of its own, onto whatever the Agent is by now; a pass that lost   *)
(* the first attempt stays stale.                                            *)
Recorded(a) == [a EXCEPT !.record[pass.rev] = pass.ag.record[pass.rev],
                         !.replaced = IF pass.ag.replaced = pass.base.replaced THEN @ ELSE pass.ag.replaced]
(* Mutant of Reapplied: there is no second attempt on a Conflict. *)
ReappliedNever == IF pass.stale THEN agent ELSE Recorded(agent)
Reapplied == Recorded(agent)
persistServiceRecord ==
  /\ pass.pc = "record"
  /\ Store(Reapplied)
  /\ pass' = [pass EXCEPT !.pc = "switch", !.base = IF pass.stale THEN @ ELSE Recorded(@)]
  /\ UNCHANGED <<seen, listed, svcListed, objects, counts, history>>

(* Every attempt failed: the record rides the final write. *)
RecordRides ==
  /\ pass.pc = "record" /\ faults < MaxFaults
  /\ faults' = faults + 1 /\ Goto("switch") /\ lost' = lost \cup {pass.ag.record[pass.rev]}
  /\ UNCHANGED <<agent, caches, objects, edits, tampers, touched, made, adopted, gaps>>

(* The card is fetched once the revision is available; an attempt leaves an  *)
(* entry whatever its outcome.                                               *)
Carded(a) == IF workloadAvailable(pass.rev) THEN [a EXCEPT !.cards = @ \cup {pass.rev}] ELSE a

(* Read live and reported, never repaired. *)
activeRevisionUnaddressable(a) ==
  a.active # None /\ NameOf[a.active] # At /\ svc[NameOf[a.active]].shape = "headless"
Switch(a) ==
  pass' = [pass EXCEPT !.pc = "write",
             !.ag = [a EXCEPT !.ready = @ /\ ~activeRevisionUnaddressable(a)]]

NotAvailable ==
  /\ pass.pc = "switch" /\ ~workloadAvailable(pass.rev)
  /\ Switch([pass.ag EXCEPT
       !.candidate = IF pass.ag.active = pass.rev THEN None ELSE pass.rev,
       !.ready = pass.ag.active \notin {None, pass.rev} /\ workloadAvailable(pass.ag.active)])
  /\ UNCHANGED <<agent, caches, objects, counts, history>>

(* A gate, or the -auth hold, keeps an available candidate from traffic; a   *)
(* pin is not held.                                                          *)
Held ==
  /\ pass.pc = "switch" /\ workloadAvailable(pass.rev) /\ pass.ag.active # pass.rev /\ ~pass.pinned
  /\ Gated \/ pass.ag.active # None
  /\ Switch([Carded(pass.ag) EXCEPT !.candidate = pass.rev, !.ready = pass.ag.active # None])
  /\ UNCHANGED <<agent, caches, objects, counts, history>>

Promote ==
  /\ pass.pc = "switch" /\ workloadAvailable(pass.rev)
  /\ Switch([Carded(pass.ag) EXCEPT !.active = pass.rev, !.candidate = None, !.ready = TRUE])
  /\ ghosts' = IF fleet.at[At].there THEN ghosts \ {At} ELSE ghosts \cup {At}
  /\ UNCHANGED <<agent, caches, objects, counts, touched, made, adopted, lost, unlisted, cut>>

(* writeStatus: a compare-and-swap on the Agent the pass read.  The status a *)
(* pass leaves as it was may need no write, and then nothing is compared.    *)
(* Mutant of Overtaken: nothing is compared. *)
NeverOvertaken == FALSE
Overtaken == pass.stale
writeStatus(next) ==
  \/ /\ ~Overtaken
     /\ IF pass.ag = pass.base THEN UNCHANGED <<agent, synced>>
        ELSE Store([pass.ag EXCEPT !.want = agent.want, !.pin = agent.pin])
     /\ Goes(next)
  \/ Overtaken /\ Quit /\ UNCHANGED <<agent, synced>>
  \/ /\ Overtaken /\ pass.ag = pass.base
     /\ Goes(next) /\ UNCHANGED <<agent, synced>>

WriteStatus ==
  /\ pass.pc = "write" /\ writeStatus("collect")
  /\ UNCHANGED <<seen, listed, svcListed, objects, counts, history>>

(* The exits that report, and a gateway step that failed: no collection. *)
Report ==
  /\ pass.pc = "report" /\ writeStatus("idle")
  /\ UNCHANGED <<seen, listed, svcListed, objects, counts, history>>
GatewayFails ==
  /\ pass.pc = "write" /\ faults < MaxFaults /\ faults' = faults + 1 /\ Goto("report")
  /\ UNCHANGED <<agent, caches, objects, edits, tampers, history>>

(* collectGarbage: the retained set, from the workloads listed at the start. *)
(* Mutants of Protected: an empty name is protected too, or the active       *)
(* revision is not.                                                          *)
ProtectedEmpty == {IF d = None THEN None ELSE NameOf[d] : d \in {pass.ag.active, pass.ag.candidate}}
ProtectedCandidate == NamesOf({pass.ag.candidate})
Protected == NamesOf({pass.ag.active, pass.ag.candidate})
Retainable == pass.owned \ Protected
Retained == {n \in Retainable : Cardinality(pass.newer[n] \cap Retainable) < Limit}
(* Mutants of Keep: the history, or the candidate, is not part of the set    *)
(* that copies are swept by.                                                 *)
KeepProtected == Protected
KeepActive == NamesOf({pass.ag.active}) \cup Retained
Keep == Protected \cup Retained

collectGarbage ==
  /\ pass.pc = "collect"
  /\ pass' = [pass EXCEPT !.pc = "copies", !.keep = Keep, !.drop = Retainable \ Retained]
  /\ UNCHANGED <<agent, caches, objects, counts, history>>

(* The newest first. *)
CollectWorkload(n) ==
  /\ pass.pc = "copies" /\ n \in pass.drop /\ pass.newer[n] \cap pass.drop = {}
  /\ DeleteWorkload(n)
  /\ pass' = [pass EXCEPT !.drop = @ \ {n}]
  /\ UNCHANGED <<agent, caches, mat, svc, recent, uids, counts, history>>

(* Copies are listed live, and Services through the cache. *)
(* Mutant of Swept: only the copies of revisions that were listed. *)
SweptListed(n) == n \in pass.owned \ pass.keep
Swept(n) == mat[n].marked /\ n \notin pass.keep
collectRevisionMaterial ==
  /\ pass.pc = "copies" /\ pass.drop = {}
  /\ mat' = [n \in Name |-> IF Swept(n) THEN NoCopy ELSE mat[n]]
  /\ Goto("services")
  /\ unlisted' = unlisted \cup {n \in Name \ (pass.keep \cup pass.owned) : fleet.at[n].there}
  /\ UNCHANGED <<agent, caches, fleet, svc, recent, uids, counts, touched, made, adopted, lost, ghosts, cut>>

collectRevisionServices ==
  /\ pass.pc = "services"
  /\ svc' = [n \in Name |-> IF n \in SeenServices \ pass.keep THEN NoService ELSE svc[n]]
  /\ Goto("prune")
  /\ UNCHANGED <<agent, caches, fleet, mat, recent, uids, counts, history>>

(* pruneCards and pruneServiceRecords, on a write of their own. *)
Pruned(a) == [a EXCEPT
  !.cards = {d \in @ : NameOf[d] \in pass.keep},
  !.record = [d \in Digest |-> IF NameOf[d] \in pass.keep THEN @[d] ELSE 0]]
Forgotten == {pass.ag.record[d] : d \in {e \in Digest : NameOf[e] \notin pass.keep}} \ {0}
Prune ==
  /\ pass.pc = "prune"
  /\ \/ /\ Pruned(pass.ag) # pass.ag /\ ~pass.stale
        /\ Store(Pruned(pass.ag)) /\ lost' = lost \cup Forgotten
     \/ (Pruned(pass.ag) = pass.ag \/ pass.stale) /\ UNCHANGED <<agent, synced, lost>>
  /\ Quit
  /\ UNCHANGED <<seen, listed, svcListed, objects, counts, touched, made, adopted, gaps>>

Worker ==
  \/ Begin \/ ensureRevisionMaterial \/ ensureWorkload \/ ensureService
  \/ replaceDeletes \/ replaceCreates \/ persistServiceRecord
  \/ NotAvailable \/ Held \/ Promote \/ WriteStatus \/ Report
  \/ collectGarbage \/ (\E n \in Name : CollectWorkload(n)) \/ collectRevisionMaterial \/ collectRevisionServices \/ Prune

(* A crash, or a call that fails with a bare error. *)
Fail ==
  /\ pass.pc # "idle" /\ faults < MaxFaults
  /\ faults' = faults + 1 /\ Quit
  /\ lost' = IF pass.pc = "record" THEN lost \cup {pass.ag.record[pass.rev]} ELSE lost
  /\ cut' = IF pass.pc = "service" THEN cut \cup {At} ELSE cut
  /\ UNCHANGED <<agent, caches, objects, edits, tampers, touched, made, adopted, ghosts, unlisted>>

-----------------------------------------------------------------------------
(***************************************************************************)
(* Everybody else.                                                         *)
(***************************************************************************)
(* The spec, or an env source, is edited; or a revision is pinned. *)
Edit ==
  /\ edits < MaxEdits /\ edits' = edits + 1
  /\ \/ \E d \in Digest \ {agent.want} : Store([agent EXCEPT !.want = d])
     \/ \E p \in Maybe(Digest) \ {agent.pin} : Store([agent EXCEPT !.pin = p])
  /\ pass' = [pass EXCEPT !.stale = pass.pc # "idle"]
  /\ UNCHANGED <<seen, listed, svcListed, objects, tampers, faults, history>>

(* The informers. *)
SyncAgent ==
  /\ Lags /\ ~synced /\ seen' = agent /\ synced' = TRUE
  /\ UNCHANGED <<agent, listed, svcListed, objects, pass, counts, history>>
SyncWorkloads ==
  /\ Lags /\ listed # fleet /\ listed' = fleet
  /\ UNCHANGED <<agent, seen, synced, svcListed, objects, pass, counts, history>>
SyncServices ==
  /\ Lags /\ svcListed # MarkedServices /\ svcListed' = MarkedServices
  /\ UNCHANGED <<agent, seen, synced, listed, objects, pass, counts, history>>

(* The Deployment controller. *)
BecomesReady(n) ==
  /\ fleet.at[n].there /\ ~fleet.at[n].ready
  /\ fleet' = [fleet EXCEPT !.at[n].ready = TRUE]
  /\ UNCHANGED <<agent, caches, mat, svc, recent, uids, pass, counts, history>>

(* ServiceReplaceCooldown has passed. *)
WindowPasses ==
  /\ recent # {} /\ recent' = {}
  /\ UNCHANGED <<agent, caches, fleet, mat, svc, uids, pass, counts, history>>

Tampers(what, n) ==
  /\ what \in Tampering /\ tampers < MaxTampers /\ tampers' = tampers + 1
  /\ touched' = touched \cup {n}
  /\ UNCHANGED <<agent, caches, pass, edits, faults, made, adopted, lost, gaps>>

TamperWorkload(n) ==
  /\ Tampers("workload", n) /\ fleet.at[n].there
  /\ \/ \E w \in {[fleet.at[n] EXCEPT !.stamp = None], [fleet.at[n] EXCEPT !.runs = None],
                  [fleet.at[n] EXCEPT !.own = FALSE], [fleet.at[n] EXCEPT !.ready = FALSE]} :
          w # fleet.at[n] /\ fleet' = [fleet EXCEPT !.at[n] = w]
     \/ DeleteWorkload(n)
  /\ UNCHANGED <<mat, svc, recent, uids>>

(* Two patches make a Service headless, with its UID and marks or without;   *)
(* it is patched otherwise, deleted, or another is put in its place, before  *)
(* the operator's own or after.                                              *)
MakeHeadless(n) ==
  /\ Tampers("headless", n) /\ svc[n].uid # 0 /\ svc[n].shape # "headless"
  /\ \E s \in {svc[n], [svc[n] EXCEPT !.stamp = None, !.own = FALSE]} :
       svc' = [svc EXCEPT ![n] = [s EXCEPT !.shape = "headless"]]
  /\ UNCHANGED <<fleet, mat, recent, uids>>
TamperService(n) ==
  /\ Tampers("service", n)
  /\ \/ /\ svc[n].uid # 0
        /\ \E s \in {[svc[n] EXCEPT !.shape = "drift"], [svc[n] EXCEPT !.stamp = None, !.own = FALSE], NoService} :
             s # svc[n] /\ svc' = [svc EXCEPT ![n] = s]
        /\ UNCHANGED uids
     \/ /\ uids' = uids + 1
        /\ \E o \in BOOLEAN, d \in {e \in Digest : NameOf[e] = n}, sh \in {"rendered", "headless"} :
             svc' = [svc EXCEPT ![n] = [uid |-> uids + 1, own |-> o, stamp |-> d, shape |-> sh]]
  /\ UNCHANGED <<fleet, mat, recent>>

(* A copy loses its metadata, is deleted, or is made again from other bytes. *)
TamperCopy(n) ==
  /\ Tampers("copy", n) /\ mat[n].holds # None
  /\ \E c \in {NoCopy, [mat[n] EXCEPT !.marked = FALSE], [mat[n] EXCEPT !.frozen = FALSE]}
            \cup {[mat[n] EXCEPT !.holds = Content[d]] : d \in Digest} :
       c # mat[n] /\ mat' = [mat EXCEPT ![n] = c]
  /\ UNCHANGED <<fleet, svc, recent, uids>>

Others ==
  \/ Edit \/ SyncAgent \/ SyncWorkloads \/ SyncServices \/ WindowPasses
  \/ \E n \in Name : BecomesReady(n) \/ TamperWorkload(n) \/ MakeHeadless(n) \/ TamperService(n)
                     \/ TamperCopy(n)

Next == Worker \/ RecordRides \/ GatewayFails \/ Fail \/ Others
Spec == Init /\ [][Next]_vars

(* The card requeue brings a pass back, the informers catch up, Deployments  *)
(* come up and time passes.                                                  *)
Fairness ==
  /\ WF_vars(Worker) /\ WF_vars(SyncAgent) /\ WF_vars(SyncWorkloads) /\ WF_vars(SyncServices)
  /\ WF_vars(WindowPasses) /\ \A n \in Name : WF_vars(BecomesReady(n))
FairSpec == Spec /\ Fairness

-----------------------------------------------------------------------------
(***************************************************************************)
(* Properties.                                                             *)
(***************************************************************************)
(* The workload of the active revision runs the projection that status      *)
(* names, whatever is edited, pinned, collected or cut short, whatever the  *)
(* caches show and though two digests may share a name: "the gate passed on *)
(* X, the pods run Y, and the CR asserts X" does not happen by the          *)
(* operator's hand.  And it is there, unless it was promoted on a cached    *)
(* Deployment that had been collected already (ensureWorkload,              *)
(* collisionAgainstStatus, collectGarbage).                                 *)
ActiveRuns ==
  agent.active # None /\ NameOf[agent.active] \notin touched =>
    LET w == fleet.at[NameOf[agent.active]] IN
    /\ w.there => w.own /\ w.runs = agent.active /\ w.stamp = agent.active
    /\ w.there \/ NameOf[agent.active] \in ghosts

(* No collection deletes the workload, the copy or the Service of the       *)
(* revision that status names as active, though the pass may have read the  *)
(* Agent and the workloads before another pass promoted it: the write of    *)
(* the status comes first, and fails (writeStatus, collectGarbage,          *)
(* collectRevisionMaterial, collectRevisionServices).                       *)
Collects == collectRevisionMaterial \/ collectRevisionServices \/ \E n \in Name : CollectWorkload(n)
ActiveNotCollected ==
  [][Collects /\ agent.active # None =>
       LET n == NameOf[agent.active] IN
       fleet'.at[n] = fleet.at[n] /\ mat'[n] = mat[n] /\ svc'[n] = svc[n]]_vars

(* A workload keeps the copy of its env source that it was minted with, so  *)
(* that any retained revision can be rerun ("the published revision reads   *)
(* material the editor never had a reference to", material.go), unless a    *)
(* collection ran on a list that did not show the workload yet; the next    *)
(* pass for its revision makes the copy again.                              *)
CopiesKept ==
  \A n \in Name \ (touched \cup unlisted) :
    fleet.at[n].there => mat[n].holds = Content[fleet.at[n].runs]

(* A replace deletes a headless Service only if the operator created that   *)
(* object, or converged it to the render before, whatever else was put at   *)
(* the name ("An object headless on the pass it is first seen is never      *)
(* recorded", adoptServiceRecord).  The sweep of the names that left the    *)
(* retained set goes by labels and is not part of this.                     *)
OnlyOwnReplaced ==
  [][pass.pc = "wipe" /\ pass'.pc = "recreate" => svc[At].uid \in Created \cup adopted]_vars

(* A Service that stands and that the operator created for a revision is    *)
(* the one on record, through conflicts and replaces, unless the process    *)
(* died, or every attempt failed, between the create and its record, or the *)
(* revision left the retained set (persistServiceRecord,                    *)
(* pruneServiceRecords).                                                    *)
ServiceRecorded ==
  \A m \in made :
    m.uid \notin lost /\ svc[NameOf[m.for]].uid = m.uid /\ ~(pass.pc = "record" /\ pass.rev = m.for)
      => agent.record[m.for] = m.uid

Target == IF agent.pin = None THEN agent.want ELSE agent.pin
(* What the operator refuses, and leaves for a human to repair. *)
Refused ==
  LET n == NameOf[Target]
      w == fleet.at[n]
      s == svc[n]
      known == Target \in {agent.active, agent.candidate}
      provenance(o) == o.own /\ (o.stamp = Target \/ (o.stamp = None /\ known)) IN
  \/ collisionAgainstStatus(agent, Target)
  \/ agent.pin # None /\ (~resolveReleasePin(Target) \/ ~verifyRetainedMaterial(Target))
  \/ /\ agent.pin = None
     /\ \/ mat[n].holds \notin {None, Content[Target]}
        \/ w.there /\ ~provenance(w)
        \/ s.uid \notin {0, agent.record[Target]} /\ (~provenance(s) \/ s.shape = "headless")

(* What is left is at most what the retained set has room for, and every    *)
(* copy the operator knows belongs to a workload.                           *)
Tidy ==
  /\ Cardinality({n \in Name : fleet.at[n].there /\ fleet.at[n].own}) <= Limit + 2
  /\ \A n \in Name \ NamesOf({agent.active, agent.candidate}) : mat[n].marked => fleet.at[n].there

(* Once edits, tampering and faults stop, the revision asked for is active, *)
(* or the available candidate that a gate holds, with its workload, copy    *)
(* and Service in order and everything else collected, unless what others   *)
(* left is refused: a headless Service is replaced, drift is converged,     *)
(* what a crash left behind is swept.                                       *)
RevisionsSettle ==
  <>[](\/ Refused
       \/ /\ Target \in {agent.active, agent.candidate}
          /\ agent.pin = None =>
               LET n == NameOf[Target] IN
               /\ fleet.at[n].runs = Target /\ mat[n].holds = Content[Target] /\ mat[n].frozen
               /\ svc[n].uid # 0 /\ svc[n].own /\ svc[n].shape = "rendered"
          /\ Tidy)

(* The active revision has its Service, through edits, pins, collections,   *)
(* crashes, lagging caches and colliding names ("a revision is never        *)
(* available without one", reconcile; the objects of a pinned revision      *)
(* "exist by construction"), unless a pin promoted what no pass had         *)
(* completed: a pass for that revision died before it came to the Service,  *)
(* or the collection ran on a list that did not show its workload, or the   *)
(* workload was gone.                                                       *)
ActiveAddressed ==
  agent.active # None /\ NameOf[agent.active] \notin touched \cup ghosts \cup unlisted \cup cut =>
    svc[NameOf[agent.active]].uid # 0
=============================================================================
