---------------------------- MODULE RunNamespace ----------------------------
(***************************************************************************)
(* The run namespace of a source namespace and the record that binds it    *)
(* (runnamespace.go; design 02 A60).                                       *)
(*                                                                         *)
(* Agents of a source namespace run in a namespace the operator owns.  A   *)
(* ConfigMap, the binding record, proves that the operator created it: a   *)
(* nonce while the record is Creating, the namespace's UID from Bound on.  *)
(* The record is written by the Agents' passes (ensureRunNamespace), by    *)
(* their finalizers (releaseRunNamespaceIfLast) and by the Namespace-keyed *)
(* reconciler.  A mutex serializes them within one process; a state change *)
(* of the record is a compare-and-swap, but its deletion is not.           *)
(*                                                                         *)
(* A pass is split wherever something it does not lock can change between  *)
(* two of its calls.  A read is folded into the call it leads to when that *)
(* call repeats the test: a create fails if the object exists, and a       *)
(* namespace is deleted with its UID as a precondition.                    *)
(***************************************************************************)
EXTENDS Naturals, FiniteSets

CONSTANTS
  Source,       \* source namespaces; their names map to one run namespace
  Agent,        \* Agents
  Home,         \* Home[a]: the source namespace of a
  Worker,       \* goroutines that reconcile
  ProcessOf,    \* ProcessOf[w]: the operator process w runs in
  Serves,       \* Serves[w]: the keys w takes: Agents, None for the run namespace
  None,         \* an absent object, an empty string
  Lags,         \* whether a list of workloads from the cache may lag
  Outsiders,    \* what others do to the run namespace: "create", "delete"
  MaxIds,       \* bound: the UIDs and nonces handed out
  MaxEdits,     \* bound: what users and outsiders do
  MaxFaults     \* bound: calls that fail, and crashes

ASSUME ConstantsAssumption ==
  /\ Home \in [Agent -> Source]
  /\ Serves \in [Worker -> SUBSET (Agent \cup {None})]
  /\ None \notin Agent \cup Source \cup Nat
  /\ Lags \in BOOLEAN
  /\ Outsiders \subseteq {"create", "delete"}
  /\ MaxIds \in Nat /\ MaxEdits \in Nat /\ MaxFaults \in Nat

VARIABLES
  source,       \* source[s]: the UID of the namespace, or None
  agents,       \* agents[a]: phase and UID
  run,          \* the namespace that holds the run namespace's name
  record,       \* the binding record
  pass,         \* pass[w]: the pass w is in
  stale,        \* the workers whose copy of the record was overtaken
  unseen,       \* the Agents (by UID) whose workload the cache does not show yet
  ids,          \* UIDs and nonces handed out so far
  edits,        \* what users and outsiders did so far
  faults,       \* passes cut short so far
  made          \* history: [uid, for, nonce] of the namespaces the operator created

vars == <<source, agents, run, record, pass, stale, unseen, ids, edits, faults, made>>
world == <<source, agents, edits, faults>>

Id == Nat \cup {None}
State == {"none", "Creating", "Bound", "Terminating", "Deleting"}
Record == [state : State, src : Source \cup {None}, srcUID : Id, nonce : Id, uid : Id]
NoRecord == [state |-> "none", src |-> None, srcUID |-> None, nonce |-> None, uid |-> None]

(* work, copies: the Agents (by UID) with a workload or with material there. *)
Run == [uid : Id, nonce : Id, deleting : BOOLEAN, mirrored : BOOLEAN,
        work : SUBSET Id, copies : SUBSET Id]
NoRun == [uid |-> None, nonce |-> None, deleting |-> FALSE, mirrored |-> FALSE,
          work |-> {}, copies |-> {}]

Absent == [phase |-> "absent", uid |-> None]

(* Where a pass stands, before, inside and after its hold of the mutex. *)
Outside == {"idle", "source", "cleaned", "granted", "copied", "released"}
Inside == {"decide", "made", "mirrored", "rotate", "drop", "handle", "ask", "count", "keep",
           "give", "retire", "delete"}

(* b: the record as the pass read or wrote it.  src: the UID of its source. *)
(* ns: the namespace it was granted.  known: the deleting Agents it listed. *)
Pass == [pc : Outside \cup Inside, agent : Agent \cup {None}, uid : Id, final : BOOLEAN,
         src : Id, b : Record, ns : Id, known : SUBSET Id]
Idle == [pc |-> "idle", agent |-> None, uid |-> None, final |-> FALSE, src |-> None,
         b |-> NoRecord, ns |-> None, known |-> {}]

(* Every variable keeps its type, and a record past Creating names a UID:   *)
(* decodeBinding refuses one that does not, and with it every Agent.        *)
TypeOK ==
  /\ source \in [Source -> Id]
  /\ agents \in [Agent -> [phase : {"absent", "live", "deleting"}, uid : Id]]
  /\ run \in Run
  /\ record \in Record
  /\ record.state \in {"Bound", "Terminating", "Deleting"} => record.uid \in Nat
  /\ pass \in [Worker -> Pass]
  /\ stale \subseteq Worker
  /\ unseen \subseteq Id
  /\ ids \in Nat /\ edits \in Nat /\ faults \in Nat
  /\ made \subseteq [uid : Nat, for : Id, nonce : Id]

Init ==
  /\ source = [s \in Source |-> None]
  /\ agents = [a \in Agent |-> Absent]
  /\ run = NoRun /\ record = NoRecord
  /\ pass = [w \in Worker |-> Idle]
  /\ stale = {} /\ unseen = {} /\ ids = 0 /\ edits = 0 /\ faults = 0
  /\ made = {}

Fresh(w) == w \notin stale

(* A write of the record overtakes every other pass that has read it. *)
Overtake(w) == stale' = (stale \cup {v \in Worker : pass[v].pc \in Inside}) \ {w}

NewId == ids < MaxIds /\ ids' = ids + 1

(* Mutant: no mutex. *)
FreeAlways(w) == TRUE

(* lockRunNamespace *)
Free(w) == \A v \in Worker \ {w} : ProcessOf[v] = ProcessOf[w] => pass[v].pc \notin Inside

(* A work queue hands a key to one worker at a time. *)
Takes(w, key) ==
  /\ pass[w].pc = "idle"
  /\ key \in Serves[w]
  /\ \A v \in Worker \ {w} : ProcessOf[v] = ProcessOf[w] /\ pass[v].pc # "idle" => pass[v].agent # key

-----------------------------------------------------------------------------
(***************************************************************************)
(* Users, and others with rights over namespaces.                          *)
(***************************************************************************)
Edit == edits < MaxEdits /\ edits' = edits + 1 /\ faults' = faults

CreateSource(s) ==
  /\ Edit /\ NewId
  /\ source[s] = None
  /\ source' = [source EXCEPT ![s] = ids']
  /\ UNCHANGED <<agents, run, record, pass, stale, unseen, made>>

(* A namespace goes once the finalizers of the Agents in it are released. *)
DeleteSource(s) ==
  /\ Edit
  /\ source[s] # None
  /\ \A a \in Agent : Home[a] = s => agents[a].phase = "absent"
  /\ source' = [source EXCEPT ![s] = None]
  /\ UNCHANGED <<agents, run, record, pass, stale, unseen, ids, made>>

CreateAgent(a) ==
  /\ Edit /\ NewId
  /\ source[Home[a]] # None
  /\ agents[a].phase = "absent"
  /\ agents' = [agents EXCEPT ![a] = [phase |-> "live", uid |-> ids']]
  /\ UNCHANGED <<source, run, record, pass, stale, unseen, made>>

DeleteAgent(a) ==
  /\ Edit
  /\ agents[a].phase = "live"
  /\ agents' = [agents EXCEPT ![a].phase = "deleting"]
  /\ UNCHANGED <<source, run, record, pass, stale, unseen, ids, made>>

(* Another principal takes the name, with no nonce or with one it has read. *)
OutsiderCreates ==
  /\ Edit /\ NewId
  /\ "create" \in Outsiders
  /\ run.uid = None
  /\ \E nonce \in {None} \cup {m.nonce : m \in made} :
       run' = [NoRun EXCEPT !.uid = ids', !.nonce = nonce]
  /\ UNCHANGED <<source, agents, record, pass, stale, unseen, made>>

Going(r) == [r EXCEPT !.deleting = TRUE]

OutsiderDeletes ==
  /\ Edit
  /\ "delete" \in Outsiders
  /\ run.uid # None /\ ~run.deleting
  /\ run' = Going(run)
  /\ UNCHANGED <<source, agents, record, pass, stale, unseen, ids, made>>

(* The namespace controller has emptied a namespace that is being deleted. *)
RunGone ==
  /\ run.deleting
  /\ run' = NoRun
  /\ UNCHANGED <<world, record, pass, stale, unseen, ids, made>>

(* The cache delivers a workload. *)
CacheSees ==
  /\ \E u \in unseen : unseen' = unseen \ {u}
  /\ UNCHANGED <<world, run, record, pass, stale, ids, made>>

-----------------------------------------------------------------------------
(***************************************************************************)
(* ensureRunNamespace.                                                     *)
(***************************************************************************)
Ends(w) == pass' = [pass EXCEPT ![w] = Idle] /\ stale' = stale \ {w}

(* The source namespace is read before the mutex is taken. *)
EnsureBegin(w, a) ==
  /\ Takes(w, a)
  /\ agents[a].phase = "live"
  /\ pass' = [pass EXCEPT ![w] = [Idle EXCEPT !.pc = "source", !.agent = a, !.uid = agents[a].uid,
                                              !.src = source[Home[a]]]]
  /\ UNCHANGED <<world, run, record, stale, unseen, ids, made>>

(* readBinding, under the mutex. *)
EnsureLock(w) ==
  /\ pass[w].pc = "source"
  /\ Free(w)
  /\ pass' = [pass EXCEPT ![w].pc = "decide", ![w].b = record]
  /\ stale' = stale \ {w}
  /\ UNCHANGED <<world, run, record, unseen, ids, made>>

(* The checks in their order: what every check past 4, and past 5, assumes. *)
Mine(w) == pass[w].pc = "decide" /\ pass[w].b.state # "none" /\ pass[w].b.src = Home[pass[w].agent]
Current(w) == Mine(w) /\ pass[w].b.srcUID = pass[w].src
Replaced(w) == Mine(w) /\ pass[w].b.srcUID # pass[w].src

(* Check 3: no record, no namespace.  The pass goes on with what it wrote. *)
NewRecord(w) ==
  /\ pass[w].pc = "decide"
  /\ pass[w].b.state = "none"
  /\ run.uid = None
  /\ record.state = "none"
  /\ NewId
  /\ record' = [state |-> "Creating", src |-> Home[pass[w].agent], srcUID |-> pass[w].src,
                nonce |-> ids', uid |-> None]
  /\ pass' = [pass EXCEPT ![w].b = record']
  /\ Overtake(w)
  /\ UNCHANGED <<world, run, unseen, made>>

(* Mutant: the namespace of the record that is discarded is left behind. *)
DiscardNothing(w) ==
  /\ Replaced(w)
  /\ pass[w].b.state = "Creating"
  /\ pass' = [pass EXCEPT ![w].pc = "drop"]
  /\ UNCHANGED <<world, run, record, stale, unseen, ids, made>>

(* Check 5, Creating: a namespace with the record's nonce goes, then the record. *)
Discard(w) ==
  /\ Replaced(w)
  /\ pass[w].b.state = "Creating"
  /\ run' = IF run.uid # None /\ run.nonce = pass[w].b.nonce THEN Going(run) ELSE run
  /\ pass' = [pass EXCEPT ![w].pc = "drop"]
  /\ UNCHANGED <<world, record, stale, unseen, ids, made>>

(* The record is deleted with no precondition. *)
Drop(w) ==
  /\ pass[w].pc = "drop"
  /\ record' = NoRecord
  /\ Overtake(w)
  /\ pass' = [pass EXCEPT ![w] = Idle]
  /\ UNCHANGED <<world, run, unseen, ids, made>>

(* swapBinding *)
Swap(w, new) == Fresh(w) /\ record' = new /\ Overtake(w)

(* Mutant: a record whose source was replaced is retired, bound or not. *)
RetireUnbound(w) ==
  /\ \/ Replaced(w) /\ pass[w].b.state \in {"Creating", "Bound"}
     \/ Current(w) /\ pass[w].b.state = "Bound" /\ run.uid # None /\ run.deleting
  /\ Swap(w, [pass[w].b EXCEPT !.state = "Terminating"])
  /\ pass' = [pass EXCEPT ![w].pc = "handle", ![w].b = record']
  /\ UNCHANGED <<world, run, unseen, ids, made>>

(* Checks 5 and 12, Bound: the handler follows on the record as swapped. *)
Retire(w) ==
  /\ pass[w].pc = "decide"
  /\ pass[w].b.state = "Bound"
  /\ Replaced(w) \/ (Current(w) /\ run.uid # None /\ run.deleting)
  /\ Swap(w, [pass[w].b EXCEPT !.state = "Terminating"])
  /\ pass' = [pass EXCEPT ![w].pc = "handle", ![w].b = record']
  /\ UNCHANGED <<world, run, unseen, ids, made>>

(* Check 7: the namespace is created under the record's nonce ... *)
CreateRun(w) ==
  /\ Current(w)
  /\ pass[w].b.state = "Creating"
  /\ run.uid = None
  /\ NewId
  /\ run' = [NoRun EXCEPT !.uid = ids', !.nonce = pass[w].b.nonce]
  /\ made' = made \cup {[uid |-> ids', for |-> pass[w].src, nonce |-> pass[w].b.nonce]}
  /\ pass' = [pass EXCEPT ![w].pc = "made", ![w].ns = ids']
  /\ UNCHANGED <<world, record, stale, unseen>>

(* Mutant: a mirror that fails is not an error. *)
MirrorTried(w) ==
  /\ pass[w].pc = "made"
  /\ pass' = [pass EXCEPT ![w].pc = "mirrored"]
  /\ UNCHANGED <<world, run, record, stale, unseen, ids, made>>

(* ... the quotas and limits are mirrored, by name ... *)
Mirror(w) ==
  /\ pass[w].pc = "made"
  /\ run.uid # None /\ ~run.deleting
  /\ run' = [run EXCEPT !.mirrored = TRUE]
  /\ pass' = [pass EXCEPT ![w].pc = "mirrored"]
  /\ UNCHANGED <<world, record, stale, unseen, ids, made>>

Granted(w, ns) == [pass[w] EXCEPT !.pc = "granted", !.ns = ns, !.b = NoRecord]

(* ... and the UID of the create response is recorded. *)
Bind(w) ==
  /\ pass[w].pc = "mirrored"
  /\ Swap(w, [pass[w].b EXCEPT !.state = "Bound", !.uid = pass[w].ns])
  /\ pass' = [pass EXCEPT ![w] = Granted(w, pass[w].ns)]
  /\ UNCHANGED <<world, run, unseen, ids, made>>

(* Check 9: a namespace of the nonce that was never bound is deleted ... *)
DiscardCrashed(w) ==
  /\ Current(w)
  /\ pass[w].b.state = "Creating"
  /\ run.uid # None /\ ~run.deleting
  /\ run.nonce = pass[w].b.nonce
  /\ run' = Going(run)
  /\ pass' = [pass EXCEPT ![w].pc = "rotate"]
  /\ UNCHANGED <<world, record, stale, unseen, ids, made>>

(* ... and the nonce replaced. *)
Rotate(w) ==
  /\ pass[w].pc = "rotate"
  /\ NewId
  /\ Swap(w, [pass[w].b EXCEPT !.nonce = ids'])
  /\ pass' = [pass EXCEPT ![w] = Idle]
  /\ UNCHANGED <<world, run, unseen, made>>

(* Mutant: a bound namespace that is gone is waited for. *)
RebuildWaits(w) ==
  /\ Current(w)
  /\ pass[w].b.state = "Bound"
  /\ run.uid = None
  /\ Ends(w)
  /\ UNCHANGED <<world, run, record, unseen, ids, made>>

(* Check 11: the bound namespace is gone. *)
Rebuild(w) ==
  /\ Current(w)
  /\ pass[w].b.state = "Bound"
  /\ run.uid = None
  /\ NewId
  /\ Swap(w, [pass[w].b EXCEPT !.state = "Creating", !.nonce = ids', !.uid = None])
  /\ pass' = [pass EXCEPT ![w] = Idle]
  /\ UNCHANGED <<world, run, unseen, made>>

(* Mutant: check 13 is missing. *)
BoundHereAny(w) == run.uid # None /\ ~run.deleting

(* Checks 12 to 14: the namespace is there, and it is the one recorded. *)
BoundHere(w) == run.uid # None /\ ~run.deleting /\ run.uid = pass[w].b.uid

(* Check 14: labels and mirrors are reconciled, and the namespace granted. *)
UseBound(w) ==
  /\ Current(w)
  /\ pass[w].b.state = "Bound"
  /\ BoundHere(w)
  /\ run' = [run EXCEPT !.mirrored = TRUE]
  /\ pass' = [pass EXCEPT ![w] = Granted(w, run.uid)]
  /\ stale' = stale \ {w}
  /\ UNCHANGED <<world, record, unseen, ids, made>>

-----------------------------------------------------------------------------
(***************************************************************************)
(* runNamespaceHandler, on a record that is Terminating or Deleting.  Its  *)
(* callers: checks 5, 6 and 12, the finalizer and the Namespace-keyed      *)
(* reconciler.                                                             *)
(***************************************************************************)
Handles(w) ==
  /\ pass[w].pc = "handle" \/ Mine(w)
  /\ pass[w].b.state \in {"Terminating", "Deleting"}

(* The finalizer is released after the handler; other callers are done. *)
After(w) == IF pass[w].final THEN [pass[w] EXCEPT !.pc = "released", !.b = NoRecord, !.known = {}]
            ELSE Idle

(* Mutant: a record in another state is an error. *)
HandleNothingFails(w) ==
  /\ pass[w].pc = "handle"
  /\ pass[w].b.state \in {"Creating", "Bound"}
  /\ Ends(w)
  /\ UNCHANGED <<world, run, record, unseen, ids, made>>

(* Step 0: in any other state there is nothing to do. *)
HandleNothing(w) ==
  /\ pass[w].pc = "handle"
  /\ pass[w].b.state \in {"Creating", "Bound"}
  /\ pass' = [pass EXCEPT ![w] = After(w)]
  /\ stale' = stale \ {w}
  /\ UNCHANGED <<world, run, record, unseen, ids, made>>

(* Step 1: the namespace the record names is gone, and so is the record. *)
HandleGone(w) ==
  /\ Handles(w)
  /\ run.uid # pass[w].b.uid
  /\ record' = NoRecord
  /\ Overtake(w)
  /\ pass' = [pass EXCEPT ![w] = After(w)]
  /\ UNCHANGED <<world, run, unseen, ids, made>>

(* Step 2: it is being deleted. *)
HandleGoing(w) ==
  /\ Handles(w)
  /\ run.uid = pass[w].b.uid /\ run.deleting
  /\ pass' = [pass EXCEPT ![w] = After(w)]
  /\ stale' = stale \ {w}
  /\ UNCHANGED <<world, run, record, unseen, ids, made>>

(***************************************************************************)
(* runNamespaceStillNeeded, asked of a Bound record by a finalizer and of  *)
(* a Terminating one by the handler.  Its first lists: the source          *)
(* namespace, then the Agents in it other than the one being finalized.    *)
(***************************************************************************)
Others(w) == {a \in Agent : /\ Home[a] = pass[w].b.src
                            /\ agents[a].phase # "absent"
                            /\ ~(pass[w].final /\ agents[a].uid = pass[w].uid)}

Needed(w) == IF pass[w].b.state = "Bound" THEN After(w) ELSE [pass[w] EXCEPT !.pc = "keep", !.known = {}]
Unneeded(w) == [pass[w] EXCEPT !.pc = IF pass[w].b.state = "Bound" THEN "retire" ELSE "give",
                               !.known = {}]

Asks(w) ==
  \/ pass[w].pc = "ask"
  \/ /\ Handles(w)
     /\ pass[w].b.state = "Terminating"
     /\ run.uid = pass[w].b.uid /\ ~run.deleting

(* A source that was replaced has no Agents to count. *)
Listed(w) ==
  IF source[pass[w].b.src] # pass[w].b.srcUID \/ Others(w) = {} THEN Unneeded(w)
  ELSE IF \E a \in Others(w) : agents[a].phase = "live" THEN Needed(w)
  ELSE [pass[w] EXCEPT !.pc = "count", !.known = {agents[a].uid : a \in Others(w)}]

(* Mutant: the handler trusts the list its caller made before the swap. *)
ListTrusted(w) ==
  /\ Asks(w)
  /\ pass' = [pass EXCEPT ![w] = IF pass[w].pc = "ask" THEN Listed(w) ELSE Unneeded(w)]
  /\ UNCHANGED <<world, run, record, stale, unseen, ids, made>>

List(w) ==
  /\ Asks(w)
  /\ pass' = [pass EXCEPT ![w] = Listed(w)]
  /\ UNCHANGED <<world, run, record, stale, unseen, ids, made>>

(* Its second lists: the workloads and copies of the deleting Agents. *)
Count(w) ==
  /\ pass[w].pc = "count"
  /\ pass' = [pass EXCEPT ![w] =
       IF pass[w].known \cap (run.work \cup run.copies) # {} THEN Needed(w) ELSE Unneeded(w)]
  /\ UNCHANGED <<world, run, record, stale, unseen, ids, made>>

(* Step 3: the namespace is needed. *)
Keep(w) ==
  /\ pass[w].pc = "keep"
  /\ Swap(w, [pass[w].b EXCEPT !.state = "Bound"])
  /\ pass' = [pass EXCEPT ![w] = After(w)]
  /\ UNCHANGED <<world, run, unseen, ids, made>>

(* Step 4: it is not.  Nothing leads back from Deleting. *)
Give(w) ==
  /\ pass[w].pc = "give"
  /\ Swap(w, [pass[w].b EXCEPT !.state = "Deleting"])
  /\ pass' = [pass EXCEPT ![w].pc = "delete", ![w].b = record']
  /\ UNCHANGED <<world, run, unseen, ids, made>>

(* Step 5: deleteRunNamespace, with the UID as a precondition. *)
HandleDelete(w) ==
  /\ \/ pass[w].pc = "delete"
     \/ Handles(w) /\ pass[w].b.state = "Deleting" /\ run.uid = pass[w].b.uid /\ ~run.deleting
  /\ run' = IF run.uid = pass[w].b.uid THEN Going(run) ELSE run
  /\ pass' = [pass EXCEPT ![w] = After(w)]
  /\ stale' = stale \ {w}
  /\ UNCHANGED <<world, record, unseen, ids, made>>

-----------------------------------------------------------------------------
(***************************************************************************)
(* The finalizer: finalize and releaseRunNamespaceIfLast.                  *)
(***************************************************************************)
(* Mutant: the copies are left to the namespace. *)
FinalCleanWork(w, a) ==
  /\ Takes(w, a)
  /\ agents[a].phase = "deleting"
  /\ LET uid == agents[a].uid IN
       /\ run' = IF run.uid = None \/ run.deleting \/ uid \in unseen THEN run
                 ELSE [run EXCEPT !.work = @ \ {uid}]
       /\ pass' = [pass EXCEPT ![w] = [Idle EXCEPT !.pc = "cleaned", !.agent = a, !.uid = uid,
                                                   !.final = TRUE]]
  /\ UNCHANGED <<world, record, stale, unseen, ids, made>>

(* The Agent's workloads, as the cache lists them, and its copies, listed  *)
(* live.  A namespace being deleted is left to the namespace controller.   *)
FinalClean(w, a) ==
  /\ Takes(w, a)
  /\ agents[a].phase = "deleting"
  /\ LET uid == agents[a].uid IN
       /\ run' = IF run.uid = None \/ run.deleting THEN run
                 ELSE [run EXCEPT !.copies = @ \ {uid},
                                  !.work = IF uid \in unseen THEN @ ELSE @ \ {uid}]
       /\ pass' = [pass EXCEPT ![w] = [Idle EXCEPT !.pc = "cleaned", !.agent = a, !.uid = uid,
                                                   !.final = TRUE]]
  /\ UNCHANGED <<world, record, stale, unseen, ids, made>>

(* The record is read under the mutex; without one there is nothing to do. *)
FinalLock(w) ==
  /\ pass[w].pc = "cleaned"
  /\ Free(w)
  /\ pass' = [pass EXCEPT ![w] =
       IF record.state = "none" \/ record.src # Home[pass[w].agent] THEN [@ EXCEPT !.pc = "released"]
       ELSE [@ EXCEPT !.pc = IF record.state = "Bound" THEN "ask" ELSE "handle", !.b = record]]
  /\ stale' = stale \ {w}
  /\ UNCHANGED <<world, run, record, unseen, ids, made>>

(* The last Agent swaps the record before the confirming list. *)
RetireLast(w) ==
  /\ pass[w].pc = "retire"
  /\ Swap(w, [pass[w].b EXCEPT !.state = "Terminating"])
  /\ pass' = [pass EXCEPT ![w].pc = "handle", ![w].b = record']
  /\ UNCHANGED <<world, run, unseen, ids, made>>

(* The swap conflicts: the handler runs on a fresh read. *)
RetireConflict(w) ==
  /\ pass[w].pc = "retire"
  /\ ~Fresh(w)
  /\ pass' = [pass EXCEPT ![w] = IF record.state = "none" THEN After(w)
                                 ELSE [@ EXCEPT !.pc = "handle", !.b = record]]
  /\ stale' = stale \ {w}
  /\ UNCHANGED <<world, run, record, unseen, ids, made>>

FinalRelease(w) ==
  /\ pass[w].pc = "released"
  /\ agents[pass[w].agent].uid = pass[w].uid
  /\ agents' = [agents EXCEPT ![pass[w].agent] = Absent]
  /\ Ends(w)
  /\ UNCHANGED <<source, run, record, unseen, ids, edits, faults, made>>

-----------------------------------------------------------------------------
(* RunNamespaceReconciler: the handler, for no Agent. *)
NamespaceBegin(w) ==
  /\ Takes(w, None)
  /\ Free(w)
  /\ record.state \in {"Terminating", "Deleting"}
  /\ pass' = [pass EXCEPT ![w] = [Idle EXCEPT !.pc = "handle", !.b = record]]
  /\ stale' = stale \ {w}
  /\ UNCHANGED <<world, run, record, unseen, ids, made>>

(***************************************************************************)
(* The rest of an Agent's pass writes by name into the namespace it was    *)
(* granted: first the copies, then the workload that reads them.           *)
(***************************************************************************)
Open == run.uid # None /\ ~run.deleting

PlaceCopies(w) ==
  /\ pass[w].pc = "granted"
  /\ Open
  /\ run' = [run EXCEPT !.copies = @ \cup {pass[w].uid}]
  /\ pass' = [pass EXCEPT ![w].pc = "copied"]
  /\ UNCHANGED <<world, record, stale, unseen, ids, made>>

PlaceWorkload(w) ==
  /\ pass[w].pc = "copied"
  /\ Open
  /\ run' = [run EXCEPT !.work = @ \cup {pass[w].uid}]
  /\ unseen' = IF Lags /\ pass[w].uid \notin run.work THEN unseen \cup {pass[w].uid} ELSE unseen
  /\ Ends(w)
  /\ UNCHANGED <<world, record, ids, made>>

(***************************************************************************)
(* What ends a pass early: a check that waits (1, 8) or refuses the        *)
(* namespace (2, 4, 10, 13), or a write that something else came before.   *)
(***************************************************************************)
Swapping(w) ==
  \/ pass[w].pc \in {"mirrored", "rotate", "keep", "give"}
  \/ Mine(w) /\ pass[w].b.state = "Bound" /\ (Replaced(w) \/ run.uid = None \/ run.deleting)

Refused(w) ==
  \/ pass[w].pc = "decide" /\ pass[w].b.state = "none" /\ (run.uid # None \/ record.state # "none")
  \/ pass[w].pc = "decide" /\ pass[w].b.state # "none" /\ ~Mine(w)
  \/ /\ Current(w) /\ pass[w].b.state = "Creating"
     /\ run.uid # None /\ (run.deleting \/ run.nonce # pass[w].b.nonce)
  \/ /\ Current(w) /\ pass[w].b.state = "Bound"
     /\ run.uid # None /\ ~run.deleting /\ ~BoundHere(w)
  \/ pass[w].pc \in {"made", "granted", "copied"} /\ ~Open
  \/ pass[w].pc = "released" /\ agents[pass[w].agent].uid # pass[w].uid
  \/ ~Fresh(w) /\ Swapping(w)
  \/ pass[w].pc = "retire" /\ record.state = "none"

Wait(w) ==
  /\ Refused(w)
  /\ Ends(w)
  /\ UNCHANGED <<world, run, record, unseen, ids, made>>

(* A call fails, or the process dies and with it the pass and its mutex. *)
Fail(w) ==
  /\ faults < MaxFaults
  /\ faults' = faults + 1
  /\ pass[w].pc # "idle"
  /\ Ends(w)
  /\ UNCHANGED <<source, agents, edits, run, record, unseen, ids, made>>

-----------------------------------------------------------------------------
Ensures(w) ==
  \/ EnsureLock(w) \/ NewRecord(w) \/ Discard(w) \/ Drop(w) \/ Retire(w) \/ CreateRun(w)
  \/ Mirror(w) \/ Bind(w) \/ DiscardCrashed(w) \/ Rotate(w) \/ Rebuild(w) \/ UseBound(w)
  \/ PlaceCopies(w) \/ PlaceWorkload(w)

Handler(w) ==
  \/ HandleNothing(w) \/ HandleGone(w) \/ HandleGoing(w) \/ List(w) \/ Count(w) \/ Keep(w)
  \/ Give(w) \/ HandleDelete(w)

Finalizes(w) == FinalLock(w) \/ RetireLast(w) \/ RetireConflict(w) \/ FinalRelease(w)

Step(w) == Ensures(w) \/ Handler(w) \/ Finalizes(w) \/ Wait(w)

Next ==
  \/ \E s \in Source : CreateSource(s) \/ DeleteSource(s)
  \/ \E a \in Agent : CreateAgent(a) \/ DeleteAgent(a)
  \/ OutsiderCreates \/ OutsiderDeletes \/ RunGone \/ CacheSees
  \/ \E w \in Worker :
       \/ \E a \in Agent : EnsureBegin(w, a) \/ FinalClean(w, a)
       \/ NamespaceBegin(w) \/ Step(w) \/ Fail(w)

Spec == Init /\ [][Next]_vars

(***************************************************************************)
(* A key that is waited for or failed is requeued (5 seconds, the card     *)
(* drift interval or a backoff), so each Agent keeps being taken; a pass   *)
(* goes on until it ends; Kubernetes finishes deleting a namespace.        *)
(***************************************************************************)
Fairness ==
  /\ WF_vars(RunGone) /\ WF_vars(CacheSees)
  /\ \A w \in Worker : WF_vars(Step(w))
  /\ \A w \in Worker, a \in Agent : SF_vars(EnsureBegin(w, a)) /\ SF_vars(FinalClean(w, a))

FairSpec == Spec /\ Fairness

-----------------------------------------------------------------------------
(***************************************************************************)
(* Properties.                                                             *)
(***************************************************************************)
Live(u) == \E a \in Agent : agents[a].phase = "live" /\ agents[a].uid = u

(* The live Agents with objects in the run namespace, or on their way there. *)
Users == {u \in run.work \cup run.copies : Live(u)}
         \cup {u \in {pass[w].uid : w \in {v \in Worker : /\ pass[v].pc \in {"granted", "copied"}
                                                        /\ pass[v].ns = run.uid}} : Live(u)}

(* No namespace is adopted: one an Agent's pass is granted was created by   *)
(* the operator, for the source namespace that pass read, whatever others   *)
(* do to the name and however many processes run ("a namespace is bound     *)
(* only by the reconcile that received its Create response", check 7).      *)
GrantSound ==
  \A w \in Worker : pass[w].pc \in {"granted", "copied"} =>
    \E m \in made : m.uid = pass[w].ns /\ m.for = pass[w].src

(* A namespace the handler has decided to delete serves no live Agent:      *)
(* "every reader sees it live ... an Agent that exists at the time of a     *)
(* live list is in it" (design 02; handler steps 3 to 5), within a process  *)
(* and in a handover from one to another; with three of them and somebody   *)
(* else who deletes namespaces it does not hold.                            *)
DeletingUnused ==
  record.state = "Deleting" /\ run.uid = record.uid /\ ~run.deleting => Users = {}

(* Within one process, and while nobody else deletes namespaces, the        *)
(* operator never starts deleting a run namespace that a live Agent uses:   *)
(* neither the handler nor check 9, for which without the mutex "a peer     *)
(* mid-check-7 ... is indistinguishable from a crashed predecessor"         *)
(* (lockRunNamespace).                                                      *)
LiveKept == [][run'.deleting /\ ~run.deleting /\ edits' = edits => Users = {}]_vars

(* The operator never refuses its own namespace as NotCreatedByOperator:    *)
(* one it created and that is not being deleted is known to the record, by  *)
(* nonce or by UID (checks 2, 10 and 13).                                   *)
OwnNamespaceKnown ==
  run.uid # None /\ ~run.deleting /\ (\E m \in made : m.uid = run.uid) =>
    \/ record.state = "Creating" /\ record.nonce = run.nonce
    \/ record.uid = run.uid

Declared(u) == \E a \in Agent : agents[a].phase # "absent" /\ agents[a].uid = u

(* Copies of a Secret do not outlive their Agent: "A copy left behind is a  *)
(* snapshot of a Secret's bytes outliving the Agent that justified reading  *)
(* them" (finalize).                                                        *)
CopiesCollected == run.deleting \/ \A u \in run.copies : Declared(u)

(* Nor does a workload: "this step is the only thing that collects them"    *)
(* (finalize).                                                              *)
WorkloadsCollected == run.deleting \/ \A u \in run.work : Declared(u)

(* Somebody else's namespace holds the name. *)
Foreign == run.uid # None /\ \A m \in made : m.uid # run.uid

(* "Mirrors BEFORE Bound, so the first Pod cannot precede its quota"        *)
(* (check 7), in the namespaces the operator makes.                         *)
QuotaFirst == run.work # {} /\ ~Foreign => run.mirrored

(* Once users, outsiders and faults stop, every live Agent has its workload *)
(* in the run namespace, unless somebody else's namespace holds the name.   *)
AgentsPlaced == <>[](Foreign \/ \A a \in Agent : agents[a].phase = "live" => agents[a].uid \in run.work)

(* And every deleted Agent is let go, whatever state the record is in       *)
(* (finalize: "a finalizer that returns an error never releases").          *)
AgentsReleased == <>[](\A a \in Agent : agents[a].phase # "deleting")
=============================================================================
