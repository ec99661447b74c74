------------------------- MODULE RunNamespaceProofs -------------------------
(***************************************************************************)
(* No namespace is adopted, for any number of Agents, workers, processes   *)
(* and faults.                                                             *)
(***************************************************************************)
EXTENDS RunNamespace, TLAPS

Held == {"Bound", "Terminating", "Deleting"}

(* S: the namespaces the operator has created. *)
MadeFor(S, ns, src) == \E m \in S : m.uid = ns /\ m.for = src

(* A binding past Creating names a namespace created for its source. *)
BindingOK(b, S) == b.state \in Held => MadeFor(S, b.uid, b.srcUID)

(* What a pass has established at each of its steps. *)
PassOK(p, S) ==
  /\ BindingOK(p.b, S)
  /\ p.pc \in {"made", "mirrored"} => MadeFor(S, p.ns, p.src) /\ p.b.srcUID = p.src
  /\ p.pc \in {"granted", "copied"} => MadeFor(S, p.ns, p.src)
  /\ p.pc \in {"ask", "retire"} => p.b.state = "Bound"
  /\ p.pc = "count" => p.b.state \in {"Bound", "Terminating"}
  /\ p.pc \in {"keep", "give"} => p.b.state = "Terminating"
  /\ p.pc \in {"source", "decide"} => p.agent \in Agent

BindInv ==
  /\ TypeOK
  /\ BindingOK(record, made)
  /\ \A w \in Worker : PassOK(pass[w], made)

-----------------------------------------------------------------------------
(* What is created stays created. *)
LEMMA MadeGrows ==
  ASSUME NEW S, NEW T, S \subseteq T, NEW p, PassOK(p, S)
  PROVE  PassOK(p, T)
BY DEF PassOK, BindingOK, MadeFor

LEMMA IdleTyped == Idle \in Pass /\ NoRecord \in Record /\ NoRun \in Run
BY ConstantsAssumption DEF Idle, Pass, NoRecord, Record, NoRun, Run, State, Id, Outside, Inside

LEMMA IdleOK == ASSUME NEW S PROVE PassOK(Idle, S) /\ BindingOK(NoRecord, S)
BY DEF Idle, PassOK, BindingOK, NoRecord, Held

(* A step of worker w preserves the invariant if what it leaves does. *)
LEMMA PassStep ==
  ASSUME BindInv, NEW w \in Worker,
         pass' \in [Worker -> Pass],
         \A v \in Worker : v # w => pass'[v] = pass[v],
         PassOK(pass'[w], made'),
         record' \in Record, BindingOK(record', made'),
         made \subseteq made', made' \subseteq [uid : Nat, for : Id, nonce : Id],
         run' \in Run, stale' \subseteq Worker, unseen' \subseteq Id, ids' \in Nat,
         source' \in [Source -> Id],
         agents' \in [Agent -> [phase : {"absent", "live", "deleting"}, uid : Id]],
         edits' \in Nat, faults' \in Nat
  PROVE  BindInv'
<1>1. \A v \in Worker : PassOK(pass'[v], made')
  BY MadeGrows DEF BindInv
<1>2. record'.state \in Held => record'.uid \in Nat
  BY DEF BindingOK, MadeFor
<1>3. TypeOK'
  BY <1>2 DEF TypeOK, Held
<1> QED BY <1>1, <1>3 DEF BindInv

(* The same, for a step that creates no namespace and leaves the pass p. *)
LEMMA Leaves ==
  ASSUME BindInv, NEW w \in Worker, NEW p \in Pass,
         pass' = [pass EXCEPT ![w] = p], PassOK(p, made),
         record' \in Record, BindingOK(record', made), made' = made,
         run' \in Run, stale' \subseteq Worker, unseen' \subseteq Id, ids' \in Nat,
         UNCHANGED world
  PROVE  BindInv'
<1>1. /\ pass' \in [Worker -> Pass]
      /\ pass'[w] = p
      /\ \A v \in Worker : v # w => pass'[v] = pass[v]
  BY DEF BindInv, TypeOK
<1>2. /\ source' \in [Source -> Id]
      /\ agents' \in [Agent -> [phase : {"absent", "live", "deleting"}, uid : Id]]
      /\ edits' \in Nat /\ faults' \in Nat
  BY DEF BindInv, TypeOK, world
<1>3. made \subseteq made' /\ made' \subseteq [uid : Nat, for : Id, nonce : Id]
  BY DEF BindInv, TypeOK
<1> QED BY <1>1, <1>2, <1>3, PassStep

(* A step that leaves the record and the namespace alone. *)
LEMMA LeavesRecord ==
  ASSUME BindInv, NEW w \in Worker, NEW p \in Pass,
         pass' = [pass EXCEPT ![w] = p], PassOK(p, made),
         record' = record, made' = made, run' \in Run, stale' \subseteq Worker,
         unseen' = unseen, ids' = ids, UNCHANGED world
  PROVE  BindInv'
<1>1. /\ record' \in Record /\ BindingOK(record', made) /\ unseen' \subseteq Id /\ ids' \in Nat
  BY DEF BindInv, TypeOK
<1> QED BY <1>1, Leaves

(* The types of a worker's pass, and of a pass that moves on. *)
LEMMA PassTyped ==
  ASSUME BindInv, NEW w \in Worker
  PROVE  /\ pass[w] \in Pass /\ PassOK(pass[w], made)
         /\ record \in Record /\ BindingOK(record, made) /\ run \in Run
         /\ stale \subseteq Worker /\ stale \ {w} \subseteq Worker /\ ids \in Nat
BY DEF BindInv, TypeOK

LEMMA Moves ==
  ASSUME NEW p \in Pass, NEW pc \in Outside \cup Inside, NEW b \in Record
  PROVE  /\ [p EXCEPT !.pc = pc] \in Pass
         /\ [p EXCEPT !.pc = pc, !.b = b] \in Pass
         /\ [p EXCEPT !.b = b] \in Pass
BY DEF Pass

LEMMA AfterOK ==
  ASSUME BindInv, NEW w \in Worker
  PROVE  After(w) \in Pass /\ PassOK(After(w), made)
<1>1. pass[w] \in Pass
  BY PassTyped
<1>2. CASE pass[w].final
  <2>1. After(w) = [pass[w] EXCEPT !.pc = "released", !.b = NoRecord, !.known = {}]
    BY <1>2 DEF After
  <2>2. After(w) \in Pass
    BY <1>1, <2>1, IdleTyped DEF Pass, Outside
  <2>3. After(w).b = NoRecord /\ After(w).pc = "released"
    BY <1>1, <2>1 DEF Pass
  <2> QED BY <2>2, <2>3, IdleOK DEF PassOK
<1>3. CASE ~pass[w].final
  BY <1>3, IdleTyped, IdleOK DEF After
<1> QED BY <1>2, <1>3

(* A swap keeps the fields it does not name. *)
LEMMA SwapOK ==
  ASSUME NEW b \in Record, b.state \in Held, BindingOK(b, made), NEW s \in Held
  PROVE  [b EXCEPT !.state = s] \in Record /\ BindingOK([b EXCEPT !.state = s], made)
BY DEF Record, State, BindingOK, Held

LEMMA OvertakeTyped ==
  ASSUME BindInv, NEW w \in Worker, Overtake(w)
  PROVE  stale' \subseteq Worker
BY DEF Overtake, BindInv, TypeOK

LEMMA GoingTyped == ASSUME NEW r \in Run PROVE Going(r) \in Run
BY DEF Going, Run

LEMMA WaitInv ==
  ASSUME BindInv, NEW w \in Worker, Wait(w)
  PROVE  BindInv'
<1>1. pass' = [pass EXCEPT ![w] = Idle] /\ stale' = stale \ {w} /\ UNCHANGED world
  BY DEF Wait, Ends
<1>2. record' = record /\ made' = made /\ run' = run /\ unseen' = unseen /\ ids' = ids
  BY DEF Wait
<1> QED BY <1>1, <1>2, PassTyped, IdleTyped, IdleOK, LeavesRecord

(* A step that writes the record alone. *)
LEMMA Writes ==
  ASSUME BindInv, NEW w \in Worker, NEW p \in Pass,
         pass' = [pass EXCEPT ![w] = p], PassOK(p, made),
         record' \in Record, BindingOK(record', made), Overtake(w), ids' \in Nat,
         UNCHANGED <<world, run, unseen, made>>
  PROVE  BindInv'
<1>1. run' \in Run /\ unseen' \subseteq Id /\ made' = made /\ stale' \subseteq Worker
  BY OvertakeTyped DEF BindInv, TypeOK
<1> QED BY <1>1, Leaves

-----------------------------------------------------------------------------
(***************************************************************************)
(* ensureRunNamespace.                                                     *)
(***************************************************************************)
LEMMA EnsureBeginInv ==
  ASSUME BindInv, NEW w \in Worker, NEW a \in Agent, EnsureBegin(w, a)
  PROVE  BindInv'
<1> DEFINE p == [Idle EXCEPT !.pc = "source", !.agent = a, !.uid = agents[a].uid,
                             !.src = source[Home[a]]]
<1>1. agents[a].uid \in Id /\ source[Home[a]] \in Id
  BY ConstantsAssumption DEF BindInv, TypeOK
<1>2. p \in Pass
  BY <1>1, IdleTyped DEF Pass, Outside
<1>3. p.b = NoRecord /\ p.pc = "source"
  BY DEF Idle
<1>4. PassOK(p, made)
  BY <1>3, IdleOK DEF PassOK
<1>5. pass' = [pass EXCEPT ![w] = p]
  BY DEF EnsureBegin
<1> HIDE DEF p
<1> QED BY <1>2, <1>4, <1>5, PassTyped, LeavesRecord DEF EnsureBegin

LEMMA EnsureLockInv ==
  ASSUME BindInv, NEW w \in Worker, EnsureLock(w)
  PROVE  BindInv'
<1> DEFINE p == [pass[w] EXCEPT !.pc = "decide", !.b = record]
<1>1. p \in Pass
  BY PassTyped, Moves DEF Inside
<1>2. p.b = record /\ p.pc = "decide" /\ p.agent \in Agent
  BY PassTyped DEF Pass, PassOK, EnsureLock
<1>3. PassOK(p, made)
  BY <1>2, PassTyped DEF PassOK
<1>4. pass' = [pass EXCEPT ![w] = p]
  BY PassTyped DEF EnsureLock, Pass
<1> HIDE DEF p
<1> QED BY <1>1, <1>3, <1>4, PassTyped, LeavesRecord DEF EnsureLock

LEMMA NewRecordInv ==
  ASSUME BindInv, NEW w \in Worker, NewRecord(w)
  PROVE  BindInv'
<1> DEFINE p == [pass[w] EXCEPT !.b = record']
<1>1. ids' \in Nat /\ pass[w].pc = "decide"
  BY DEF NewRecord, NewId, BindInv, TypeOK
<1>2. pass[w].agent \in Agent /\ pass[w].src \in Id
  BY <1>1, PassTyped DEF Pass, PassOK
<1>3. record' \in Record /\ record'.state = "Creating"
  BY <1>1, <1>2, ConstantsAssumption DEF NewRecord, Record, State, Id
<1>4. BindingOK(record', made)
  BY <1>3 DEF BindingOK, Held
<1>5. p \in Pass
  BY <1>3, PassTyped, Moves DEF Inside
<1>6. p.b = record' /\ p.pc = "decide" /\ p.agent \in Agent
  BY <1>1, <1>2, PassTyped DEF Pass
<1>7. PassOK(p, made)
  BY <1>4, <1>6 DEF PassOK
<1>8. pass' = [pass EXCEPT ![w] = p]
  BY DEF NewRecord
<1> HIDE DEF p
<1> QED BY <1>1, <1>3, <1>4, <1>5, <1>7, <1>8, Writes DEF NewRecord

LEMMA DiscardInv ==
  ASSUME BindInv, NEW w \in Worker, Discard(w)
  PROVE  BindInv'
<1> DEFINE p == [pass[w] EXCEPT !.pc = "drop"]
<1>1. p \in Pass /\ p.pc = "drop" /\ p.b = pass[w].b
  BY PassTyped, Moves, ZenonT(60) DEF Inside, Pass
<1>2. PassOK(p, made)
  BY <1>1, PassTyped DEF PassOK
<1>3. pass' = [pass EXCEPT ![w] = p]
  BY DEF Discard
<1>4. run' \in Run
  BY PassTyped, GoingTyped DEF Discard
<1> HIDE DEF p
<1> QED BY <1>1, <1>2, <1>3, <1>4, PassTyped, LeavesRecord DEF Discard

LEMMA DropInv ==
  ASSUME BindInv, NEW w \in Worker, Drop(w)
  PROVE  BindInv'
BY PassTyped, IdleTyped, IdleOK, Writes DEF Drop

LEMMA RetireInv ==
  ASSUME BindInv, NEW w \in Worker, Retire(w) \/ RetireLast(w)
  PROVE  BindInv'
<1> DEFINE p == [pass[w] EXCEPT !.pc = "handle", !.b = record']
<1>1. pass[w] \in Pass /\ pass[w].b \in Record /\ PassOK(pass[w], made)
  BY PassTyped DEF Pass
<1>2. pass[w].b.state = "Bound"
  BY <1>1 DEF Retire, RetireLast, PassOK
<1>3. record' = [pass[w].b EXCEPT !.state = "Terminating"]
  BY DEF Retire, RetireLast, Swap
<1>4. record' \in Record /\ BindingOK(record', made)
  BY <1>1, <1>2, <1>3, SwapOK DEF PassOK, Held
<1>5. p \in Pass /\ p.pc = "handle" /\ p.b = record'
  BY <1>1, <1>4, Moves DEF Inside, Pass
<1>6. PassOK(p, made)
  BY <1>4, <1>5 DEF PassOK
<1>7. pass' = [pass EXCEPT ![w] = p]
  BY <1>1 DEF Retire, RetireLast, Pass
<1>8. Overtake(w) /\ ids' \in Nat /\ UNCHANGED <<world, run, unseen, made>>
  BY PassTyped DEF Retire, RetireLast, Swap
<1> HIDE DEF p
<1> QED BY <1>4, <1>5, <1>6, <1>7, <1>8, Writes

(* Check 7: the namespace is created for the source the record names. *)
LEMMA CreateRunInv ==
  ASSUME BindInv, NEW w \in Worker, CreateRun(w)
  PROVE  BindInv'
<1> DEFINE p == [pass[w] EXCEPT !.pc = "made", !.ns = ids']
           m == [uid |-> ids', for |-> pass[w].src, nonce |-> pass[w].b.nonce]
<1>1. /\ pass[w] \in Pass /\ pass[w].b \in Record /\ PassOK(pass[w], made)
      /\ pass[w].src \in Id /\ pass[w].b.nonce \in Id
  BY PassTyped DEF Pass, Record
<1>2. pass[w].b.srcUID = pass[w].src
  BY DEF CreateRun, Current
<1>3. ids' \in Nat
  BY PassTyped DEF CreateRun, NewId
<1>4. m \in [uid : Nat, for : Id, nonce : Id] /\ m.uid = ids' /\ m.for = pass[w].src
  BY <1>1, <1>3
<1>5. made' = made \cup {m}
  BY DEF CreateRun
<1>6. /\ p \in Pass /\ p.pc = "made" /\ p.b = pass[w].b
      /\ p.ns = ids' /\ p.src = pass[w].src
  BY <1>1, <1>3 DEF Pass, Inside, Id
<1>7. MadeFor(made', p.ns, p.src)
  BY <1>4, <1>5, <1>6 DEF MadeFor
<1>8. pass' = [pass EXCEPT ![w] = p]
  BY <1>1 DEF CreateRun, Pass
<1>9. run' = [NoRun EXCEPT !.uid = ids', !.nonce = pass[w].b.nonce]
  BY DEF CreateRun
<1>10. record' = record /\ stale' = stale /\ unseen' = unseen /\ UNCHANGED world
  BY DEF CreateRun
<1> HIDE DEF p, m
<1>11. run' \in Run
  BY <1>1, <1>3, <1>9 DEF NoRun, Run, Id
<1>12. made \subseteq made' /\ made' \subseteq [uid : Nat, for : Id, nonce : Id]
  BY <1>4, <1>5 DEF BindInv, TypeOK
<1>13. PassOK(pass[w], made')
  BY <1>1, <1>12, MadeGrows
<1>14. PassOK(p, made')
  BY <1>2, <1>6, <1>7, <1>13 DEF PassOK
<1>15. BindingOK(record', made')
  BY <1>10, <1>12 DEF BindInv, BindingOK, MadeFor
<1>16. /\ pass' \in [Worker -> Pass]
       /\ pass'[w] = p
       /\ \A v \in Worker : v # w => pass'[v] = pass[v]
  BY <1>6, <1>8 DEF BindInv, TypeOK
<1>17. /\ source' \in [Source -> Id]
       /\ agents' \in [Agent -> [phase : {"absent", "live", "deleting"}, uid : Id]]
       /\ edits' \in Nat /\ faults' \in Nat /\ record' \in Record
       /\ stale' \subseteq Worker /\ unseen' \subseteq Id
  BY <1>10 DEF BindInv, TypeOK, world
<1> QED BY <1>3, <1>11, <1>12, <1>14, <1>15, <1>16, <1>17, PassStep

LEMMA MirrorInv ==
  ASSUME BindInv, NEW w \in Worker, Mirror(w)
  PROVE  BindInv'
<1> DEFINE p == [pass[w] EXCEPT !.pc = "mirrored"]
<1>1. /\ p \in Pass /\ p.pc = "mirrored" /\ p.b = pass[w].b
      /\ p.ns = pass[w].ns /\ p.src = pass[w].src
  BY PassTyped, Moves, ZenonT(60) DEF Inside, Pass
<1>2. PassOK(p, made)
  BY <1>1, PassTyped DEF PassOK, Mirror
<1>3. pass' = [pass EXCEPT ![w] = p]
  BY DEF Mirror
<1>4. run' \in Run
  BY PassTyped DEF Mirror, Run
<1> HIDE DEF p
<1> QED BY <1>1, <1>2, <1>3, <1>4, PassTyped, LeavesRecord DEF Mirror

(* A pass that is granted a namespace the operator made for its source. *)
LEMMA GrantedOK ==
  ASSUME BindInv, NEW w \in Worker, NEW ns \in Id, MadeFor(made, ns, pass[w].src)
  PROVE  Granted(w, ns) \in Pass /\ PassOK(Granted(w, ns), made)
<1>1. /\ Granted(w, ns) \in Pass /\ Granted(w, ns).pc = "granted"
      /\ Granted(w, ns).b = NoRecord /\ Granted(w, ns).ns = ns
      /\ Granted(w, ns).src = pass[w].src
  BY PassTyped, IdleTyped DEF Granted, Pass, Outside
<1> QED BY <1>1, IdleOK DEF PassOK

LEMMA BindStepInv ==
  ASSUME BindInv, NEW w \in Worker, Bind(w)
  PROVE  BindInv'
<1>1. /\ pass[w] \in Pass /\ pass[w].b \in Record /\ pass[w].ns \in Id
      /\ PassOK(pass[w], made)
  BY PassTyped DEF Pass
<1>2. MadeFor(made, pass[w].ns, pass[w].src) /\ pass[w].b.srcUID = pass[w].src
  BY <1>1 DEF PassOK, Bind
<1>3. record' = [pass[w].b EXCEPT !.state = "Bound", !.uid = pass[w].ns]
  BY DEF Bind, Swap
<1>4. /\ record' \in Record /\ record'.uid = pass[w].ns
      /\ record'.srcUID = pass[w].b.srcUID
  BY <1>1, <1>3 DEF Record, State
<1>5. BindingOK(record', made)
  BY <1>2, <1>4 DEF BindingOK
<1> QED BY <1>1, <1>2, <1>4, <1>5, PassTyped, GrantedOK, Writes DEF Bind, Swap

LEMMA DiscardCrashedInv ==
  ASSUME BindInv, NEW w \in Worker, DiscardCrashed(w)
  PROVE  BindInv'
<1> DEFINE p == [pass[w] EXCEPT !.pc = "rotate"]
<1>1. p \in Pass /\ p.pc = "rotate" /\ p.b = pass[w].b
  BY PassTyped, Moves, ZenonT(60) DEF Inside, Pass
<1>2. PassOK(p, made)
  BY <1>1, PassTyped DEF PassOK
<1>3. pass' = [pass EXCEPT ![w] = p]
  BY DEF DiscardCrashed
<1>4. run' \in Run
  BY PassTyped, GoingTyped DEF DiscardCrashed
<1> HIDE DEF p
<1> QED BY <1>1, <1>2, <1>3, <1>4, PassTyped, LeavesRecord DEF DiscardCrashed

LEMMA RotateInv ==
  ASSUME BindInv, NEW w \in Worker, Rotate(w)
  PROVE  BindInv'
<1>1. pass[w].b \in Record /\ PassOK(pass[w], made) /\ ids' \in Nat
  BY PassTyped DEF Pass, Rotate, NewId
<1>2. record' = [pass[w].b EXCEPT !.nonce = ids']
  BY DEF Rotate, Swap
<1>3. record' \in Record /\ BindingOK(record', made)
  BY <1>1, <1>2 DEF Record, BindingOK, PassOK, Id
<1> QED BY <1>1, <1>3, IdleTyped, IdleOK, Writes DEF Rotate, Swap

LEMMA RebuildInv ==
  ASSUME BindInv, NEW w \in Worker, Rebuild(w)
  PROVE  BindInv'
<1>1. pass[w].b \in Record /\ ids' \in Nat
  BY PassTyped DEF Pass, Rebuild, NewId
<1>2. record' = [pass[w].b EXCEPT !.state = "Creating", !.nonce = ids', !.uid = None]
  BY DEF Rebuild, Swap
<1>3. record' \in Record /\ record'.state = "Creating"
  BY <1>1, <1>2 DEF Record, State, Id
<1>4. BindingOK(record', made)
  BY <1>3 DEF BindingOK, Held
<1> QED BY <1>1, <1>3, <1>4, IdleTyped, IdleOK, Writes DEF Rebuild, Swap

(* Check 13: what is granted is the namespace the record names. *)
LEMMA UseBoundInv ==
  ASSUME BindInv, NEW w \in Worker, UseBound(w)
  PROVE  BindInv'
<1>1. /\ run.uid = pass[w].b.uid /\ pass[w].b.state = "Bound"
      /\ pass[w].b.srcUID = pass[w].src
  BY DEF UseBound, BoundHere, Current
<1>2. MadeFor(made, run.uid, pass[w].src)
  BY <1>1, PassTyped DEF PassOK, BindingOK, Held
<1>3. run.uid \in Id /\ run' \in Run
  BY PassTyped DEF UseBound, Run
<1>4. Granted(w, run.uid) \in Pass /\ PassOK(Granted(w, run.uid), made)
  BY <1>2, <1>3, GrantedOK
<1> QED BY <1>3, <1>4, PassTyped, LeavesRecord DEF UseBound

LEMMA PlaceCopiesInv ==
  ASSUME BindInv, NEW w \in Worker, PlaceCopies(w)
  PROVE  BindInv'
<1> DEFINE p == [pass[w] EXCEPT !.pc = "copied"]
<1>1. /\ p \in Pass /\ p.pc = "copied" /\ p.b = pass[w].b
      /\ p.ns = pass[w].ns /\ p.src = pass[w].src
  BY PassTyped, Moves, ZenonT(60) DEF Outside, Pass
<1>2. PassOK(p, made)
  BY <1>1, PassTyped DEF PassOK, PlaceCopies
<1>3. pass' = [pass EXCEPT ![w] = p]
  BY DEF PlaceCopies
<1>4. run' \in Run
  BY PassTyped DEF PlaceCopies, Run, Pass
<1> HIDE DEF p
<1> QED BY <1>1, <1>2, <1>3, <1>4, PassTyped, LeavesRecord DEF PlaceCopies

LEMMA PlaceWorkloadInv ==
  ASSUME BindInv, NEW w \in Worker, PlaceWorkload(w)
  PROVE  BindInv'
<1>1. run' \in Run /\ unseen' \subseteq Id
  BY PassTyped DEF PlaceWorkload, Run, Pass, BindInv, TypeOK
<1>2. record' \in Record /\ BindingOK(record', made) /\ ids' \in Nat /\ made' = made
  BY PassTyped DEF PlaceWorkload
<1>3. pass' = [pass EXCEPT ![w] = Idle] /\ stale' \subseteq Worker /\ UNCHANGED world
  BY PassTyped DEF PlaceWorkload, Ends
<1> QED BY <1>1, <1>2, <1>3, IdleTyped, IdleOK, Leaves

LEMMA EnsuresInv ==
  ASSUME BindInv, NEW w \in Worker, Ensures(w)
  PROVE  BindInv'
BY EnsureLockInv, NewRecordInv, DiscardInv, DropInv, RetireInv, CreateRunInv, MirrorInv,
   BindStepInv, DiscardCrashedInv, RotateInv, RebuildInv, UseBoundInv, PlaceCopiesInv,
   PlaceWorkloadInv
DEF Ensures

-----------------------------------------------------------------------------
(***************************************************************************)
(* runNamespaceHandler.                                                    *)
(***************************************************************************)
(* Steps 0, 2 and 5 leave the record alone. *)
LEMMA HandledInv ==
  ASSUME BindInv, NEW w \in Worker, HandleNothing(w) \/ HandleGoing(w) \/ HandleDelete(w)
  PROVE  BindInv'
<1>1. run' \in Run
  BY PassTyped, GoingTyped DEF HandleNothing, HandleGoing, HandleDelete
<1>2. pass' = [pass EXCEPT ![w] = After(w)] /\ stale' \subseteq Worker
  BY PassTyped DEF HandleNothing, HandleGoing, HandleDelete
<1>3. record' = record /\ made' = made /\ unseen' = unseen /\ ids' = ids /\ UNCHANGED world
  BY DEF HandleNothing, HandleGoing, HandleDelete
<1> QED BY <1>1, <1>2, <1>3, AfterOK, LeavesRecord

LEMMA HandleGoneInv ==
  ASSUME BindInv, NEW w \in Worker, HandleGone(w)
  PROVE  BindInv'
BY PassTyped, IdleTyped, IdleOK, AfterOK, Writes DEF HandleGone

(* Whatever runNamespaceStillNeeded answers, the pass goes on in order. *)
LEMMA AnswerOK ==
  ASSUME BindInv, NEW w \in Worker, pass[w].b.state \in {"Bound", "Terminating"}
  PROVE  /\ Needed(w) \in Pass /\ PassOK(Needed(w), made)
         /\ Unneeded(w) \in Pass /\ PassOK(Unneeded(w), made)
<1>1. pass[w] \in Pass /\ BindingOK(pass[w].b, made)
  BY PassTyped DEF PassOK
<1>2. CASE pass[w].b.state = "Bound"
  <2>1. Needed(w) \in Pass /\ PassOK(Needed(w), made)
    BY <1>2, AfterOK DEF Needed
  <2>2. /\ Unneeded(w) \in Pass /\ Unneeded(w).pc = "retire" /\ Unneeded(w).b = pass[w].b
    BY <1>1, <1>2 DEF Unneeded, Pass, Inside
  <2> QED BY <1>1, <1>2, <2>1, <2>2 DEF PassOK
<1>3. CASE pass[w].b.state = "Terminating"
  <2>1. /\ Needed(w) \in Pass /\ Needed(w).pc = "keep" /\ Needed(w).b = pass[w].b
    BY <1>1, <1>3 DEF Needed, Pass, Inside
  <2>2. /\ Unneeded(w) \in Pass /\ Unneeded(w).pc = "give" /\ Unneeded(w).b = pass[w].b
    BY <1>1, <1>3 DEF Unneeded, Pass, Inside
  <2> QED BY <1>1, <1>3, <2>1, <2>2 DEF PassOK
<1> QED BY <1>2, <1>3

LEMMA ListInv ==
  ASSUME BindInv, NEW w \in Worker, List(w)
  PROVE  BindInv'
<1> DEFINE c == [pass[w] EXCEPT !.pc = "count", !.known = {agents[a].uid : a \in Others(w)}]
<1>1. pass[w] \in Pass /\ PassOK(pass[w], made)
  BY PassTyped
<1>2. pass[w].b.state \in {"Bound", "Terminating"}
  BY <1>1 DEF List, Asks, PassOK
<1>3. {agents[a].uid : a \in Others(w)} \subseteq Id
  BY DEF BindInv, TypeOK, Others
<1>4. c \in Pass /\ c.pc = "count" /\ c.b = pass[w].b
  BY <1>1, <1>3 DEF Pass, Inside
<1>5. PassOK(c, made)
  BY <1>1, <1>2, <1>4 DEF PassOK, Held
<1>6. Listed(w) \in {Unneeded(w), Needed(w), c}
  BY DEF Listed
<1>7. Listed(w) \in Pass /\ PassOK(Listed(w), made)
  BY <1>2, <1>4, <1>5, <1>6, AnswerOK
<1> QED BY <1>7, PassTyped, LeavesRecord DEF List

LEMMA CountInv ==
  ASSUME BindInv, NEW w \in Worker, Count(w)
  PROVE  BindInv'
<1> DEFINE p == IF pass[w].known \cap (run.work \cup run.copies) # {} THEN Needed(w) ELSE Unneeded(w)
<1>1. pass[w].b.state \in {"Bound", "Terminating"}
  BY PassTyped DEF Count, PassOK
<1>2. p \in Pass /\ PassOK(p, made)
  BY <1>1, AnswerOK
<1>3. pass' = [pass EXCEPT ![w] = p]
  BY DEF Count
<1> HIDE DEF p
<1> QED BY <1>2, <1>3, PassTyped, LeavesRecord DEF Count

LEMMA KeepInv ==
  ASSUME BindInv, NEW w \in Worker, Keep(w)
  PROVE  BindInv'
<1>1. /\ pass[w].b \in Record /\ pass[w].b.state = "Terminating"
      /\ BindingOK(pass[w].b, made)
  BY PassTyped DEF Pass, Keep, PassOK
<1>2. record' = [pass[w].b EXCEPT !.state = "Bound"]
  BY DEF Keep, Swap
<1>3. record' \in Record /\ BindingOK(record', made)
  BY <1>1, <1>2, SwapOK DEF Held
<1> QED BY <1>3, PassTyped, AfterOK, Writes DEF Keep, Swap

LEMMA GiveInv ==
  ASSUME BindInv, NEW w \in Worker, Give(w)
  PROVE  BindInv'
<1> DEFINE p == [pass[w] EXCEPT !.pc = "delete", !.b = record']
<1>1. /\ pass[w] \in Pass /\ pass[w].b \in Record /\ pass[w].b.state = "Terminating"
      /\ BindingOK(pass[w].b, made)
  BY PassTyped DEF Pass, Give, PassOK
<1>2. record' = [pass[w].b EXCEPT !.state = "Deleting"]
  BY DEF Give, Swap
<1>3. record' \in Record /\ BindingOK(record', made)
  BY <1>1, <1>2, SwapOK DEF Held
<1>4. p \in Pass /\ p.pc = "delete" /\ p.b = record'
  BY <1>1, <1>3, Moves DEF Inside, Pass
<1>5. PassOK(p, made)
  BY <1>3, <1>4 DEF PassOK
<1>6. pass' = [pass EXCEPT ![w] = p]
  BY <1>1 DEF Give, Pass
<1>7. Overtake(w) /\ ids' \in Nat /\ UNCHANGED <<world, run, unseen, made>>
  BY PassTyped DEF Give, Swap
<1> HIDE DEF p
<1> QED BY <1>3, <1>4, <1>5, <1>6, <1>7, Writes

LEMMA HandlerInv ==
  ASSUME BindInv, NEW w \in Worker, Handler(w)
  PROVE  BindInv'
BY HandledInv, HandleGoneInv, ListInv, CountInv, KeepInv, GiveInv DEF Handler

-----------------------------------------------------------------------------
(***************************************************************************)
(* The finalizer, the Namespace-keyed reconciler and the environment.      *)
(***************************************************************************)
LEMMA FinalCleanInv ==
  ASSUME BindInv, NEW w \in Worker, NEW a \in Agent, FinalClean(w, a)
  PROVE  BindInv'
<1> DEFINE p == [Idle EXCEPT !.pc = "cleaned", !.agent = a, !.uid = agents[a].uid, !.final = TRUE]
<1>1. agents[a].uid \in Id
  BY DEF BindInv, TypeOK
<1>2. p \in Pass
  BY <1>1, IdleTyped DEF Pass, Outside
<1>3. p.b = NoRecord /\ p.pc = "cleaned"
  BY DEF Idle
<1>4. PassOK(p, made)
  BY <1>3, IdleOK DEF PassOK
<1>5. pass' = [pass EXCEPT ![w] = p]
  BY DEF FinalClean
<1>6. run' \in Run
  BY PassTyped DEF FinalClean, Run
<1> HIDE DEF p
<1> QED BY <1>2, <1>4, <1>5, <1>6, PassTyped, LeavesRecord DEF FinalClean

LEMMA FinalLockInv ==
  ASSUME BindInv, NEW w \in Worker, FinalLock(w)
  PROVE  BindInv'
<1> DEFINE r == [pass[w] EXCEPT !.pc = "released"]
           k == [pass[w] EXCEPT !.pc = "ask", !.b = record]
           h == [pass[w] EXCEPT !.pc = "handle", !.b = record]
<1>1. pass[w] \in Pass /\ PassOK(pass[w], made) /\ record \in Record /\ BindingOK(record, made)
  BY PassTyped
<1>2. r \in Pass /\ r.pc = "released" /\ r.b = pass[w].b
  BY <1>1, Moves DEF Outside, Pass
<1>3. /\ k \in Pass /\ k.pc = "ask" /\ k.b = record
      /\ h \in Pass /\ h.pc = "handle" /\ h.b = record
  BY <1>1, Moves DEF Inside, Pass
<1>4. PassOK(r, made) /\ PassOK(h, made) /\ (record.state = "Bound" => PassOK(k, made))
  BY <1>1, <1>2, <1>3 DEF PassOK
<1>5. \/ pass' = [pass EXCEPT ![w] = r]
      \/ pass' = [pass EXCEPT ![w] = h]
      \/ record.state = "Bound" /\ pass' = [pass EXCEPT ![w] = k]
  BY <1>1 DEF FinalLock, Pass
<1>6. /\ record' = record /\ made' = made /\ run' \in Run /\ stale' \subseteq Worker
      /\ unseen' = unseen /\ ids' = ids /\ UNCHANGED world
  BY PassTyped DEF FinalLock
<1> HIDE DEF r, k, h
<1> QED BY <1>2, <1>3, <1>4, <1>5, <1>6, LeavesRecord

LEMMA RetireConflictInv ==
  ASSUME BindInv, NEW w \in Worker, RetireConflict(w)
  PROVE  BindInv'
<1> DEFINE h == [pass[w] EXCEPT !.pc = "handle", !.b = record]
<1>1. h \in Pass /\ h.pc = "handle" /\ h.b = record
  BY PassTyped, Moves, ZenonT(60) DEF Inside, Pass
<1>2. PassOK(h, made)
  BY <1>1, PassTyped DEF PassOK
<1>3. pass' = [pass EXCEPT ![w] = After(w)] \/ pass' = [pass EXCEPT ![w] = h]
  BY PassTyped DEF RetireConflict, Pass
<1>4. /\ record' = record /\ made' = made /\ run' \in Run /\ stale' \subseteq Worker
      /\ unseen' = unseen /\ ids' = ids /\ UNCHANGED world
  BY PassTyped DEF RetireConflict
<1> HIDE DEF h
<1> QED BY <1>1, <1>2, <1>3, <1>4, AfterOK, LeavesRecord

LEMMA NamespaceBeginInv ==
  ASSUME BindInv, NEW w \in Worker, NamespaceBegin(w)
  PROVE  BindInv'
<1> DEFINE p == [Idle EXCEPT !.pc = "handle", !.b = record]
<1>1. p \in Pass
  BY PassTyped, IdleTyped, Moves DEF Inside
<1>2. p.pc = "handle" /\ p.b = record
  BY DEF Idle
<1>3. PassOK(p, made)
  BY <1>2, PassTyped DEF PassOK
<1>4. pass' = [pass EXCEPT ![w] = p]
  BY DEF NamespaceBegin
<1> HIDE DEF p
<1> QED BY <1>1, <1>3, <1>4, PassTyped, LeavesRecord DEF NamespaceBegin

(* A pass that ends while the Agents, or the faults counted, change. *)
LEMMA EndsInv ==
  ASSUME BindInv, NEW w \in Worker, FinalRelease(w) \/ Fail(w)
  PROVE  BindInv'
<1>1. /\ pass' \in [Worker -> Pass] /\ pass'[w] = Idle
      /\ \A v \in Worker : v # w => pass'[v] = pass[v]
  BY IdleTyped DEF FinalRelease, Fail, Ends, BindInv, TypeOK
<1>2. agents' \in [Agent -> [phase : {"absent", "live", "deleting"}, uid : Id]]
  BY DEF FinalRelease, Fail, Absent, Id, BindInv, TypeOK
<1>3. /\ source' \in [Source -> Id] /\ edits' \in Nat /\ faults' \in Nat
      /\ run' \in Run /\ record' = record /\ unseen' \subseteq Id /\ ids' \in Nat /\ made' = made
  BY DEF FinalRelease, Fail, BindInv, TypeOK
<1>4. stale' \subseteq Worker
  BY DEF FinalRelease, Fail, Ends, BindInv, TypeOK
<1>5. /\ record' \in Record /\ BindingOK(record', made') /\ made \subseteq made'
      /\ made' \subseteq [uid : Nat, for : Id, nonce : Id]
  BY <1>3 DEF BindInv, TypeOK
<1> QED BY <1>1, <1>2, <1>3, <1>4, <1>5, IdleOK, PassStep

(* Users and outsiders touch neither the record nor a pass. *)
LEMMA EnvironmentInv ==
  ASSUME BindInv,
         \/ \E s \in Source : CreateSource(s) \/ DeleteSource(s)
         \/ \E a \in Agent : CreateAgent(a) \/ DeleteAgent(a)
         \/ OutsiderCreates \/ OutsiderDeletes \/ RunGone \/ CacheSees
  PROVE  BindInv'
<1>1. record' = record /\ pass' = pass /\ made' = made /\ stale' = stale
  BY DEF CreateSource, DeleteSource, CreateAgent, DeleteAgent, OutsiderCreates, OutsiderDeletes,
         RunGone, CacheSees
<1>2. /\ edits' = edits \/ edits' = edits + 1
      /\ faults' = faults
      /\ ids' = ids \/ ids' = ids + 1
  BY DEF CreateSource, DeleteSource, CreateAgent, DeleteAgent, OutsiderCreates, OutsiderDeletes,
         RunGone, CacheSees, Edit, NewId, world
<1>3. unseen' \subseteq Id
  <2>1. CASE CacheSees
    BY <2>1 DEF CacheSees, BindInv, TypeOK
  <2>2. CASE unseen' = unseen
    BY <2>2 DEF BindInv, TypeOK
  <2> QED BY <2>1, <2>2 DEF CreateSource, DeleteSource, CreateAgent, DeleteAgent, OutsiderCreates,
                            OutsiderDeletes, RunGone
<1>4. source' \in [Source -> Id]
  <2>1. ASSUME NEW s \in Source, CreateSource(s) \/ DeleteSource(s)
        PROVE  source' \in [Source -> Id]
    BY <2>1 DEF CreateSource, DeleteSource, NewId, Id, BindInv, TypeOK
  <2>2. CASE source' = source
    BY <2>2 DEF BindInv, TypeOK
  <2> QED BY <2>1, <2>2 DEF CreateAgent, DeleteAgent, OutsiderCreates, OutsiderDeletes, RunGone,
                            CacheSees, world
<1>5. agents' \in [Agent -> [phase : {"absent", "live", "deleting"}, uid : Id]]
  <2>1. ASSUME NEW a \in Agent, CreateAgent(a) \/ DeleteAgent(a)
        PROVE  agents' \in [Agent -> [phase : {"absent", "live", "deleting"}, uid : Id]]
    BY <2>1 DEF CreateAgent, DeleteAgent, NewId, Id, BindInv, TypeOK
  <2>2. CASE agents' = agents
    BY <2>2 DEF BindInv, TypeOK
  <2> QED BY <2>1, <2>2 DEF CreateSource, DeleteSource, OutsiderCreates, OutsiderDeletes, RunGone,
                            CacheSees, world
<1>6. run' \in Run
  <2>1. CASE OutsiderCreates
    <3>1. PICK nonce \in {None} \cup {m.nonce : m \in made} :
            run' = [NoRun EXCEPT !.uid = ids', !.nonce = nonce]
      BY <2>1 DEF OutsiderCreates
    <3>2. nonce \in Id
      BY DEF BindInv, TypeOK, Id
    <3>3. ids' \in Id
      BY <1>2 DEF BindInv, TypeOK, Id
    <3> QED BY <3>1, <3>2, <3>3, IdleTyped DEF Run
  <2>2. CASE OutsiderDeletes
    BY <2>2, GoingTyped DEF OutsiderDeletes, BindInv, TypeOK
  <2>3. CASE RunGone
    BY <2>3, IdleTyped DEF RunGone
  <2>4. CASE run' = run
    BY <2>4 DEF BindInv, TypeOK
  <2> QED BY <2>1, <2>2, <2>3, <2>4 DEF CreateSource, DeleteSource, CreateAgent, DeleteAgent, CacheSees
<1>7. TypeOK'
  BY <1>1, <1>2, <1>3, <1>4, <1>5, <1>6 DEF BindInv, TypeOK
<1> QED BY <1>1, <1>7 DEF BindInv

-----------------------------------------------------------------------------
LEMMA StepInv ==
  ASSUME BindInv, NEW w \in Worker, Step(w)
  PROVE  BindInv'
BY EnsuresInv, HandlerInv, FinalLockInv, RetireInv, RetireConflictInv, EndsInv, WaitInv
DEF Step, Finalizes

LEMMA InitInv == Init => BindInv
<1> SUFFICES ASSUME Init PROVE BindInv
  OBVIOUS
<1>1. record \in Record /\ run \in Run /\ record.state = "none"
  BY IdleTyped DEF Init, NoRecord
<1>2. pass \in [Worker -> Pass] /\ \A w \in Worker : pass[w] = Idle
  BY IdleTyped DEF Init
<1>3. source \in [Source -> Id]
  BY DEF Init, Id
<1>4. agents \in [Agent -> [phase : {"absent", "live", "deleting"}, uid : Id]]
  BY DEF Init, Absent, Id
<1>5. TypeOK
  BY <1>1, <1>2, <1>3, <1>4 DEF Init, TypeOK
<1> QED BY <1>1, <1>2, <1>5, IdleOK DEF BindInv, BindingOK, Held

LEMMA NextInv == BindInv /\ [Next]_vars => BindInv'
<1> SUFFICES ASSUME BindInv, [Next]_vars PROVE BindInv'
  OBVIOUS
<1>1. ASSUME NEW w \in Worker, NEW a \in Agent, EnsureBegin(w, a) \/ FinalClean(w, a)
      PROVE  BindInv'
  BY <1>1, EnsureBeginInv, FinalCleanInv
<1>2. ASSUME NEW w \in Worker, NamespaceBegin(w) \/ Step(w) \/ Fail(w)
      PROVE  BindInv'
  BY <1>2, NamespaceBeginInv, StepInv, EndsInv
<1>3. CASE UNCHANGED vars
  BY <1>3 DEF vars, BindInv, TypeOK
<1> QED BY <1>1, <1>2, <1>3, EnvironmentInv DEF Next

LEMMA Bindings == Spec => []BindInv
BY InitInv, NextInv, PTL DEF Spec

(***************************************************************************)
(* Every variable keeps its type, and a record past Creating always names  *)
(* a UID, so decodeBinding never refuses a record the operator wrote.      *)
(***************************************************************************)
THEOREM BindingTyped == Spec => []TypeOK
<1>1. BindInv => TypeOK
  BY DEF BindInv
<1> QED BY <1>1, Bindings, PTL

(***************************************************************************)
(* A pass is granted only a namespace the operator created, for the source *)
(* namespace that pass read: whatever outsiders do to the name, however    *)
(* many processes overlap, wherever a pass crashes.                        *)
(***************************************************************************)
THEOREM NothingAdopted == Spec => []GrantSound
<1>1. BindInv => GrantSound
  BY DEF BindInv, PassOK, GrantSound, MadeFor
<1> QED BY <1>1, Bindings, PTL
=============================================================================
