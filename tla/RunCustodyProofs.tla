--------------------------- MODULE RunCustodyProofs ---------------------------
(***************************************************************************)
(* What the operator does with the namespaces it made, once the mutex and  *)
(* the work queue of one process order its passes: it never loses sight of *)
(* one, never deletes one that a live Agent uses, and leaves no copy of a  *)
(* Secret behind.  OneProcess and OneAgentWorker are what leader election  *)
(* and SetupWithManager give; the theorems name the ones they need.        *)
(***************************************************************************)
EXTENDS RunNamespaceProofs

(* The workers are goroutines of one process: no handover is under way. *)
OneProcess == \A v, w \in Worker : ProcessOf[v] = ProcessOf[w]

(* One worker reconciles Agents (MaxConcurrentReconciles is left at 1). *)
OneAgentWorker ==
  \A v, w \in Worker : (\E a \in Agent : a \in Serves[v]) /\ (\E a \in Agent : a \in Serves[w]) => v = w

(* Nobody else deletes namespaces. *)
NoDeleter == "delete" \notin Outsiders

-----------------------------------------------------------------------------
(***************************************************************************)
(* How a step moves a pass.                                                *)
(***************************************************************************)
EnsurePc == {"source", "decide", "made", "mirrored", "rotate", "drop", "granted", "copied"}

(* Only w's pass changes. *)
Alone(w) == \A v \in Worker : v # w => pass'[v] = pass[v]

(* The pass goes on, for the same Agent and with the source it has read. *)
GoesOn(w) ==
  /\ pass[w].pc # "idle" /\ pass'[w].pc # "idle"
  /\ pass'[w].agent = pass[w].agent /\ pass'[w].uid = pass[w].uid
  /\ pass'[w].final = pass[w].final /\ pass'[w].src = pass[w].src

(* It goes on to pc with the record b and the namespace ns. *)
To(w, pc, b, ns) ==
  /\ GoesOn(w) /\ pass'[w].pc = pc /\ pass'[w].b = b /\ pass'[w].ns = ns

Released(w) == GoesOn(w) /\ pass[w].final /\ pass'[w].pc = "released" /\ pass'[w].b = NoRecord
Done(w) == pass'[w] = Idle \/ Released(w)

LEMMA PassFields ==
  ASSUME BindInv, NEW w \in Worker
  PROVE  /\ pass \in [Worker -> Pass] /\ pass[w] \in Pass
         /\ DOMAIN pass = Worker
BY DEF BindInv, TypeOK

LEMMA IdlePc == Idle.pc = "idle" /\ Idle.b = NoRecord /\ Idle.final = FALSE /\ NoRecord.state = "none"
                /\ NoRecord.uid = None /\ "idle" \notin Inside /\ "idle" \notin EnsurePc
BY DEF Idle, NoRecord, Inside, EnsurePc

(* A step of w leaves it with the pass p. *)
LEMMA Shape ==
  ASSUME BindInv, NEW w \in Worker, NEW p, pass' = [pass EXCEPT ![w] = p]
  PROVE  Alone(w) /\ pass'[w] = p
BY PassFields DEF Alone

LEMMA AfterShape ==
  ASSUME BindInv, NEW w \in Worker, pass[w].pc # "idle", pass' = [pass EXCEPT ![w] = After(w)]
  PROVE  Alone(w) /\ Done(w)
<1>1. Alone(w) /\ pass'[w] = After(w) /\ pass[w] \in Pass
  BY Shape, PassFields
<1>2. CASE pass[w].final
  <2>1. pass'[w] = [pass[w] EXCEPT !.pc = "released", !.b = NoRecord, !.known = {}]
    BY <1>1, <1>2 DEF After
  <2>2. /\ pass'[w].pc = "released" /\ pass'[w].b = NoRecord
        /\ pass'[w].agent = pass[w].agent /\ pass'[w].uid = pass[w].uid
        /\ pass'[w].final = pass[w].final /\ pass'[w].src = pass[w].src
    BY <1>1, <2>1 DEF Pass
  <2> QED BY <1>1, <1>2, <2>2 DEF Done, Released, GoesOn
<1>3. CASE ~pass[w].final
  BY <1>1, <1>3 DEF After, Done
<1> QED BY <1>1, <1>2, <1>3

LEMMA EnsureLockShape ==
  ASSUME BindInv, NEW w \in Worker, EnsureLock(w)
  PROVE  Alone(w) /\ To(w, "decide", record, pass[w].ns)
<1>1. pass[w] \in Pass
  BY PassFields
<1>2. Alone(w) /\ pass'[w] = [pass[w] EXCEPT !.pc = "decide", !.b = record]
  BY <1>1, PassFields DEF EnsureLock, Alone, Pass
<1>3. pass[w].pc = "source"
  BY DEF EnsureLock
<1> QED BY <1>1, <1>2, <1>3 DEF To, GoesOn, Pass

LEMMA NewRecordShape ==
  ASSUME BindInv, NEW w \in Worker, NewRecord(w)
  PROVE  Alone(w) /\ To(w, "decide", record', pass[w].ns)
<1>1. pass[w] \in Pass
  BY PassFields
<1>2. Alone(w) /\ pass'[w] = [pass[w] EXCEPT !.b = record']
  BY <1>1, PassFields DEF NewRecord, Alone
<1> QED BY <1>1, <1>2 DEF NewRecord, To, GoesOn, Pass

(* Steps that only move the program counter. *)
LEMMA CounterShape ==
  ASSUME BindInv, NEW w \in Worker, Discard(w) \/ Mirror(w) \/ DiscardCrashed(w) \/ PlaceCopies(w)
  PROVE  /\ Alone(w)
         /\ Discard(w) => To(w, "drop", pass[w].b, pass[w].ns)
         /\ Mirror(w) => To(w, "mirrored", pass[w].b, pass[w].ns)
         /\ DiscardCrashed(w) => To(w, "rotate", pass[w].b, pass[w].ns)
         /\ PlaceCopies(w) => To(w, "copied", pass[w].b, pass[w].ns)
<1>1. pass[w] \in Pass
  BY PassFields
<1>2. ASSUME NEW pc, pc # "idle", pass[w].pc # "idle", pass' = [pass EXCEPT ![w].pc = pc]
      PROVE  Alone(w) /\ To(w, pc, pass[w].b, pass[w].ns)
  <2>1. Alone(w) /\ pass'[w] = [pass[w] EXCEPT !.pc = pc]
    BY <1>1, <1>2, PassFields DEF Alone
  <2> QED BY <1>1, <1>2, <2>1 DEF To, GoesOn, Pass
<1>3. CASE Discard(w)
  BY <1>2, <1>3 DEF Discard, Replaced, Mine, Mirror, DiscardCrashed, Current, PlaceCopies
<1>4. CASE Mirror(w)
  BY <1>2, <1>4 DEF Discard, Replaced, Mine, Mirror, DiscardCrashed, Current, PlaceCopies
<1>5. CASE DiscardCrashed(w)
  BY <1>2, <1>5 DEF Discard, Replaced, Mine, Mirror, DiscardCrashed, Current, PlaceCopies
<1>6. CASE PlaceCopies(w)
  BY <1>2, <1>6 DEF Discard, Replaced, Mine, Mirror, DiscardCrashed, Current, PlaceCopies
<1> QED BY <1>3, <1>4, <1>5, <1>6

(* The record is swapped, and the pass goes on with it. *)
LEMMA SwapShape ==
  ASSUME BindInv, NEW w \in Worker, Retire(w) \/ RetireLast(w) \/ Give(w)
  PROVE  /\ Alone(w) /\ pass[w].pc \in {"decide", "retire", "give"}
         /\ Retire(w) \/ RetireLast(w) => To(w, "handle", record', pass[w].ns)
         /\ Give(w) => To(w, "delete", record', pass[w].ns)
<1>1. pass[w] \in Pass
  BY PassFields
<1>2. ASSUME NEW pc, pc # "idle", pass[w].pc # "idle",
             pass' = [pass EXCEPT ![w].pc = pc, ![w].b = record']
      PROVE  Alone(w) /\ To(w, pc, record', pass[w].ns)
  <2>1. Alone(w) /\ pass'[w] = [pass[w] EXCEPT !.pc = pc, !.b = record']
    BY <1>1, <1>2, PassFields DEF Alone, Pass
  <2>2. /\ pass'[w].pc = pc /\ pass'[w].b = record' /\ pass'[w].ns = pass[w].ns
        /\ pass'[w].agent = pass[w].agent /\ pass'[w].uid = pass[w].uid
        /\ pass'[w].final = pass[w].final /\ pass'[w].src = pass[w].src
    BY <1>1, <2>1 DEF Pass
  <2> QED BY <1>2, <2>1, <2>2 DEF To, GoesOn
<1>3. CASE Retire(w) \/ RetireLast(w)
  <2>1. /\ pass[w].pc \in {"decide", "retire"} /\ pass[w].pc # "give"
        /\ pass' = [pass EXCEPT ![w].pc = "handle", ![w].b = record']
    BY <1>3 DEF Retire, RetireLast
  <2>2. Alone(w) /\ To(w, "handle", record', pass[w].ns)
    BY <1>2, <2>1
  <2> QED BY <2>1, <2>2 DEF Give
<1>4. CASE Give(w)
  <2>1. /\ pass[w].pc = "give" /\ ~Retire(w) /\ ~RetireLast(w)
        /\ pass' = [pass EXCEPT ![w].pc = "delete", ![w].b = record']
    BY <1>4 DEF Give, Retire, RetireLast
  <2>2. Alone(w) /\ To(w, "delete", record', pass[w].ns)
    BY <1>2, <2>1
  <2> QED BY <2>1, <2>2
<1> QED BY <1>3, <1>4

LEMMA CreateRunShape ==
  ASSUME BindInv, NEW w \in Worker, CreateRun(w)
  PROVE  Alone(w) /\ To(w, "made", pass[w].b, ids') /\ pass[w].pc = "decide"
<1>1. pass[w] \in Pass /\ pass[w].pc = "decide"
  BY PassFields DEF CreateRun, Current, Mine
<1>2. Alone(w) /\ pass'[w] = [pass[w] EXCEPT !.pc = "made", !.ns = ids']
  BY <1>1, PassFields DEF CreateRun, Alone, Pass
<1> QED BY <1>1, <1>2 DEF To, GoesOn, Pass

(* The namespace is granted. *)
LEMMA GrantShape ==
  ASSUME BindInv, NEW w \in Worker, Bind(w) \/ UseBound(w)
  PROVE  /\ Alone(w) /\ pass[w].pc \in {"mirrored", "decide"}
         /\ Bind(w) => To(w, "granted", NoRecord, pass[w].ns)
         /\ UseBound(w) => To(w, "granted", NoRecord, run.uid)
<1>1. pass[w] \in Pass
  BY PassFields
<1>2. ASSUME NEW ns, pass[w].pc # "idle", pass' = [pass EXCEPT ![w] = Granted(w, ns)]
      PROVE  Alone(w) /\ To(w, "granted", NoRecord, ns)
  <2>1. Alone(w) /\ pass'[w] = [pass[w] EXCEPT !.pc = "granted", !.ns = ns, !.b = NoRecord]
    BY <1>2, PassFields DEF Alone, Granted
  <2>2. /\ pass'[w].pc = "granted" /\ pass'[w].b = NoRecord /\ pass'[w].ns = ns
        /\ pass'[w].agent = pass[w].agent /\ pass'[w].uid = pass[w].uid
        /\ pass'[w].final = pass[w].final /\ pass'[w].src = pass[w].src
    BY <1>1, <2>1 DEF Pass
  <2> QED BY <1>2, <2>1, <2>2 DEF To, GoesOn
<1>3. CASE Bind(w)
  <2>1. pass[w].pc = "mirrored" /\ ~UseBound(w) /\ pass' = [pass EXCEPT ![w] = Granted(w, pass[w].ns)]
    BY <1>3 DEF Bind, UseBound, Current, Mine
  <2> QED BY <1>2, <2>1
<1>4. CASE UseBound(w)
  <2>1. pass[w].pc = "decide" /\ ~Bind(w) /\ pass' = [pass EXCEPT ![w] = Granted(w, run.uid)]
    BY <1>4 DEF Bind, UseBound, Current, Mine
  <2> QED BY <1>2, <2>1
<1> QED BY <1>3, <1>4

(* runNamespaceStillNeeded: what it answers, and what it has then seen. *)
LEMMA AskShape ==
  ASSUME BindInv, NEW w \in Worker, List(w) \/ Count(w)
  PROVE  /\ Alone(w) /\ pass[w].pc \in {"ask", "handle", "decide", "count"}
         /\ \/ Done(w)
            \/ \E pc \in {"keep", "give", "retire", "count"} : To(w, pc, pass[w].b, pass[w].ns)
         /\ List(w) /\ pass'[w].pc \in {"count", "give"} =>
              \/ source[pass[w].b.src] # pass[w].b.srcUID
              \/ \A a \in Others(w) : agents[a].phase # "live"
<1>1. pass[w] \in Pass
  BY PassFields
<1>2. /\ pass[w].pc \in {"ask", "handle", "decide", "count"} /\ pass[w].pc # "idle"
      /\ List(w) => pass' = [pass EXCEPT ![w] = Listed(w)]
      /\ Count(w) => pass' = [pass EXCEPT ![w] =
           IF pass[w].known \cap (run.work \cup run.copies) # {} THEN Needed(w) ELSE Unneeded(w)]
  BY DEF List, Count, Asks, Handles, Mine
<1>3. ASSUME NEW pc, pc # "idle", NEW k, pass' = [pass EXCEPT ![w] = [pass[w] EXCEPT !.pc = pc, !.known = k]]
      PROVE  Alone(w) /\ To(w, pc, pass[w].b, pass[w].ns)
  <2>1. Alone(w) /\ pass'[w] = [pass[w] EXCEPT !.pc = pc, !.known = k]
    BY <1>3, PassFields DEF Alone
  <2>2. /\ pass'[w].pc = pc /\ pass'[w].b = pass[w].b /\ pass'[w].ns = pass[w].ns
        /\ pass'[w].agent = pass[w].agent /\ pass'[w].uid = pass[w].uid
        /\ pass'[w].final = pass[w].final /\ pass'[w].src = pass[w].src
    BY <1>1, <2>1 DEF Pass
  <2> QED BY <1>2, <1>3, <2>1, <2>2 DEF To, GoesOn
<1>4. ASSUME pass' = [pass EXCEPT ![w] = Unneeded(w)]
      PROVE  /\ Alone(w)
             /\ To(w, "retire", pass[w].b, pass[w].ns) \/ To(w, "give", pass[w].b, pass[w].ns)
  <2>1. CASE pass[w].b.state = "Bound"
    BY <1>3, <1>4, <2>1 DEF Unneeded
  <2>2. CASE pass[w].b.state # "Bound"
    BY <1>3, <1>4, <2>2 DEF Unneeded
  <2> QED BY <2>1, <2>2
<1>5. ASSUME pass' = [pass EXCEPT ![w] = Needed(w)]
      PROVE  Alone(w) /\ (Done(w) \/ To(w, "keep", pass[w].b, pass[w].ns))
  <2>1. CASE pass[w].b.state = "Bound"
    BY <1>2, <1>5, <2>1, AfterShape DEF Needed
  <2>2. CASE pass[w].b.state # "Bound"
    BY <1>3, <1>5, <2>2 DEF Needed
  <2> QED BY <2>1, <2>2
<1>6. Done(w) \/ To(w, "keep", pass[w].b, pass[w].ns) => pass'[w].pc \notin {"count", "give"}
  BY IdlePc DEF Done, Released, To
<1>7. CASE List(w)
  <2>1. CASE source[pass[w].b.src] # pass[w].b.srcUID \/ Others(w) = {}
    BY <1>2, <1>4, <1>7, <2>1 DEF Listed
  <2>2. CASE /\ ~(source[pass[w].b.src] # pass[w].b.srcUID \/ Others(w) = {})
             /\ \E a \in Others(w) : agents[a].phase = "live"
    <3>1. pass' = [pass EXCEPT ![w] = Needed(w)]
      BY <1>2, <1>7, <2>2 DEF Listed
    <3> QED BY <1>2, <1>5, <1>6, <3>1
  <2>3. CASE /\ ~(source[pass[w].b.src] # pass[w].b.srcUID \/ Others(w) = {})
             /\ ~\E a \in Others(w) : agents[a].phase = "live"
    <3>1. pass' = [pass EXCEPT ![w] =
                     [pass[w] EXCEPT !.pc = "count", !.known = {agents[a].uid : a \in Others(w)}]]
      BY <1>2, <1>7, <2>3 DEF Listed
    <3>2. Alone(w) /\ To(w, "count", pass[w].b, pass[w].ns)
      BY <1>3, <3>1
    <3> QED BY <1>2, <2>3, <3>2
  <2> QED BY <2>1, <2>2, <2>3
<1>8. CASE Count(w)
  <2>2. CASE pass[w].known \cap (run.work \cup run.copies) # {}
    BY <1>2, <1>5, <1>6, <1>8, <2>2
  <2>3. CASE ~(pass[w].known \cap (run.work \cup run.copies) # {})
    <3>1. pass[w].pc = "count"
      BY <1>8 DEF Count
    <3>2. ~List(w)
      BY <3>1 DEF List, Asks, Handles, Mine
    <3> QED BY <1>2, <1>4, <1>8, <2>3, <3>2
  <2> QED BY <2>2, <2>3
<1> QED BY <1>7, <1>8

LEMMA FinalLockShape ==
  ASSUME BindInv, NEW w \in Worker, FinalLock(w)
  PROVE  /\ Alone(w) /\ pass[w].pc = "cleaned"
         /\ \/ To(w, "released", pass[w].b, pass[w].ns)
            \/ record.state = "Bound" /\ To(w, "ask", record, pass[w].ns)
            \/ To(w, "handle", record, pass[w].ns)
<1>1. pass[w] \in Pass /\ pass[w].pc = "cleaned"
  BY PassFields DEF FinalLock
<1>2. Alone(w)
  BY PassFields DEF FinalLock, Alone
<1>3. CASE record.state = "none" \/ record.src # Home[pass[w].agent]
  <2>1. pass'[w] = [pass[w] EXCEPT !.pc = "released"]
    BY <1>3, PassFields DEF FinalLock
  <2> QED BY <1>1, <1>2, <2>1 DEF To, GoesOn, Pass
<1>4. CASE ~(record.state = "none" \/ record.src # Home[pass[w].agent]) /\ record.state = "Bound"
  <2>1. pass'[w] = [pass[w] EXCEPT !.pc = "ask", !.b = record]
    BY <1>4, PassFields DEF FinalLock
  <2> QED BY <1>1, <1>2, <1>4, <2>1 DEF To, GoesOn, Pass
<1>5. CASE ~(record.state = "none" \/ record.src # Home[pass[w].agent]) /\ record.state # "Bound"
  <2>1. pass'[w] = [pass[w] EXCEPT !.pc = "handle", !.b = record]
    BY <1>5, PassFields DEF FinalLock
  <2> QED BY <1>1, <1>2, <2>1 DEF To, GoesOn, Pass
<1> QED BY <1>3, <1>4, <1>5

LEMMA RetireConflictShape ==
  ASSUME BindInv, NEW w \in Worker, RetireConflict(w)
  PROVE  Alone(w) /\ pass[w].pc = "retire" /\ (Done(w) \/ To(w, "handle", record, pass[w].ns))
<1>1. pass[w] \in Pass /\ pass[w].pc = "retire"
  BY PassFields DEF RetireConflict
<1>2. CASE record.state = "none"
  <2>1. pass' = [pass EXCEPT ![w] = After(w)]
    BY <1>2 DEF RetireConflict
  <2> QED BY <1>1, <2>1, AfterShape
<1>3. CASE record.state # "none"
  <2>1. Alone(w) /\ pass'[w] = [pass[w] EXCEPT !.pc = "handle", !.b = record]
    BY <1>3, PassFields DEF RetireConflict, Alone
  <2> QED BY <1>1, <2>1 DEF To, GoesOn, Pass
<1> QED BY <1>2, <1>3

LEMMA EndShape ==
  ASSUME BindInv, NEW w \in Worker,
         \/ Drop(w) \/ Rotate(w) \/ Rebuild(w) \/ PlaceWorkload(w) \/ FinalRelease(w) \/ Wait(w) \/ Fail(w)
  PROVE  Alone(w) /\ pass'[w] = Idle
<1>1. pass' = [pass EXCEPT ![w] = Idle]
  BY DEF Drop, Rotate, Rebuild, PlaceWorkload, FinalRelease, Wait, Fail, Ends
<1> QED BY <1>1, Shape

LEMMA HandledShape ==
  ASSUME BindInv, NEW w \in Worker,
         HandleNothing(w) \/ HandleGone(w) \/ HandleGoing(w) \/ HandleDelete(w) \/ Keep(w)
  PROVE  Alone(w) /\ Done(w) /\ pass[w].pc \in {"handle", "decide", "delete", "keep"}
<1>1. pass' = [pass EXCEPT ![w] = After(w)]
  BY DEF HandleNothing, HandleGone, HandleGoing, HandleDelete, Keep
<1>2. pass[w].pc \in {"handle", "decide", "delete", "keep"} /\ pass[w].pc # "idle"
  BY DEF HandleNothing, HandleGone, HandleGoing, HandleDelete, Keep, Handles, Mine
<1> QED BY <1>1, <1>2, AfterShape

(* A pass begins, for the Agent a or for the namespace. *)
Begins(w, a) == NamespaceBegin(w) \/ (a \in Agent /\ (EnsureBegin(w, a) \/ FinalClean(w, a)))

LEMMA BeginShape ==
  ASSUME BindInv, NEW w \in Worker, NEW a
  PROVE  /\ EnsureBegin(w, a) =>
              /\ Alone(w) /\ Takes(w, a) /\ agents[a].phase = "live"
              /\ pass'[w].pc = "source" /\ pass'[w].agent = a /\ pass'[w].uid = agents[a].uid
              /\ pass'[w].src = source[Home[a]] /\ ~pass'[w].final /\ pass'[w].b = NoRecord
         /\ FinalClean(w, a) =>
              /\ Alone(w) /\ Takes(w, a) /\ agents[a].phase = "deleting"
              /\ pass'[w].pc = "cleaned" /\ pass'[w].agent = a /\ pass'[w].uid = agents[a].uid
              /\ pass'[w].final /\ pass'[w].b = NoRecord
         /\ NamespaceBegin(w) =>
              /\ Alone(w) /\ Takes(w, None) /\ Free(w)
              /\ pass'[w].pc = "handle" /\ pass'[w].agent = None /\ ~pass'[w].final
              /\ pass'[w].b = record
<1>1. ASSUME EnsureBegin(w, a)
      PROVE  Alone(w) /\ pass'[w] = [Idle EXCEPT !.pc = "source", !.agent = a, !.uid = agents[a].uid,
                                                 !.src = source[Home[a]]]
  BY <1>1, PassFields DEF EnsureBegin, Alone
<1>2. ASSUME FinalClean(w, a)
      PROVE  Alone(w) /\ pass'[w] = [Idle EXCEPT !.pc = "cleaned", !.agent = a, !.uid = agents[a].uid,
                                                 !.final = TRUE]
  BY <1>2, PassFields DEF FinalClean, Alone
<1>3. ASSUME NamespaceBegin(w)
      PROVE  Alone(w) /\ pass'[w] = [Idle EXCEPT !.pc = "handle", !.b = record]
  BY <1>3, PassFields DEF NamespaceBegin, Alone
<1>4. EnsureBegin(w, a) => /\ pass'[w].pc = "source" /\ pass'[w].agent = a /\ pass'[w].uid = agents[a].uid
                           /\ pass'[w].src = source[Home[a]] /\ ~pass'[w].final /\ pass'[w].b = NoRecord
  BY <1>1 DEF Idle
<1>5. FinalClean(w, a) => /\ pass'[w].pc = "cleaned" /\ pass'[w].agent = a /\ pass'[w].uid = agents[a].uid
                          /\ pass'[w].final /\ pass'[w].b = NoRecord
  BY <1>2 DEF Idle
<1>6. NamespaceBegin(w) => /\ pass'[w].pc = "handle" /\ pass'[w].agent = None /\ ~pass'[w].final
                           /\ pass'[w].b = record
  BY <1>3 DEF Idle
<1>7. /\ EnsureBegin(w, a) => Takes(w, a) /\ agents[a].phase = "live"
      /\ FinalClean(w, a) => Takes(w, a) /\ agents[a].phase = "deleting"
      /\ NamespaceBegin(w) => Takes(w, None) /\ Free(w)
  BY DEF EnsureBegin, FinalClean, NamespaceBegin
<1> QED BY <1>1, <1>2, <1>3, <1>4, <1>5, <1>6, <1>7

-----------------------------------------------------------------------------
(***************************************************************************)
(* What the steps of a pass have in common: whom it serves, and how it     *)
(* holds the mutex and the record.                                         *)
(***************************************************************************)
Building == {"made", "mirrored", "rotate", "drop"}

Regular(w) ==
  /\ Alone(w)
  /\ pass'[w] = Idle \/ GoesOn(w)
  /\ pass'[w].pc \in EnsurePc => pass[w].pc \in EnsurePc
  /\ pass'[w].pc \in Building =>
       /\ pass'[w].b = pass[w].b
       /\ \/ pass[w].pc \in Building
          \/ pass[w].b.state = "Creating" /\ pass[w].b.src = Home[pass[w].agent]
  /\ pass'[w].pc = "delete" => pass'[w].b.state = "Deleting"
  /\ pass'[w].pc \in Inside =>
       pass'[w].b = record' \/ (pass'[w].b = pass[w].b /\ record' = record /\ pass[w].pc \in Inside)
  /\ pass'[w].pc \in Inside /\ pass[w].pc \notin Inside => Free(w)
  /\ record' # record => pass[w].pc \in Inside
  /\ pass'[w].b \in {pass[w].b, record, record', NoRecord}

LEMMA IdleRegular ==
  ASSUME NEW w \in Worker, Alone(w), pass'[w] = Idle, record' # record => pass[w].pc \in Inside
  PROVE  Regular(w)
BY IdlePc DEF Regular, Building

LEMMA DoneRegular ==
  ASSUME NEW w \in Worker, Alone(w), Done(w), record' # record => pass[w].pc \in Inside
  PROVE  Regular(w)
<1>1. CASE pass'[w] = Idle
  BY <1>1, IdleRegular
<1>2. CASE Released(w)
  BY <1>2 DEF Released, Regular, EnsurePc, Building, Inside
<1> QED BY <1>1, <1>2 DEF Done

LEMMA EnsuresRegular ==
  ASSUME BindInv, NEW w \in Worker, Ensures(w)
  PROVE  Regular(w)
<1>1. CASE EnsureLock(w)
  <2>1. pass[w].pc = "source" /\ Free(w) /\ record' = record
    BY <1>1 DEF EnsureLock
  <2> QED BY <1>1, <2>1, EnsureLockShape DEF To, Regular, EnsurePc, Building
<1>2. CASE NewRecord(w)
  <2>1. pass[w].pc = "decide"
    BY <1>2 DEF NewRecord
  <2> QED BY <1>2, <2>1, NewRecordShape DEF To, Regular, EnsurePc, Building, Inside
<1>3. CASE Discard(w) \/ DiscardCrashed(w)
  <2>1. /\ pass[w].pc = "decide" /\ record' = record
        /\ pass[w].b.state = "Creating" /\ pass[w].b.src = Home[pass[w].agent]
    BY <1>3 DEF Discard, Replaced, DiscardCrashed, Current, Mine
  <2> QED BY <1>3, <2>1, CounterShape DEF To, Regular, EnsurePc, Building, Inside
<1>4. CASE Drop(w) \/ Rotate(w) \/ Rebuild(w)
  <2>1. pass[w].pc \in Inside
    BY <1>4 DEF Drop, Rotate, Rebuild, Current, Mine, Inside
  <2> QED BY <1>4, <2>1, EndShape, IdleRegular
<1>5. CASE Retire(w)
  <2>1. pass[w].pc = "decide"
    BY <1>5 DEF Retire
  <2> QED BY <1>5, <2>1, SwapShape DEF To, Regular, EnsurePc, Building, Inside
<1>6. CASE CreateRun(w)
  <2>1. /\ pass[w].b.state = "Creating" /\ pass[w].b.src = Home[pass[w].agent]
        /\ record' = record
    BY <1>6 DEF CreateRun, Current, Mine
  <2> QED BY <1>6, <2>1, CreateRunShape DEF To, Regular, EnsurePc, Building, Inside
<1>7. CASE Mirror(w)
  <2>1. pass[w].pc = "made" /\ record' = record
    BY <1>7 DEF Mirror
  <2> QED BY <1>7, <2>1, CounterShape DEF To, Regular, EnsurePc, Building, Inside
<1>8. CASE Bind(w) \/ UseBound(w)
  <2>1. pass[w].pc \in {"mirrored", "decide"} /\ pass'[w].pc = "granted" /\ GoesOn(w) /\ Alone(w)
        /\ pass'[w].b = NoRecord
    BY <1>8, GrantShape DEF To
  <2> QED BY <2>1 DEF Regular, EnsurePc, Building, Inside
<1>9. CASE PlaceCopies(w)
  <2>1. pass[w].pc = "granted" /\ record' = record
    BY <1>9 DEF PlaceCopies
  <2> QED BY <1>9, <2>1, CounterShape DEF To, Regular, EnsurePc, Building, Inside
<1>10. CASE PlaceWorkload(w)
  <2>1. record' = record
    BY <1>10 DEF PlaceWorkload
  <2> QED BY <1>10, <2>1, EndShape, IdleRegular
<1> QED BY <1>1, <1>2, <1>3, <1>4, <1>5, <1>6, <1>7, <1>8, <1>9, <1>10 DEF Ensures

LEMMA StepRegular ==
  ASSUME BindInv, NEW w \in Worker, Step(w) \/ Fail(w)
  PROVE  Regular(w)
<1>1. CASE HandleNothing(w) \/ HandleGone(w) \/ HandleGoing(w) \/ HandleDelete(w) \/ Keep(w)
  <2>1. pass[w].pc \in Inside
    BY <1>1, HandledShape DEF Inside
  <2> QED BY <1>1, <2>1, HandledShape, DoneRegular
<1>2. CASE List(w) \/ Count(w)
  <2>1. record' = record
    BY <1>2 DEF List, Count
  <2>2. CASE Done(w)
    BY <1>2, <2>1, <2>2, AskShape, DoneRegular
  <2>3. CASE \E pc \in {"keep", "give", "retire", "count"} : To(w, pc, pass[w].b, pass[w].ns)
    BY <1>2, <2>1, <2>3, AskShape DEF To, Regular, EnsurePc, Building, Inside
  <2> QED BY <1>2, <2>2, <2>3, AskShape
<1>3. CASE Give(w)
  <2>1. record'.state = "Deleting"
    <3>1. record' = [pass[w].b EXCEPT !.state = "Deleting"]
      BY <1>3 DEF Give, Swap
    <3>2. pass[w].b \in Record
      BY PassFields DEF Pass
    <3> QED BY <3>1, <3>2 DEF Record
  <2> QED BY <1>3, <2>1, SwapShape DEF To, Regular, EnsurePc, Building, Inside
<1>4. CASE RetireLast(w)
  BY <1>4, SwapShape DEF To, Regular, EnsurePc, Building, Inside
<1>5. CASE FinalLock(w)
  <2>1. Free(w) /\ record' = record
    BY <1>5 DEF FinalLock
  <2> QED BY <1>5, <2>1, FinalLockShape DEF To, Regular, EnsurePc, Building, Inside
<1>6. CASE RetireConflict(w)
  <2>1. record' = record
    BY <1>6 DEF RetireConflict
  <2>2. CASE Done(w)
    BY <1>6, <2>1, <2>2, RetireConflictShape, DoneRegular
  <2>3. CASE To(w, "handle", record, pass[w].ns)
    BY <1>6, <2>1, <2>3, RetireConflictShape DEF To, Regular, EnsurePc, Building, Inside
  <2> QED BY <1>6, <2>2, <2>3, RetireConflictShape
<1>7. CASE FinalRelease(w) \/ Wait(w) \/ Fail(w)
  <2>1. record' = record
    BY <1>7 DEF FinalRelease, Wait, Fail
  <2> QED BY <1>7, <2>1, EndShape, IdleRegular
<1> QED BY <1>1, <1>2, <1>3, <1>4, <1>5, <1>6, <1>7, EnsuresRegular DEF Step, Handler, Finalizes

(* What they do to the namespace. *)
Placed(w) ==
  /\ run'.uid = run.uid /\ run'.nonce = run.nonce
  /\ run.deleting => run'.deleting
  /\ run'.deleting /\ ~run.deleting => Discard(w) \/ DiscardCrashed(w) \/ HandleDelete(w)
  /\ run'.work # run.work => PlaceWorkload(w) /\ Open /\ run'.work = run.work \cup {pass[w].uid}
  /\ run'.copies # run.copies => PlaceCopies(w) /\ Open /\ run'.copies = run.copies \cup {pass[w].uid}
  /\ run.mirrored => run'.mirrored
  /\ made' = made /\ (ids' = ids \/ ids' = ids + 1)

Made(w) ==
  /\ CreateRun(w) /\ run.uid = None /\ ids' = ids + 1
  /\ run'.uid = ids' /\ run'.nonce = pass[w].b.nonce
  /\ ~run'.deleting /\ ~run'.mirrored /\ run'.work = {} /\ run'.copies = {}
  /\ made' = made \cup {[uid |-> ids', for |-> pass[w].src, nonce |-> pass[w].b.nonce]}

LEMMA RunShape ==
  ASSUME BindInv, NEW w \in Worker, Step(w) \/ Fail(w)
  PROVE  /\ Placed(w) \/ Made(w)
         /\ source' = source
         /\ agents' # agents => FinalRelease(w)
<1>1. run \in Run
  BY DEF BindInv, TypeOK
<1>2. CASE Made(w)
  BY <1>2 DEF Made, CreateRun, world
<1>3. CASE CreateRun(w)
  <2>1. run' = [NoRun EXCEPT !.uid = ids', !.nonce = pass[w].b.nonce]
    BY <1>3 DEF CreateRun
  <2>2. /\ run'.uid = ids' /\ run'.nonce = pass[w].b.nonce
        /\ ~run'.deleting /\ ~run'.mirrored /\ run'.work = {} /\ run'.copies = {}
    BY <2>1 DEF NoRun
  <2>3. Made(w)
    BY <1>3, <2>2 DEF CreateRun, Made, NewId
  <2> QED BY <1>2, <2>3
<1>4. CASE run' = run /\ made' = made /\ (ids' = ids \/ ids' = ids + 1)
  <2>1. Placed(w)
    BY <1>4 DEF Placed
  <2>2. (source' = source /\ (agents' # agents => FinalRelease(w))) \/ CreateRun(w)
    BY DEF Step, Fail, Ensures, Handler, Finalizes, EnsureLock, NewRecord, Discard, Drop, Retire, CreateRun,
           Mirror, Bind, DiscardCrashed, Rotate, Rebuild, UseBound, PlaceCopies, PlaceWorkload,
           HandleNothing, HandleGone, HandleGoing, List, Count, Keep, Give, HandleDelete, FinalLock,
           RetireLast, RetireConflict, FinalRelease, Wait, world
  <2> QED BY <1>3, <2>1, <2>2
<1>5. ASSUME run' = Going(run)
      PROVE  /\ run'.uid = run.uid /\ run'.nonce = run.nonce /\ run'.mirrored = run.mirrored
             /\ run'.work = run.work /\ run'.copies = run.copies /\ run'.deleting
  BY <1>1, <1>5 DEF Going, Run
<1>6. CASE Discard(w)
  <2>1. run' = run \/ run' = Going(run)
    BY <1>6 DEF Discard
  <2>2. made' = made /\ ids' = ids /\ source' = source /\ agents' = agents
    BY <1>6 DEF Discard, world
  <2> QED BY <1>5, <1>6, <2>1, <2>2 DEF Placed
<1>7. CASE DiscardCrashed(w)
  <2>1. run' = Going(run) /\ made' = made /\ ids' = ids /\ source' = source /\ agents' = agents
    BY <1>7 DEF DiscardCrashed, world
  <2> QED BY <1>5, <1>7, <2>1 DEF Placed
<1>8. CASE HandleDelete(w)
  <2>1. run' = run \/ run' = Going(run)
    BY <1>8 DEF HandleDelete
  <2>2. made' = made /\ ids' = ids /\ source' = source /\ agents' = agents
    BY <1>8 DEF HandleDelete, world
  <2> QED BY <1>5, <1>8, <2>1, <2>2 DEF Placed
<1>9. CASE Mirror(w) \/ UseBound(w)
  <2>1. /\ run' = [run EXCEPT !.mirrored = TRUE]
        /\ made' = made /\ ids' = ids /\ source' = source /\ agents' = agents
    BY <1>9 DEF Mirror, UseBound, world
  <2>2. /\ run'.uid = run.uid /\ run'.nonce = run.nonce /\ run'.mirrored /\ run'.deleting = run.deleting
        /\ run'.work = run.work /\ run'.copies = run.copies
    BY <1>1, <2>1 DEF Run
  <2> QED BY <2>1, <2>2 DEF Placed
<1>10. CASE PlaceCopies(w)
  <2>1. /\ run' = [run EXCEPT !.copies = @ \cup {pass[w].uid}] /\ Open
        /\ made' = made /\ ids' = ids /\ source' = source /\ agents' = agents
    BY <1>10 DEF PlaceCopies, world
  <2>2. /\ run'.uid = run.uid /\ run'.nonce = run.nonce /\ run'.mirrored = run.mirrored
        /\ run'.deleting = run.deleting /\ run'.work = run.work /\ run'.copies = run.copies \cup {pass[w].uid}
    BY <1>1, <2>1 DEF Run
  <2> QED BY <1>10, <2>1, <2>2 DEF Placed
<1>11. CASE PlaceWorkload(w)
  <2>1. /\ run' = [run EXCEPT !.work = @ \cup {pass[w].uid}] /\ Open
        /\ made' = made /\ ids' = ids /\ source' = source /\ agents' = agents
    BY <1>11 DEF PlaceWorkload, world
  <2>2. /\ run'.uid = run.uid /\ run'.nonce = run.nonce /\ run'.mirrored = run.mirrored
        /\ run'.deleting = run.deleting /\ run'.copies = run.copies /\ run'.work = run.work \cup {pass[w].uid}
    BY <1>1, <2>1 DEF Run
  <2> QED BY <1>11, <2>1, <2>2 DEF Placed
<1>12. CASE EnsureLock(w) \/ NewRecord(w) \/ Drop(w) \/ Retire(w) \/ Bind(w) \/ Rotate(w) \/ Rebuild(w)
  BY <1>4, <1>12 DEF EnsureLock, NewRecord, Drop, Retire, Bind, Rotate, Rebuild, NewId
<1>13. CASE HandleNothing(w) \/ HandleGone(w) \/ HandleGoing(w) \/ List(w) \/ Count(w) \/ Keep(w) \/ Give(w)
  BY <1>4, <1>13 DEF HandleNothing, HandleGone, HandleGoing, List, Count, Keep, Give
<1>14. CASE Finalizes(w) \/ Wait(w) \/ Fail(w)
  BY <1>4, <1>14 DEF Finalizes, FinalLock, RetireLast, RetireConflict, FinalRelease, Wait, Fail
<1> QED BY <1>3, <1>6, <1>7, <1>8, <1>9, <1>10, <1>11, <1>12, <1>13, <1>14 DEF Step, Ensures, Handler

-----------------------------------------------------------------------------
(***************************************************************************)
(* What holds for any number of processes: UIDs are handed out once, and a *)
(* pass knows what its steps have established.                             *)
(***************************************************************************)
Declares(a) == agents[a].phase # "absent"

UidsOK ==
  /\ \A m \in made : m.uid <= ids
  /\ \A a \in Agent : Declares(a) => agents[a].uid \in Nat /\ agents[a].uid <= ids
  /\ \A a, b \in Agent : Declares(a) /\ Declares(b) /\ agents[a].uid = agents[b].uid => a = b
  /\ \A u \in run.work \cup run.copies : u \in Nat /\ u <= ids

EmptyOK == run.uid = None => run.work = {} /\ run.copies = {} /\ ~run.deleting

HomesOK == \A a \in Agent : Declares(a) => source[Home[a]] # None

UnboundOK(b) == b.state \in {"none", "Creating"} => b.uid = None

(* n: the UIDs handed out. *)
ServesOK(w, p, n) ==
  /\ p.pc \in EnsurePc =>
       p.agent \in Agent /\ p.agent \in Serves[w] /\ ~p.final /\ p.uid \in Nat /\ p.uid <= n
  /\ p.pc # "idle" /\ p.final => p.agent \in Agent
  /\ p.pc \in Building => p.b.state = "Creating" /\ p.b.src = Home[p.agent]
  /\ p.pc = "delete" => p.b.state = "Deleting"
  /\ UnboundOK(p.b)

BaseInv ==
  /\ BindInv /\ UidsOK /\ EmptyOK /\ HomesOK /\ UnboundOK(record)
  /\ \A w \in Worker : ServesOK(w, pass[w], ids)

LEMMA ServesIdle == ASSUME NEW w, NEW n PROVE ServesOK(w, Idle, n) /\ UnboundOK(NoRecord)
BY IdlePc DEF ServesOK, UnboundOK, Building

LEMMA ServesLonger ==
  ASSUME NEW w, NEW p, NEW m \in Nat, NEW n \in Nat, m <= n, ServesOK(w, p, m)
  PROVE  ServesOK(w, p, n)
BY DEF ServesOK

(* The record only ever names a UID once it is bound. *)
LEMMA RecordUnbound ==
  ASSUME BaseInv, NEW w \in Worker, Step(w) \/ Fail(w)
  PROVE  UnboundOK(record')
<1>1. /\ pass[w].b \in Record /\ UnboundOK(pass[w].b) /\ UnboundOK(record) /\ PassOK(pass[w], made)
      /\ ServesOK(w, pass[w], ids)
  BY PassFields DEF BaseInv, ServesOK, BindInv, Pass
<1>2. CASE record' = record
  BY <1>1, <1>2
<1>3. CASE record' = NoRecord
  BY <1>3, ServesIdle
<1>4. CASE NewRecord(w)
  <2>1. record'.uid = None
    BY <1>4 DEF NewRecord
  <2> QED BY <2>1 DEF UnboundOK
<1>5. ASSUME NEW s \in Held, record' = [pass[w].b EXCEPT !.state = s]
      PROVE  UnboundOK(record')
  <2>1. record'.state = s
    BY <1>1, <1>5 DEF Record
  <2> QED BY <2>1 DEF UnboundOK, Held
<1>6. CASE Bind(w)
  <2>1. record' = [pass[w].b EXCEPT !.state = "Bound", !.uid = pass[w].ns]
    BY <1>6 DEF Bind, Swap
  <2>2. record'.state = "Bound"
    BY <1>1, <2>1 DEF Record
  <2> QED BY <2>2 DEF UnboundOK
<1>7. CASE Rotate(w)
  <2>1. record' = [pass[w].b EXCEPT !.nonce = ids'] /\ pass[w].pc = "rotate"
    BY <1>7 DEF Rotate, Swap
  <2>2. record'.uid = pass[w].b.uid
    BY <1>1, <2>1 DEF Record
  <2>3. pass[w].b.state = "Creating"
    BY <1>1, <2>1 DEF ServesOK, Building
  <2> QED BY <1>1, <2>2, <2>3 DEF UnboundOK
<1>8. CASE Rebuild(w)
  <2>1. record' = [pass[w].b EXCEPT !.state = "Creating", !.nonce = ids', !.uid = None]
    BY <1>8 DEF Rebuild, Swap
  <2>2. record'.uid = None
    BY <1>1, <2>1 DEF Record
  <2> QED BY <2>2 DEF UnboundOK
<1>9. CASE Retire(w) \/ RetireLast(w)
  <2>1. record' = [pass[w].b EXCEPT !.state = "Terminating"]
    BY <1>9 DEF Retire, RetireLast, Swap
  <2> QED BY <1>5, <2>1 DEF Held
<1>10. CASE Keep(w)
  <2>1. record' = [pass[w].b EXCEPT !.state = "Bound"]
    BY <1>10 DEF Keep, Swap
  <2> QED BY <1>5, <2>1 DEF Held
<1>11. CASE Give(w)
  <2>1. record' = [pass[w].b EXCEPT !.state = "Deleting"]
    BY <1>11 DEF Give, Swap
  <2> QED BY <1>5, <2>1 DEF Held
<1>12. CASE EnsureLock(w) \/ Discard(w) \/ CreateRun(w) \/ Mirror(w) \/ DiscardCrashed(w) \/ UseBound(w)
            \/ PlaceCopies(w) \/ PlaceWorkload(w)
  BY <1>2, <1>12 DEF EnsureLock, Discard, CreateRun, Mirror, DiscardCrashed, UseBound, PlaceCopies,
                     PlaceWorkload
<1>13. CASE HandleNothing(w) \/ HandleGoing(w) \/ List(w) \/ Count(w) \/ HandleDelete(w)
  BY <1>2, <1>13 DEF HandleNothing, HandleGoing, List, Count, HandleDelete
<1>14. CASE FinalLock(w) \/ RetireConflict(w) \/ FinalRelease(w) \/ Wait(w) \/ Fail(w)
  BY <1>2, <1>14 DEF FinalLock, RetireConflict, FinalRelease, Wait, Fail
<1>15. CASE Drop(w) \/ HandleGone(w)
  BY <1>3, <1>15 DEF Drop, HandleGone
<1> QED BY <1>4, <1>6, <1>7, <1>8, <1>9, <1>10, <1>11, <1>12, <1>13, <1>14, <1>15
        DEF Step, Ensures, Handler, Finalizes

(* Discard, check 9 and the handler only delete a namespace that is there. *)
LEMMA DeletesExisting ==
  ASSUME BaseInv, NEW w \in Worker, Step(w) \/ Fail(w), run'.deleting, ~run.deleting
  PROVE  run.uid # None
<1>1. /\ run \in Run /\ PassOK(pass[w], made) /\ made \subseteq [uid : Nat, for : Id, nonce : Id]
      /\ ServesOK(w, pass[w], ids)
  BY DEF BaseInv, BindInv, TypeOK
<1>2. Discard(w) \/ DiscardCrashed(w) \/ HandleDelete(w)
  BY RunShape DEF Placed, Made, BaseInv
<1>3. CASE Discard(w)
  BY <1>1, <1>3 DEF Discard
<1>4. CASE DiscardCrashed(w)
  BY <1>4 DEF DiscardCrashed
<1>5. CASE HandleDelete(w)
  <2>1. run.uid = pass[w].b.uid
    BY <1>5 DEF HandleDelete
  <2>2. pass[w].b.state \in Held
    BY <1>1, <1>5 DEF HandleDelete, ServesOK, Held
  <2>3. pass[w].b.uid \in Nat
    BY <1>1, <2>2 DEF PassOK, BindingOK, MadeFor
  <2> QED BY <2>1, <2>3, ConstantsAssumption
<1> QED BY <1>2, <1>3, <1>4, <1>5

(* Only the finalizer's release changes the Agents. *)
LEMMA ReleaseShape ==
  ASSUME BindInv, NEW w \in Worker, FinalRelease(w), NEW a \in Agent
  PROVE  /\ agents'[a] = IF a = pass[w].agent THEN Absent ELSE agents[a]
         /\ Absent.phase = "absent"
BY DEF BindInv, TypeOK, FinalRelease, Absent

LEMMA AgentsShrink ==
  ASSUME BindInv, NEW w \in Worker, Step(w) \/ Fail(w), NEW a \in Agent, Declares(a)'
  PROVE  Declares(a) /\ agents'[a] = agents[a]
<1>1. CASE agents' = agents
  BY <1>1 DEF Declares
<1>2. CASE FinalRelease(w)
  BY <1>2, ReleaseShape DEF Declares
<1> QED BY <1>1, <1>2, RunShape

LEMMA UidsStep ==
  ASSUME BaseInv, NEW w \in Worker, Step(w) \/ Fail(w)
  PROVE  UidsOK' /\ ids \in Nat /\ ids' \in Nat /\ ids <= ids'
<1>1. /\ ids \in Nat /\ BindInv /\ UidsOK /\ made \subseteq [uid : Nat, for : Id, nonce : Id]
      /\ ServesOK(w, pass[w], ids)
  BY DEF BaseInv, BindInv, TypeOK
<1>2. ids' \in Nat /\ ids <= ids'
  BY <1>1, RunShape DEF Placed, Made
<1>3. \A m \in made' : m.uid <= ids'
  <2>1. CASE made' = made
    BY <1>1, <1>2, <2>1 DEF UidsOK
  <2>2. CASE Made(w)
    <3>1. \A m \in made' : m \in made \/ m.uid = ids'
      BY <2>2 DEF Made
    <3>2. \A m \in made : m.uid <= ids'
      BY <1>1, <1>2 DEF UidsOK
    <3> QED BY <1>2, <3>1, <3>2
  <2> QED BY <1>1, <2>1, <2>2, RunShape DEF Placed
<1>4. ASSUME NEW a \in Agent, Declares(a)'
      PROVE  agents'[a].uid \in Nat /\ agents'[a].uid <= ids'
  BY <1>1, <1>2, <1>4, AgentsShrink DEF UidsOK
<1>5. ASSUME NEW a \in Agent, NEW b \in Agent, Declares(a)', Declares(b)', agents'[a].uid = agents'[b].uid
      PROVE  a = b
  BY <1>1, <1>5, AgentsShrink DEF UidsOK
<1>6. ASSUME NEW u \in run'.work \cup run'.copies
      PROVE  u \in Nat /\ u <= ids'
  <2>1. u \in run.work \cup run.copies \/ (u = pass[w].uid /\ (PlaceWorkload(w) \/ PlaceCopies(w)))
    BY <1>1, <1>6, RunShape DEF Placed, Made
  <2>2. PlaceWorkload(w) \/ PlaceCopies(w) => pass[w].uid \in Nat /\ pass[w].uid <= ids
    BY <1>1 DEF PlaceWorkload, PlaceCopies, ServesOK, EnsurePc
  <2> QED BY <1>1, <1>2, <2>1, <2>2 DEF UidsOK
<1> QED BY <1>1, <1>2, <1>3, <1>4, <1>5, <1>6 DEF UidsOK, Declares

LEMMA ServesStep ==
  ASSUME BaseInv, NEW w \in Worker, Regular(w), UnboundOK(record'),
         ids \in Nat, ids' \in Nat, ids <= ids', NEW v \in Worker
  PROVE  ServesOK(v, pass'[v], ids')
<1>1. ServesOK(v, pass[v], ids') /\ ServesOK(w, pass[w], ids') /\ UnboundOK(record)
  BY ServesLonger DEF BaseInv
<1>2. CASE v # w
  BY <1>1, <1>2 DEF Regular, Alone
<1>3. CASE v = w /\ pass'[w] = Idle
  BY <1>3, ServesIdle
<1>4. CASE v = w /\ GoesOn(w)
  <2>1. UnboundOK(pass'[w].b)
    BY <1>1, ServesIdle DEF Regular, ServesOK
  <2>2. /\ pass'[w].agent = pass[w].agent /\ pass'[w].uid = pass[w].uid
        /\ pass'[w].final = pass[w].final /\ pass[w].pc # "idle"
    BY <1>4 DEF GoesOn
  <2>3. /\ pass'[w].pc \in EnsurePc => pass[w].pc \in EnsurePc
        /\ pass'[w].pc \in Building =>
             /\ pass'[w].b = pass[w].b
             /\ \/ pass[w].pc \in Building
                \/ pass[w].b.state = "Creating" /\ pass[w].b.src = Home[pass[w].agent]
        /\ pass'[w].pc = "delete" => pass'[w].b.state = "Deleting"
    BY DEF Regular
  <2>4. /\ pass'[w].pc \in EnsurePc => /\ pass'[w].agent \in Agent /\ pass'[w].agent \in Serves[w]
                                       /\ ~pass'[w].final /\ pass'[w].uid \in Nat /\ pass'[w].uid <= ids'
        /\ pass'[w].pc # "idle" /\ pass'[w].final => pass'[w].agent \in Agent
    BY <1>1, <2>2, <2>3 DEF ServesOK
  <2>5. pass'[w].pc \in Building => pass'[w].b.state = "Creating" /\ pass'[w].b.src = Home[pass'[w].agent]
    BY <1>1, <2>2, <2>3 DEF ServesOK
  <2> QED BY <1>4, <2>1, <2>3, <2>4, <2>5 DEF ServesOK
<1> QED BY <1>2, <1>3, <1>4 DEF Regular

LEMMA StepBase ==
  ASSUME BaseInv, NEW w \in Worker, Step(w) \/ Fail(w)
  PROVE  BaseInv'
<1>1. BindInv /\ BindInv' /\ Regular(w) /\ UnboundOK(record')
  BY StepInv, EndsInv, StepRegular, RecordUnbound DEF BaseInv
<1>2. UidsOK' /\ ids \in Nat /\ ids' \in Nat /\ ids <= ids'
  BY UidsStep
<1>3. \A v \in Worker : ServesOK(v, pass'[v], ids')
  BY <1>1, <1>2, ServesStep
<1>4. HomesOK'
  BY <1>1, AgentsShrink, RunShape DEF HomesOK, BaseInv, Declares
<1>5. EmptyOK'
  <2>1. CASE Made(w)
    BY <1>2, <2>1, ConstantsAssumption DEF Made, EmptyOK
  <2>2. CASE Placed(w)
    <3>1. run'.uid = None => ~run'.deleting
      BY <2>2, DeletesExisting DEF BaseInv, EmptyOK, Placed
    <3> QED BY <2>2, <3>1 DEF BaseInv, EmptyOK, Placed, Open
  <2> QED BY <1>1, <2>1, <2>2, RunShape
<1>6. \A v \in Worker : ServesOK(v, pass[v], ids)'
  BY <1>3 DEF ServesOK, UnboundOK
<1> QED BY <1>1, <1>2, <1>4, <1>5, <1>6 DEF BaseInv, UnboundOK

(* A pass that begins finds its Agent as it is. *)
LEMMA CleanShape ==
  ASSUME BindInv, NEW w \in Worker, NEW a, FinalClean(w, a)
  PROVE  /\ run'.uid = run.uid /\ run'.nonce = run.nonce /\ run'.deleting = run.deleting
         /\ run'.mirrored = run.mirrored
         /\ run'.work \subseteq run.work /\ run'.copies \subseteq run.copies
         /\ run.uid = None \/ run.deleting \/ agents[a].uid \notin run'.copies
<1>1. run \in Run
  BY DEF BindInv, TypeOK
<1>2. CASE run.uid = None \/ run.deleting
  BY <1>2 DEF FinalClean
<1>3. CASE ~(run.uid = None \/ run.deleting)
  <2>1. run' = [run EXCEPT !.copies = @ \ {agents[a].uid},
                           !.work = IF agents[a].uid \in unseen THEN @ ELSE @ \ {agents[a].uid}]
    BY <1>3 DEF FinalClean
  <2>2. /\ run'.uid = run.uid /\ run'.nonce = run.nonce /\ run'.deleting = run.deleting
        /\ run'.mirrored = run.mirrored /\ run'.copies = run.copies \ {agents[a].uid}
        /\ run'.work = IF agents[a].uid \in unseen THEN run.work ELSE run.work \ {agents[a].uid}
    BY <1>1, <2>1 DEF Run
  <2> QED BY <2>2
<1> QED BY <1>2, <1>3

LEMMA BeginUnchanged ==
  ASSUME NEW w \in Worker, NEW a, Begins(w, a)
  PROVE  /\ source' = source /\ agents' = agents /\ record' = record /\ made' = made /\ ids' = ids
         /\ edits' = edits
         /\ EnsureBegin(w, a) \/ NamespaceBegin(w) => run' = run
BY DEF Begins, EnsureBegin, FinalClean, NamespaceBegin, world

LEMMA BeginBase ==
  ASSUME BaseInv, NEW w \in Worker, NEW a, Begins(w, a)
  PROVE  BaseInv'
<1>1. BindInv /\ BindInv'
  BY EnsureBeginInv, FinalCleanInv, NamespaceBeginInv DEF BaseInv, Begins
<1>2. /\ source' = source /\ agents' = agents /\ record' = record /\ made' = made /\ ids' = ids
      /\ run'.uid = run.uid /\ run'.deleting = run.deleting
      /\ run'.work \subseteq run.work /\ run'.copies \subseteq run.copies
  BY <1>1, BeginUnchanged, CleanShape DEF Begins
<1>3. UidsOK' /\ EmptyOK' /\ HomesOK' /\ UnboundOK(record')
  BY <1>2 DEF BaseInv, UidsOK, EmptyOK, HomesOK, Declares, UnboundOK
<1>4. ServesOK(w, pass'[w], ids) /\ Alone(w)
  <2>1. CASE a \in Agent /\ EnsureBegin(w, a)
    <3>1. a \in Serves[w] /\ agents[a].uid \in Nat /\ agents[a].uid <= ids
      BY <1>1, <2>1, BeginShape DEF Takes, BaseInv, UidsOK, Declares
    <3> QED BY <1>1, <2>1, <3>1, BeginShape, ServesIdle DEF ServesOK, Building
  <2>2. CASE a \in Agent /\ FinalClean(w, a)
    BY <1>1, <2>2, BeginShape, ServesIdle DEF ServesOK, Building, EnsurePc
  <2>3. CASE NamespaceBegin(w)
    BY <1>1, <2>3, BeginShape DEF ServesOK, Building, EnsurePc, BaseInv
  <2> QED BY <2>1, <2>2, <2>3 DEF Begins
<1>5. \A v \in Worker : ServesOK(v, pass'[v], ids')
  BY <1>2, <1>4 DEF BaseInv, Alone
<1>6. \A v \in Worker : ServesOK(v, pass[v], ids)'
  BY <1>5 DEF ServesOK, UnboundOK
<1> QED BY <1>1, <1>3, <1>6 DEF BaseInv, UnboundOK

(* Users, outsiders, Kubernetes and the cache. *)
Environment ==
  \/ \E s \in Source : CreateSource(s) \/ DeleteSource(s)
  \/ \E a \in Agent : CreateAgent(a) \/ DeleteAgent(a)
  \/ OutsiderCreates \/ OutsiderDeletes \/ RunGone \/ CacheSees

LEMMA EnvironmentShape ==
  ASSUME BaseInv, Environment
  PROVE  /\ record' = record /\ pass' = pass /\ made' = made
         /\ ids \in Nat /\ ids' \in Nat /\ ids <= ids'
<1>1. /\ record' = record /\ pass' = pass /\ made' = made
      /\ ids' = ids \/ ids' = ids + 1
  BY DEF Environment, CreateSource, DeleteSource, CreateAgent, DeleteAgent, OutsiderCreates,
         OutsiderDeletes, RunGone, CacheSees, NewId
<1>2. ids \in Nat
  BY DEF BaseInv, BindInv, TypeOK
<1> QED BY <1>1, <1>2

(* Agents and namespaces are created with a UID nobody has seen. *)
LEMMA AgentsChange ==
  ASSUME BaseInv, Environment, NEW a \in Agent
  PROVE  \/ agents'[a] = agents[a]
         \/ /\ agents[a].phase = "live" /\ agents'[a].phase = "deleting" /\ agents'[a].uid = agents[a].uid
         \/ /\ ~Declares(a) /\ agents'[a].phase = "live" /\ agents'[a].uid = ids' /\ ids' = ids + 1
            /\ source[Home[a]] # None /\ run' = run /\ source' = source
<1>1. agents \in [Agent -> [phase : {"absent", "live", "deleting"}, uid : Id]]
  BY DEF BaseInv, BindInv, TypeOK
<1>2. ASSUME NEW b \in Agent, CreateAgent(b)
      PROVE  \/ agents'[a] = agents[a]
             \/ /\ ~Declares(a) /\ agents'[a].phase = "live" /\ agents'[a].uid = ids' /\ ids' = ids + 1
                /\ source[Home[a]] # None /\ run' = run /\ source' = source
  BY <1>1, <1>2 DEF CreateAgent, NewId, Declares
<1>3. ASSUME NEW b \in Agent, DeleteAgent(b)
      PROVE  \/ agents'[a] = agents[a]
             \/ agents[a].phase = "live" /\ agents'[a].phase = "deleting" /\ agents'[a].uid = agents[a].uid
  <2>1. agents' = [agents EXCEPT ![b].phase = "deleting"] /\ agents[b].phase = "live"
    BY <1>3 DEF DeleteAgent
  <2> QED BY <1>1, <2>1
<1>4. CASE agents' = agents
  BY <1>4
<1> QED BY <1>2, <1>3, <1>4 DEF Environment, CreateSource, DeleteSource, OutsiderCreates, OutsiderDeletes,
                                 RunGone, CacheSees, world

LEMMA SourcesChange ==
  ASSUME BaseInv, Environment, NEW a \in Agent, Declares(a)
  PROVE  source'[Home[a]] = source[Home[a]]
<1>1. source \in [Source -> Id] /\ Home[a] \in Source /\ source[Home[a]] # None
  BY ConstantsAssumption DEF BaseInv, BindInv, TypeOK, HomesOK
<1>2. ASSUME NEW s \in Source, CreateSource(s)
      PROVE  source'[Home[a]] = source[Home[a]]
  BY <1>1, <1>2 DEF CreateSource
<1>3. ASSUME NEW s \in Source, DeleteSource(s)
      PROVE  source'[Home[a]] = source[Home[a]]
  <2>1. Home[a] # s
    BY <1>3 DEF DeleteSource, Declares
  <2> QED BY <1>1, <1>3, <2>1 DEF DeleteSource
<1>4. CASE source' = source
  BY <1>4
<1> QED BY <1>2, <1>3, <1>4 DEF Environment, CreateAgent, DeleteAgent, OutsiderCreates, OutsiderDeletes,
                                 RunGone, CacheSees, world

LEMMA RunChanges ==
  ASSUME BaseInv, Environment
  PROVE  \/ run' = run
         \/ /\ "create" \in Outsiders /\ run.uid = None /\ run'.uid = ids' /\ ids' = ids + 1
            /\ ~run'.deleting /\ run'.work = {} /\ run'.copies = {} /\ agents' = agents
         \/ /\ "delete" \in Outsiders /\ run.uid # None /\ run'.deleting /\ run'.uid = run.uid
            /\ run'.work = run.work /\ run'.copies = run.copies /\ run'.mirrored = run.mirrored
            /\ ids' = ids /\ edits' # edits
         \/ run.deleting /\ run' = NoRun
<1>1. run \in Run /\ edits \in Nat
  BY DEF BaseInv, BindInv, TypeOK
<1>2. CASE OutsiderCreates
  <2>1. PICK nonce \in {None} \cup {m.nonce : m \in made} :
          run' = [NoRun EXCEPT !.uid = ids', !.nonce = nonce]
    BY <1>2 DEF OutsiderCreates
  <2>2. run'.uid = ids' /\ ~run'.deleting /\ run'.work = {} /\ run'.copies = {}
    BY <2>1 DEF NoRun
  <2> QED BY <1>2, <2>2 DEF OutsiderCreates, NewId
<1>3. CASE OutsiderDeletes
  <2>1. /\ run' = [run EXCEPT !.deleting = TRUE] /\ "delete" \in Outsiders /\ run.uid # None
        /\ edits' = edits + 1 /\ ids' = ids
    BY <1>3 DEF OutsiderDeletes, Going, Edit
  <2>2. /\ run'.deleting /\ run'.uid = run.uid /\ run'.work = run.work /\ run'.copies = run.copies
        /\ run'.mirrored = run.mirrored
    BY <1>1, <2>1 DEF Run
  <2> QED BY <1>1, <2>1, <2>2
<1>4. CASE RunGone
  BY <1>4 DEF RunGone
<1>5. CASE run' = run
  BY <1>5
<1> QED BY <1>2, <1>3, <1>4, <1>5 DEF Environment, CreateSource, DeleteSource, CreateAgent, DeleteAgent,
                                       CacheSees

LEMMA EnvironmentBase ==
  ASSUME BaseInv, Environment
  PROVE  BaseInv'
<1>1. /\ BindInv' /\ record' = record /\ pass' = pass /\ made' = made
      /\ ids \in Nat /\ ids' \in Nat /\ ids <= ids'
  BY EnvironmentInv, EnvironmentShape DEF BaseInv, Environment
<1>2. NoRun.uid = None /\ NoRun.work = {} /\ NoRun.copies = {} /\ ~NoRun.deleting
  BY DEF NoRun
<1>3. EmptyOK'
  BY <1>1, <1>2, RunChanges, ConstantsAssumption DEF BaseInv, EmptyOK
<1>4. HomesOK'
  <2> SUFFICES ASSUME NEW a \in Agent, Declares(a)' PROVE source'[Home[a]] # None
    BY DEF HomesOK, Declares
  <2>1. CASE Declares(a)
    BY <2>1, SourcesChange DEF BaseInv, HomesOK
  <2>2. CASE ~Declares(a)
    BY <2>2, AgentsChange DEF Declares
  <2> QED BY <2>1, <2>2
<1>5. \A m \in made' : m.uid <= ids'
  <2>1. \A m \in made : m.uid <= ids /\ m.uid \in Nat
    BY DEF BaseInv, BindInv, TypeOK, UidsOK
  <2> QED BY <1>1, <2>1
<1>6. ASSUME NEW u \in run'.work \cup run'.copies
      PROVE  u \in Nat /\ u <= ids'
  <2>1. u \in run.work \cup run.copies
    BY <1>2, <1>6, RunChanges
  <2> QED BY <1>1, <2>1 DEF BaseInv, UidsOK
<1>7. ASSUME NEW a \in Agent, Declares(a)'
      PROVE  agents'[a].uid \in Nat /\ agents'[a].uid <= ids'
  BY <1>1, <1>7, AgentsChange DEF BaseInv, UidsOK, Declares
<1>8. ASSUME NEW a \in Agent, NEW b \in Agent, Declares(a)', Declares(b)', agents'[a].uid = agents'[b].uid
      PROVE  a = b
  <2>1. CASE ~Declares(a) /\ Declares(b)
    BY <1>1, <1>8, <2>1, AgentsChange DEF BaseInv, UidsOK, Declares
  <2>2. CASE ~Declares(b) /\ Declares(a)
    BY <1>1, <1>8, <2>2, AgentsChange DEF BaseInv, UidsOK, Declares
  <2>3. CASE Declares(a) /\ Declares(b)
    BY <1>1, <1>8, <2>3, AgentsChange DEF BaseInv, UidsOK, Declares
  <2>4. CASE ~Declares(a) /\ ~Declares(b)
    <3>1. PICK c \in Agent : CreateAgent(c)
      BY <1>8, <2>4 DEF Environment, CreateSource, DeleteSource, DeleteAgent, OutsiderCreates,
                        OutsiderDeletes, RunGone, CacheSees, world, Declares, BaseInv, BindInv, TypeOK
    <3> QED BY <1>8, <2>4, <3>1 DEF CreateAgent, Declares, BaseInv, BindInv, TypeOK
  <2> QED BY <2>1, <2>2, <2>3, <2>4
<1>9. UidsOK'
  BY <1>5, <1>6, <1>7, <1>8 DEF UidsOK, Declares
<1>10. \A v \in Worker : ServesOK(v, pass'[v], ids')
  BY <1>1, ServesLonger DEF BaseInv
<1>11. \A v \in Worker : ServesOK(v, pass[v], ids)'
  BY <1>10 DEF ServesOK, UnboundOK
<1> QED BY <1>1, <1>3, <1>4, <1>9, <1>11 DEF BaseInv, UnboundOK

LEMMA BaseInit == Init => BaseInv
<1> SUFFICES ASSUME Init PROVE BaseInv
  OBVIOUS
<1>1. \A w \in Worker : pass[w] = Idle
  BY DEF Init
<1>2. /\ record = NoRecord /\ made = {} /\ run.work = {} /\ run.copies = {} /\ ~run.deleting
      /\ \A a \in Agent : ~Declares(a)
  BY DEF Init, NoRun, Absent, Declares
<1>3. BindInv
  BY InitInv
<1> QED BY <1>1, <1>2, <1>3, ServesIdle DEF BaseInv, UidsOK, EmptyOK, HomesOK

LEMMA NextCases ==
  ASSUME Next
  PROVE  \/ Environment
         \/ \E w \in Worker : Step(w) \/ Fail(w)
         \/ \E w \in Worker, a \in Agent \cup {None} : Begins(w, a)
BY DEF Next, Environment, Begins

LEMMA BaseNext == BaseInv /\ [Next]_vars => BaseInv'
<1>1. ASSUME BaseInv, UNCHANGED vars PROVE BaseInv'
  BY <1>1 DEF vars, BaseInv, BindInv, TypeOK, UidsOK, EmptyOK, HomesOK, Declares
<1>2. ASSUME BaseInv, Next PROVE BaseInv'
  BY <1>2, NextCases, EnvironmentBase, StepBase, BeginBase
<1> QED BY <1>1, <1>2

LEMMA Bases == Spec => []BaseInv
BY BaseInit, BaseNext, PTL DEF Spec

-----------------------------------------------------------------------------
(***************************************************************************)
(* One process: the mutex and the work queue.                              *)
(***************************************************************************)
(* lockRunNamespace admits one pass at a time. *)
Mutex == \A v, w \in Worker : v # w /\ pass[v].pc \in Inside => pass[w].pc \notin Inside

(* Under it the record is what the pass read. *)
Reads == \A w \in Worker : pass[w].pc \in Inside => pass[w].b = record

(* No two passes are for one Agent. *)
KeyHeld ==
  \A v, w \in Worker : v # w /\ pass[v].pc # "idle" /\ pass[w].pc # "idle" => pass[v].agent # pass[w].agent

(* An Agent with a pass is the one the pass began for. *)
AgentHeld(p) ==
  p.pc # "idle" /\ p.agent \in Agent =>
    /\ Declares(p.agent) /\ agents[p.agent].uid = p.uid
    /\ p.final => agents[p.agent].phase = "deleting"
    /\ p.pc \in EnsurePc => source[Home[p.agent]] = p.src

LockInv == Mutex /\ Reads /\ KeyHeld /\ \A w \in Worker : AgentHeld(pass[w])

LEMMA LockStep ==
  ASSUME OneProcess, BaseInv, LockInv, NEW w \in Worker, Step(w) \/ Fail(w)
  PROVE  LockInv'
<1>1. BindInv /\ Regular(w)
  BY StepRegular DEF BaseInv
<1>2. Alone(w) /\ (pass'[w] = Idle \/ GoesOn(w))
  BY <1>1 DEF Regular
<1>3. ASSUME NEW v \in Worker, v # w, pass'[w].pc \in Inside
      PROVE  pass[v].pc \notin Inside
  <2>1. CASE pass[w].pc \in Inside
    BY <1>3, <2>1 DEF LockInv, Mutex
  <2>2. CASE pass[w].pc \notin Inside
    BY <1>1, <1>3, <2>2 DEF Regular, Free, OneProcess
  <2> QED BY <2>1, <2>2
<1>4. Mutex'
  <2> SUFFICES ASSUME NEW u \in Worker, NEW v \in Worker, u # v, pass'[u].pc \in Inside, pass'[v].pc \in Inside
               PROVE  FALSE
    BY DEF Mutex
  <2>1. CASE u = w
    BY <1>2, <1>3, <2>1 DEF Alone
  <2>2. CASE v = w
    BY <1>2, <1>3, <2>2 DEF Alone
  <2>3. CASE u # w /\ v # w
    BY <1>2, <2>3 DEF Alone, LockInv, Mutex
  <2> QED BY <2>1, <2>2, <2>3
<1>5. Reads'
  <2> SUFFICES ASSUME NEW v \in Worker, pass'[v].pc \in Inside PROVE pass'[v].b = record'
    BY DEF Reads
  <2>1. CASE v = w
    BY <1>1, <2>1 DEF Regular, LockInv, Reads
  <2>2. CASE v # w
    <3>1. pass'[v] = pass[v] /\ pass[v].b = record
      BY <1>2, <2>2 DEF Alone, LockInv, Reads
    <3>2. record' = record
      BY <1>1, <2>2, <3>1 DEF Regular, LockInv, Mutex
    <3> QED BY <3>1, <3>2
  <2> QED BY <2>1, <2>2
<1>6. KeyHeld'
  <2> SUFFICES ASSUME NEW u \in Worker, NEW v \in Worker, u # v, pass'[u].pc # "idle", pass'[v].pc # "idle"
               PROVE  pass'[u].agent # pass'[v].agent
    BY DEF KeyHeld
  <2>1. /\ pass[u].pc # "idle" /\ pass'[u].agent = pass[u].agent
        /\ pass[v].pc # "idle" /\ pass'[v].agent = pass[v].agent
    BY <1>2, IdlePc DEF Alone, GoesOn
  <2> QED BY <2>1 DEF LockInv, KeyHeld
<1>7. ASSUME NEW v \in Worker PROVE AgentHeld(pass[v])'
  <2> SUFFICES ASSUME pass'[v].pc # "idle", pass'[v].agent \in Agent
               PROVE  /\ Declares(pass[v].agent)' /\ agents'[pass'[v].agent].uid = pass'[v].uid
                      /\ pass'[v].final => agents'[pass'[v].agent].phase = "deleting"
                      /\ pass'[v].pc \in EnsurePc => source'[Home[pass'[v].agent]] = pass'[v].src
    BY DEF AgentHeld, Declares
  <2>1. /\ pass[v].pc # "idle" /\ pass'[v].agent = pass[v].agent /\ pass'[v].uid = pass[v].uid
        /\ pass'[v].final = pass[v].final /\ pass'[v].src = pass[v].src
        /\ pass'[v].pc \in EnsurePc => pass[v].pc \in EnsurePc
    BY <1>1, <1>2, IdlePc DEF Alone, GoesOn, Regular
  <2>2. source' = source
    BY <1>1, RunShape
  <2>3. agents'[pass[v].agent] = agents[pass[v].agent]
    <3>1. CASE FinalRelease(w)
      <4>1. pass[w].pc # "idle" /\ pass'[w] = Idle
        BY <1>1, <3>1, EndShape DEF FinalRelease
      <4>2. v # w
        BY <4>1, IdlePc
      <4>3. pass[v].agent # pass[w].agent
        BY <2>1, <4>1, <4>2 DEF LockInv, KeyHeld
      <4> QED BY <1>1, <2>1, <3>1, <4>3, ReleaseShape
    <3>2. CASE agents' = agents
      BY <3>2
    <3> QED BY <1>1, <3>1, <3>2, RunShape
  <2>4. AgentHeld(pass[v])
    BY DEF LockInv
  <2> QED BY <2>1, <2>2, <2>3, <2>4 DEF AgentHeld, Declares
<1> QED BY <1>4, <1>5, <1>6, <1>7 DEF LockInv

LEMMA LockBegin ==
  ASSUME OneProcess, BaseInv, LockInv, NEW w \in Worker, NEW a, Begins(w, a)
  PROVE  LockInv'
<1>1. /\ BindInv /\ source' = source /\ agents' = agents /\ record' = record
      /\ \A b \in Agent : Declares(b)' = Declares(b)
  BY BeginUnchanged DEF BaseInv, Declares
<1>2. /\ Alone(w) /\ Takes(w, pass'[w].agent)
      /\ pass'[w].pc \in Inside => pass'[w].b = record /\ Free(w)
      /\ AgentHeld(pass[w])'
  <2>1. CASE a \in Agent /\ EnsureBegin(w, a)
    BY <1>1, <2>1, BeginShape DEF AgentHeld, Declares, Inside
  <2>2. CASE a \in Agent /\ FinalClean(w, a)
    BY <1>1, <2>2, BeginShape DEF AgentHeld, Declares, Inside, EnsurePc
  <2>3. CASE NamespaceBegin(w)
    BY <1>1, <2>3, BeginShape, ConstantsAssumption DEF AgentHeld
  <2> QED BY <2>1, <2>2, <2>3 DEF Begins
<1>3. Mutex'
  <2> SUFFICES ASSUME NEW u \in Worker, NEW v \in Worker, u # v, pass'[u].pc \in Inside, pass'[v].pc \in Inside
               PROVE  FALSE
    BY DEF Mutex
  <2> QED BY <1>2 DEF Alone, Free, OneProcess, LockInv, Mutex
<1>4. Reads'
  BY <1>1, <1>2 DEF Alone, LockInv, Reads
<1>5. KeyHeld'
  <2> SUFFICES ASSUME NEW u \in Worker, NEW v \in Worker, u # v, pass'[u].pc # "idle", pass'[v].pc # "idle"
               PROVE  pass'[u].agent # pass'[v].agent
    BY DEF KeyHeld
  <2> QED BY <1>2 DEF Alone, Takes, OneProcess, LockInv, KeyHeld
<1>6. ASSUME NEW v \in Worker PROVE AgentHeld(pass[v])'
  <2>1. CASE v = w
    BY <1>2, <2>1
  <2>2. CASE v # w
    <3>1. pass'[v] = pass[v] /\ AgentHeld(pass[v])
      BY <1>2, <2>2 DEF Alone, LockInv
    <3> QED BY <1>1, <3>1 DEF AgentHeld
  <2> QED BY <2>1, <2>2
<1> QED BY <1>3, <1>4, <1>5, <1>6 DEF LockInv

LEMMA LockEnvironment ==
  ASSUME BaseInv, LockInv, Environment
  PROVE  LockInv'
<1>1. record' = record /\ pass' = pass
  BY EnvironmentShape
<1>2. ASSUME NEW v \in Worker PROVE AgentHeld(pass[v])'
  <2> SUFFICES ASSUME pass[v].pc # "idle", pass[v].agent \in Agent
               PROVE  /\ Declares(pass[v].agent)' /\ agents'[pass[v].agent].uid = pass[v].uid
                      /\ pass[v].final => agents'[pass[v].agent].phase = "deleting"
                      /\ pass[v].pc \in EnsurePc => source'[Home[pass[v].agent]] = pass[v].src
    BY <1>1 DEF AgentHeld, Declares
  <2>1. AgentHeld(pass[v]) /\ Declares(pass[v].agent)
    BY DEF LockInv, AgentHeld
  <2>2. source'[Home[pass[v].agent]] = source[Home[pass[v].agent]]
    BY <2>1, SourcesChange
  <2>3. \/ agents'[pass[v].agent] = agents[pass[v].agent]
        \/ /\ agents[pass[v].agent].phase = "live" /\ agents'[pass[v].agent].phase = "deleting"
           /\ agents'[pass[v].agent].uid = agents[pass[v].agent].uid
    BY <2>1, AgentsChange
  <2> QED BY <1>1, <2>1, <2>2, <2>3 DEF AgentHeld, Declares
<1> QED BY <1>1, <1>2 DEF LockInv, Mutex, Reads, KeyHeld

LEMMA LockInit == Init => LockInv
BY IdlePc DEF Init, LockInv, Mutex, Reads, KeyHeld, AgentHeld

(* Which step a pass has just taken, from where it stands. *)
Came(w) ==
  /\ pass'[w].pc = "made" => CreateRun(w)
  /\ pass'[w].pc = "mirrored" => Mirror(w)
  /\ pass'[w].pc = "drop" => Discard(w)
  /\ pass'[w].pc = "rotate" => DiscardCrashed(w)
  /\ pass'[w].pc = "granted" => Bind(w) \/ UseBound(w)
  /\ pass'[w].pc = "copied" => PlaceCopies(w)
  /\ pass'[w].pc = "count" => List(w)
  /\ pass'[w].pc = "give" => List(w) \/ Count(w)
  /\ pass'[w].pc \in {"cleaned", "released"} => pass[w].final \/ pass[w].pc = "cleaned"

LEMMA DoneCame ==
  ASSUME NEW w \in Worker, Done(w)
  PROVE  Came(w)
BY IdlePc DEF Done, Released, Came

LEMMA StepCame ==
  ASSUME BindInv, NEW w \in Worker, Step(w) \/ Fail(w)
  PROVE  Came(w)
<1>1. CASE EnsureLock(w) \/ NewRecord(w)
  <2>1. pass'[w].pc = "decide"
    BY <1>1, EnsureLockShape, NewRecordShape DEF To
  <2> QED BY <2>1 DEF Came
<1>2. CASE Discard(w) \/ Mirror(w) \/ DiscardCrashed(w) \/ PlaceCopies(w)
  BY <1>2, CounterShape DEF To, Came
<1>3. CASE Retire(w) \/ RetireLast(w) \/ Give(w)
  BY <1>3, SwapShape DEF To, Came
<1>4. CASE CreateRun(w)
  BY <1>4, CreateRunShape DEF To, Came
<1>5. CASE Bind(w) \/ UseBound(w)
  BY <1>5, GrantShape DEF To, Came
<1>6. CASE HandleNothing(w) \/ HandleGone(w) \/ HandleGoing(w) \/ HandleDelete(w) \/ Keep(w)
  BY <1>6, HandledShape, DoneCame
<1>7. CASE List(w) \/ Count(w)
  <2>1. CASE Done(w)
    BY <2>1, DoneCame
  <2>2. CASE \E pc \in {"keep", "give", "retire", "count"} : To(w, pc, pass[w].b, pass[w].ns)
    <3>1. Count(w) => pass'[w].pc # "count"
      <4>1. ASSUME Count(w), pass'[w].pc = "count" PROVE FALSE
        <5>1. pass'[w] = Needed(w) \/ pass'[w] = Unneeded(w)
          BY <4>1, PassFields DEF Count
        <5>2. pass[w] \in Pass
          BY PassFields
        <5>3. Unneeded(w).pc # "count"
          BY <5>2 DEF Unneeded, Pass
        <5>4. After(w).pc # "count"
          BY <5>2, IdlePc DEF After, Pass
        <5>5. Needed(w).pc # "count"
          BY <5>2, <5>4 DEF Needed, Pass
        <5> QED BY <4>1, <5>1, <5>3, <5>5
      <4> QED BY <4>1
    <3> QED BY <1>7, <2>2, <3>1 DEF To, Came
  <2> QED BY <1>7, <2>1, <2>2, AskShape
<1>8. CASE FinalLock(w)
  BY <1>8, FinalLockShape DEF To, Came
<1>9. CASE RetireConflict(w)
  <2>1. CASE Done(w)
    BY <2>1, DoneCame
  <2>2. CASE To(w, "handle", record, pass[w].ns)
    BY <2>2 DEF To, Came
  <2> QED BY <1>9, <2>1, <2>2, RetireConflictShape
<1>10. CASE Drop(w) \/ Rotate(w) \/ Rebuild(w) \/ PlaceWorkload(w) \/ FinalRelease(w) \/ Wait(w) \/ Fail(w)
  BY <1>10, EndShape, IdlePc DEF Came
<1> QED BY <1>1, <1>2, <1>3, <1>4, <1>5, <1>6, <1>7, <1>8, <1>9, <1>10
        DEF Step, Ensures, Handler, Finalizes

-----------------------------------------------------------------------------
(***************************************************************************)
(* Copies of Secrets.                                                      *)
(***************************************************************************)
(* A finalizer's pass has removed the Agent's copies, and none comes back. *)
CleanedOK(p) ==
  /\ p.pc # "idle" /\ p.final => run.deleting \/ p.uid \notin run.copies
  /\ p.pc \in {"cleaned", "released"} => p.final

CopiesInv == CopiesCollected /\ \A w \in Worker : CleanedOK(pass[w])

LEMMA CopiesStep ==
  ASSUME BaseInv, LockInv, CopiesInv, NEW w \in Worker, Step(w) \/ Fail(w)
  PROVE  CopiesInv'
<1>1. BindInv /\ Regular(w) /\ Came(w) /\ Alone(w)
  BY StepRegular, StepCame DEF BaseInv, Regular
<1>2. ASSUME PlaceCopies(w)
      PROVE  /\ pass[w].pc = "granted" /\ pass[w].agent \in Agent /\ ~pass[w].final
             /\ Declares(pass[w].agent) /\ agents[pass[w].agent].uid = pass[w].uid
             /\ agents' = agents
  BY <1>2 DEF PlaceCopies, BaseInv, ServesOK, EnsurePc, LockInv, AgentHeld, world
<1>3. run'.copies \subseteq run.copies \/ (PlaceCopies(w) /\ run'.copies = run.copies \cup {pass[w].uid})
  BY <1>1, RunShape DEF Placed, Made
<1>4. run.deleting => run'.deleting \/ run'.copies = {}
  BY <1>1, RunShape DEF Placed, Made
<1>5. CopiesCollected'
  <2> SUFFICES ASSUME ~run'.deleting, NEW u \in run'.copies PROVE Declared(u)'
    BY DEF CopiesCollected
  <2>1. CASE u \in run.copies
    <3>1. PICK a \in Agent : Declares(a) /\ agents[a].uid = u
      BY <1>4, <2>1 DEF CopiesInv, CopiesCollected, Declared, Declares
    <3>2. CASE agents'[a] = agents[a]
      BY <3>1, <3>2 DEF Declared, Declares
    <3>3. CASE FinalRelease(w) /\ a = pass[w].agent
      <4>1. pass[w].pc = "released"
        BY <3>3 DEF FinalRelease
      <4>2. agents[a].uid = pass[w].uid /\ pass[w].final
        BY <3>3, <4>1 DEF LockInv, AgentHeld, CopiesInv, CleanedOK
      <4> QED BY <1>4, <2>1, <3>1, <4>1, <4>2 DEF CopiesInv, CleanedOK
    <3> QED BY <1>1, <3>2, <3>3, RunShape, ReleaseShape
  <2>2. CASE PlaceCopies(w) /\ u = pass[w].uid
    BY <1>2, <2>2 DEF Declared, Declares
  <2> QED BY <1>3, <2>1, <2>2
<1>6. ASSUME NEW v \in Worker PROVE CleanedOK(pass[v])'
  <2>1. pass'[v].pc \in {"cleaned", "released"} => pass'[v].final
    <3>1. CASE v # w
      BY <1>1, <3>1 DEF Alone, CopiesInv, CleanedOK
    <3>2. CASE v = w
      BY <1>1, <3>2, IdlePc DEF Came, Regular, GoesOn, CopiesInv, CleanedOK
    <3> QED BY <3>1, <3>2
  <2>2. ASSUME pass'[v].pc # "idle", pass'[v].final, ~run'.deleting PROVE pass'[v].uid \notin run'.copies
    <3>1. pass[v].pc # "idle" /\ pass[v].final /\ pass'[v].uid = pass[v].uid
      BY <1>1, <2>2, IdlePc DEF Alone, Regular, GoesOn
    <3>2. pass[v].uid \notin run.copies \/ run'.copies = {}
      BY <1>4, <2>2, <3>1 DEF CopiesInv, CleanedOK
    <3>3. CASE PlaceCopies(w)
      <4>1. v # w /\ pass[v].agent # pass[w].agent
        BY <1>2, <3>1, <3>3 DEF LockInv, KeyHeld
      <4>2. pass[v].agent \in Agent /\ Declares(pass[v].agent) /\ agents[pass[v].agent].uid = pass[v].uid
        BY <3>1 DEF BaseInv, ServesOK, LockInv, AgentHeld
      <4>3. pass[v].uid # pass[w].uid
        BY <1>2, <3>3, <4>1, <4>2 DEF BaseInv, UidsOK
      <4> QED BY <1>3, <3>1, <3>2, <4>3
    <3>4. CASE run'.copies \subseteq run.copies
      BY <3>1, <3>2, <3>4
    <3> QED BY <1>3, <3>3, <3>4
  <2> QED BY <2>1, <2>2 DEF CleanedOK
<1> QED BY <1>5, <1>6 DEF CopiesInv

LEMMA CopiesBegin ==
  ASSUME BaseInv, CopiesInv, NEW w \in Worker, NEW a, Begins(w, a)
  PROVE  CopiesInv'
<1>1. BindInv /\ agents' = agents
  BY BeginUnchanged DEF BaseInv
<1>2. run'.deleting = run.deleting /\ run'.copies \subseteq run.copies
  BY <1>1, BeginUnchanged, CleanShape DEF Begins
<1>3. CopiesCollected'
  BY <1>1, <1>2 DEF CopiesInv, CopiesCollected, Declared
<1>4. Alone(w) /\ CleanedOK(pass[w])'
  <2>1. CASE a \in Agent /\ EnsureBegin(w, a)
    BY <1>1, <2>1, BeginShape DEF CleanedOK
  <2>2. CASE a \in Agent /\ FinalClean(w, a)
    <3>1. run'.deleting \/ agents[a].uid \notin run'.copies
      BY <1>1, <1>2, <2>2, CleanShape DEF BaseInv, EmptyOK
    <3> QED BY <1>1, <2>2, <3>1, BeginShape DEF CleanedOK
  <2>3. CASE NamespaceBegin(w)
    BY <1>1, <2>3, BeginShape DEF CleanedOK
  <2> QED BY <2>1, <2>2, <2>3 DEF Begins
<1>5. ASSUME NEW v \in Worker PROVE CleanedOK(pass[v])'
  BY <1>2, <1>4 DEF CleanedOK, CopiesInv, Alone
<1> QED BY <1>3, <1>5 DEF CopiesInv

LEMMA CopiesEnvironment ==
  ASSUME BaseInv, CopiesInv, Environment
  PROVE  CopiesInv'
<1>1. pass' = pass
  BY EnvironmentShape
<1>2. /\ run'.copies \subseteq run.copies
      /\ run.deleting => run'.deleting \/ run'.copies = {}
  BY RunChanges DEF NoRun, BaseInv, EmptyOK
<1>3. ASSUME NEW u, Declared(u) PROVE Declared(u)'
  <2>1. PICK a \in Agent : Declares(a) /\ agents[a].uid = u
    BY <1>3 DEF Declared, Declares
  <2> QED BY <2>1, AgentsChange DEF Declared, Declares
<1>4. CopiesCollected'
  BY <1>2, <1>3 DEF CopiesInv, CopiesCollected
<1> QED BY <1>1, <1>2, <1>4 DEF CopiesInv, CleanedOK

-----------------------------------------------------------------------------
(***************************************************************************)
(* The operator's own namespace.                                           *)
(***************************************************************************)
Own == run.uid # None /\ \E m \in made : m.uid = run.uid

(* Between its create and its bind, a namespace is known to the pass that  *)
(* made it; when the nonce is about to go, so is the namespace.            *)
KnownTo(p) ==
  /\ p.pc \in {"made", "mirrored"} /\ Own => run.uid = p.ns
  /\ p.pc \in {"rotate", "drop"} /\ Own => run.deleting

KnownInv == OwnNamespaceKnown /\ \A w \in Worker : KnownTo(pass[w])

(* Under the mutex: what the record says of a namespace of the operator's. *)
LEMMA Knowledge ==
  ASSUME BaseInv, LockInv, KnownInv, Own, ~run.deleting
  PROVE  /\ record.state \in Held => record.uid = run.uid
         /\ record.state = "Creating" => record.nonce = run.nonce
         /\ record.state # "none"
<1>1. record.state \in {"none", "Creating"} => record.uid = None
  BY DEF BaseInv, UnboundOK
<1>2. (record.state = "Creating" /\ record.nonce = run.nonce) \/ record.uid = run.uid
  BY DEF KnownInv, OwnNamespaceKnown, Own
<1> QED BY <1>1, <1>2 DEF Own, Held

(* What each write of the record makes of it. *)
LEMMA RecordKnown ==
  ASSUME BaseInv, LockInv, KnownInv, NEW w \in Worker, Step(w) \/ Fail(w), record' # record,
         Own, ~run.deleting
  PROVE  record'.uid = run.uid
<1>1. BindInv /\ pass[w].pc \in Inside /\ pass[w].b = record /\ record \in Record
  BY StepRegular DEF BaseInv, BindInv, TypeOK, Regular, LockInv, Reads
<1>2. /\ record.state \in Held => record.uid = run.uid
      /\ record.state # "none"
  BY Knowledge
<1>3. CASE NewRecord(w) \/ Rebuild(w)
  BY <1>3 DEF NewRecord, Rebuild, Own
<1>4. CASE Drop(w) \/ Rotate(w)
  BY <1>4 DEF Drop, Rotate, KnownInv, KnownTo
<1>5. ASSUME NEW s \in State, record' = [record EXCEPT !.state = s], record.state \in Held
      PROVE  record'.uid = run.uid
  BY <1>1, <1>2, <1>5 DEF Record
<1>6. PassOK(pass[w], made)
  BY DEF BaseInv, BindInv
<1>7. CASE Retire(w) \/ RetireLast(w)
  <2>1. record' = [record EXCEPT !.state = "Terminating"]
    BY <1>1, <1>7 DEF Retire, RetireLast, Swap
  <2>2. record.state \in Held
    BY <1>1, <1>6, <1>7 DEF Retire, RetireLast, PassOK, Held
  <2> QED BY <1>5, <2>1, <2>2 DEF State
<1>8. CASE Keep(w)
  <2>1. record' = [record EXCEPT !.state = "Bound"]
    BY <1>1, <1>8 DEF Keep, Swap
  <2>2. record.state \in Held
    BY <1>1, <1>6, <1>8 DEF Keep, PassOK, Held
  <2> QED BY <1>5, <2>1, <2>2 DEF State
<1>9. CASE Give(w)
  <2>1. record' = [record EXCEPT !.state = "Deleting"]
    BY <1>1, <1>9 DEF Give, Swap
  <2>2. record.state \in Held
    BY <1>1, <1>6, <1>9 DEF Give, PassOK, Held
  <2> QED BY <1>5, <2>1, <2>2 DEF State
<1>10. CASE Bind(w)
  <2>1. record' = [record EXCEPT !.state = "Bound", !.uid = pass[w].ns] /\ pass[w].pc = "mirrored"
    BY <1>1, <1>10 DEF Bind, Swap
  <2>2. record'.uid = pass[w].ns
    BY <1>1, <2>1 DEF Record
  <2> QED BY <2>1, <2>2 DEF KnownInv, KnownTo
<1>11. CASE HandleGone(w)
  <2>1. record.state \in Held /\ run.uid # record.uid
    BY <1>1, <1>11 DEF HandleGone, Handles, Held
  <2> QED BY <1>2, <2>1
<1>12. CASE EnsureLock(w) \/ Discard(w) \/ CreateRun(w) \/ Mirror(w) \/ DiscardCrashed(w) \/ UseBound(w)
            \/ PlaceCopies(w) \/ PlaceWorkload(w)
  BY <1>12 DEF EnsureLock, Discard, CreateRun, Mirror, DiscardCrashed, UseBound, PlaceCopies, PlaceWorkload
<1>13. CASE HandleNothing(w) \/ HandleGoing(w) \/ List(w) \/ Count(w) \/ HandleDelete(w)
  BY <1>13 DEF HandleNothing, HandleGoing, List, Count, HandleDelete
<1>14. CASE FinalLock(w) \/ RetireConflict(w) \/ FinalRelease(w) \/ Wait(w) \/ Fail(w)
  BY <1>14 DEF FinalLock, RetireConflict, FinalRelease, Wait, Fail
<1> QED BY <1>3, <1>4, <1>7, <1>8, <1>9, <1>10, <1>11, <1>12, <1>13, <1>14
        DEF Step, Ensures, Handler, Finalizes

LEMMA KnownStep ==
  ASSUME BaseInv, LockInv, KnownInv, NEW w \in Worker, Step(w) \/ Fail(w)
  PROVE  KnownInv'
<1>1. BindInv /\ Regular(w) /\ Came(w) /\ Alone(w)
  BY StepRegular, StepCame DEF BaseInv, Regular
<1>2. CASE Made(w)
  <2>1. /\ CreateRun(w) /\ run'.uid = ids' /\ run'.nonce = pass[w].b.nonce
        /\ pass[w].pc = "decide" /\ pass'[w].pc = "made" /\ pass'[w].ns = ids'
    BY <1>1, <1>2, CreateRunShape DEF Made, To
  <2>2. pass[w].b = record /\ record' = record /\ record.state = "Creating"
    BY <2>1 DEF CreateRun, LockInv, Reads, Inside
  <2>3. OwnNamespaceKnown'
    BY <2>1, <2>2 DEF OwnNamespaceKnown
  <2>4. ASSUME NEW v \in Worker PROVE KnownTo(pass[v])'
    <3>1. CASE v = w
      BY <2>1, <3>1 DEF KnownTo
    <3>2. CASE v # w
      <4>1. pass[v].pc \notin Inside /\ pass'[v] = pass[v]
        BY <1>1, <2>1, <3>2 DEF LockInv, Mutex, Inside, Alone
      <4> QED BY <4>1 DEF KnownTo, Inside
    <3> QED BY <3>1, <3>2
  <2> QED BY <2>3, <2>4 DEF KnownInv
<1>3. CASE Placed(w)
  <2>1. /\ run'.uid = run.uid /\ run'.nonce = run.nonce /\ (run.deleting => run'.deleting) /\ made' = made
        /\ Own' = Own
    BY <1>3 DEF Placed, Own
  <2>2. OwnNamespaceKnown'
    BY <2>1, RecordKnown DEF KnownInv, OwnNamespaceKnown, Own
  <2>3. ASSUME NEW v \in Worker PROVE KnownTo(pass[v])'
    <3>1. CASE v # w
      BY <1>1, <2>1, <3>1 DEF Alone, KnownTo, KnownInv
    <3>2. CASE v = w /\ pass'[w].pc = "mirrored"
      <4>1. Mirror(w)
        BY <1>1, <3>2 DEF Came
      <4>2. pass[w].pc = "made" /\ pass'[w].ns = pass[w].ns
        BY <1>1, <4>1, CounterShape DEF Mirror, To
      <4> QED BY <2>1, <3>2, <4>2 DEF KnownTo, KnownInv
    <3>3. CASE v = w /\ pass'[w].pc = "made"
      <4>1. CreateRun(w)
        BY <1>1, <3>3 DEF Came
      <4>2. pass'[w].ns = ids' /\ run'.uid = ids'
        BY <1>1, <4>1, CreateRunShape DEF CreateRun, To, NoRun
      <4> QED BY <3>3, <4>2 DEF KnownTo
    <3>4. CASE v = w /\ pass'[w].pc = "drop" /\ Own
      <4>1. Discard(w) /\ pass[w].pc = "decide" /\ pass[w].b.state = "Creating"
        BY <1>1, <3>4 DEF Came, Discard, Replaced, Mine
      <4>2. pass[w].b = record
        BY <4>1 DEF LockInv, Reads, Inside
      <4>3. run'.deleting
        <5>1. CASE run.deleting
          BY <2>1, <5>1
        <5>2. CASE ~run.deleting
          <6>1. run.nonce = pass[w].b.nonce /\ run.uid # None
            BY <3>4, <4>1, <4>2, <5>2, Knowledge DEF Own
          <6>2. run' = [run EXCEPT !.deleting = TRUE] /\ run \in Run
            BY <4>1, <6>1 DEF Discard, Going, BindInv, TypeOK, BaseInv
          <6> QED BY <6>2 DEF Run
        <5> QED BY <5>1, <5>2
      <4> QED BY <3>4, <4>3 DEF KnownTo
    <3>5. CASE v = w /\ pass'[w].pc = "rotate"
      <4>1. DiscardCrashed(w)
        BY <1>1, <3>5 DEF Came
      <4>2. run' = [run EXCEPT !.deleting = TRUE] /\ run \in Run
        BY <4>1 DEF DiscardCrashed, Going, BindInv, TypeOK, BaseInv
      <4>3. run'.deleting
        BY <4>2 DEF Run
      <4> QED BY <3>5, <4>3 DEF KnownTo
    <3> QED BY <2>1, <3>1, <3>2, <3>3, <3>4, <3>5 DEF KnownTo
  <2> QED BY <2>2, <2>3 DEF KnownInv
<1> QED BY <1>1, <1>2, <1>3, RunShape

LEMMA KnownBegin ==
  ASSUME BaseInv, KnownInv, NEW w \in Worker, NEW a, Begins(w, a)
  PROVE  KnownInv'
<1>1. /\ BindInv /\ record' = record /\ made' = made
      /\ run'.uid = run.uid /\ run'.nonce = run.nonce /\ run'.deleting = run.deleting
  BY BeginUnchanged, CleanShape DEF BaseInv, Begins
<1>2. Alone(w) /\ pass'[w].pc \notin {"made", "mirrored", "rotate", "drop"}
  BY <1>1, BeginShape DEF Begins
<1>3. OwnNamespaceKnown' /\ Own' = Own
  BY <1>1 DEF KnownInv, OwnNamespaceKnown, Own
<1>4. ASSUME NEW v \in Worker PROVE KnownTo(pass[v])'
  BY <1>1, <1>2, <1>3 DEF KnownTo, KnownInv, Alone
<1> QED BY <1>3, <1>4 DEF KnownInv

LEMMA KnownEnvironment ==
  ASSUME BaseInv, KnownInv, Environment
  PROVE  KnownInv'
<1>1. record' = record /\ pass' = pass /\ made' = made /\ ids \in Nat
  BY EnvironmentShape
<1>2. \A m \in made : m.uid \in Nat /\ m.uid <= ids
  BY DEF BaseInv, BindInv, TypeOK, UidsOK
<1>3. CASE run' = run
  BY <1>1, <1>3 DEF KnownInv, OwnNamespaceKnown, KnownTo, Own
<1>4. CASE run'.uid = ids + 1
  <2>1. ~Own' /\ \A m \in made' : m.uid # run'.uid
    BY <1>1, <1>2, <1>4 DEF Own
  <2> QED BY <2>1 DEF KnownInv, OwnNamespaceKnown, KnownTo
<1>5. CASE run'.deleting /\ run'.uid = run.uid
  BY <1>1, <1>5 DEF KnownInv, OwnNamespaceKnown, KnownTo, Own
<1>6. CASE run' = NoRun
  <2>1. run'.uid = None
    BY <1>6 DEF NoRun
  <2> QED BY <2>1 DEF KnownInv, OwnNamespaceKnown, KnownTo, Own
<1> QED BY <1>3, <1>4, <1>5, <1>6, RunChanges

-----------------------------------------------------------------------------
(***************************************************************************)
(* The namespaces live Agents use.                                         *)
(***************************************************************************)
Uses(a) ==
  \/ agents[a].uid \in run.work \cup run.copies
  \/ \E w \in Worker : pass[w].pc \in {"granted", "copied"} /\ pass[w].uid = agents[a].uid

InUse(a) == agents[a].phase = "live" /\ Uses(a)

(* The record holds the namespace for the source a lives in, as it is now. *)
Secure(a) ==
  /\ run.uid # None /\ ~run.deleting /\ record.uid = run.uid
  /\ record.state \in {"Bound", "Terminating"}
  /\ record.src = Home[a] /\ record.srcUID = source[Home[a]]

(* The namespace a pass has made is there until it is bound. *)
MakingOK(p) ==
  p.pc \in {"made", "mirrored"} => run.uid = p.ns /\ run.uid # None /\ ~run.deleting

(* "Not needed", asked of a Terminating record, stays true. *)
AnsweredOK(p) ==
  p.pc \in {"count", "give"} /\ p.b.state = "Terminating" => \A a \in Agent : ~InUse(a)

UseInv ==
  /\ \A a \in Agent : InUse(a) => Secure(a)
  /\ \A w \in Worker : MakingOK(pass[w]) /\ AnsweredOK(pass[w])

(* Only a grant makes an Agent a user. *)
LEMMA UsersStep ==
  ASSUME BaseInv, LockInv, NEW w \in Worker, Step(w) \/ Fail(w), NEW a \in Agent, InUse(a)'
  PROVE  InUse(a) \/ ((Bind(w) \/ UseBound(w)) /\ a = pass[w].agent)
<1>1. BindInv /\ Regular(w) /\ Came(w) /\ Alone(w)
  BY StepRegular, StepCame DEF BaseInv, Regular
<1>2. agents'[a] = agents[a] /\ agents[a].phase = "live" /\ Declares(a)
  BY <1>1, AgentsShrink DEF InUse, Declares
<1>3. ASSUME agents[a].uid \in run'.work \cup run'.copies
      PROVE  InUse(a)
  <2>1. \/ agents[a].uid \in run.work \cup run.copies
        \/ agents[a].uid = pass[w].uid /\ (PlaceWorkload(w) \/ PlaceCopies(w))
    BY <1>1, <1>3, RunShape DEF Placed, Made
  <2>2. PlaceWorkload(w) \/ PlaceCopies(w) => pass[w].pc \in {"granted", "copied"}
    BY DEF PlaceWorkload, PlaceCopies
  <2> QED BY <1>2, <2>1, <2>2 DEF InUse, Uses
<1>4. ASSUME NEW v \in Worker, pass'[v].pc \in {"granted", "copied"}, pass'[v].uid = agents[a].uid
      PROVE  InUse(a) \/ ((Bind(w) \/ UseBound(w)) /\ a = pass[w].agent)
  <2>1. CASE v # w
    BY <1>1, <1>2, <1>4, <2>1 DEF Alone, InUse, Uses
  <2>2. CASE v = w /\ PlaceCopies(w)
    <3>1. pass[w].pc = "granted" /\ pass'[w].uid = pass[w].uid
      BY <1>1, <2>2, CounterShape DEF PlaceCopies, To, GoesOn
    <3> QED BY <1>2, <1>4, <2>2, <3>1 DEF InUse, Uses
  <2>3. CASE v = w /\ (Bind(w) \/ UseBound(w))
    <3>1. pass[w].pc \in EnsurePc /\ pass[w].pc # "idle" /\ pass'[w].uid = pass[w].uid
      BY <1>1, <2>3, GrantShape DEF To, GoesOn, EnsurePc
    <3>2. pass[w].agent \in Agent /\ Declares(pass[w].agent) /\ agents[pass[w].agent].uid = pass[w].uid
      BY <3>1 DEF BaseInv, ServesOK, LockInv, AgentHeld
    <3>3. a = pass[w].agent
      BY <1>2, <1>4, <2>3, <3>1, <3>2 DEF BaseInv, UidsOK
    <3> QED BY <2>3, <3>3
  <2> QED BY <1>1, <1>4, <2>1, <2>2, <2>3 DEF Came
<1> QED BY <1>2, <1>3, <1>4 DEF InUse, Uses

(* The steps that begin a deletion: the record is then in none of the      *)
(* states in which it holds a namespace for anyone.                        *)
LEMMA DeletionStep ==
  ASSUME BaseInv, LockInv, NEW w \in Worker, Step(w) \/ Fail(w), run'.deleting, ~run.deleting
  PROVE  pass[w].pc \in Inside /\ record.state \in {"Creating", "Deleting"}
<1>1. Discard(w) \/ DiscardCrashed(w) \/ HandleDelete(w)
  BY RunShape DEF Placed, Made, BaseInv
<1>2. pass[w].pc \in {"decide", "handle", "delete"}
  BY <1>1 DEF Discard, Replaced, DiscardCrashed, Current, Mine, HandleDelete, Handles
<1>3. pass[w].b = record /\ pass[w].pc \in Inside
  BY <1>2 DEF LockInv, Reads, Inside
<1>4. pass[w].b.state \in {"Creating", "Deleting"}
  BY <1>1 DEF Discard, DiscardCrashed, HandleDelete, BaseInv, ServesOK
<1> QED BY <1>3, <1>4

LEMMA SecureStep ==
  ASSUME BaseInv, LockInv, UseInv, NEW w \in Worker, Step(w) \/ Fail(w), NEW a \in Agent, InUse(a)
  PROVE  Secure(a)'
<1>1. BindInv /\ Regular(w) /\ Secure(a) /\ record \in Record
  BY StepRegular DEF BaseInv, UseInv, BindInv, TypeOK
<1>2. Placed(w) /\ source' = source
  BY <1>1, RunShape DEF Made, Secure
<1>3. run'.uid = run.uid /\ ~run'.deleting
  BY <1>1, <1>2, DeletionStep DEF Placed, Secure
<1>4. CASE record' = record
  BY <1>1, <1>2, <1>3, <1>4 DEF Secure
<1>5. ASSUME record' # record
      PROVE  /\ record'.uid = record.uid /\ record'.src = record.src /\ record'.srcUID = record.srcUID
             /\ record'.state \in {"Bound", "Terminating"}
  <2>1. pass[w].pc \in Inside /\ pass[w].b = record
    BY <1>1, <1>5 DEF Regular, LockInv, Reads
  <2>2. ASSUME NEW s \in {"Bound", "Terminating"}, record' = [record EXCEPT !.state = s]
        PROVE  /\ record'.uid = record.uid /\ record'.src = record.src /\ record'.srcUID = record.srcUID
               /\ record'.state \in {"Bound", "Terminating"}
    BY <1>1, <2>2 DEF Record
  <2>3. CASE NewRecord(w) \/ Rebuild(w)
    BY <1>1, <2>3 DEF NewRecord, Rebuild, Secure
  <2>4. CASE Drop(w) \/ Rotate(w) \/ Bind(w)
    <3>1. pass[w].pc \in Building
      BY <2>4 DEF Drop, Rotate, Bind, Building
    <3>2. record.state = "Creating"
      BY <2>1, <3>1 DEF BaseInv, ServesOK
    <3> QED BY <1>1, <3>2 DEF Secure
  <2>5. CASE Retire(w) \/ RetireLast(w)
    <3>1. record' = [record EXCEPT !.state = "Terminating"]
      BY <2>1, <2>5 DEF Retire, RetireLast, Swap
    <3> QED BY <2>2, <3>1
  <2>6. CASE Keep(w)
    <3>1. record' = [record EXCEPT !.state = "Bound"]
      BY <2>1, <2>6 DEF Keep, Swap
    <3> QED BY <2>2, <3>1
  <2>7. CASE Give(w)
    <3>1. pass[w].pc = "give" /\ PassOK(pass[w], made)
      BY <2>7 DEF Give, BaseInv, BindInv
    <3>2. pass[w].b.state = "Terminating"
      BY <3>1 DEF PassOK
    <3> QED BY <3>1, <3>2 DEF UseInv, AnsweredOK
  <2>8. CASE HandleGone(w)
    BY <1>1, <2>1, <2>8 DEF HandleGone, Secure
  <2>9. CASE EnsureLock(w) \/ Discard(w) \/ CreateRun(w) \/ Mirror(w) \/ DiscardCrashed(w) \/ UseBound(w)
              \/ PlaceCopies(w) \/ PlaceWorkload(w)
    BY <1>5, <2>9 DEF EnsureLock, Discard, CreateRun, Mirror, DiscardCrashed, UseBound, PlaceCopies,
                      PlaceWorkload
  <2>10. CASE HandleNothing(w) \/ HandleGoing(w) \/ List(w) \/ Count(w) \/ HandleDelete(w)
    BY <1>5, <2>10 DEF HandleNothing, HandleGoing, List, Count, HandleDelete
  <2>11. CASE FinalLock(w) \/ RetireConflict(w) \/ FinalRelease(w) \/ Wait(w) \/ Fail(w)
    BY <1>5, <2>11 DEF FinalLock, RetireConflict, FinalRelease, Wait, Fail
  <2> QED BY <2>3, <2>4, <2>5, <2>6, <2>7, <2>8, <2>9, <2>10, <2>11 DEF Step, Ensures, Handler, Finalizes
<1> QED BY <1>1, <1>2, <1>3, <1>4, <1>5 DEF Secure

(* What a pass is granted is held for the source its Agent lives in. *)
LEMMA GrantSecure ==
  ASSUME BaseInv, LockInv, UseInv, NEW w \in Worker, Step(w), Bind(w) \/ UseBound(w)
  PROVE  Secure(pass[w].agent)'
<1>1. /\ BindInv /\ pass[w].pc \in {"mirrored", "decide"} /\ record \in Record
      /\ PassOK(pass[w], made)
  BY GrantShape DEF BaseInv, BindInv, TypeOK
<1>2. /\ pass[w].pc \in EnsurePc /\ pass[w].pc # "idle" /\ pass[w].b = record
  BY <1>1 DEF EnsurePc, LockInv, Reads, Inside
<1>3. source[Home[pass[w].agent]] = pass[w].src /\ source' = source
  BY <1>1, <1>2, RunShape DEF BaseInv, ServesOK, LockInv, AgentHeld
<1>4. CASE Bind(w)
  <2>1. /\ record' = [record EXCEPT !.state = "Bound", !.uid = pass[w].ns] /\ pass[w].pc = "mirrored"
        /\ run' = run
    BY <1>2, <1>4 DEF Bind, Swap
  <2>2. /\ record'.state = "Bound" /\ record'.uid = pass[w].ns /\ record'.src = record.src
        /\ record'.srcUID = record.srcUID
    BY <1>1, <2>1 DEF Record
  <2>3. record.src = Home[pass[w].agent] /\ record.srcUID = pass[w].src
    BY <1>1, <1>2, <2>1 DEF BaseInv, ServesOK, Building, PassOK
  <2>4. run.uid = pass[w].ns /\ run.uid # None /\ ~run.deleting
    BY <2>1 DEF UseInv, MakingOK
  <2>5. pass'[w].agent = pass[w].agent
    BY <1>1, <1>4, GrantShape DEF To, GoesOn
  <2> QED BY <1>3, <2>1, <2>2, <2>3, <2>4, <2>5 DEF Secure
<1>5. CASE UseBound(w)
  <2>1. /\ record' = record /\ record.state = "Bound" /\ record.src = Home[pass[w].agent]
        /\ record.srcUID = pass[w].src /\ run.uid # None /\ ~run.deleting /\ record.uid = run.uid
        /\ run' = [run EXCEPT !.mirrored = TRUE]
    BY <1>2, <1>5 DEF UseBound, Current, Mine, BoundHere
  <2>2. run'.uid = run.uid /\ run'.deleting = run.deleting
    BY <2>1 DEF BaseInv, BindInv, TypeOK, Run
  <2>3. pass'[w].agent = pass[w].agent
    BY <1>1, <1>5, GrantShape DEF To, GoesOn
  <2> QED BY <1>3, <2>1, <2>2, <2>3 DEF Secure
<1> QED BY <1>4, <1>5

(* A listing that finds no live Agent finds no live user either. *)
LEMMA ListAnswer ==
  ASSUME BaseInv, LockInv, UseInv, NEW w \in Worker, List(w), pass'[w].pc \in {"count", "give"},
         NEW a \in Agent, InUse(a)
  PROVE  FALSE
<1>1. /\ BindInv /\ Secure(a) /\ pass[w].pc \in {"ask", "handle", "decide"}
  BY DEF BaseInv, UseInv, List, Asks, Handles, Mine
<1>2. pass[w].b = record /\ pass[w].pc # "idle"
  BY <1>1 DEF LockInv, Reads, Inside
<1>3. \A b \in Others(w) : agents[b].phase # "live"
  BY <1>1, <1>2, AskShape DEF Secure
<1>4. ~(pass[w].final /\ agents[a].uid = pass[w].uid)
  <2> SUFFICES ASSUME pass[w].final, agents[a].uid = pass[w].uid PROVE FALSE
    OBVIOUS
  <2>1. /\ pass[w].agent \in Agent /\ Declares(pass[w].agent) /\ agents[pass[w].agent].uid = pass[w].uid
        /\ agents[pass[w].agent].phase = "deleting"
    BY <1>2 DEF BaseInv, ServesOK, LockInv, AgentHeld
  <2>2. a = pass[w].agent
    BY <2>1 DEF BaseInv, UidsOK, InUse, Declares
  <2> QED BY <2>1, <2>2 DEF InUse
<1>5. a \in Others(w)
  BY <1>1, <1>2, <1>4 DEF Others, Secure, InUse
<1> QED BY <1>3, <1>5 DEF InUse

LEMMA UseStep ==
  ASSUME BaseInv, LockInv, UseInv, NEW w \in Worker, Step(w) \/ Fail(w)
  PROVE  UseInv'
<1>1. BindInv /\ Regular(w) /\ Came(w) /\ Alone(w)
  BY StepRegular, StepCame DEF BaseInv, Regular
<1>2. Bind(w) \/ UseBound(w) => pass[w].pc \in Inside /\ pass'[w].agent = pass[w].agent
  BY <1>1, GrantShape DEF Inside, To, GoesOn
<1>3. ASSUME NEW a \in Agent, InUse(a)' PROVE Secure(a)'
  <2>1. CASE InUse(a)
    BY <2>1, SecureStep
  <2>2. CASE (Bind(w) \/ UseBound(w)) /\ a = pass[w].agent
    <3>1. Step(w)
      BY <2>2 DEF Step, Ensures
    <3>2. Secure(pass[w].agent)' /\ pass'[w].agent = a
      BY <1>2, <2>2, <3>1, GrantSecure
    <3> QED BY <3>2 DEF Secure
  <2> QED BY <1>3, <2>1, <2>2, UsersStep
<1>4. ASSUME NEW v \in Worker, v # w, pass[v].pc \in Inside
      PROVE  /\ pass[w].pc \notin Inside /\ pass'[v] = pass[v]
             /\ run'.uid = run.uid /\ (run'.deleting => run.deleting)
             /\ \A a \in Agent : InUse(a)' => InUse(a)
  <2>1. pass[w].pc \notin Inside /\ pass'[v] = pass[v]
    BY <1>1, <1>4 DEF LockInv, Mutex, Alone
  <2>2. ~Made(w)
    BY <2>1 DEF Made, CreateRun, Current, Mine, Inside
  <2>3. run'.uid = run.uid
    BY <1>1, <2>2, RunShape DEF Placed
  <2>4. run'.deleting => run.deleting
    BY <2>1, DeletionStep
  <2>5. \A a \in Agent : InUse(a)' => InUse(a)
    BY <1>2, <2>1, UsersStep
  <2> QED BY <2>1, <2>3, <2>4, <2>5
<1>5. ASSUME NEW v \in Worker PROVE MakingOK(pass[v])'
  <2>1. CASE v # w
    BY <1>1, <1>4, <2>1 DEF MakingOK, UseInv, Alone, Inside
  <2>2. CASE v = w /\ pass'[w].pc = "made"
    <3>1. CreateRun(w)
      BY <1>1, <2>2 DEF Came
    <3>2. /\ pass'[w].ns = ids' /\ ids' \in Nat
          /\ run' = [NoRun EXCEPT !.uid = ids', !.nonce = pass[w].b.nonce]
      <4>1. pass'[w].ns = ids'
        BY <1>1, <3>1, CreateRunShape DEF To
      <4>2. ids' = ids + 1 /\ ids \in Nat
        BY <1>1, <3>1 DEF CreateRun, NewId, BindInv, TypeOK
      <4> QED BY <3>1, <4>1, <4>2 DEF CreateRun
    <3>3. run'.uid = ids' /\ ~run'.deleting /\ ids' # None
      BY <3>2, ConstantsAssumption DEF NoRun
    <3> QED BY <2>2, <3>2, <3>3 DEF MakingOK
  <2>3. CASE v = w /\ pass'[w].pc = "mirrored"
    <3>1. Mirror(w)
      BY <1>1, <2>3 DEF Came
    <3>2. pass[w].pc = "made" /\ pass'[w].ns = pass[w].ns /\ run' = [run EXCEPT !.mirrored = TRUE]
      BY <1>1, <3>1, CounterShape DEF Mirror, To
    <3>3. run'.uid = run.uid /\ run'.deleting = run.deleting
      BY <1>1, <3>2 DEF BindInv, TypeOK, Run
    <3> QED BY <2>3, <3>2, <3>3 DEF MakingOK, UseInv
  <2> QED BY <2>1, <2>2, <2>3 DEF MakingOK
<1>6. ASSUME NEW v \in Worker PROVE AnsweredOK(pass[v])'
  <2> SUFFICES ASSUME pass'[v].pc \in {"count", "give"}, pass'[v].b.state = "Terminating",
                      NEW a \in Agent, InUse(a)'
               PROVE  FALSE
    BY DEF AnsweredOK
  <2>1. CASE v # w
    <3>1. pass'[v] = pass[v] /\ pass[v].pc \in Inside
      BY <1>1, <2>1 DEF Alone, Inside
    <3> QED BY <1>4, <2>1, <3>1 DEF UseInv, AnsweredOK
  <2>2. CASE v = w /\ List(w)
    <3>1. ~Bind(w) /\ ~UseBound(w)
      BY <1>1, <2>2, GrantShape DEF To
    <3> QED BY <2>2, <3>1, UsersStep, ListAnswer
  <2>3. CASE v = w /\ Count(w)
    <3>1. pass[w].pc = "count" /\ ~Bind(w) /\ ~UseBound(w)
      BY <1>1, <2>3, GrantShape DEF To, Count
    <3>2. pass'[w].b = pass[w].b
      BY <1>1, <2>3, AskShape, IdlePc DEF Done, Released, To
    <3> QED BY <2>3, <3>1, <3>2, UsersStep DEF UseInv, AnsweredOK
  <2> QED BY <1>1, <2>1, <2>2, <2>3 DEF Came
<1> QED BY <1>3, <1>5, <1>6 DEF UseInv

LEMMA UseBegin ==
  ASSUME BaseInv, UseInv, NEW w \in Worker, NEW a, Begins(w, a)
  PROVE  UseInv'
<1>1. /\ BindInv /\ record' = record /\ source' = source /\ agents' = agents
      /\ run'.uid = run.uid /\ run'.deleting = run.deleting
      /\ run'.work \subseteq run.work /\ run'.copies \subseteq run.copies
  BY BeginUnchanged, CleanShape DEF BaseInv, Begins
<1>2. Alone(w) /\ pass'[w].pc \notin {"made", "mirrored", "granted", "copied", "count", "give"}
  BY <1>1, BeginShape DEF Begins
<1>3. ASSUME NEW b \in Agent, InUse(b)' PROVE InUse(b)
  BY <1>1, <1>2, <1>3 DEF InUse, Uses, Alone
<1>4. ASSUME NEW b \in Agent, InUse(b)' PROVE Secure(b)'
  BY <1>1, <1>3, <1>4 DEF UseInv, Secure
<1>5. ASSUME NEW v \in Worker PROVE MakingOK(pass[v])' /\ AnsweredOK(pass[v])'
  <2>1. CASE v = w
    BY <1>2, <2>1 DEF MakingOK, AnsweredOK
  <2>2. CASE v # w
    <3>1. pass'[v] = pass[v] /\ MakingOK(pass[v]) /\ AnsweredOK(pass[v])
      BY <1>2, <2>2 DEF Alone, UseInv
    <3> QED BY <1>1, <1>3, <3>1 DEF MakingOK, AnsweredOK
  <2> QED BY <2>1, <2>2
<1> QED BY <1>4, <1>5 DEF UseInv

LEMMA UseEnvironment ==
  ASSUME NoDeleter, BaseInv, UseInv, Environment
  PROVE  UseInv'
<1>1. record' = record /\ pass' = pass /\ ids \in Nat
  BY EnvironmentShape
<1>2. run'.work \subseteq run.work /\ run'.copies \subseteq run.copies
  BY RunChanges DEF NoRun
<1>3. run' = run \/ run.uid = None \/ run.deleting
  BY RunChanges DEF NoDeleter
<1>4. ASSUME NEW a \in Agent, InUse(a)' PROVE InUse(a) /\ Declares(a)
  <2>1. \/ agents[a].uid \in run.work \cup run.copies /\ agents'[a].uid = agents[a].uid
        \/ agents'[a].uid \in run.work \cup run.copies
        \/ \E w \in Worker : pass[w].pc \in {"granted", "copied"} /\ pass[w].uid = agents'[a].uid
    BY <1>1, <1>2, <1>4 DEF InUse, Uses
  <2>2. CASE agents'[a].uid = ids + 1
    <3>1. agents'[a].uid \notin run.work \cup run.copies
      BY <1>1, <2>2 DEF BaseInv, UidsOK
    <3>2. \A w \in Worker : pass[w].pc \in {"granted", "copied"} => pass[w].uid # agents'[a].uid
      BY <1>1, <2>2 DEF BaseInv, ServesOK, EnsurePc
    <3>3. agents[a].uid \in run.work \cup run.copies => agents[a].uid # ids + 1
      BY <1>1 DEF BaseInv, UidsOK
    <3> QED BY <2>1, <2>2, <3>1, <3>2, <3>3
  <2>3. CASE agents'[a] = agents[a]
    BY <1>4, <2>1, <2>3 DEF InUse, Uses, Declares
  <2> QED BY <1>4, <2>2, <2>3, AgentsChange DEF InUse
<1>5. ASSUME NEW a \in Agent, InUse(a)' PROVE Secure(a)'
  <2>1. Secure(a) /\ Declares(a)
    BY <1>4, <1>5 DEF UseInv
  <2>2. source'[Home[a]] = source[Home[a]]
    BY <2>1, SourcesChange
  <2>3. run' = run
    BY <1>3, <2>1 DEF Secure
  <2> QED BY <1>1, <2>1, <2>2, <2>3 DEF Secure
<1>6. ASSUME NEW v \in Worker PROVE MakingOK(pass[v])' /\ AnsweredOK(pass[v])'
  BY <1>1, <1>3, <1>4 DEF MakingOK, AnsweredOK, UseInv
<1> QED BY <1>5, <1>6 DEF UseInv

LEMMA UseInit == Init => CopiesInv /\ KnownInv /\ UseInv
<1> SUFFICES ASSUME Init PROVE CopiesInv /\ KnownInv /\ UseInv
  OBVIOUS
<1>1. \A w \in Worker : pass[w] = Idle
  BY DEF Init
<1>2. run.uid = None /\ run.copies = {} /\ \A a \in Agent : agents[a].phase # "live"
  BY DEF Init, NoRun, Absent
<1> QED BY <1>1, <1>2, IdlePc DEF CopiesInv, CopiesCollected, CleanedOK, KnownInv, OwnNamespaceKnown, KnownTo,
                                  Own, UseInv, InUse, MakingOK, AnsweredOK

-----------------------------------------------------------------------------
(***************************************************************************)
(* The quotas.                                                             *)
(***************************************************************************)
(* A pass past check 7 writes into no namespace of the operator's that has *)
(* not been given its quotas.                                              *)
QuotaOK(p) ==
  p.pc \in {"mirrored", "granted", "copied"} => run.uid = None \/ Foreign \/ run.mirrored

QuotaInv == QuotaFirst /\ \A w \in Worker : QuotaOK(pass[w])

LEMMA QuotaStep ==
  ASSUME OneAgentWorker, BaseInv, QuotaInv, NEW w \in Worker, Step(w) \/ Fail(w)
  PROVE  QuotaInv'
<1>1. BindInv /\ Regular(w) /\ Came(w) /\ Alone(w)
  BY StepRegular, StepCame DEF BaseInv, Regular
<1>2. CASE Made(w)
  <2>1. pass[w].pc = "decide" /\ pass'[w].pc = "made" /\ run'.work = {}
    BY <1>1, <1>2, CreateRunShape DEF Made, To
  <2>2. ASSUME NEW v \in Worker, v # w, pass'[v].pc \in {"mirrored", "granted", "copied"}
        PROVE  FALSE
    <3>1. pass[v].pc \in EnsurePc /\ pass[w].pc \in EnsurePc
      BY <1>1, <2>1, <2>2 DEF Alone, EnsurePc
    <3>2. /\ pass[v].agent \in Agent /\ pass[v].agent \in Serves[v]
          /\ pass[w].agent \in Agent /\ pass[w].agent \in Serves[w]
      BY <3>1 DEF BaseInv, ServesOK
    <3> QED BY <2>2, <3>2 DEF OneAgentWorker
  <2> QED BY <2>1, <2>2 DEF QuotaInv, QuotaFirst, QuotaOK
<1>3. CASE Placed(w)
  <2>1. run'.uid = run.uid /\ made' = made /\ (run.mirrored => run'.mirrored) /\ Foreign' = Foreign
    BY <1>3 DEF Placed, Foreign
  <2>2. QuotaFirst'
    <3>1. CASE run'.work = run.work
      BY <2>1, <3>1 DEF QuotaInv, QuotaFirst
    <3>2. CASE PlaceWorkload(w) /\ Open
      BY <2>1, <3>2 DEF PlaceWorkload, Open, QuotaInv, QuotaOK, QuotaFirst
    <3> QED BY <1>3, <3>1, <3>2 DEF Placed
  <2>3. ASSUME NEW v \in Worker PROVE QuotaOK(pass[v])'
    <3>1. CASE v # w
      BY <1>1, <2>1, <3>1 DEF QuotaInv, QuotaOK, Alone
    <3>2. CASE v = w /\ (Mirror(w) \/ UseBound(w))
      <4>1. run' = [run EXCEPT !.mirrored = TRUE] /\ run \in Run
        BY <1>1, <3>2 DEF Mirror, UseBound, BindInv, TypeOK
      <4>2. run'.mirrored
        BY <4>1 DEF Run
      <4> QED BY <4>2 DEF QuotaOK
    <3>3. CASE v = w /\ (Bind(w) \/ PlaceCopies(w))
      BY <2>1, <3>3 DEF Bind, PlaceCopies, QuotaInv, QuotaOK
    <3> QED BY <1>1, <3>1, <3>2, <3>3 DEF QuotaOK, Came
  <2> QED BY <2>2, <2>3 DEF QuotaInv
<1> QED BY <1>1, <1>2, <1>3, RunShape

LEMMA QuotaBegin ==
  ASSUME BaseInv, QuotaInv, NEW w \in Worker, NEW a, Begins(w, a)
  PROVE  QuotaInv'
<1>1. /\ BindInv /\ made' = made /\ run'.uid = run.uid /\ run'.mirrored = run.mirrored
      /\ run'.work \subseteq run.work
  BY BeginUnchanged, CleanShape DEF BaseInv, Begins
<1>2. Alone(w) /\ pass'[w].pc \notin {"mirrored", "granted", "copied"}
  BY <1>1, BeginShape DEF Begins
<1>3. Foreign' = Foreign
  BY <1>1 DEF Foreign
<1>4. QuotaFirst'
  BY <1>1, <1>3 DEF QuotaInv, QuotaFirst
<1>5. ASSUME NEW v \in Worker PROVE QuotaOK(pass[v])'
  BY <1>1, <1>2, <1>3 DEF Alone, QuotaInv, QuotaOK
<1> QED BY <1>4, <1>5 DEF QuotaInv

LEMMA QuotaEnvironment ==
  ASSUME BaseInv, QuotaInv, Environment
  PROVE  QuotaInv'
<1>1. pass' = pass /\ made' = made /\ ids \in Nat
  BY EnvironmentShape
<1>2. \A m \in made : m.uid \in Nat /\ m.uid <= ids
  BY DEF BaseInv, BindInv, TypeOK, UidsOK
<1>3. CASE run' = run
  BY <1>1, <1>3 DEF QuotaInv, QuotaFirst, QuotaOK, Foreign
<1>4. CASE run'.uid = ids + 1
  <2>1. Foreign'
    BY <1>1, <1>2, <1>4, ConstantsAssumption DEF Foreign
  <2> QED BY <2>1 DEF QuotaInv, QuotaFirst, QuotaOK
<1>5. CASE run'.uid = run.uid /\ run'.work = run.work /\ run'.mirrored = run.mirrored
  BY <1>1, <1>5 DEF QuotaInv, QuotaFirst, QuotaOK, Foreign
<1>6. CASE run' = NoRun
  <2>1. run'.uid = None /\ run'.work = {}
    BY <1>6 DEF NoRun
  <2> QED BY <2>1 DEF QuotaInv, QuotaFirst, QuotaOK
<1> QED BY <1>3, <1>4, <1>5, <1>6, RunChanges

LEMMA QuotaInit == Init => QuotaInv
<1> SUFFICES ASSUME Init PROVE QuotaInv
  OBVIOUS
<1>1. (\A w \in Worker : pass[w] = Idle) /\ run.work = {}
  BY DEF Init, NoRun
<1> QED BY <1>1, IdlePc DEF QuotaInv, QuotaFirst, QuotaOK

-----------------------------------------------------------------------------
(***************************************************************************)
(* The theorems.                                                           *)
(***************************************************************************)
LEMMA CustodyNext ==
  ASSUME OneProcess, BaseInv, LockInv, CopiesInv, KnownInv, [Next]_vars
  PROVE  LockInv' /\ CopiesInv' /\ KnownInv'
<1>1. CASE UNCHANGED vars
  BY <1>1 DEF vars, LockInv, Mutex, Reads, KeyHeld, AgentHeld, Declares, CopiesInv, CopiesCollected, Declared,
              CleanedOK, KnownInv, OwnNamespaceKnown, KnownTo, Own
<1>2. CASE Environment
  BY <1>2, LockEnvironment, CopiesEnvironment, KnownEnvironment
<1>3. ASSUME NEW w \in Worker, Step(w) \/ Fail(w) PROVE LockInv' /\ CopiesInv' /\ KnownInv'
  BY <1>3, LockStep, CopiesStep, KnownStep
<1>4. ASSUME NEW w \in Worker, NEW a \in Agent \cup {None}, Begins(w, a)
      PROVE  LockInv' /\ CopiesInv' /\ KnownInv'
  BY <1>4, LockBegin, CopiesBegin, KnownBegin
<1> QED BY <1>1, <1>2, <1>3, <1>4, NextCases

LEMMA Custody ==
  ASSUME OneProcess
  PROVE  Spec => [](BaseInv /\ LockInv /\ CopiesInv /\ KnownInv)
<1>1. Init => BaseInv /\ LockInv /\ CopiesInv /\ KnownInv
  BY BaseInit, LockInit, UseInit
<1>2. BaseInv /\ LockInv /\ CopiesInv /\ KnownInv /\ [Next]_vars
        => (BaseInv /\ LockInv /\ CopiesInv /\ KnownInv)'
  BY BaseNext, CustodyNext
<1> QED BY <1>1, <1>2, PTL DEF Spec

(***************************************************************************)
(* Within one process the operator never mistakes a namespace it created   *)
(* for somebody else's, whatever outsiders create and delete and wherever  *)
(* a pass crashes: the record always knows it, by nonce or by UID.         *)
(***************************************************************************)
THEOREM OwnAlwaysKnown == ASSUME OneProcess PROVE Spec => []OwnNamespaceKnown
<1>1. KnownInv => OwnNamespaceKnown
  BY DEF KnownInv
<1> QED BY <1>1, Custody, PTL

(***************************************************************************)
(* Within one process no copy of a Secret outlives its Agent in a run      *)
(* namespace that stays: a finalizer removes the copies before it lets the *)
(* Agent go, and no other pass can put them back meanwhile.                *)
(***************************************************************************)
THEOREM CopiesNeverLeft == ASSUME OneProcess PROVE Spec => []CopiesCollected
<1>1. CopiesInv => CopiesCollected
  BY DEF CopiesInv
<1> QED BY <1>1, Custody, PTL

LEMMA UseNext ==
  ASSUME NoDeleter, BaseInv, LockInv, UseInv, [Next]_vars
  PROVE  UseInv'
<1>1. CASE UNCHANGED vars
  BY <1>1 DEF vars, UseInv, InUse, Uses, Secure, MakingOK, AnsweredOK
<1> QED BY <1>1, NextCases, UseEnvironment, UseStep, UseBegin

LEMMA Used ==
  ASSUME OneProcess, NoDeleter
  PROVE  Spec => [](BaseInv /\ LockInv /\ UseInv)
<1>1. Init => UseInv
  BY UseInit
<1>2. BaseInv /\ LockInv /\ UseInv /\ [Next]_vars => UseInv'
  BY UseNext
<1>3. Spec => [](BaseInv /\ LockInv)
  BY Custody, PTL
<1> QED BY <1>1, <1>2, <1>3, PTL DEF Spec

(* Every user of the namespace is an Agent in use. *)
LEMMA NoUsers ==
  ASSUME \A a \in Agent : ~InUse(a)
  PROVE  Users = {}
<1> SUFFICES ASSUME NEW u \in Users PROVE FALSE
  OBVIOUS
<1>1. PICK a \in Agent : agents[a].phase = "live" /\ agents[a].uid = u
  BY DEF Users, Live
<1> QED BY <1>1 DEF Users, InUse, Uses

(***************************************************************************)
(* Within one process, and while nobody else deletes namespaces, one the   *)
(* handler has decided to delete serves no live Agent: what the confirming *)
(* list found stays true until the record says Deleting, and after.        *)
(***************************************************************************)
THEOREM DeletingNeverUsed == ASSUME OneProcess, NoDeleter PROVE Spec => []DeletingUnused
<1>1. UseInv => DeletingUnused
  BY NoUsers DEF UseInv, DeletingUnused, Secure
<1> QED BY <1>1, Used, PTL

(***************************************************************************)
(* And no step of the operator starts the deletion of a namespace that a   *)
(* live Agent uses: neither the handler, nor check 5, nor check 9, which   *)
(* takes a namespace with its nonce for a crashed predecessor's.           *)
(***************************************************************************)
THEOREM LiveAlwaysKept == ASSUME OneProcess, NoDeleter PROVE Spec => LiveKept
<1>1. ASSUME BaseInv, LockInv, UseInv, [Next]_vars, run'.deleting, ~run.deleting, edits' = edits
      PROVE  Users = {}
  <2>1. CASE UNCHANGED vars
    BY <1>1, <2>1 DEF vars
  <2>2. CASE Environment
    BY <1>1, <2>2, RunChanges DEF NoRun
  <2>3. ASSUME NEW w \in Worker, Step(w) \/ Fail(w) PROVE Users = {}
    <3>1. record.state \in {"Creating", "Deleting"}
      BY <1>1, <2>3, DeletionStep
    <3>2. \A a \in Agent : ~InUse(a)
      BY <1>1, <3>1 DEF UseInv, Secure
    <3> QED BY <3>2, NoUsers
  <2>4. ASSUME NEW w \in Worker, NEW a \in Agent \cup {None}, Begins(w, a) PROVE Users = {}
    BY <1>1, <2>4, BeginUnchanged, CleanShape DEF Begins, BaseInv
  <2> QED BY <1>1, <2>1, <2>2, <2>3, <2>4, NextCases
<1>2. BaseInv /\ LockInv /\ UseInv /\ [Next]_vars
        => [run'.deleting /\ ~run.deleting /\ edits' = edits => Users = {}]_vars
  BY <1>1
<1> QED BY <1>2, Used, PTL DEF Spec, LiveKept

(***************************************************************************)
(* With the one Agent worker that SetupWithManager registers, whatever     *)
(* outsiders create and delete, no workload is in a namespace of the       *)
(* operator's before its quotas and limits are.                            *)
(***************************************************************************)
THEOREM QuotasFirst == ASSUME OneAgentWorker PROVE Spec => []QuotaFirst
<1>1. BaseInv /\ QuotaInv /\ [Next]_vars => QuotaInv'
  <2>1. ASSUME QuotaInv, UNCHANGED vars PROVE QuotaInv'
    BY <2>1 DEF vars, QuotaInv, QuotaFirst, QuotaOK, Foreign
  <2>2. ASSUME BaseInv, QuotaInv, Next PROVE QuotaInv'
    BY <2>2, NextCases, QuotaEnvironment, QuotaStep, QuotaBegin
  <2> QED BY <2>1, <2>2
<1>2. QuotaInv => QuotaFirst
  BY DEF QuotaInv
<1> QED BY <1>1, <1>2, QuotaInit, Bases, PTL DEF Spec
=============================================================================
