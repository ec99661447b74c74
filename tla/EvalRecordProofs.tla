-------------------------- MODULE EvalRecordProofs --------------------------
(***************************************************************************)
(* What EvalGate's record is worth to those that read it: failed[] alone   *)
(* tells a refused revision, passed[] alone one that passed before, the    *)
(* serving revision's pass is never lost, and no outcome is overwritten.   *)
(* Then, resting on all of it, that EvalGate implements Promotion.         *)
(***************************************************************************)
EXTENDS EvalVerdictProofs

(***************************************************************************)
(* The bounded lists failed[] and passed[].                                *)
(***************************************************************************)
OnePerRevision(s) == \A i, j \in 1..Len(s) : s[i][1] = s[j][1] => i = j
Lists(s, d) == \E i \in 1..Len(s) : s[i][1] = d

(* Removing the i-th entry moves those behind it up by one. *)
LEMMA RemoveAtEntries ==
  ASSUME NEW S, NEW s \in Seq(S), NEW i \in 1..Len(s)
  PROVE  /\ RemoveAt(s, i) \in Seq(S)
         /\ Len(RemoveAt(s, i)) = Len(s) - 1
         /\ \A j \in 1..(Len(s) - 1) :
              RemoveAt(s, i)[j] = IF j < i THEN s[j] ELSE s[j + 1]
<1> DEFINE a == SubSeq(s, 1, i - 1)
           b == SubSeq(s, i + 1, Len(s))
<1>1. a \in Seq(S) /\ Len(a) = i - 1 /\ \A j \in 1..(i - 1) : a[j] = s[j]
  OBVIOUS
<1>2. b \in Seq(S) /\ Len(b) = Len(s) - i /\ \A j \in 1..(Len(s) - i) : b[j] = s[i + j]
  OBVIOUS
<1> HIDE DEF a, b
<1>3. /\ a \o b \in Seq(S) /\ Len(a \o b) = Len(a) + Len(b)
      /\ \A j \in 1..(Len(a) + Len(b)) :
           (a \o b)[j] = IF j <= Len(a) THEN a[j] ELSE b[j - Len(a)]
  BY <1>1, <1>2, ConcatProperties, Zenon
<1>4. Len(a) + Len(b) = Len(s) - 1
  BY <1>1, <1>2
<1>5. ASSUME NEW j \in 1..(Len(s) - 1)
      PROVE  (a \o b)[j] = IF j < i THEN s[j] ELSE s[j + 1]
  <2>1. CASE j < i
    <3>1. j \in 1..(i - 1) /\ j <= Len(a) /\ j \in 1..(Len(a) + Len(b))
      BY <1>1, <1>4, <2>1
    <3>2. (a \o b)[j] = a[j] /\ a[j] = s[j]
      BY <1>1, <1>3, <3>1, Zenon
    <3> QED BY <2>1, <3>2, Zenon
  <2>2. CASE ~(j < i)
    <3>1. /\ ~(j <= Len(a)) /\ j \in 1..(Len(a) + Len(b)) /\ Len(a) = i - 1
          /\ j - (i - 1) \in 1..(Len(s) - i) /\ i + (j - (i - 1)) = j + 1
      BY <1>1, <1>4, <2>2
    <3>2. (a \o b)[j] = b[j - (i - 1)]
      BY <1>3, <3>1, Zenon
    <3>3. b[j - (i - 1)] = s[i + (j - (i - 1))]
      BY <1>2, <3>1, Zenon
    <3> QED BY <2>2, <3>1, <3>2, <3>3, Zenon
  <2> QED BY <2>1, <2>2
<1>6. RemoveAt(s, i) = a \o b
  BY DEF RemoveAt, a, b
<1> HIDE DEF RemoveAt
<1>7. Len(a \o b) = Len(s) - 1
  BY <1>3, <1>4, Zenon
<1> QED BY <1>3, <1>5, <1>6, <1>7, Zenon

(* A list with one entry per revision keeps it so, loses the revision of   *)
(* the entry removed, and no other.                                        *)
LEMMA RemoveAtRevision ==
  ASSUME NEW S, NEW s \in Seq(S), NEW i \in 1..Len(s), OnePerRevision(s)
  PROVE  /\ OnePerRevision(RemoveAt(s, i))
         /\ ~Lists(RemoveAt(s, i), s[i][1])
         /\ \A d : Lists(s, d) /\ d # s[i][1] => Lists(RemoveAt(s, i), d)
<1> DEFINE r == RemoveAt(s, i)
           n == Len(s)
           at(j) == IF j < i THEN j ELSE j + 1
<1>1. n \in Nat /\ i \in 1..n
  OBVIOUS
<1>2. Len(r) = n - 1 /\ \A j \in 1..(n - 1) : r[j] = IF j < i THEN s[j] ELSE s[j + 1]
  BY RemoveAtEntries, Zenon
<1> HIDE DEF r
<1>3. \A j \in 1..Len(r) : at(j) \in 1..n /\ at(j) # i /\ r[j] = s[at(j)]
  <2> SUFFICES ASSUME NEW j \in 1..Len(r) PROVE at(j) \in 1..n /\ at(j) # i /\ r[j] = s[at(j)]
    OBVIOUS
  <2>1. j \in 1..(n - 1)
    BY <1>2
  <2>2. at(j) \in 1..n /\ at(j) # i
    BY <1>1, <2>1
  <2>3. r[j] = s[at(j)]
    BY <1>2, <2>1, Zenon
  <2> QED BY <2>2, <2>3
<1>4. \A j, k \in 1..Len(r) : at(j) = at(k) => j = k
  BY <1>1, <1>2
<1>5. \A k \in 1..n : k # i => \E j \in 1..Len(r) : at(j) = k
  <2> SUFFICES ASSUME NEW k \in 1..n, k # i PROVE \E j \in 1..Len(r) : at(j) = k
    OBVIOUS
  <2>1. CASE k < i
    <3>1. k \in 1..Len(r) /\ at(k) = k
      BY <1>1, <1>2, <2>1
    <3> QED BY <3>1, Zenon
  <2>2. CASE k > i
    <3>1. k - 1 \in 1..Len(r) /\ at(k - 1) = k
      BY <1>1, <1>2, <2>2
    <3> QED BY <3>1, Zenon
  <2> QED BY <1>1, <2>1, <2>2
<1> HIDE DEF at, n
<1>6. \A j, k \in 1..n : s[j][1] = s[k][1] => j = k
  BY Zenon DEF OnePerRevision, n
<1>7. OnePerRevision(r)
  <2> SUFFICES ASSUME NEW j \in 1..Len(r), NEW k \in 1..Len(r), r[j][1] = r[k][1] PROVE j = k
    BY DEF OnePerRevision
  <2>1. s[at(j)][1] = s[at(k)][1]
    BY <1>3, Zenon
  <2>2. at(j) = at(k)
    BY <1>3, <1>6, <2>1, Zenon
  <2> QED BY <1>4, <2>2, Zenon
<1>8. ~Lists(r, s[i][1])
  BY <1>1, <1>3, <1>6, Zenon DEF Lists
<1>9. ASSUME NEW d, Lists(s, d), d # s[i][1] PROVE Lists(r, d)
  <2>1. PICK k \in 1..n : s[k][1] = d
    BY <1>9, Zenon DEF Lists, n
  <2>2. PICK j \in 1..Len(r) : at(j) = k
    BY <1>5, <1>9, <2>1, Zenon
  <2>3. r[j] = s[k]
    BY <1>3, <2>2, Zenon
  <2> QED BY <2>1, <2>3, Zenon DEF Lists
<1> QED BY <1>7, <1>8, <1>9 DEF r

(* removePassed removes the revision and no other (withOutcome). *)
LEMMA RemovePassedRevision ==
  ASSUME NEW s \in Seq(Pair), OnePerRevision(s), NEW d
  PROVE  /\ OnePerRevision(removePassed(s, d))
         /\ ~Lists(removePassed(s, d), d)
         /\ \A a : Lists(s, a) /\ a # d => Lists(removePassed(s, d), a)
<1> DEFINE I == {i \in 1..Len(s) : s[i][1] = d}
<1>1. CASE I = {}
  <2>1. removePassed(s, d) = s
    BY <1>1 DEF removePassed, RemoveFirstMatch
  <2>2. ~Lists(s, d)
    BY <1>1 DEF Lists
  <2> QED BY <2>1, <2>2
<1>2. CASE I # {}
  <2>1. I \in SUBSET Nat /\ \A i \in I : i \in 1..Len(s) /\ s[i][1] = d
    OBVIOUS
  <2>2. removePassed(s, d) = RemoveAt(s, Min(I))
    BY <1>2 DEF removePassed, RemoveFirstMatch, SelectInSeq
  <2> HIDE DEF I
  <2>3. Min(I) \in I
    BY <1>2, <2>1, MinIn
  <2> DEFINE m == Min(I)
  <2>4. m \in 1..Len(s) /\ s[m][1] = d
    BY <2>1, <2>3
  <2> HIDE DEF m
  <2>5. /\ OnePerRevision(RemoveAt(s, m))
        /\ ~Lists(RemoveAt(s, m), s[m][1])
        /\ \A a : Lists(s, a) /\ a # s[m][1] => Lists(RemoveAt(s, m), a)
    BY <2>4, RemoveAtRevision, Zenon
  <2>6. removePassed(s, d) = RemoveAt(s, m)
    BY <2>2, Zenon DEF m
  <2> QED BY <2>4, <2>5, <2>6, Zenon
<1> QED BY <1>1, <1>2

(* A pair joins a list that does not have its revision. *)
LEMMA AppendRevision ==
  ASSUME NEW s \in Seq(Pair), OnePerRevision(s), NEW x \in Pair, ~Lists(s, x[1])
  PROVE  /\ Append(s, x) \in Seq(Pair)
         /\ OnePerRevision(Append(s, x))
         /\ Lists(Append(s, x), x[1])
         /\ \A a : Lists(s, a) => Lists(Append(s, x), a)
<1> DEFINE t == Append(s, x)
           S == Pair
           n == Len(s)
<1> HIDE DEF S
<1>1. s \in Seq(S) /\ x \in S
  BY DEF S
<1>2. t \in Seq(S) /\ n \in Nat /\ Len(t) = n + 1 /\ t[n + 1] = x /\ \A i \in 1..n : t[i] = s[i]
  BY <1>1
<1> HIDE DEF t, n
<1>3. \A i \in 1..Len(t) : i = n + 1 \/ i \in 1..n
  BY <1>2
<1>4. \A i \in 1..n : s[i][1] # x[1]
  BY Zenon DEF Lists, n
<1>5. \A i, j \in 1..n : s[i][1] = s[j][1] => i = j
  BY Zenon DEF OnePerRevision, n
<1>6. OnePerRevision(t)
  BY <1>2, <1>3, <1>4, <1>5, Zenon DEF OnePerRevision
<1>7. n + 1 \in 1..Len(t) /\ \A i \in 1..n : i \in 1..Len(t)
  BY <1>2
<1>8. Lists(t, x[1])
  BY <1>2, <1>7, Zenon DEF Lists
<1>9. \A a : Lists(s, a) => Lists(t, a)
  BY <1>2, <1>7, Zenon DEF Lists, n
<1> QED BY <1>2, <1>6, <1>8, <1>9 DEF t, S

(* appendPassed keeps one entry per revision, and that of the revision it  *)
(* is told to keep, however full the list is (startRun).                   *)
LEMMA AppendPassedRevision ==
  ASSUME NEW s \in Seq(Pair), OnePerRevision(s), NEW x \in Pair, NEW keep
  PROVE  /\ OnePerRevision(appendPassed(s, x, keep))
         /\ x[1] = keep \/ Lists(s, keep) => Lists(appendPassed(s, x, keep), keep)
<1> DEFINE r == removePassed(s, x[1])
           out == Append(r, x)
           I == {i \in 1..Len(out) : out[i][1] # keep}
<1>1. /\ r \in Seq(Pair) /\ OnePerRevision(r) /\ ~Lists(r, x[1])
      /\ \A a : Lists(s, a) /\ a # x[1] => Lists(r, a)
  BY RemovePassedType, RemovePassedRevision
<1> HIDE DEF r
<1>2. /\ out \in Seq(Pair) /\ OnePerRevision(out) /\ Lists(out, x[1])
      /\ \A a : Lists(r, a) => Lists(out, a)
  BY <1>1, AppendRevision
<1> HIDE DEF out
<1>3. x[1] = keep \/ Lists(s, keep) => Lists(out, keep)
  BY <1>1, <1>2
<1>4. CASE Len(out) > MaxPassed /\ I # {}
  <2>1. I \in SUBSET Nat /\ \A i \in I : i \in 1..Len(out) /\ out[i][1] # keep
    OBVIOUS
  <2>2. appendPassed(s, x, keep) = RemoveAt(out, Min(I))
    BY <1>4 DEF appendPassed, RemoveFirstMatch, SelectInSeq, out, r
  <2> HIDE DEF I
  <2>3. Min(I) \in I
    BY <1>4, <2>1, MinIn
  <2> DEFINE m == Min(I)
  <2>4. m \in 1..Len(out) /\ out[m][1] # keep
    BY <2>1, <2>3
  <2> HIDE DEF m
  <2>5. /\ OnePerRevision(RemoveAt(out, m))
        /\ \A a : Lists(out, a) /\ a # out[m][1] => Lists(RemoveAt(out, m), a)
    BY <1>2, <2>4, RemoveAtRevision, Zenon
  <2>6. appendPassed(s, x, keep) = RemoveAt(out, m)
    BY <2>2, Zenon DEF m
  <2> QED BY <1>3, <2>4, <2>5, <2>6
<1>5. CASE ~(Len(out) > MaxPassed /\ I # {})
  <2>1. appendPassed(s, x, keep) = out
    BY <1>5 DEF appendPassed, RemoveFirstMatch, out, r
  <2> QED BY <1>2, <1>3, <2>1
<1> QED BY <1>4, <1>5

(* appendFailed records its pair, and no other, however full the list is.  *)
LEMMA AppendFailedRecords ==
  ASSUME NEW s \in Seq(Pair), NEW x \in Pair
  PROVE  /\ \E i \in 1..Len(appendFailed(s, x)) : appendFailed(s, x)[i] = x
         /\ \A i \in 1..Len(appendFailed(s, x)) :
              \/ appendFailed(s, x)[i] = x
              \/ \E k \in 1..Len(s) : appendFailed(s, x)[i] = s[k]
<1> DEFINE out == Append(s, x)
           S == Pair
           n == Len(s)
<1> HIDE DEF S
<1>1. s \in Seq(S) /\ x \in S
  BY DEF S
<1>2. /\ out \in Seq(S) /\ n \in Nat /\ Len(out) = n + 1 /\ out[n + 1] = x
      /\ \A i \in 1..n : out[i] = s[i]
  BY <1>1
<1> HIDE DEF out, n
<1>3. \A i \in 1..Len(out) : out[i] = x \/ \E k \in 1..n : out[i] = s[k]
  <2>1. \A i \in 1..Len(out) : i = n + 1 \/ i \in 1..n
    BY <1>2
  <2> QED BY <1>2, <2>1, Zenon
<1>4. CASE Len(out) > MaxFailed
  <2>1. MaxFailed \in Nat /\ MaxFailed > 0
    BY ConstantsAssumption
  <2>2. n >= 1
    BY <1>2, <1>4, <2>1
  <2> DEFINE f == Tail(out)
  <2>3. Len(f) = n /\ \A i \in 1..n : f[i] = out[i + 1]
    BY <1>2
  <2>4. appendFailed(s, x) = f
    BY <1>4 DEF appendFailed, out
  <2> HIDE DEF f
  <2>5. n \in 1..n /\ \A i \in 1..n : i + 1 \in 1..Len(out)
    BY <1>2, <2>2
  <2>6. f[n] = x
    BY <1>2, <2>3, <2>5, Zenon
  <2>7. \A i \in 1..Len(f) : f[i] = x \/ \E k \in 1..n : f[i] = s[k]
    <3> SUFFICES ASSUME NEW i \in 1..Len(f) PROVE f[i] = x \/ \E k \in 1..n : f[i] = s[k]
      OBVIOUS
    <3>1. i \in 1..n
      BY <2>3, Zenon
    <3>2. i + 1 \in 1..Len(out) /\ f[i] = out[i + 1]
      BY <2>3, <2>5, <3>1, Zenon
    <3>3. out[i + 1] = x \/ \E k \in 1..n : out[i + 1] = s[k]
      BY <1>3, <3>2, Zenon
    <3> QED BY <3>2, <3>3, Zenon
  <2>8. \E i \in 1..Len(f) : f[i] = x
    BY <2>3, <2>5, <2>6, Zenon
  <2> QED BY <2>4, <2>7, <2>8, Zenon DEF n
<1>5. CASE ~(Len(out) > MaxFailed)
  <2>1. appendFailed(s, x) = out
    BY <1>5 DEF appendFailed, out
  <2>2. n + 1 \in 1..Len(out)
    BY <1>2
  <2>3. \E i \in 1..Len(out) : out[i] = x
    BY <1>2, <2>2, Zenon
  <2> QED BY <1>3, <2>1, <2>3, Zenon DEF n
<1> QED BY <1>4, <1>5

-----------------------------------------------------------------------------
(***************************************************************************)
(* The inductive invariant behind the record.  Only a Running record has a *)
(* case without an outcome, so no outcome reaches a decided one; a pass    *)
(* that has not been overtaken works for the revision that is pending now, *)
(* which is not the active one and has not failed; so a run in progress is *)
(* never that of a revision its gate promoted.                             *)
(***************************************************************************)
CheckedNotFailed ==
  \A p \in Process :
    ev[p].pc = "checked" /\ p \notin stale => ~PairFailed(ev[p].rev, ev[p].suite)
CheckedPending ==
  \A p \in Process :
    ev[p].pc \in {"began", "checked"} /\ p \notin stale => ev[p].rev = cand /\ cand # active
CaseOfSuite ==
  \A p \in Process :
    ev[p].pc \in {"claimed", "answered"} => ev[p].case \in SuiteCases[ev[p].suite]
Decided ==
  eval.verdict \in {"Passed", "Failed"} =>
    \A c \in SuiteCases[eval.suite] : Final(eval.cases[c])
ActiveNotRunning == how = "gate" /\ Running => eval.rev # active

(* The record as a reader sees it. *)
RecordOK == RunNotFailed /\ FailedVerdictRecorded /\ PassedNotFailed /\ ActivePassRecorded

RecordInv ==
  /\ CheckedNotFailed /\ CheckedPending /\ CaseOfSuite /\ Decided /\ ActiveNotRunning
  /\ RecordOK

(* A run whose case is answered under a standing claim is Running. *)
LEMMA StandingRuns ==
  ASSUME ClaimInv, VerdictInv, RecordInv, NEW p \in Process, ev[p].pc = "answered", ClaimStands(p)
  PROVE  Running
<1>1. /\ ev[p].case \in SuiteCases[eval.suite] /\ eval.cases[ev[p].case] = p
      /\ ev[p].case \in Case
  BY DEF RecordInv, CaseOfSuite, ClaimStands, Recorded, ClaimInv, TypeOK, PassType
<1>2. Process \cap {"none", "Passed", "Failed", "reconciler"} = {}
  BY ConstantsAssumption, Zenon
<1>3. p # "none" /\ ~Final(p)
  BY <1>2 DEF Final
<1>4. eval.verdict \notin {"Passed", "Failed"}
  BY <1>1, <1>3 DEF RecordInv, Decided
<1>5. eval.verdict # ""
  <2>1. NoCases[ev[p].case] = "none"
    BY <1>1 DEF NoCases
  <2>2. eval.cases # NoCases
    BY <1>1, <1>3, <2>1, Zenon
  <2> QED BY <2>2, Zenon DEF VerdictInv, NoVerdictNoCases
<1>6. eval.verdict \in {"", "Running", "Passed", "Failed"}
  BY DEF ClaimInv, TypeOK, EvalType, EvalStatus
<1> QED BY <1>4, <1>5, <1>6 DEF Running

(* What an outcome writes, by what it decides. *)
LEMMA WithOutcomeRecord ==
  ASSUME NEW e \in EvalStatus, e.rev \in Digest, e.suite \in Suite,
         NEW c \in Case, NEW o \in Outcome,
         NEW w, w = WithOutcome(e, c, o)
  PROVE  /\ w.rev = e.rev /\ w.suite = e.suite /\ w.cases = [e.cases EXCEPT ![c] = o]
         /\ \/ w.verdict = e.verdict /\ w.failed = e.failed /\ w.passed = e.passed
            \/ /\ w.verdict = "Passed" /\ w.failed = e.failed /\ w.passed = e.passed
               /\ \A i \in SuiteCases[e.suite] : Final(w.cases[i])
            \/ /\ w.verdict = "Failed"
               /\ w.failed = appendFailed(e.failed, <<e.rev, e.suite>>)
               /\ w.passed = removePassed(e.passed, e.rev)
               /\ \A i \in SuiteCases[e.suite] : Final(w.cases[i])
<1> DEFINE cases == [e.cases EXCEPT ![c] = o]
           open == \E i \in SuiteCases[e.suite] : ~Final(cases[i])
           enough == Meets({i \in SuiteCases[e.suite] : cases[i] = "Passed"}, e.suite)
           f == appendFailed(e.failed, <<e.rev, e.suite>>)
           r == removePassed(e.passed, e.rev)
<1>1. w.rev = e.rev /\ w.suite = e.suite /\ w.cases = cases
  BY WithOutcomeType
<1>2. w = IF open THEN [e EXCEPT !.cases = cases]
          ELSE IF enough THEN [e EXCEPT !.cases = cases, !.verdict = "Passed"]
          ELSE [e EXCEPT !.cases = cases, !.verdict = "Failed", !.failed = f, !.passed = r]
  BY DEF WithOutcome
<1>3. ~open => \A i \in SuiteCases[e.suite] : Final(cases[i])
  OBVIOUS
<1> HIDE DEF cases, open, enough, f, r
<1>4. \/ w.verdict = e.verdict /\ w.failed = e.failed /\ w.passed = e.passed
      \/ ~open /\ w.verdict = "Passed" /\ w.failed = e.failed /\ w.passed = e.passed
      \/ ~open /\ w.verdict = "Failed" /\ w.failed = f /\ w.passed = r
  <2>1. CASE open
    BY <1>2, <2>1 DEF EvalStatus
  <2>2. CASE ~open /\ enough
    <3>1. w = [e EXCEPT !.cases = cases, !.verdict = "Passed"]
      BY <1>2, <2>2, Zenon
    <3> QED BY <2>2, <3>1 DEF EvalStatus
  <2>3. CASE ~open /\ ~enough
    <3>1. w = [e EXCEPT !.cases = cases, !.verdict = "Failed", !.failed = f, !.passed = r]
      BY <1>2, <2>3, Zenon
    <3> QED BY <2>3, <3>1 DEF EvalStatus
  <2> QED BY <2>1, <2>2, <2>3
<1> QED BY <1>1, <1>3, <1>4 DEF cases, f, r

(* An outcome of a running pair keeps the record right (withOutcome). *)
LEMMA RecordOutcomeOK ==
  ASSUME ClaimInv, RecordInv, Running, UNCHANGED <<active, how>>,
         NEW c \in Case, NEW o \in {"Passed", "Failed"},
         NEW e \in EvalStatus, e.rev = eval.rev, e.suite = eval.suite, e.verdict = eval.verdict,
         e.cases = eval.cases, e.passed = eval.passed, e.failed = eval.failed,
         eval' = WithOutcome(e, c, o)
  PROVE  Decided' /\ ActiveNotRunning' /\ RecordOK'
<1>1. /\ eval.rev \in Digest /\ eval.suite \in Suite /\ e.rev \in Digest /\ e.suite \in Suite
      /\ eval.failed \in Seq(Pair) /\ eval.passed \in Seq(Pair) /\ o \in Outcome
      /\ <<eval.rev, eval.suite>> \in Pair /\ eval.verdict = "Running"
  <2>1. eval.verdict = "Running" /\ eval.rev \in Digest /\ eval.suite \in Suite
    BY DEF ClaimInv, TypeOK, EvalType, Running
  <2>2. eval.failed \in Seq(Pair) /\ eval.passed \in Seq(Pair)
    BY DEF ClaimInv, TypeOK, EvalType, EvalStatus
  <2>3. o \in Outcome /\ <<eval.rev, eval.suite>> \in Pair
    BY <2>1 DEF Outcome, Pair
  <2> QED BY <2>1, <2>2, <2>3
<1> DEFINE x == <<eval.rev, eval.suite>>
<1>a. /\ eval'.rev = e.rev /\ eval'.suite = e.suite
      /\ \/ eval'.verdict = e.verdict /\ eval'.failed = e.failed /\ eval'.passed = e.passed
         \/ /\ eval'.verdict = "Passed" /\ eval'.failed = e.failed /\ eval'.passed = e.passed
            /\ \A i \in SuiteCases[e.suite] : Final(eval'.cases[i])
         \/ /\ eval'.verdict = "Failed"
            /\ eval'.failed = appendFailed(e.failed, <<e.rev, e.suite>>)
            /\ eval'.passed = removePassed(e.passed, e.rev)
            /\ \A i \in SuiteCases[e.suite] : Final(eval'.cases[i])
  <2>1. o \in Outcome /\ e.rev \in Digest /\ e.suite \in Suite
    BY <1>1, Zenon
  <2>2. ASSUME NEW w, w = WithOutcome(e, c, o)
        PROVE  /\ w.rev = e.rev /\ w.suite = e.suite /\ w.cases = [e.cases EXCEPT ![c] = o]
               /\ \/ w.verdict = e.verdict /\ w.failed = e.failed /\ w.passed = e.passed
                  \/ /\ w.verdict = "Passed" /\ w.failed = e.failed /\ w.passed = e.passed
                     /\ \A i \in SuiteCases[e.suite] : Final(w.cases[i])
                  \/ /\ w.verdict = "Failed"
                     /\ w.failed = appendFailed(e.failed, <<e.rev, e.suite>>)
                     /\ w.passed = removePassed(e.passed, e.rev)
                     /\ \A i \in SuiteCases[e.suite] : Final(w.cases[i])
    BY <2>1, <2>2, WithOutcomeRecord
  <2> QED BY <2>2, Zenon
<1>2. eval'.rev = eval.rev /\ eval'.suite = eval.suite
  BY <1>a, Zenon
<1>3. \/ eval'.verdict = "Running" /\ eval'.failed = eval.failed /\ eval'.passed = eval.passed
      \/ /\ eval'.verdict = "Passed" /\ eval'.failed = eval.failed /\ eval'.passed = eval.passed
         /\ \A i \in SuiteCases[eval.suite] : Final(eval'.cases[i])
      \/ /\ eval'.verdict = "Failed"
         /\ eval'.failed = appendFailed(eval.failed, x)
         /\ eval'.passed = removePassed(eval.passed, eval.rev)
         /\ \A i \in SuiteCases[eval.suite] : Final(eval'.cases[i])
  BY <1>1, <1>a, Zenon
<1>4. Decided'
  BY <1>2, <1>3 DEF Decided
<1>5. ActiveNotRunning'
  BY <1>2, <1>3 DEF ActiveNotRunning, RecordInv, Running
<1>6. how = "gate" => PassedEntry(active) /\ eval.rev # active
  BY <1>1 DEF RecordInv, RecordOK, ActivePassRecorded, EvalPassedFor, ActiveNotRunning, Running
<1>7. ~PairFailed(eval.rev, eval.suite)
  BY <1>1 DEF RecordInv, RecordOK, RunNotFailed
<1>8. CASE eval'.verdict # "Failed"
  <2>1. eval'.failed = eval.failed /\ eval'.passed = eval.passed
    BY <1>3, <1>8
  <2>2. RunNotFailed' /\ FailedVerdictRecorded'
    BY <1>2, <1>7, <1>8, <2>1 DEF RunNotFailed, FailedVerdictRecorded, PairFailed
  <2>3. PassedNotFailed'
    BY <2>1 DEF RecordInv, RecordOK, PassedNotFailed, PairFailed
  <2>4. ActivePassRecorded'
    BY <1>6, <2>1 DEF ActivePassRecorded, PassedEntry
  <2> QED BY <1>4, <1>5, <2>2, <2>3, <2>4 DEF RecordOK
<1>9. CASE eval'.verdict = "Failed"
  <2> DEFINE f == appendFailed(eval.failed, x)
             r == removePassed(eval.passed, eval.rev)
  <2>1. eval'.failed = f /\ eval'.passed = r
    BY <1>3, <1>9
  <2>2. /\ \E i \in 1..Len(f) : f[i] = x
        /\ \A i \in 1..Len(f) : f[i] = x \/ \E k \in 1..Len(eval.failed) : f[i] = eval.failed[k]
    BY <1>1, AppendFailedRecords
  <2>3. OnePerRevision(eval.passed)
    BY DEF RecordInv, RecordOK, PassedNotFailed, OnePerRevision
  <2>4. /\ OnePerRevision(r) /\ ~Lists(r, eval.rev)
        /\ \A a : Lists(eval.passed, a) /\ a # eval.rev => Lists(r, a)
    BY <1>1, <2>3, RemovePassedRevision
  <2>5. /\ r \in Seq(Pair)
        /\ \A j \in 1..Len(r) : \E k \in 1..Len(eval.passed) : r[j] = eval.passed[k]
    BY <1>1, RemovePassedType
  <2> HIDE DEF f, r
  <2>6. RunNotFailed'
    BY <1>9 DEF RunNotFailed
  <2>7. FailedVerdictRecorded'
    BY <1>2, <2>1, <2>2, Zenon DEF FailedVerdictRecorded, PairFailed
  <2>8. ASSUME NEW j \in 1..Len(r), NEW i \in 1..Len(f) PROVE f[i] # <<r[j][1], r[j][2]>>
    <3>1. PICK k \in 1..Len(eval.passed) : r[j] = eval.passed[k]
      BY <2>5, Zenon
    <3>2. ~PairFailed(r[j][1], r[j][2])
      BY <3>1 DEF RecordInv, RecordOK, PassedNotFailed
    <3>3. r[j][1] # eval.rev
      BY <2>4 DEF Lists
    <3>4. CASE f[i] = x
      BY <3>3, <3>4
    <3>5. CASE \E m \in 1..Len(eval.failed) : f[i] = eval.failed[m]
      BY <3>2, <3>5, Zenon DEF PairFailed
    <3> QED BY <2>2, <3>4, <3>5, Zenon
  <2>9. PassedNotFailed'
    BY <2>1, <2>4, <2>8, Zenon DEF PassedNotFailed, OnePerRevision, PairFailed
  <2>10. ActivePassRecorded'
    BY <1>6, <2>1, <2>4, Zenon DEF ActivePassRecorded, PassedEntry, Lists
  <2> QED BY <1>4, <1>5, <2>6, <2>7, <2>9, <2>10 DEF RecordOK
<1> QED BY <1>8, <1>9

(* Names that are not processes. *)
LEMMA ProcessNames ==
  ASSUME NEW p \in Process
  PROVE  p # "none" /\ p # "Passed" /\ p # "Failed" /\ p # "reconciler"
<1>1. Process \cap {"none", "Passed", "Failed", "reconciler"} = {}
  BY ConstantsAssumption, Zenon
<1> QED BY <1>1

(* A pass of AgentReconciler that changes the candidate or the active      *)
(* revision overtakes every pass that has not claimed its case.            *)
LEMMA RecCandidate ==
  ASSUME RecStep
  PROVE  \/ UNCHANGED <<cand, active>>
         \/ \A p \in Process : ev[p].pc \in {"began", "checked"} => p \in stale'
<1>1. ASSUME Overtake("reconciler")
      PROVE  \A p \in Process : ev[p].pc \in {"began", "checked"} => p \in stale'
  BY <1>1, ProcessNames DEF Overtake, Busy
<1>2. CASE EditSpec \/ EditSuite \/ EditSource \/ RecBegin \/ RecRead \/ RecReport \/ RecPersist
           \/ RecStop
  BY <1>2 DEF EditSpec, EditSuite, EditSource, RecBegin, RecRead, RecReport, RecPersist, RecStop,
              status
<1>3. CASE RecHold
  BY <1>1, <1>3 DEF RecHold
<1>4. CASE RecPass
  <2>1. status' = status \/ Overtake("reconciler")
    BY <1>4, Zenon DEF RecPass
  <2> QED BY <1>1, <2>1 DEF status
<1> QED BY <1>2, <1>3, <1>4 DEF RecStep

(* A promotion by the gate is one of a revision whose verdict is Passed    *)
(* (decideGate); any other change of the active revision is not the gate's.*)
LEMMA RecPromotes ==
  ASSUME RecStep
  PROVE  UNCHANGED <<active, how>> \/ how' # "gate" \/ EvalPassedFor(active')
<1>1. CASE EditSpec \/ EditSuite \/ EditSource \/ RecBegin \/ RecRead \/ RecReport \/ RecPersist
           \/ RecStop \/ RecHold
  BY <1>1 DEF EditSpec, EditSuite, EditSource, RecBegin, RecRead, RecReport, RecPersist, RecStop,
              RecHold, status
<1>2. CASE RecPass
  <2>1. PICK ready \in Reads.ready, hold \in Reads.hold, installed \in Reads.installed,
             fetch \in Reads.card :
          LET d         == Desired(rec.content)
              enforced  == spec.gated /\ installed
              satisfied == GateSatisfied(d, enforced, CardsAfter(d, ready, fetch))
              held      == ready /\ hold /\ ~Pinned /\ active \notin {None, d}
              promotes  == ready /\ ~held /\ satisfied
          IN /\ active' = IF promotes THEN d ELSE active
             /\ how' = IF active' = active THEN how
                       ELSE IF ~enforced THEN "ungated" ELSE IF Pinned THEN "pin" ELSE "gate"
    BY <1>2 DEF RecPass
  <2> DEFINE d == Desired(rec.content)
             enforced == spec.gated /\ installed
             recorded == CardsAfter(d, ready, fetch)
  <2> HIDE DEF recorded, d, enforced
  <2>2. /\ active' # active => active' = d /\ GateSatisfied(d, enforced, recorded)
        /\ how' = IF active' = active THEN how
                  ELSE IF ~enforced THEN "ungated" ELSE IF Pinned THEN "pin" ELSE "gate"
    BY <2>1, Zenon DEF recorded, d, enforced
  <2>3. CASE active' = active
    BY <2>2, <2>3
  <2>4. CASE active' # active /\ how' = "gate"
    <3>1. enforced /\ ~Pinned
      BY <2>2, <2>4
    <3> QED BY <2>2, <2>4, <3>1 DEF GateSatisfied, GateGrants, EvalPassedFor
  <2> QED BY <2>3, <2>4
<1> QED BY <1>1, <1>2 DEF RecStep

(* The users and AgentReconciler keep the record right. *)
LEMMA RecordRecStep ==
  ASSUME ClaimInv, RecordInv, RecStep
  PROVE  RecordInv'
<1>1. eval' = eval /\ ev' = ev /\ \A p \in Process : p \in stale => p \in stale'
  BY RecQuiet DEF Quiet
<1>2. CheckedNotFailed'
  BY <1>1 DEF CheckedNotFailed, RecordInv, PairFailed
<1>3. CheckedPending'
  BY <1>1, RecCandidate DEF CheckedPending, RecordInv
<1>4. CaseOfSuite' /\ Decided'
  BY <1>1 DEF CaseOfSuite, Decided, RecordInv
<1>5. RunNotFailed' /\ FailedVerdictRecorded' /\ PassedNotFailed'
  BY <1>1 DEF RunNotFailed, FailedVerdictRecorded, PassedNotFailed, PairFailed, RecordInv, RecordOK
<1>6. CASE UNCHANGED <<active, how>>
  BY <1>1, <1>2, <1>3, <1>4, <1>5, <1>6
     DEF ActiveNotRunning, ActivePassRecorded, EvalPassedFor, PassedEntry, Running, RecordInv,
         RecordOK
<1>7. CASE how' # "gate"
  BY <1>2, <1>3, <1>4, <1>5, <1>7 DEF ActiveNotRunning, ActivePassRecorded, RecordInv, RecordOK
<1>8. CASE EvalPassedFor(active')
  <2>1. eval'.verdict = "Passed" /\ eval'.rev = active'
    BY <1>1, <1>8 DEF EvalPassedFor
  <2>2. ActiveNotRunning' /\ ActivePassRecorded'
    BY <2>1 DEF ActiveNotRunning, ActivePassRecorded, Running, EvalPassedFor
  <2> QED BY <1>2, <1>3, <1>4, <1>5, <2>2 DEF RecordInv, RecordOK
<1> QED BY <1>6, <1>7, <1>8, RecPromotes

(* Clearing a superseded Failed verdict keeps the record right. *)
LEMMA RecordClear ==
  ASSUME ClaimInv, RecordInv, ClearSuperseded
  PROVE  RecordInv'
<1>1. eval \in EvalStatus
  BY DEF ClaimInv, TypeOK, EvalType
<1>2. /\ eval.verdict = "Failed" /\ eval'.verdict = ""
      /\ eval'.failed = eval.failed /\ eval'.passed = eval.passed
      /\ UNCHANGED <<ev, cand, active, how>>
  BY <1>1 DEF ClearSuperseded, Superseded, EvalStatus, status
<1>3. \A q \in Process : ev[q].pc \in {"began", "checked"} => q \in stale'
  BY DEF ClearSuperseded, Busy
<1>4. CheckedNotFailed' /\ CheckedPending' /\ CaseOfSuite' /\ Decided' /\ ActiveNotRunning'
  BY <1>2, <1>3
     DEF CheckedNotFailed, CheckedPending, CaseOfSuite, Decided, ActiveNotRunning, Running, RecordInv
<1>5. RunNotFailed' /\ FailedVerdictRecorded'
  BY <1>2 DEF RunNotFailed, FailedVerdictRecorded
<1>6. PassedNotFailed' /\ ActivePassRecorded'
  BY <1>2 DEF PassedNotFailed, ActivePassRecorded, PairFailed, PassedEntry, EvalPassedFor,
              RecordInv, RecordOK
<1> QED BY <1>4, <1>5, <1>6 DEF RecordInv, RecordOK

(* A pass that writes an outcome and ends, and one that ends unwritten. *)
LEMMA RecordEnds ==
  ASSUME ClaimInv, RecordInv, NEW p \in Process, EvalEnds(p), UNCHANGED <<cand, active>>,
         \A q \in Process \ {p} :
           /\ q \in stale => q \in stale'
           /\ eval' = eval \/ (ev[q].pc \in {"began", "checked"} => q \in stale')
  PROVE  CheckedNotFailed' /\ CheckedPending' /\ CaseOfSuite'
<1>1. /\ \A q \in Process \ {p} : ev'[q] = ev[q]
      /\ ev'[p] = IdleEval
  BY DEF EvalEnds, ClaimInv, TypeOK, PassType
<1>2. IdleEval.pc = "idle"
  BY DEF IdleEval
<1>3. CheckedNotFailed'
  BY <1>1, <1>2 DEF CheckedNotFailed, PairFailed, RecordInv
<1>4. CheckedPending'
  BY <1>1, <1>2 DEF CheckedPending, RecordInv
<1>5. CaseOfSuite'
  BY <1>1, <1>2 DEF CaseOfSuite, RecordInv
<1> QED BY <1>3, <1>4, <1>5

(* What only the record says is kept by a step that leaves it alone. *)
LEMMA RecordFrame ==
  ASSUME RecordInv, UNCHANGED <<eval, active, how>>
  PROVE  Decided' /\ ActiveNotRunning' /\ RecordOK'
<1>1. Decided' /\ ActiveNotRunning'
  BY DEF Decided, ActiveNotRunning, Running, RecordInv
<1>2. RunNotFailed' /\ FailedVerdictRecorded' /\ PassedNotFailed' /\ ActivePassRecorded'
  BY DEF RunNotFailed, FailedVerdictRecorded, PassedNotFailed, ActivePassRecorded, PairFailed,
         PassedEntry, EvalPassedFor, RecordInv, RecordOK
<1> QED BY <1>1, <1>2 DEF RecordOK

(* A run that starts keeps the pass it replaces, and the serving           *)
(* revision's in any case (startRun).                                      *)
LEMMA RecordStart ==
  ASSUME ClaimInv, RecordInv, NEW p \in Process, StartRun(p)
  PROVE  Decided' /\ ActiveNotRunning' /\ RecordOK'
<1>1. /\ ev[p].pc = "checked" /\ p \notin stale /\ UNCHANGED <<active, how>>
      /\ eval' = RunStart(eval, ev[p].rev, ev[p].suite)
  BY DEF StartRun, Fresh, status
<1> DEFINE x == <<eval.rev, eval.suite>>
           a == appendPassed(eval.passed, x, active)
<1>2. /\ eval'.rev = ev[p].rev /\ eval'.suite = ev[p].suite /\ eval'.verdict = "Running"
      /\ eval'.failed = eval.failed
      /\ eval'.passed = IF eval.verdict = "Passed" THEN a ELSE eval.passed
  BY <1>1 DEF RunStart
<1>3. Decided'
  BY <1>2 DEF Decided
<1>4. ActiveNotRunning'
  BY <1>1, <1>2 DEF ActiveNotRunning, RecordInv, CheckedPending
<1>5. RunNotFailed' /\ FailedVerdictRecorded'
  BY <1>1, <1>2 DEF RunNotFailed, FailedVerdictRecorded, PairFailed, RecordInv, CheckedNotFailed
<1>6. CASE eval.verdict # "Passed"
  <2>1. eval'.passed = eval.passed /\ eval'.failed = eval.failed
    BY <1>2, <1>6
  <2>2. PassedNotFailed' /\ ActivePassRecorded'
    BY <1>1, <1>6, <2>1 DEF PassedNotFailed, ActivePassRecorded, PairFailed, PassedEntry,
                            EvalPassedFor, RecordInv, RecordOK
  <2> QED BY <1>3, <1>4, <1>5, <2>2 DEF RecordOK
<1>7. CASE eval.verdict = "Passed"
  <2>1. x \in Pair
    BY <1>7 DEF ClaimInv, TypeOK, EvalType, Pair
  <2>2. eval.passed \in Seq(Pair)
    BY DEF ClaimInv, TypeOK, EvalType, EvalStatus
  <2>3. OnePerRevision(eval.passed)
    BY DEF RecordInv, RecordOK, PassedNotFailed, OnePerRevision
  <2>4. ~PairFailed(eval.rev, eval.suite)
    BY <1>7 DEF RecordInv, RecordOK, RunNotFailed
  <2>5. /\ OnePerRevision(a)
        /\ x[1] = active \/ Lists(eval.passed, active) => Lists(a, active)
    BY <2>1, <2>2, <2>3, AppendPassedRevision
  <2>7. x[1] = eval.rev /\ x[2] = eval.suite /\ eval'.passed = a
    BY <1>2, <1>7
  <2> HIDE DEF x
  <2>6. \A j \in 1..Len(a) : a[j] = x \/ \E k \in 1..Len(eval.passed) : a[j] = eval.passed[k]
    BY <2>1, <2>2, AppendPassedType
  <2> HIDE DEF a
  <2>8. ASSUME NEW j \in 1..Len(a) PROVE ~PairFailed(a[j][1], a[j][2])
    <3>1. CASE a[j] = x
      BY <2>4, <2>7, <3>1
    <3>2. CASE \E k \in 1..Len(eval.passed) : a[j] = eval.passed[k]
      BY <3>2 DEF RecordInv, RecordOK, PassedNotFailed
    <3> QED BY <2>6, <3>1, <3>2
  <2>9. PassedNotFailed'
    <3>1. eval'.failed = eval.failed
      BY <1>2, Zenon
    <3>2. \A j \in 1..Len(a), i \in 1..Len(eval.failed) : eval.failed[i] # <<a[j][1], a[j][2]>>
      BY <2>8, Zenon DEF PairFailed
    <3>3. \A j, k \in 1..Len(a) : a[j][1] = a[k][1] => j = k
      BY <2>5, Zenon DEF OnePerRevision
    <3> QED BY <2>7, <3>1, <3>2, <3>3, Zenon DEF PassedNotFailed, PairFailed
  <2>10. how = "gate" => x[1] = active \/ Lists(eval.passed, active)
    BY <2>7, Zenon DEF RecordInv, RecordOK, ActivePassRecorded, EvalPassedFor, PassedEntry, Lists
  <2>11. ActivePassRecorded'
    BY <1>1, <2>5, <2>7, <2>10, Zenon DEF ActivePassRecorded, PassedEntry, Lists
  <2> QED BY <1>3, <1>4, <1>5, <2>9, <2>11 DEF RecordOK
<1> QED BY <1>6, <1>7

(* Every step of an eval pass keeps the record right. *)
LEMMA RecordEvalStep ==
  ASSUME ClaimInv, VerdictInv, RecordInv, NEW p \in Process, EvalStep(p)
  PROVE  RecordInv'
<1>0. /\ ev \in [Process -> EvalPass] /\ ev[p] \in EvalPass
      /\ eval \in EvalStatus
  BY DEF ClaimInv, TypeOK, PassType, EvalType
<1>1. CASE EvalBegin(p)
  <2>1. /\ \A q \in Process \ {p} : ev'[q] = ev[q] /\ (q \in stale <=> q \in stale')
        /\ ev'[p].pc = "began" /\ ev'[p].rev = cand /\ cand # active
        /\ UNCHANGED <<eval, cand, active, how>>
    BY <1>0, <1>1 DEF EvalBegin, IdleEval, status, CandidatePending
  <2>2. CheckedNotFailed' /\ CheckedPending' /\ CaseOfSuite'
    BY <2>1 DEF CheckedNotFailed, CheckedPending, CaseOfSuite, RecordInv, PairFailed
  <2> QED BY <2>1, <2>2, RecordFrame DEF RecordInv
<1>2. CASE EvalCheck(p)
  <2>1. /\ \A q \in Process \ {p} : ev'[q] = ev[q]
        /\ ev[p].pc = "began" /\ ev'[p].pc = "checked"
        /\ ev'[p].rev = ev[p].rev /\ ev'[p].suite = ev[p].suite
        /\ UNCHANGED <<eval, cand, active, how, stale>>
        /\ ~PairFailed(ev[p].rev, ev[p].suite)
    BY <1>0, <1>2 DEF EvalCheck, EvalPass, status, HasVerdict
  <2>2. CheckedNotFailed' /\ CheckedPending' /\ CaseOfSuite'
    BY <2>1 DEF CheckedNotFailed, CheckedPending, CaseOfSuite, RecordInv, PairFailed
  <2> QED BY <2>1, <2>2, RecordFrame DEF RecordInv
<1>3. CASE StartRun(p)
  <2>1. \A q \in Process : /\ ev'[q].pc = ev[q].pc /\ ev'[q].case = ev[q].case
                           /\ ev'[q].rev = ev[q].rev /\ ev'[q].suite = ev[q].suite
    BY <1>0, <1>3 DEF StartRun, EvalPass
  <2>2. \A q \in Process \ {p} : ev[q].pc \in {"began", "checked"} => q \in stale'
    BY <1>3, OvertakeBusy DEF StartRun
  <2>3. ev[p].pc = "checked" /\ p \notin stale /\ UNCHANGED <<cand, active>>
    BY <1>3 DEF StartRun, Fresh, status
  <2>4. eval'.failed = eval.failed
    BY <1>3 DEF StartRun, RunStart
  <2>5. CheckedNotFailed'
    BY <2>1, <2>2, <2>3, <2>4 DEF CheckedNotFailed, PairFailed, RecordInv
  <2>6. CheckedPending' /\ CaseOfSuite'
    BY <2>1, <2>2, <2>3 DEF CheckedPending, CaseOfSuite, RecordInv
  <2> QED BY <1>3, <2>5, <2>6, RecordStart DEF RecordInv
<1>4. CASE Interrupt(p)
  <2> DEFINE e == [eval EXCEPT !.cases = ev[p].seen]
  <2>1. ev[p].seen = eval.cases
    BY <1>4 DEF Interrupt, Fresh, ClaimInv, SeenCurrent
  <2>2. /\ e \in EvalStatus /\ e.rev = eval.rev /\ e.suite = eval.suite /\ e.cases = eval.cases
        /\ e.verdict = eval.verdict /\ e.passed = eval.passed /\ e.failed = eval.failed
    BY <1>0, <2>1 DEF EvalStatus
  <2>3. FirstOf(Sending(p)) \in Case
    BY <1>4, SuiteCaseType, FirstOfIn DEF Interrupt, ClaimInv
  <2>4. eval' = WithOutcome(e, FirstOf(Sending(p)), "Failed")
    BY <1>4 DEF Interrupt
  <2> HIDE DEF e
  <2>5. EvalEnds(p) /\ Running /\ UNCHANGED <<cand, active, how>> /\ Overtake(p)
    BY <1>4 DEF Interrupt, Running, status
  <2>6. Decided' /\ ActiveNotRunning' /\ RecordOK'
    BY <2>2, <2>3, <2>4, <2>5, RecordOutcomeOK
  <2>7. CheckedNotFailed' /\ CheckedPending' /\ CaseOfSuite'
    BY <2>5, OvertakeBusy, RecordEnds
  <2> QED BY <2>6, <2>7 DEF RecordInv
<1>5. CASE Claim(p)
  <2> DEFINE c == FirstOf(Unsent(p))
  <2>1. c \in SuiteCases[ev[p].suite]
    BY <1>5, SuiteCaseType, FirstOfIn DEF Claim, ClaimInv, Unsent
  <2>2. /\ eval' = [eval EXCEPT !.cases = [ev[p].seen EXCEPT ![c] = p]]
        /\ ev' = [ev EXCEPT ![p].pc = "claimed", ![p].case = c, ![p].current = TRUE,
                            ![p].seen = NoCases]
        /\ UNCHANGED <<cand, active, how>>
        /\ Overtake(p) /\ eval.verdict = "Running"
    BY <1>5 DEF Claim, status
  <2> HIDE DEF c
  <2>3. /\ eval'.rev = eval.rev /\ eval'.suite = eval.suite /\ eval'.verdict = "Running"
        /\ eval'.failed = eval.failed /\ eval'.passed = eval.passed
    BY <1>0, <2>2 DEF EvalStatus
  <2>4. /\ \A q \in Process \ {p} : ev'[q] = ev[q]
        /\ ev'[p].pc = "claimed" /\ ev'[p].case = c /\ ev'[p].suite = ev[p].suite
    BY <1>0, <2>2 DEF EvalPass
  <2>5. CheckedNotFailed'
    BY <2>2, <2>3, <2>4, OvertakeBusy DEF CheckedNotFailed, PairFailed, RecordInv
  <2>6. CheckedPending' /\ CaseOfSuite'
    BY <2>1, <2>2, <2>4, OvertakeBusy DEF CheckedPending, CaseOfSuite, RecordInv
  <2>7. Decided' /\ ActiveNotRunning'
    BY <2>2, <2>3 DEF Decided, ActiveNotRunning, Running, RecordInv
  <2>8. RunNotFailed' /\ FailedVerdictRecorded' /\ PassedNotFailed'
    BY <2>2, <2>3 DEF RunNotFailed, FailedVerdictRecorded, PassedNotFailed, PairFailed, RecordInv,
                      RecordOK
  <2>9. ActivePassRecorded'
    BY <2>2, <2>3 DEF ActivePassRecorded, PassedEntry, EvalPassedFor, RecordInv, RecordOK
  <2> QED BY <2>5, <2>6, <2>7, <2>8, <2>9 DEF RecordInv, RecordOK
<1>6. CASE Send(p)
  <2>1. PICK ok \in Reads.answer : ev' = [ev EXCEPT ![p].pc = "answered", ![p].ok = ok]
    BY <1>6 DEF Send
  <2>2. /\ \A q \in Process \ {p} : ev'[q] = ev[q]
        /\ ev[p].pc = "claimed" /\ ev'[p].pc = "answered"
        /\ ev'[p].case = ev[p].case /\ ev'[p].suite = ev[p].suite
        /\ UNCHANGED <<eval, stale, cand, active, how>>
    BY <1>0, <1>6, <2>1 DEF EvalPass, Send, status
  <2>3. CheckedNotFailed' /\ CheckedPending' /\ CaseOfSuite'
    BY <2>2 DEF CheckedNotFailed, CheckedPending, CaseOfSuite, RecordInv, PairFailed
  <2> QED BY <2>2, <2>3, RecordFrame DEF RecordInv
<1>7. CASE RecordOutcome(p)
  <2> DEFINE o == IF ev[p].ok THEN "Passed" ELSE "Failed"
  <2>1. /\ o \in {"Passed", "Failed"} /\ eval' = WithOutcome(eval, ev[p].case, o)
        /\ EvalEnds(p) /\ Overtake(p) /\ UNCHANGED <<cand, active, how>>
    BY <1>7 DEF RecordOutcome, status
  <2>2. ev[p].case \in Case
    BY <1>7 DEF RecordOutcome, ClaimInv, TypeOK, PassType
  <2>3. Running
    BY <1>7, StandingRuns DEF RecordOutcome
  <2> HIDE DEF o
  <2>4. Decided' /\ ActiveNotRunning' /\ RecordOK'
    BY <1>0, <2>1, <2>2, <2>3, RecordOutcomeOK
  <2>5. CheckedNotFailed' /\ CheckedPending' /\ CaseOfSuite'
    BY <2>1, OvertakeBusy, RecordEnds
  <2> QED BY <2>4, <2>5 DEF RecordInv
<1>8. CASE DropOutcome(p) \/ EvalStop(p)
  <2>1. /\ EvalEnds(p) /\ UNCHANGED <<eval, cand, active, how>>
        /\ \A q \in Process \ {p} : q \in stale => q \in stale'
    BY <1>8 DEF DropOutcome, EvalStop, status
  <2>2. CheckedNotFailed' /\ CheckedPending' /\ CaseOfSuite'
    BY <2>1, RecordEnds
  <2> QED BY <2>1, <2>2, RecordFrame DEF RecordInv
<1> QED BY <1>1, <1>2, <1>3, <1>4, <1>5, <1>6, <1>7, <1>8 DEF EvalStep

LEMMA RecordStutter == ASSUME RecordInv, UNCHANGED vars PROVE RecordInv'
<1>1. UNCHANGED <<eval, ev, stale, cand, active, how>>
  BY DEF vars, status
<1>2. CheckedNotFailed' /\ CheckedPending' /\ CaseOfSuite'
  BY <1>1 DEF CheckedNotFailed, CheckedPending, CaseOfSuite, RecordInv, PairFailed
<1> QED BY <1>1, <1>2, RecordFrame DEF RecordInv

LEMMA RecordInductive == ClaimInv /\ VerdictInv /\ RecordInv /\ [Next]_vars => RecordInv'
<1> SUFFICES ASSUME ClaimInv, VerdictInv, RecordInv, [Next]_vars PROVE RecordInv'
  OBVIOUS
<1>1. CASE RecStep
  BY <1>1, RecordRecStep
<1>2. CASE ClearSuperseded
  BY <1>2, RecordClear
<1>3. CASE \E p \in Process : EvalStep(p)
  BY <1>3, RecordEvalStep
<1>4. CASE UNCHANGED vars
  BY <1>4, RecordStutter
<1> QED BY <1>1, <1>2, <1>3, <1>4 DEF Next, RecStep, EvalStep

LEMMA RecordInit == Init => RecordInv
<1> SUFFICES ASSUME Init PROVE RecordInv
  OBVIOUS
<1>1. \A p \in Process : ev[p].pc = "idle"
  BY DEF Init, IdleEval
<1>2. eval.verdict = "" /\ Len(eval.passed) = 0 /\ how = None /\ None # "gate"
  BY ConstantsAssumption DEF Init, NoEval
<1>3. CheckedNotFailed /\ CheckedPending /\ CaseOfSuite /\ Decided /\ ActiveNotRunning
  BY <1>1, <1>2 DEF CheckedNotFailed, CheckedPending, CaseOfSuite, Decided, ActiveNotRunning, Running
<1>4. RunNotFailed /\ FailedVerdictRecorded /\ ActivePassRecorded
  BY <1>2 DEF RunNotFailed, FailedVerdictRecorded, ActivePassRecorded
<1>5. PassedNotFailed
  <2> DEFINE n == Len(eval.passed)
  <2>1. n = 0
    BY <1>2
  <2> HIDE DEF n
  <2>2. \A i \in 1..n : FALSE
    BY <2>1
  <2> QED BY <2>2 DEF PassedNotFailed, n
<1> QED BY <1>3, <1>4, <1>5 DEF RecordInv, RecordOK

(* A pair that is being evaluated or has passed is not in failed[]: the    *)
(* pin rule and hasVerdict never refuse a revision whose run is in         *)
(* progress or passed (pinIneligible, pairFailed).                         *)
THEOREM RunsNotFailed == Spec => []RunNotFailed
<1>1. RecordInv => RunNotFailed
  BY DEF RecordInv, RecordOK
<1> QED BY <1>1, ClaimInit, VerdictInit, RecordInit, ClaimInductive, VerdictInductive,
           RecordInductive, PTL DEF Spec

(* A Failed verdict is in failed[], whatever the cap has evicted, so that  *)
(* failed[] is all the pin rule has to read (appendFailed, pinIneligible). *)
THEOREM FailedVerdictsRecorded == Spec => []FailedVerdictRecorded
<1>1. RecordInv => FailedVerdictRecorded
  BY DEF RecordInv, RecordOK
<1> QED BY <1>1, ClaimInit, VerdictInit, RecordInit, ClaimInductive, VerdictInductive,
           RecordInductive, PTL DEF Spec

(* passed[] has one entry per revision and none of a pair in failed[], for *)
(* any caps on the two lists (withOutcome, startRun).                      *)
THEOREM PassedNeverFailed == Spec => []PassedNotFailed
<1>1. RecordInv => PassedNotFailed
  BY DEF RecordInv, RecordOK
<1> QED BY <1>1, ClaimInit, VerdictInit, RecordInit, ClaimInductive, VerdictInductive,
           RecordInductive, PTL DEF Spec

(* The pass of a revision its gate promoted stays on record for as long as *)
(* the revision serves, for any cap on passed[] (appendPassed).            *)
THEOREM ActivePassKept == Spec => []ActivePassRecorded
<1>1. RecordInv => ActivePassRecorded
  BY DEF RecordInv, RecordOK
<1> QED BY <1>1, ClaimInit, VerdictInit, RecordInit, ClaimInductive, VerdictInductive,
           RecordInductive, PTL DEF Spec

-----------------------------------------------------------------------------
(***************************************************************************)
(* A recorded outcome is final.                                            *)
(***************************************************************************)
OutcomeKept ==
  \A c \in Case : Final(eval.cases[c]) /\ eval'.cases[c] # eval.cases[c] => eval'.cases = NoCases

(* A write of one case that has no outcome yet overwrites none. *)
LEMMA OneCaseKept ==
  ASSUME eval \in EvalStatus, NEW c \in Case, NEW o, ~Final(eval.cases[c]),
         eval'.cases = [eval.cases EXCEPT ![c] = o]
  PROVE  OutcomeKept
<1>1. \A i \in Case : i # c => eval'.cases[i] = eval.cases[i]
  BY DEF EvalStatus
<1> QED BY <1>1, Zenon DEF OutcomeKept

LEMMA OutcomeStep == ClaimInv /\ [Next]_vars => OutcomeKept
<1> SUFFICES ASSUME ClaimInv, [Next]_vars PROVE OutcomeKept
  OBVIOUS
<1>0. eval \in EvalStatus
  BY DEF ClaimInv, TypeOK, EvalType
<1>1. CASE eval' = eval
  BY <1>1 DEF OutcomeKept
<1>2. CASE ClearSuperseded
  BY <1>0, <1>2 DEF ClearSuperseded, OutcomeKept, EvalStatus
<1>3. CASE \E p \in Process : StartRun(p)
  <2>1. PICK p \in Process : eval' = RunStart(eval, ev[p].rev, ev[p].suite)
    BY <1>3, Zenon DEF StartRun
  <2>2. eval'.cases = NoCases
    BY <2>1 DEF RunStart
  <2> QED BY <2>2, Zenon DEF OutcomeKept
<1>4. ASSUME NEW p \in Process, Interrupt(p) PROVE OutcomeKept
  <2> DEFINE c == FirstOf(Sending(p))
             e == [eval EXCEPT !.cases = ev[p].seen]
  <2>1. ev[p].seen = eval.cases
    BY <1>4 DEF Interrupt, Fresh, ClaimInv, SeenCurrent
  <2>2. /\ e \in EvalStatus /\ e.rev \in Digest /\ e.suite \in Suite /\ e.cases = eval.cases
    BY <1>0, <1>4, <2>1 DEF Interrupt, EvalStatus, ClaimInv, TypeOK, EvalType
  <2>3. c \in Case /\ c \in Sending(p)
    BY <1>4, SuiteCaseType, FirstOfIn DEF Interrupt, ClaimInv
  <2>4. eval' = WithOutcome(e, c, "Failed")
    BY <1>4 DEF Interrupt
  <2>5. eval.cases[c] \in Process
    BY <2>1, <2>3 DEF Sending
  <2> HIDE DEF c, e
  <2>6. eval'.cases = [eval.cases EXCEPT ![c] = "Failed"]
    BY <2>2, <2>3, <2>4, WithOutcomeType DEF Outcome
  <2>7. ~Final(eval.cases[c])
    BY <2>5, ProcessNames DEF Final
  <2> QED BY <1>0, <2>3, <2>6, <2>7, OneCaseKept
<1>5. ASSUME NEW p \in Process, Claim(p) PROVE OutcomeKept
  <2> DEFINE c == FirstOf(Unsent(p))
  <2>1. c \in Unsent(p) /\ c \in Case
    BY <1>5, SuiteCaseType, FirstOfIn DEF Claim, ClaimInv
  <2>2. ev[p].seen = eval.cases
    BY <1>5 DEF Claim, Fresh, ClaimInv, SeenCurrent
  <2>3. eval' = [eval EXCEPT !.cases = [ev[p].seen EXCEPT ![c] = p]]
    BY <1>5 DEF Claim
  <2>4. eval.cases[c] = "none"
    BY <2>1, <2>2 DEF Unsent
  <2> HIDE DEF c
  <2>5. eval'.cases = [eval.cases EXCEPT ![c] = p]
    BY <1>0, <2>2, <2>3 DEF EvalStatus
  <2>6. ~Final(eval.cases[c])
    BY <2>4 DEF Final
  <2> QED BY <1>0, <2>1, <2>5, <2>6, OneCaseKept
<1>6. ASSUME NEW p \in Process, RecordOutcome(p) PROVE OutcomeKept
  <2> DEFINE o == IF ev[p].ok THEN "Passed" ELSE "Failed"
  <2>1. o \in Outcome /\ eval' = WithOutcome(eval, ev[p].case, o)
    BY <1>6 DEF RecordOutcome, Outcome
  <2> HIDE DEF o
  <2>2. ev[p].case \in Case /\ eval.rev \in Digest /\ eval.suite \in Suite
    BY <1>6 DEF RecordOutcome, ClaimStands, Recorded, PassType, ClaimInv, TypeOK
  <2>3. eval'.cases = [eval.cases EXCEPT ![ev[p].case] = o]
    BY <1>0, <2>1, <2>2, WithOutcomeType
  <2>4. ~Final(eval.cases[ev[p].case])
    BY <1>6, ProcessNames DEF RecordOutcome, ClaimStands, Final
  <2> QED BY <1>0, <2>2, <2>3, <2>4, OneCaseKept
<1>7. CASE RecStep \/ UNCHANGED vars
  BY <1>1, <1>7, RecQuiet DEF Quiet, vars
<1>8. ASSUME NEW p \in Process, \/ EvalBegin(p) \/ EvalCheck(p) \/ Send(p) \/ DropOutcome(p)
                                \/ EvalStop(p)
      PROVE  eval' = eval
  BY <1>8 DEF EvalBegin, EvalCheck, Send, DropOutcome, EvalStop
<1> QED BY <1>1, <1>2, <1>3, <1>4, <1>5, <1>6, <1>7, <1>8 DEF Next, RecStep

(* No step overwrites a recorded outcome, for any number of processes: a   *)
(* pass that finishes late, its case interrupted by another, cannot        *)
(* replace what the other wrote (record, nextCase).                        *)
THEOREM OutcomesFinal == Spec => OutcomeFinal
<1>1. ClaimInv /\ [Next]_vars => OutcomeKept
  BY OutcomeStep
<1>2. OutcomeKept <=> \A c \in Case : Final(eval.cases[c]) /\ eval'.cases[c] # eval.cases[c]
                       => eval'.cases = NoCases
  BY DEF OutcomeKept
<1> QED BY <1>1, <1>2, ClaimInit, ClaimInductive, PTL DEF Spec, OutcomeFinal

-----------------------------------------------------------------------------
(***************************************************************************)
(* The two controllers implement Promotion.                                *)
(***************************************************************************)

(* A pass about to write found no verdict on its pair, and, not having     *)
(* been overtaken, would find none now.                                    *)
CheckedOpen ==
  \A p \in Process : ev[p].pc = "checked" /\ p \notin stale => ~HasVerdict(p)

(* A pass that ends, its write, if any, overtaking the others. *)
LEMMA OpenEnds ==
  ASSUME TypeOK, CheckedOpen, NEW p \in Process, EvalEnds(p),
         \A q \in Process \ {p} :
           /\ q \in stale => q \in stale'
           /\ eval' = eval \/ (ev[q].pc \in {"began", "checked"} => q \in stale')
  PROVE  CheckedOpen'
<1>1. /\ \A q \in Process \ {p} : ev'[q] = ev[q]
      /\ ev'[p].pc = "idle"
  BY DEF EvalEnds, TypeOK, PassType, IdleEval
<1> QED BY <1>1 DEF CheckedOpen, HasVerdict, Recorded, PairFailed

(* Every step of an eval pass keeps CheckedOpen. *)
LEMMA OpenEvalStep ==
  ASSUME TypeOK, CheckedOpen, NEW p \in Process, EvalStep(p)
  PROVE  CheckedOpen'
<1>0. ev \in [Process -> EvalPass] /\ ev[p] \in EvalPass
  BY DEF TypeOK, PassType
<1>1. CASE EvalBegin(p)
  <2>1. /\ \A q \in Process \ {p} : ev'[q] = ev[q] /\ (q \in stale <=> q \in stale')
        /\ ev'[p].pc = "began" /\ eval' = eval
    BY <1>0, <1>1 DEF EvalBegin, IdleEval
  <2> QED BY <2>1 DEF CheckedOpen, HasVerdict, Recorded, PairFailed
<1>2. CASE EvalCheck(p)
  <2>1. /\ \A q \in Process \ {p} : ev'[q] = ev[q]
        /\ ev'[p].rev = ev[p].rev /\ ev'[p].suite = ev[p].suite
        /\ UNCHANGED <<eval, stale>> /\ ~HasVerdict(p)
    BY <1>0, <1>2 DEF EvalCheck, EvalPass
  <2> QED BY <2>1 DEF CheckedOpen, HasVerdict, Recorded, PairFailed
<1>3. CASE StartRun(p)
  <2>1. \A q \in Process : /\ ev'[q].pc = ev[q].pc
                           /\ ev'[q].rev = ev[q].rev /\ ev'[q].suite = ev[q].suite
    BY <1>0, <1>3 DEF StartRun, EvalPass
  <2>2. \A q \in Process \ {p} : ev[q].pc \in {"began", "checked"} => q \in stale'
    BY <1>3, OvertakeBusy DEF StartRun
  <2>3. ev[p].pc = "checked" /\ p \notin stale
    BY <1>3 DEF StartRun, Fresh
  <2>4. eval'.failed = eval.failed /\ eval'.verdict = "Running"
    BY <1>3 DEF StartRun, RunStart
  <2> QED BY <2>1, <2>2, <2>3, <2>4 DEF CheckedOpen, HasVerdict, PairFailed
<1>4. CASE Claim(p)
  <2>1. /\ \A q \in Process \ {p} : ev'[q] = ev[q]
        /\ ev'[p].pc = "claimed"
    BY <1>0, <1>4 DEF Claim, EvalPass
  <2>2. \A q \in Process \ {p} : ev[q].pc \in {"began", "checked"} => q \in stale'
    BY <1>4, OvertakeBusy DEF Claim
  <2> QED BY <2>1, <2>2 DEF CheckedOpen
<1>5. CASE Send(p)
  <2>1. PICK ok \in Reads.answer : ev' = [ev EXCEPT ![p].pc = "answered", ![p].ok = ok]
    BY <1>5 DEF Send
  <2>2. /\ \A q \in Process \ {p} : ev'[q] = ev[q]
        /\ ev'[p].pc = "answered" /\ UNCHANGED <<eval, stale>>
    BY <1>0, <1>5, <2>1 DEF EvalPass, Send
  <2> QED BY <2>2 DEF CheckedOpen, HasVerdict, Recorded, PairFailed
<1>6. CASE Interrupt(p) \/ RecordOutcome(p)
  BY <1>6, OvertakeBusy, OpenEnds DEF Interrupt, RecordOutcome
<1>7. CASE DropOutcome(p) \/ EvalStop(p)
  BY <1>7, OpenEnds DEF DropOutcome, EvalStop
<1> QED BY <1>1, <1>2, <1>3, <1>4, <1>5, <1>6, <1>7 DEF EvalStep

LEMMA OpenInductive == TypeOK /\ CheckedOpen /\ [Next]_vars => CheckedOpen'
<1> SUFFICES ASSUME TypeOK, CheckedOpen, [Next]_vars PROVE CheckedOpen'
  OBVIOUS
<1>1. CASE RecStep
  BY <1>1, RecQuiet DEF Quiet, CheckedOpen, HasVerdict, Recorded, PairFailed
<1>2. CASE ClearSuperseded
  BY <1>2 DEF ClearSuperseded, Busy, CheckedOpen
<1>3. CASE \E p \in Process : EvalStep(p)
  BY <1>3, OpenEvalStep
<1>4. CASE UNCHANGED vars
  BY <1>4 DEF vars, CheckedOpen, HasVerdict, Recorded, PairFailed
<1> QED BY <1>1, <1>2, <1>3, <1>4 DEF Next, RecStep, EvalStep

LEMMA OpenInit == Init => CheckedOpen
BY DEF Init, IdleEval, CheckedOpen

PromotionInv == ClaimInv /\ VerdictInv /\ RecordInv /\ CheckedOpen

(* A step that leaves the eval record and its answers alone leaves the     *)
(* test of Promotion alone.                                                *)
LEMMA TestFrame == ASSUME UNCHANGED <<eval, good, earned>> PROVE UNCHANGED Gate!test
BY DEF Gate!test, Meets

(* A return of AgentReconciler reports no pass that was not reported.      *)
LEMMA ReturnReports ==
  ASSUME RecReport \/ RecHold
  PROVE  Gate!Report
<1>1. gatesPassed' \in {gatesPassed, "False"} /\ UNCHANGED <<active, how>>
  BY DEF RecReport, RecHold, AssessGates
<1>2. UNCHANGED Gate!test
  BY RecQuiet, TestFrame DEF RecStep, Quiet, history
<1> QED BY <1>1, <1>2 DEF Gate!Report, Gate!Truthful

(* What a whole pass decides: the promotion with what made it, and the     *)
(* report with the pass on record it rests on.                             *)
LEMMA PassDecides ==
  ASSUME TypeOK, RecPass
  PROVE  LET d == Desired(rec.content) IN
         /\ d \in Digest
         /\ \/ UNCHANGED <<active, how>>
            \/ /\ active' = d /\ active # d
               /\ \/ how' = "gate" /\ EvalPassedFor(d) /\ gatesPassed' = d
                  \/ how' \in {"pin", "ungated"}
         /\ \/ gatesPassed' \in {gatesPassed, "False"}
            \/ /\ gatesPassed' = d /\ active' = d
               /\ EvalPassedFor(d) \/ PassedEntry(d)
<1> DEFINE d == Desired(rec.content)
<1>1. d \in Digest
  BY DesiredType, SMTT(30) DEF RecPass
<1>2. PICK ready \in Reads.ready, hold \in Reads.hold, installed \in Reads.installed,
           fetch \in Reads.card :
        LET enforced  == spec.gated /\ installed
            satisfied == GateSatisfied(d, enforced, CardsAfter(d, ready, fetch))
            held      == ready /\ hold /\ ~Pinned /\ active \notin {None, d}
            promotes  == ready /\ ~held /\ satisfied
        IN /\ active' = IF promotes THEN d ELSE active
           /\ gatesPassed' = GatesPassedAfter(d, enforced, promotes, held, satisfied)
           /\ how' = IF active' = active THEN how
                     ELSE IF ~enforced THEN "ungated" ELSE IF Pinned THEN "pin" ELSE "gate"
  BY DEF RecPass
<1> DEFINE enforced == spec.gated /\ installed
           recorded == CardsAfter(d, ready, fetch)
           satisfied == GateSatisfied(d, enforced, recorded)
           held == ready /\ hold /\ ~Pinned /\ active \notin {None, d}
           promotes == ready /\ ~held /\ satisfied
<1>3. /\ active' = IF promotes THEN d ELSE active
      /\ gatesPassed' = GatesPassedAfter(d, enforced, promotes, held, satisfied)
      /\ how' = IF active' = active THEN how
                ELSE IF ~enforced THEN "ungated" ELSE IF Pinned THEN "pin" ELSE "gate"
  BY <1>2, Zenon
<1>4. promotes => ~held /\ satisfied /\ GateSatisfied(d, enforced, recorded)
  OBVIOUS
<1> HIDE DEF d, enforced, recorded, satisfied, held, promotes
<1>5. CASE active' = active
  <2>1. how' = how
    BY <1>3, <1>5
  <2>2. \/ gatesPassed' \in {gatesPassed, "False"}
        \/ gatesPassed' = d /\ promotes /\ (EvalPassedFor(d) \/ PassedEntry(d))
    BY <1>3 DEF GatesPassedAfter, AssessGates
  <2> QED BY <1>1, <1>3, <1>5, <2>1, <2>2 DEF d
<1>6. CASE active' # active
  <2>1. promotes /\ active' = d /\ active # d
    BY <1>3, <1>6
  <2>2. \/ gatesPassed' \in {gatesPassed, "False"}
        \/ gatesPassed' = d /\ (EvalPassedFor(d) \/ PassedEntry(d))
    BY <1>3 DEF GatesPassedAfter, AssessGates
  <2>3. CASE enforced /\ ~Pinned
    <3>1. EvalPassedFor(d)
      BY <1>4, <2>1, <2>3 DEF GateSatisfied, GateGrants, EvalPassedFor
    <3>2. gatesPassed' = d
      BY <1>3, <1>4, <2>1, <2>3, <3>1 DEF GatesPassedAfter
    <3>3. how' = "gate"
      BY <1>3, <1>6, <2>3
    <3> QED BY <1>1, <2>1, <3>1, <3>2, <3>3 DEF d
  <2>4. CASE ~(enforced /\ ~Pinned)
    <3>1. how' \in {"pin", "ungated"}
      BY <1>3, <1>6, <2>4
    <3> QED BY <1>1, <2>1, <2>2, <3>1 DEF d
  <2> QED BY <2>3, <2>4
<1> QED BY <1>5, <1>6

(* A whole pass of AgentReconciler promotes as Promotion does, or only     *)
(* reports.                                                                *)
LEMMA PassImplemented ==
  ASSUME ClaimInv, VerdictInv, RecPass
  PROVE  Gate!Promote \/ Gate!Report
<1> DEFINE d == Desired(rec.content)
<1>1. /\ d \in Digest
      /\ \/ UNCHANGED <<active, how>>
         \/ /\ active' = d /\ active # d
            /\ \/ how' = "gate" /\ EvalPassedFor(d) /\ gatesPassed' = d
               \/ how' \in {"pin", "ungated"}
      /\ \/ gatesPassed' \in {gatesPassed, "False"}
         \/ /\ gatesPassed' = d /\ active' = d
            /\ EvalPassedFor(d) \/ PassedEntry(d)
  BY PassDecides DEF ClaimInv
<1> HIDE DEF d
<1>2. EvalPassedFor(d) \/ PassedEntry(d) => \E s \in Suite : <<d, s>> \in earned
  BY RecordedPassEarned
<1>3. Gate!Truthful
  BY <1>1, <1>2 DEF Gate!Truthful
<1>4. UNCHANGED Gate!test
  BY RecQuiet, TestFrame DEF RecStep, Quiet, history
<1>5. CASE UNCHANGED <<active, how>>
  BY <1>3, <1>4, <1>5 DEF Gate!Report
<1>6. CASE active' = d /\ active # d /\ \/ how' = "gate" /\ EvalPassedFor(d) /\ gatesPassed' = d
                                        \/ how' \in {"pin", "ungated"}
  BY <1>1, <1>3, <1>4, <1>6 DEF Gate!Promote, EvalPassedFor
<1> QED BY <1>1, <1>5, <1>6

(* A run starts a test of a pair that has no verdict. *)
LEMMA StartImplemented ==
  ASSUME PromotionInv, NEW p \in Process, StartRun(p)
  PROVE  Gate!Start
<1>1. /\ ev[p].rev \in Digest /\ ev[p].suite \in Suite /\ None \notin Suite
      /\ eval.verdict \in {"", "Running", "Passed", "Failed"}
  BY ConstantsAssumption
     DEF StartRun, PromotionInv, ClaimInv, TypeOK, PassType, EvalType, EvalStatus
<1>2. /\ eval'.rev = ev[p].rev /\ eval'.suite = ev[p].suite /\ eval'.verdict = "Running"
      /\ good' = {}
      /\ UNCHANGED <<active, how, earned, gatesPassed>>
  BY DEF StartRun, RunStart, status
<1>3. ~Meets({}, ev[p].suite)
  BY <1>1, MeetsEmpty
<1>4. Recorded(p) => eval.verdict = ""
  <2>1. ~HasVerdict(p) /\ ~(Recorded(p) /\ eval.verdict = "Running")
    BY DEF StartRun, Fresh, PromotionInv, CheckedOpen
  <2> QED BY <1>1, <2>1, Zenon DEF HasVerdict
<1>5. (<<eval.rev, eval.suite>>)' = <<eval.rev, eval.suite>> => Recorded(p)
  BY <1>2 DEF Recorded
<1>6. (eval.suite # None /\ Meets(good, eval.suite))' = FALSE
  BY <1>2, <1>3 DEF Meets
<1>7. (<<eval.rev, eval.suite>>)' \in Digest \X Suite
  BY <1>1, <1>2
<1> QED BY <1>2, <1>4, <1>5, <1>6, <1>7 DEF Gate!Start

(* An outcome judges a Running test, or leaves it. *)
LEMMA OutcomeImplemented ==
  ASSUME PromotionInv, VerdictInv', Running,
         NEW c \in Case, NEW o \in Outcome,
         NEW e \in EvalStatus, e.rev = eval.rev, e.suite = eval.suite, e.verdict = eval.verdict,
         eval' = WithOutcome(e, c, o),
         UNCHANGED <<active, how, gatesPassed, good, earned>>
  PROVE  Gate!Judge \/ UNCHANGED Gate!vars
<1>1. eval.rev \in Digest /\ eval.suite \in Suite /\ None \notin Suite
  BY ConstantsAssumption DEF PromotionInv, ClaimInv, TypeOK, EvalType, Running
<1>2. /\ eval'.rev = eval.rev /\ eval'.suite = eval.suite
      /\ eval'.verdict \in {eval.verdict, "Passed", "Failed"}
  <2>1. e.rev \in Digest /\ e.suite \in Suite
    BY <1>1
  <2>2. eval'.rev = e.rev /\ eval'.suite = e.suite
    BY <2>1, WithOutcomeType
  <2>3. eval'.verdict \in {e.verdict, "Passed", "Failed"}
    BY DEF WithOutcome, EvalStatus
  <2> QED BY <2>2, <2>3
<1>3. eval'.verdict = "Passed" => eval.suite # None /\ Meets(good, eval.suite)
  BY <1>1, <1>2 DEF VerdictInv, VerdictSound, Meets
<1>4. /\ (<<eval.rev, eval.suite>>)' = <<eval.rev, eval.suite>>
      /\ (eval.suite # None /\ Meets(good, eval.suite))'
           = (eval.suite # None /\ Meets(good, eval.suite))
  BY <1>2 DEF Meets
<1>5. CASE eval'.verdict = eval.verdict
  BY <1>4, <1>5 DEF Gate!vars
<1>6. CASE eval'.verdict \in {"Passed", "Failed"}
  BY <1>3, <1>4, <1>6 DEF Gate!Judge, Running
<1> QED BY <1>2, <1>5, <1>6

(* An answer may complete what the threshold asks; it takes nothing back.  *)
LEMMA SendImplemented ==
  ASSUME PromotionInv, NEW p \in Process, Send(p)
  PROVE  Gate!Answer \/ UNCHANGED Gate!vars
<1>1. /\ ev[p].rev \in Digest /\ ev[p].suite \in Suite /\ ev[p].case \in Case
      /\ None \notin Suite /\ good \subseteq Case
      /\ eval.suite \in Suite \cup {None}
  BY ConstantsAssumption
     DEF Send, PromotionInv, ClaimInv, TypeOK, PassType, HistoryType, EvalType, EvalStatus
<1>2. PICK ok \in Reads.answer :
        good' = IF ok /\ ev[p].current THEN good \cup {ev[p].case} ELSE good
  BY DEF Send
<1>3. /\ earned' = IF ev[p].current /\ Meets(good', ev[p].suite)
                   THEN earned \cup {<<ev[p].rev, ev[p].suite>>} ELSE earned
      /\ UNCHANGED <<active, how, gatesPassed, eval>>
  BY DEF Send, status
<1>4. CASE ev[p].current /\ Meets(good', ev[p].suite)
  <2>1. eval.rev = ev[p].rev /\ eval.suite = ev[p].suite
    BY <1>4 DEF PromotionInv, VerdictInv, CurrentRecorded, Recorded
  <2>2. (eval.suite # None /\ Meets(good, eval.suite))' = TRUE
    BY <1>1, <1>3, <1>4, <2>1 DEF Meets
  <2>3. earned' = earned \cup {<<eval.rev, eval.suite>>}
    BY <1>3, <1>4, <2>1
  <2>4. UNCHANGED <<active, how, <<eval.rev, eval.suite>>, eval.verdict, gatesPassed>>
    BY <1>3
  <2>5. <<eval.rev, eval.suite>> \in Digest \X Suite
    BY <1>1, <2>1
  <2> QED BY <2>2, <2>3, <2>4, <2>5 DEF Gate!Answer
<1>5. CASE ~(ev[p].current /\ Meets(good', ev[p].suite))
  <2>1. earned' = earned
    BY <1>3, <1>5
  <2>2. (eval.suite # None /\ Meets(good, eval.suite))'
          = (eval.suite # None /\ Meets(good, eval.suite))
    <3>1. CASE ~ev[p].current
      BY <1>2, <1>3, <3>1 DEF Meets
    <3>2. CASE ev[p].current
      <4>1. eval.suite = ev[p].suite /\ ~Meets(good', ev[p].suite)
        BY <1>5, <3>2 DEF PromotionInv, VerdictInv, CurrentRecorded, Recorded
      <4>2. good \subseteq good' /\ good' \in SUBSET Case
        BY <1>1, <1>2
      <4>3. ~Meets(good, ev[p].suite)
        BY <1>1, <4>1, <4>2, MeetsMono
      <4> QED BY <1>3, <4>1, <4>3 DEF Meets
    <3> QED BY <3>1, <3>2
  <2> QED BY <1>3, <2>1, <2>2 DEF Gate!vars
<1> QED BY <1>4, <1>5

(* A step of an eval pass is a step of Promotion, or one it does not see.  *)
LEMMA EvalStepImplemented ==
  ASSUME PromotionInv, VerdictInv', NEW p \in Process, EvalStep(p)
  PROVE  Gate!Next \/ UNCHANGED Gate!vars
<1>0. eval \in EvalStatus /\ ev[p] \in EvalPass
  BY DEF PromotionInv, ClaimInv, TypeOK, PassType, EvalType
<1>1. CASE \/ EvalBegin(p) \/ EvalCheck(p) \/ DropOutcome(p) \/ EvalStop(p)
  <2>1. UNCHANGED <<active, how, gatesPassed, eval, good, earned>>
    BY <1>1 DEF EvalBegin, EvalCheck, DropOutcome, EvalStop, status, history
  <2> QED BY <2>1, TestFrame DEF Gate!vars, Gate!test
<1>2. CASE StartRun(p)
  BY <1>2, StartImplemented DEF Gate!Next
<1>3. CASE Interrupt(p)
  <2> DEFINE e == [eval EXCEPT !.cases = ev[p].seen]
  <2>1. /\ e \in EvalStatus /\ e.rev = eval.rev /\ e.suite = eval.suite
        /\ e.verdict = eval.verdict
    BY <1>0 DEF EvalStatus, EvalPass
  <2>2. FirstOf(Sending(p)) \in Case
    BY <1>3, SuiteCaseType, FirstOfIn DEF Interrupt, PromotionInv, ClaimInv
  <2>3. eval' = WithOutcome(e, FirstOf(Sending(p)), "Failed")
    BY <1>3 DEF Interrupt
  <2> HIDE DEF e
  <2>4. Running /\ UNCHANGED <<active, how, gatesPassed, good, earned>>
    BY <1>3 DEF Interrupt, Running, status, history
  <2>5. "Failed" \in Outcome
    BY DEF Outcome
  <2> QED BY <2>1, <2>2, <2>3, <2>4, <2>5, OutcomeImplemented DEF Gate!Next
<1>4. CASE Claim(p)
  <2>1. /\ eval'.rev = eval.rev /\ eval'.suite = eval.suite /\ eval'.verdict = eval.verdict
        /\ UNCHANGED <<active, how, gatesPassed, good, earned>>
    BY <1>0, <1>4 DEF Claim, EvalStatus, status, history
  <2> QED BY <2>1 DEF Gate!vars, Meets
<1>5. CASE Send(p)
  BY <1>5, SendImplemented DEF Gate!Next
<1>6. CASE RecordOutcome(p)
  <2> DEFINE o == IF ev[p].ok THEN "Passed" ELSE "Failed"
  <2>1. /\ o \in Outcome /\ eval' = WithOutcome(eval, ev[p].case, o)
        /\ UNCHANGED <<active, how, gatesPassed, good, earned>>
    BY <1>6 DEF RecordOutcome, Outcome, status, history
  <2>2. ev[p].case \in Case
    BY <1>6 DEF RecordOutcome, PromotionInv, ClaimInv, TypeOK, PassType
  <2>3. Running
    BY <1>6, StandingRuns DEF RecordOutcome, PromotionInv
  <2> HIDE DEF o
  <2> QED BY <1>0, <2>1, <2>2, <2>3, OutcomeImplemented DEF Gate!Next
<1> QED BY <1>1, <1>2, <1>3, <1>4, <1>5, <1>6 DEF EvalStep

(* A superseded verdict that is cleared is forgotten. *)
LEMMA ClearImplemented == ASSUME PromotionInv, ClearSuperseded PROVE Gate!Forget
<1>1. /\ eval.verdict = "Failed" /\ eval'.verdict = ""
      /\ eval'.rev = eval.rev /\ eval'.suite = eval.suite
      /\ UNCHANGED <<active, how, gatesPassed, good, earned>>
  BY DEF ClearSuperseded, Superseded, PromotionInv, ClaimInv, TypeOK, EvalType, EvalStatus,
         status, history
<1> QED BY <1>1 DEF Gate!Forget, Meets

LEMMA StepImplemented ==
  PromotionInv /\ VerdictInv' /\ [Next]_vars => [Gate!Next]_Gate!vars
<1> SUFFICES ASSUME PromotionInv, VerdictInv', [Next]_vars
             PROVE  Gate!Next \/ UNCHANGED Gate!vars
  OBVIOUS
<1>1. CASE RecReport \/ RecHold
  BY <1>1, ReturnReports DEF Gate!Next
<1>2. CASE RecPass
  BY <1>2, PassImplemented DEF PromotionInv, Gate!Next
<1>3. CASE RecStep /\ ~RecReport /\ ~RecHold /\ ~RecPass
  <2>1. UNCHANGED <<active, how, gatesPassed, eval, good, earned>>
    BY <1>3, RecQuiet, PromotionFrame DEF RecStep, Next, Quiet, history
  <2> QED BY <2>1, TestFrame DEF Gate!vars, Gate!test
<1>4. CASE ClearSuperseded
  BY <1>4, ClearImplemented DEF Gate!Next
<1>5. CASE \E p \in Process : EvalStep(p)
  BY <1>5, EvalStepImplemented
<1>6. CASE UNCHANGED vars
  <2>1. UNCHANGED <<active, how, gatesPassed, eval, good, earned>>
    BY <1>6 DEF vars, status, history
  <2> QED BY <2>1, TestFrame DEF Gate!vars, Gate!test
<1> QED BY <1>1, <1>2, <1>3, <1>4, <1>5, <1>6 DEF Next, RecStep, EvalStep

LEMMA InitImplemented == Init => Gate!Init
<1> SUFFICES ASSUME Init PROVE Gate!Init
  OBVIOUS
<1>1. active = None /\ how = None /\ gatesPassed = None /\ earned = {}
  BY DEF Init
<1>2. eval.rev = None /\ eval.suite = None /\ eval.verdict = ""
  BY DEF Init, NoEval
<1>3. (eval.suite # None /\ Meets(good, eval.suite)) = FALSE
  BY <1>2
<1> QED BY <1>1, <1>2, <1>3 DEF Gate!Init

(* The two controllers implement Promotion for any number of processes,    *)
(* revisions, suites and cases: a revision the gate promotes had a verdict *)
(* that stood and that its own test earned, a verdict is given once and    *)
(* forgotten only when it failed, a pair is not put to the test again      *)
(* while its verdict stands, and GatesPassed turns True only of the        *)
(* revision that serves (decideGate, startRun, record, clearSuperseded).   *)
THEOREM PromotionImplemented == Spec => ImplementsPromotion
<1>1. Init => Gate!Init
  BY InitImplemented
<1>2. Init => PromotionInv
  BY ClaimInit, VerdictInit, RecordInit, OpenInit DEF PromotionInv
<1>3. PromotionInv /\ [Next]_vars => PromotionInv'
  <2>1. ClaimInv => TypeOK
    BY DEF ClaimInv
  <2> QED BY <2>1, ClaimInductive, VerdictInductive, RecordInductive, OpenInductive
          DEF PromotionInv
<1>4. PromotionInv' => VerdictInv'
  BY DEF PromotionInv
<1>5. PromotionInv /\ [Next]_vars => [Gate!Next]_Gate!vars
  BY <1>3, <1>4, StepImplemented
<1> QED BY <1>1, <1>2, <1>3, <1>5, PTL DEF Spec, ImplementsPromotion, Gate!Spec
=============================================================================
