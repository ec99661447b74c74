# TLA+ models of assayd

assayd is a Kubernetes operator. An `Agent` object describes an agent's runtime; the operator
turns its spec, with the content of the ConfigMaps and Secrets its env refers to, into a
*revision*, runs each revision as a Deployment in a namespace it owns, checks a new revision
against an `EvalSuite` before letting it serve, and publishes it behind a gateway route only
once its auth policy is in force. This directory holds TLA+ models of the protocols behind
that, the TLC configurations that check them and the TLAPS proofs of what matters most.

## 1. Inventory

| Component | Source (`src/internal/controller` unless said) | State | Operations | What makes it correct |
|---|---|---|---|---|
| Agent reconciler | `agent_controller.go`, `conditions.go`, `release.go` | `Agent.status`: active and candidate revision, cards, conditions | one pass: resolve sources, mint digest, namespace, material, workload, Service, card, gate, promote, gateway, status write, GC | a revision serves only when it may; a pass cut short converges; nothing in use is collected |
| Promotion gate, pin rule | `gate.go`, `pinrule.go` | reads `status.eval` | `decideGate`, `pinIneligible`, GatesPassed report | a promotion or a report follows from a run that was passed |
| Eval controller | `evalcontroller.go`, `sendpredicates.go` | `status.eval`: pair, cases with claims, verdict, `failed[]`, `passed[]` | clear, start run, claim, send, record, interrupt | no case sent twice; no answer counted for another run; bounded lists keep what is read |
| Run namespace binding | `runnamespace.go`, finalizer in `agent_controller.go` | the binding ConfigMap, the run Namespace, a mutex per name | 14 checks, handler, last-Agent rule, finalizer, Namespace-keyed reconciler | no namespace adopted, none deleted in use, none stranded; Agents placed and released |
| Auth transactions | `authtxn.go`, `auth*.go`, `policyreads.go`, `evalclause5.go` | `status.auth`: mode, transaction kind, stage, deadline | Create, Adopt, Lock; probes; abandon | a route is published only after an anonymous request is refused |
| Gateway route | `httproute.go`, `gatewaywiring.go` | HTTPRoute | apply, sweep, revoke | never outlives its policy |
| Revision Service | `service.go` | Service, `status.revisionServices` (UIDs) | ensure, replace, record, collect | a Service is replaced only when it is provably the operator's |
| Revision material | `material.go`, `injectedenv.go` | immutable copies | ensure, verify, collect | a revision's bytes do not change and do not outlive it |
| Agent card | `card.go`, `discovery.go` | `status.cards[]` | fetch, validate, prune | one digest per revision |
| Revision digest | `src/internal/revision` | none | canonical encoding, hash, 40-bit name | equal inputs give equal digests; a name is not an identity |
| Eval suite | `src/internal/evalsuite` | none | digest, threshold | exact arithmetic in thousandths |
| Eval client | `src/internal/evalclient` | none | one A2A request | I/O |
| Policy compiler | `src/internal/compiler` | none | spec to policy objects | pure data |
| Operator process | `src/cmd/operator` | lease, caches | leader election, 30 s graceful stop | old and new leader may overlap |

The parts interact only through objects: two controllers write `Agent.status` by
compare-and-swap and share no lock; the run-namespace writers share a ConfigMap and, within a
process, a mutex; workload lists come from a cache that lags, while ConfigMaps, Secrets,
Namespaces and the EvalSuite are read live. What is hard to get right is therefore
interleaving and staleness: a pass reads, calls out for up to a minute, and writes; a lease
handover leaves two processes at work; any call may fail and any process may die between two
writes. The hazards are listed, each at its line, in `PROJECT.json`.

## 2. Modules

| Module | What it is |
|---|---|
| `EvalGate` | both writers of one Agent's rollout: AgentReconciler's pass, the gate, EvalReconciler's pass in each process |
| `Promotion` | the abstract specification `EvalGate` implements |
| `MCEvalGate` | its instances; `EvalClaims`, `EvalRollout`, `EvalSettles` |
| `EvalGateProofs`, `EvalVerdictProofs`, `EvalRecordProofs` | type correctness; the claim protocol, verdicts, promotions and reports; the record `failed[]`, `passed[]` and outcomes, and that it implements `Promotion` |
| `RunNamespace` | the binding record, the run namespace and everyone who touches them |
| `MCRunNamespace` | its instances; `RunBinding`, `RunHandover`, `RunSettles`, `RunOrphan` |
| `RunNamespaceProofs`, `RunCustodyProofs` | type correctness and that nothing is adopted; that nothing is lost, deleted in use or left behind |
| `AuthTransaction` | the -auth transactions of one Agent, its route and its policy |
| `Publication` | the abstract specification `AuthTransaction` implements |
| `MCAuthTransaction` | its instances; `AuthPublishes`, `AuthSettles` |
| `AuthTransactionProofs`, `AuthProbeProofs` | its invariants, and that it implements `Publication`; what a probe is worth |
| `Revisions` | the Deployment, copies and Service of each revision, the active one, and collection |
| `MCRevisions` | its instances; `RevRollout`, `RevLag`, `RevSettles` |
| `RevisionsProofs` | its invariants, with caches that lag: status and records, what is collected, what is there |

Each module takes one protocol and abstracts the others to what they hand over: `EvalGate` sees a
transaction as the value a pass leaves recorded, `AuthTransaction` sees a promotion as a revision
that becomes active, `Revisions` sees the gate as a choice to hold an available candidate, and
all three start where `RunNamespace` has granted a namespace.

Definitions whose comment begins with "Mutant" are faulty variants of the definition after
them. No action uses them; each shows that some property notices that fault.

### EvalGate

`spec`, `suite` and `content` are what users edit; `observed`, `active`, `cand`, `cards`,
`gatesPassed`, `tx` and `eval` are the fields of `Agent.status` the two controllers read and
write; `rec` and `ev[p]` are the passes under way; `sent`, `resent`, `good`, `earned` and `how`
are history.

* A pass of AgentReconciler is `RecBegin` (read the env source), `RecRead` (read the suite),
  then one of the ways it ends: `RecPass` (the whole pass, its status write included),
  `RecReport` and `RecHold` (the early returns), `RecPersist` (the write of `status.auth` ahead
  of the gateway step) or `RecStop` (error or conflict).
* A pass of EvalReconciler is `ClearSuperseded`, or `EvalBegin`, `EvalCheck` (suite, verdict
  and send predicates), then `StartRun`, `Interrupt` or `Claim`; after a claim `Send`, then
  `RecordOutcome` or `DropOutcome`. `EvalStop` ends it anywhere: an error, a conflict, a crash.
* A status write is a compare-and-swap, so a pass that was overtaken (`stale`) can only stop.
  Its reads of the Agent are folded into the write they lead to: a write that is not refused
  was computed from the object it replaces. What a pass reads elsewhere is kept in `rec` and
  `ev[p]`. One reconciler slot is enough, since a second, stale pass can only abort; sends need
  a slot per process, because a send goes on after its process has lost the lease.
* A claim's nonce is represented by the process that made it, which has one claim out at a
  time. A suite that is absent, unreadable or without a digest reads as `None`.
* Left out: `status.eval.blocked` and the waits it reports; the list of superseded candidates;
  conditions other than GatesPassed; the unwired-gate mode; workload names, where two digests
  may collide. Sends that outlive the run they belong to are not counted by `NoCaseSentTwice`;
  what their answers may do is what `ImplementsPromotion` and `OutcomeFinal` are about.
* `Promotion` forgets passes, processes, snapshots, single cases and the two lists: a pair under
  test, its verdict, whether its own answers are enough, the revision that serves, what made it
  serve, and what the owner is told. The mapping is `Gate`. In it `Promote` by the gate asks for a
  standing verdict of that revision, `Start` for a pair whose verdict does not stand, `Judge` for
  answers of the same test, `Forget` for a verdict that failed, and `Truthful` for a pass of the
  revision that serves. A pin and an ungated Agent promote with no verdict, as in the code.

### RunNamespace

`source`, `agents` and `run` are the namespaces and the Agents (by UID); `record` is the
binding ConfigMap; `pass[w]` is where worker `w` stands; `stale` holds the workers whose copy of
the record was overtaken; `unseen` holds the Agents whose workload the cache does not show yet;
`made` is history.

* `ensureRunNamespace` is `EnsureBegin` (the source's UID is read before the mutex),
  `EnsureLock`, then its checks: 3 `NewRecord`; 5 `Discard` and `Drop`, or `Retire`; 7
  `CreateRun`, `Mirror`, `Bind`; 9 `DiscardCrashed`, `Rotate`; 11 `Rebuild`; 12 `Retire`; 14
  `UseBound`. Checks 1, 2, 4, 8, 10, 13 and lost races end the pass: `Wait`. The pass goes on to
  `PlaceCopies` and `PlaceWorkload`, which write by name.
* `runNamespaceHandler` is `HandleNothing`, `HandleGone`, `HandleGoing`, `List`, `Count`,
  `Keep`, `Give`, `HandleDelete`; `runNamespaceStillNeeded` is its two lists.
* The finalizer is `FinalClean`, `FinalLock`, `RetireLast` or `RetireConflict`, the handler,
  `FinalRelease`. Its sweep is one step.
* A read is folded into the call it leads to when that call repeats the test: creating an
  object that exists fails, a namespace is deleted with its UID as a precondition, a swap fails
  on an old resourceVersion. The record's *deletion* has no precondition, and has none here.
* `Fail` cuts a pass short anywhere, releasing the mutex: an API error or a crash.
* `CreateAgent` stands for the creation and the pass that adds the finalizer. Left out:
  external Agents (neither list counts them), the label-authority check, labels, the gateway
  revocation ahead of the sweep, records written by hand. Check 4 (two sources with one run
  namespace name) is in the model; the instances have one source.

### AuthTransaction and Publication

`want` is `spec.expose.a2a.auth` (with whether a `spec.budget` is stored, which does not compile);
`auth` is `status.auth`; `route`, `policy` and `foreign` are the HTTPRoute, the Agent's policy and a
stranger's; `above` says that a policy on the Gateway could answer the probe; `cached` is the
manager's copy of the route and `proxy` what the proxy serves with; `pass` is the pass under way;
`legacy`, `loosed`, `credit` and `missed` are history, the last one set when `ensureServingRoute` skips its
write because a stale copy of the route, with other backends than the stored one, is as it should be.

* A pass is `gatewayStep`, which decides as `authStep` does (`StepAdopt`, `StepFound`,
  `StepCreate`, `StepAbandon`, `StepResume`, `enterLock`, `recreateRoute` ...), and then the stages
  of `runCreate`, `refuseAdopt` and `runLock`, one action per write and one on each side of a probe. A stage
  is recorded before the write it authorizes (`persistStatus`), so a pass may be cut short between the
  two; `Fail` does that anywhere.
* Every writer of the route goes through `ensureServingRoute`, which reads the cache, writes only
  on a difference and loses a race as the code does. Policies are read live.
* A probe sees the proxy, which follows the objects later (`ProxySyncs`): a 401 may come from the
  Agent's policy, one above it, a foreign one or a backend; who gave it is recorded in `credit`, and
  the code's own test of attribution (`Clean`, the first and second read of the Gateway) decides
  whether it is credited.
* `finalize`, `revokeGateway`, `RevokePolicy` and `ReleaseAgent` are the finalizer's pass; `collectRoutes` is the
  sweep of a pass that keeps no route. A delete that somebody's finalizer holds leaves the object there (`held`).
* `Publication` forgets stages, passes, caches and crashes: a door that is shut, open or keyed, a
  guard, a proof, and what the owner is told. The mapping is `Exposure`.
* Left out: the conditions a pass reports about the gateway (`authserved.go`), the sources of keys,
  the wording of refusals. What others do is bounded by `MaxTampers`, and `loosed` remembers that
  they touched the policy: the promises about the policy are made up to that, as the code makes them.

### Revisions

`agent` is the spec's digest and pin and the status (active, candidate, Service records, the replace
slot, cards, Ready); `fleet` is the Deployments, each with those created after it; `mat` and `svc` are
copies and Services by name; `seen`, `listed` and `svcListed` are the caches; `pass` is the pass under
way; `touched`, `made` (the Services the operator created, and for which revision), `adopted` (those it
converged) and `lost` (those it could not record, or dropped the record of) are history, and so are the
gaps a pass may leave: `ghosts` (names promoted on a cached Deployment that was gone), `unlisted` (names
whose copies and Service were swept under a Deployment the pass had not listed) and `cut` (names whose
pass died before it came to the Service). Ensuring the Service again ends the last two.

* A pass is `Begin` (which mints, refuses a collision, resolves a pin), `ensureRevisionMaterial`,
  `ensureWorkload`, `ensureService` with `replaceDeletes`, `replaceCreates` and
  `persistServiceRecord`, then `NotAvailable`, `Held` or `Promote`, `WriteStatus`, `collectGarbage`
  (`CollectWorkload`, `collectRevisionMaterial`, `collectRevisionServices`) and `Prune`. `Report` is the exit of a refusal;
  `GatewayFails`, `RecordRides` and `Fail` are the failures.
* The status write is a compare-and-swap on the Agent the pass read. One that would change nothing
  may not reach the API server and is then not compared, so the collection after it may belong to
  an overtaken pass; that is modelled.
* `collectGarbage` fixes what goes from the list the pass began with; `CollectWorkload` deletes the
  newest of what is left, one write at a time, and the sweeps and `Prune` follow.
* `NameOf` maps digests to names and need not be injective. Equal names with unequal digests are
  told apart by the stamp on the object and the digest in status, as in the code.
* Left out: which env variables a copy serves (one source per revision), admission and dry-run
  refusals of a Service, creation times within one second, card fetching.

## 3. Runs

| Run | Instance | Checks | States |
|---|---|---|---|
| `EvalClaims` | 2 processes, 2 suites, 2 cases, a pin, 2 edits | `NoCaseSentTwice`, `ImplementsPromotion`, `OutcomeFinal` | 540k |
| `EvalRollout` | gates declared and removed, pins, missing source, every step may fail, 2 edits | `TypeOK`, `GatedPromotionEarned`, `GatesPassedEarned` | 774k |
| `EvalSettles` | fairness, crashes in mid-case, room for one entry in `passed[]` and two in `failed[]`, 2 edits | `RunNotFailed`, `FailedVerdictRecorded`, `PassedNotFailed`, `ActivePassRecorded`, `RolloutSettles` | 104k |
| `RunBinding` | 1 process, 2 workers for any key, an outsider who creates, 6 edits, 1 fault | `TypeOK`, `OwnNamespaceKnown`, `CopiesCollected`, `LiveKept` | 943k |
| `RunHandover` | 2 processes, an outsider who creates and deletes, 4 edits | `GrantSound`, `DeletingUnused` | 937k |
| `RunSettles` | fairness, workers as registered, an outsider, 4 edits, 1 fault | `QuotaFirst`, `AgentsPlaced`, `AgentsReleased` | 18k |
| `RunOrphan` | workers as registered, a cache that lags | `WorkloadsCollected`: **violated** | |
| `AuthPublishes` | a new or a found Agent, 2 revisions of which the second answers 401 itself, lagging route cache, 1 edit, 1 tampering | `TypeOK`, `Policed`, `AdoptOnlyFound`, `UnprobedUnserved`, `PublishedProved`, `CreditAttributed`, `OneWay`, `ImplementsPublication` | 1.6M |
| `AuthSettles` | fairness, no lag, held deletes, a `spec.budget` stored or not, 1 edit, 1 tampering, 1 fault | `OpenRecordUnpoliced`, `ReleasedClean`, `AuthSettles` | 701k |
| `RevRollout` | 3 digests, two with one name, a gate, history of 1, 4 edits, 1 fault | `TypeOK`, `CopiesKept`, `ActiveAddressed` | 1.7M |
| `RevLag` | 3 digests, two with one name, every cache may lag, no history, 2 edits; the two digests of one name are interchangeable (symmetry) | `ActiveRuns`, `CopiesKept`, `ActiveNotCollected` | 1.7M |
| `RevSettles` | fairness, 2 digests, no history, tampering with any object, 1 edit, 1 tampering, 1 fault | `ServiceRecorded`, `OnlyOwnReplaced`, `RevisionsSettle` | 227k |

**Bounds.** Two cases and two suites give a partial score, a suite that shares a case with the
other, and a threshold that one answer meets. `MaxPassed = 1` makes the first eviction happen at
the second pass. Two edits are enough for a suite to change and change back, or for a run, a
replacement and an eviction. Six edits let a source be deleted and recreated with an Agent in
each life. `MaxIds` bounds the UIDs and nonces handed out; in `RunSettles` it is never reached
where it could stop a pass (a pass that could go no further would violate `AgentsPlaced`). A
fault is not needed in `RunHandover`: a pass that takes no further step is a crashed one. In
`AuthTransaction` one edit turns a mode in the middle of a transaction, one tampering falls between a
probe and the publication. The fault between a record and its write is in `AuthSettles`, with the
deletes that somebody's finalizer holds; for the properties of `AuthPublishes` both are left to the
proofs, which bound neither and cover all of them. In
`Revisions` four edits fill a history of one and pin what is in it; with no history every
superseded revision is collected. Two edits under lag are enough for a sweep under a Deployment that
the cache does not show and for a promotion on one that is gone; crashes together with lag are left to
the proofs.
`CHECK_DEADLOCK FALSE`: once the edits are used up the system rests.

**Fairness.** EvalGate: both controllers requeue every key after an interval or on a watch
event, so passes keep starting (weak fairness); timeouts bound a pass, so it ends; a step that
is retried for ever is not refused for ever (strong fairness on the steps that may lose a
race). RunNamespace: a wait is requeued after 5 s, a terminal refusal after the card drift
interval, an error with a backoff, so each Agent keeps being taken, whatever else the worker
does in between (strong fairness); a pass goes on (weak); Kubernetes finishes deleting a
namespace and caches catch up (weak). AuthTransaction: a waiting transaction requeues itself and
the drift interval brings every Agent back (weak fairness on `Worker`); the Gateway reports, the
proxy and the cache follow, a finalizer of somebody else is released and what blocks a
transaction is removed in the end (weak, on what is not the operator's). Revisions: the same for
`Worker`, the caches, time and the Deployment controller.

**RunOrphan.** `finalize` lists Deployments and Services through the cached client, sweeps
what it is shown and releases the finalizer. A Deployment created just before may not be shown;
if another Agent keeps the run namespace, it stays, with nothing left that would collect it.
`main.go` names this trap for ConfigMaps and Secrets and reads those uncached, which is why
`CopiesCollected` holds with the same lagging cache.

**What holds only within limits.**

* `LiveKept` is checked while nobody else deletes the namespace: writes after a grant go by name,
  so if an outsider deletes the namespace under a pass of one worker and a second Agent worker has
  just made the next one, the first worker's copies land there before it is bound, and check 9 may
  then delete it. One Agent worker, as registered, does not have this window. `OwnNamespaceKnown`
  is checked within one process; in a handover a late, unconditional delete of the record can
  strand a namespace. Both are in the list of hazards. `DeletingUnused` is checked for two workers,
  one in each of two processes, and proved for one process; with a third process and an outsider who
  deletes the namespace at the right moment TLC violates it, through the same writes by name.
* `UnprobedUnserved` excepts one case, `missed`, which is reached when the cache lags: `ensureServingRoute`
  writes nothing when the cached route equals the render, so a Create that published, lost its pass and
  goes back to PreparingRoute may skip taking the backends away and write the policy again under a route
  that serves, which `authtxn.go:1400` rules out. The next pass that reads the route as it is takes them away.
* `CreditAttributed` speaks of the backend the route names and of a policy that stood through the
  probe. A prepared route "answers 500, never 401" (`authtxn.go:1350`) only once the proxy has followed:
  until then it may still serve the route's former backend, and a revision that answers 401 itself
  is credited. A Create resumed while a finalizer holds the delete of its policy finds that policy
  intact and publishes under it; when the finalizer is released the route carries backends with no
  policy until the next pass. `Policed` counts a policy being deleted as a policy, as
  `authPolicyIntact` does.
* `CopiesKept`, `ActiveRuns` and `ActiveAddressed` hold however the caches lag, but for the gaps above,
  which are real. Copies are listed live, Services from a cache of their own, and the set that survives
  comes from cached Deployments (`material.go:316`, `service.go:961`), so a revision whose Deployment is
  not listed yet loses its copy and its Service (`unlisted`); never the active revision, as
  `ActiveNotCollected` says. Asked for again, it gets its copy back, stops on the Deployment that its
  cache does not show (`AlreadyExists`) before the Service, and a pin may then promote it with none.
  A pass may find the revision asked for still in the cache, just collected, and promote it with no
  Deployment (`ghosts`); the next pass makes it again. And a pin resolves against the Deployment alone
  (`agent_controller.go:734`), so a revision whose pass died between Deployment and Service (`cut`) can
  be pinned and promoted with no Service.
* `OnlyOwnReplaced` is about the replace only. The sweep of the names that left the retained set
  (`collectRevisionServices`, `service.go:961`) goes by labels and name: a headless Service that somebody
  planted at such a name with the operator's labels is deleted though the operator neither created nor
  converged it, where `service.go:473` says that such an object is "never deleted".
* `clearSuperseded` is one step, `ClearSuperseded`: decided on the Agent as read and written with a
  compare-and-swap on that Agent. A clear without the comparison is not among the faults the runs notice.
* The history is ordered by when a Deployment was created (`agent_controller.go:2332`), so after a
  rollback, or with candidates that never served, promoting the next revision can collect the one it
  takes over from. The replace window is one slot in status (`service.go:579`): replacing the Service
  of a second revision forgets the first. A pin checks that a copy is there and which source it names
  (`release.go:221`), not its bytes. The two branches that hold an available candidate
  (`agent_controller.go:1034`, `1069`) report Ready from the name in status, though the active
  Deployment may be gone. No property here says otherwise.

## 4. Proofs

| Theorem | Says, for every value of the constants |
|---|---|
| `TypeCorrect` | EvalGate keeps its types |
| `SentAtMostOnce` | no case is sent twice in a run |
| `PassedVerdictSound` | a Passed verdict is backed by answers of its own run |
| `PromotionEarned` | a gated promotion follows a run that met the threshold |
| `ReportEarned` | so does GatesPassed=True |
| `RunsNotFailed` | a run under way is not of a pair recorded failed |
| `FailedVerdictsRecorded` | a Failed verdict is in `failed[]` |
| `PassedNeverFailed` | no pair is in `passed[]` and `failed[]` |
| `ActivePassKept` | the pass the active revision was promoted by stays in `passed[]` |
| `OutcomesFinal` | an outcome never changes within its run |
| `PromotionImplemented` | EvalGate implements Promotion |
| `BindingTyped` | RunNamespace keeps its types; a record past Creating names a UID |
| `NothingAdopted` | a pass is granted only a namespace the operator made for its source |
| `OwnAlwaysKnown` (`OneProcess`) | a run namespace of the operator's is named by the record, or going |
| `CopiesNeverLeft` (`OneProcess`) | no copy of a Secret outlives its Agent |
| `DeletingNeverUsed` (`OneProcess`, `NoDeleter`) | a namespace given up serves no live Agent |
| `LiveAlwaysKept` (`OneProcess`, `NoDeleter`) | no step starts deleting a namespace in use |
| `QuotasFirst` (`OneAgentWorker`) | no workload before the quotas |
| `AuthTypes` | AuthTransaction keeps its types |
| `AuthPoliced` | no pass publishes a route without its policy |
| `AuthAdopts` | only a route published before any record is adopted, though the cache lags |
| `AuthRecordsFirst` | a record that names no policy means there is none |
| `AuthMarks` | a route the operator opened says so |
| `AuthProves` | a Create is at Publishing only with a credited probe of the policy as it is |
| `AuthOneWay` | an Agent recorded as locked is never recorded as open |
| `AuthImplements` | AuthTransaction implements Publication |
| `AuthReleases` | a released Agent has no route and no policy left |
| `AuthUnserved` | no backend on a Create's route between writing the policy and crediting a probe, unless the last write was skipped on a stale copy |
| `AuthAttributes` | a credited 401 is not the named backend's, nor from a policy that stood on the Gateway |
| `RevisionsTyped` | Revisions keeps its types |
| `ServicesRecorded` | a Service the operator created, and that stands, is on record, whatever lags |
| `ReplacesOnlyOwn` | a replace deletes a headless Service only if the operator created or converged it |
| `ActiveSpared` | no collection touches the Deployment, copy or Service of the active revision, however stale its lists |
| `ActiveAlwaysRuns` | the active revision's Deployment runs what status names, and is there unless it was promoted on a cached one that was gone |
| `CopiesAlwaysKept` | a Deployment keeps the copy it was minted with, unless a collection ran on a list that did not show it |
| `ActiveAlwaysAddressed` | the active revision has its Service, unless a pin promoted what no pass had completed |

The proofs rest on `ConstantsAssumption` of the modules, and those of a theorem with a name in
brackets on that hypothesis:

* `OneProcess`: all workers belong to one process, which leader election gives outside a handover.
  `BindingTyped` and `NothingAdopted` do not need it. Any number of workers may take any keys.
* `OneAgentWorker`: at most one worker is served Agents. `SetupWithManager` leaves
  `MaxConcurrentReconciles` at 1 for Agents (`evalcontroller.go` alone sets 2).
* `NoDeleter`: nobody else deletes namespaces. With `OneProcess` alone `LiveKept` is false (section 3).

`RunBinding` is an instance of the first and the third, `RunSettles` of the second. Nothing is assumed
of caches: every theorem about `AuthTransaction` and `Revisions` holds however they lag.

*Sent at most once.* `~resent` is not inductive: it needs that a process that may send holds a
claim, that the claim is recorded as long as the pass is not stale, that no two processes hold
one for the same case, and that a case that was sent has an entry in `cases`. That is
`ClaimInv`; a claim is made only of a case with no entry, so none that was sent can be claimed
again.

*Verdicts, promotions, reports.* `VerdictInv` adds that a Passed outcome in the record is
backed by `good`, which an old send cannot touch because `ClaimStands` compares nonce, pair and
outcome. A verdict is computed from such outcomes, so `earned` holds what the verdict says, and
`earned` never shrinks; promotion and report follow from the pair the gate compares.

*The record of runs.* `RecordInv` ties the lists to the work under way: a pass that has looked and
has not been overtaken works for the pending candidate, which is not active (`CheckedPending`), and
whose pair has not failed (`CheckedNotFailed`); a decided verdict has every case final (`Decided`), so
nothing is decided twice; a run in progress is never that of a revision its gate promoted
(`ActiveNotRunning`). Hence `appendPassed`, which evicts the oldest entry that is not the active one,
runs only for another revision than the active one, and `removePassed` never takes the entry that
promoted it. The lemmas on `RemoveAt`, `appendFailed`, `appendPassed` and `removePassed` say what each
list operation keeps. `OutcomeFinal` needs `ClaimInv` alone: a late `RecordOutcome` is stopped by
`ClaimStands`, a claim is made only where no entry is.

*Promotion implemented.* `PromotionInv` is the three invariants above with `CheckedOpen`: a pass about
to write found no verdict on its pair and, not overtaken, would find none now, so that `StartRun` never
puts a pair that passed to the test again. A pass of the reconciler maps to `Promote` or `Report`
(`PassDecides`: the gate compares the verdict with the very digest it promotes), its early returns to
`Report`, `StartRun` to `Start`, `Send` to `Answer` or nothing, an outcome to `Judge` or nothing. An outcome reaches
only a Running record (`StandingRuns`), and is Passed only with the answers of this test
(`VerdictSound`, which is checked through the refinement and is a theorem of its own).

*Nothing adopted.* `BindInv` says that a binding in a state past Creating, recorded or copied
by a pass, names a namespace in `made` for the binding's source, and that a pass between create
and bind holds the UID of its own create response and a record of its own source. Each of the
fourteen checks, the handler and the finalizer preserve it one by one; no fact about the
mutex, the workers or the outsiders is used, so it holds across processes.

*Custody of the namespace.* `BaseInv` adds to `BindInv` what the passes carry. `LockInv` is what one
process gives: two passes inside the mutex are one (`Mutex`), so the record a pass holds there is the
record (`Reads`), and the queue gives a key to one worker, so the Agent a pass works for is as it
read it. On that rest: `CopiesInv` (a finalizer that has swept finds no copy again), `KnownInv` (between
its create and its bind a namespace is known to the pass that made it, and a nonce is dropped only
once the namespace is going), and `UseInv` (an Agent in use has a Bound, or Terminating and
undecided, record of the live namespace; "not needed", once answered for a Terminating record, stays
true). `QuotaInv` needs no mutex but that nobody else makes a namespace between a pass's mirror and
its workload, which is `OneAgentWorker`.

*Auth transactions.* The inductive invariant is `TypeOK /\ Standing /\ PcOK`. `Standing` is what
holds between passes: which records go together with which objects (a stage past Refused of an
API-key Create implies the record was written before the policy; a published, unmarked route has
its policy or was found so). `PcOK` is what a pass has established at the point it has reached, in
terms of the record (`PcRecord`: a writer of the policy runs only under a record that names it)
and of the objects (`PcObjects`: past the strip of an abandonment the route has no backend), and
that a locked Agent keeps its policy. It is needed because a pass acts on what it read before
others moved: each step is shown to leave `Good`, the invariant and the abstract step together, so
the refinement comes out of the same case analysis. The cache is unconstrained in the invariant:
whatever it shows, what is written stays within it, which is why lag is no hypothesis.

`AuthReleases` adds `Released`: a pass at the release, and an Agent that is gone, have neither route
nor policy, and a gone Agent is in no pass. Only `RevokePolicy` leads there (`Onward` is every other
step of a pass), and nobody else makes a route or a policy with the Agent's UID.

`AuthUnserved` needs what a pass at the record of a prepared route knows: the route it has just written
is prepared, or it wrote nothing on a copy with other backends (`EnsurePrepares`); and nobody else
gives a route backends. `AuthAttributes` needs
`CreditInv`: a card, like the answer before a Lock, was given without credentials (`CardsOpen`,
`BeforeOpen`); the answer before belongs to the backend of the route the pass holds, because a
promotion forgets it and a missing policy's Lock never has one (`RouteHeld`, `BeforeRecord`); and an answer
from above leaves its policy for the second read, unless that policy went in between, which is the
flicker the property excepts (`AnswerHeld`). Most steps are `Quiet`: they neither open the route,
nor credit, nor hold another route.

*Revisions.* `StatusInv` is about reads and writes of the Agent. A pass that is not stale holds the
Agent as it is (`BaseOK`). A cached Agent is behind by at most one promotion, and that of the revision
it asks for itself (`SeenOK`): a pass that decides on an overtaken status can store nothing, so
it collects only if it had nothing to write, and then the active revision is the one it saw or the
one it was about, which are the two it protects (`CollectOK`). That is `ActiveSpared`. `RecordInv` says
the same of UIDs: every UID in any copy of the record is of a Service created or converged, a pass not
stale carries every record it will write over, and a pass at the wipe has a record for its revision.
`FleetInv` follows the objects. `CachedOK` says what a stale list is worth: where nobody touched, a
Deployment it shows and the one that stands under that name are of one digest, because one is created
only where the cache shows none and never changes its digest. `UntouchedOK` says that a Deployment is
stamped with what it runs and keeps its copy unless it was swept unlisted; `MadeOK`, what the pass
between copy and Service has made; `RunsOK`, that the active name, and the one a pass is about to make
active, hold the digest in question or a ghost; `Accounted`, that a collecting pass keeps or deletes all
it listed, so that a Deployment standing after its sweep was kept or is noted as unlisted; `Addressed`,
that a Deployment without a Service is that of the pass now making it, or one of the gaps. Each gap is
entered at one step only (`Promote`, `collectRevisionMaterial`, `Fail` before the Service), and left when
the Service is ensured, or the name promoted with its Deployment there: the exceptions are no wider than
what the code does. `ActiveProtected` is the link to `StatusInv`: a pass that collects protects the
active revision.

Only model-checked: the liveness properties `RolloutSettles`, `AgentsPlaced`, `AgentsReleased`,
`AuthSettles` and `RevisionsSettle` (TLAPS does not prove liveness under fairness), and
`DeletingUnused` across two processes. Every other property of the passing runs has its theorem.

## 5. Plan

1. `EvalGate` with `Promotion`, `RunNamespace`, `AuthTransaction` with `Publication`, `Revisions`:
   modelled, checked and proved, but for what section 4 lists as only model-checked.
2. Worth modelling next: what a pass reports about the gateway (`authserved.go`,
   `carryGatewayReport`, `reportAboveServed`): which claims a lost race keeps and which it drops.

## 6. Not modelled

The policy compiler's rendering, the reference generator, the Helm chart and generated code have no
state or interleaving of their own. HTTP, JSON and card parsing, hashing and canonical encoding are
represented by their results. Conditions other than GatesPassed and Ready, and the gateway report
above, are not modelled.
