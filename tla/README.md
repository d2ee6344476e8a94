# Formal model of MyFactory

MyFactory takes a coding Work, lets a model produce a candidate commit under a fixed budget,
verifies it and publishes it. It runs in two ways. The **supervisor** (`apps/supervisor`) is a
local process on SQLite, with a web application (`apps/web`) in which its owner decides. The
**hosted controller** (`apps/cloud-control`) is a set of serverless callbacks on PostgreSQL, a
queue that delivers at least once, and sandboxes it creates and deletes by name. In both, money
can be spent, machines can run and drafts can be sent by mistake, and in both the code is
interrupted at every `await`. This project models those parts of the system in TLA+, model-checks
them with TLC and proves what it can with TLAPS. Paths below are those of the repository.

## The system

| Component | State | Operations | What makes it hard | What makes it correct |
|---|---|---|---|---|
| Work spend ledger, `packages/storage/src/spend.ts`, `spend-policy.ts` | a budget row per Work (ceiling, plan, generation, writer, authority, phase), operation rows | createBudget, bindAuthority, beginCompletion, fenceAuthority, cancel(Bound), reserve, markDispatched, settle, releaseUndispatched, markUnknown, recoverUnknown | any caller at any time with a stale binding; several generations; late charges | one chargeable operation per Work, fences that hold, ceiling over all generations, exposure kept until proven gone |
| Spend gateway, `apps/supervisor/src/spend-gateway.ts` | handlers in flight, one gateway per stage of an attempt | handle a paid request | awaits between ledger calls, timeouts, a store that commits and still throws, restart | a charge is always on the books, every request is answered |
| Hosted ledger, `postgres-spend.mjs` | the same rows | the same, with the execution lease | connection failures after commit | the same |
| Hosted dispatch store, `postgres-dispatch.mjs`, `postgres-verification.mjs` | run, delivery intent, producer row, verifier row, custody, outcome | prepare, reserveDelivery, claim, heartbeat, recordAllocation, advance, retainCustody, reconcileExpired, confirmCleanup, finalize, stop, the verifier's calls | observations accepted in any order, leases, deadlines | one machine at a time, outcome proven, stop wins |
| Hosted execution, `cloud-work-lifecycle.mjs`, `cloud-verification.mjs`, `cloud-queue-consumer.mjs`, `cloud-work-control.mjs` | executor and observers between awaits | dispatch, deliver, execute, verify, reconcile, stop | duplicate and delayed deliveries, crashes at every await, creates that land late | the claim is unique, every claimed run ends |
| Job manager, agents, verification, `jobs.ts`, `packages/agents`, `packages/verification` | the one job, runs, orders, processes and containers on the host, recovery holds | start, run to its end, cancel, shut down, recover | crashes, processes that outlive the supervisor, copies of rows across awaits | one worker per worktree, records that agree, an abort that ends |
| Local dispatch, `dispatch-control.ts`, `local-execution-provider.ts` | append-only log of a prepared request | prepare, dispatch, stop, read | restarts, probes that fail, a second database | executed at most once, terminal only after the end |
| Actions, publication, `actions.ts`, `github.ts` | approvals, external actions, the draft at GitHub | request, approve, publish, reconcile | a remote effect with a lost or late answer | one carrying call, nothing sent after an outcome |
| Review and repair, `review-repair.ts` | observations, reviews, proposals, the chain of repairs | observe, review, propose, approve | check at proposal, use at approval | the chain stays in its first approval |
| Intake and Linear, `linear.ts`, `hosted-intake.ts` | WorkOrders, links, receipts | create, sync, poll | create under a saved id, retry, repeated polls | one issue per order, one order per key |
| Previews, `packages/app-builder/src/preview.ts` | one entry per app, its process group, its last event | start, stop, close | a stop or an exit during any step | no process survives its entry |
| Storage, `packages/storage/src/index.ts` | schema version, policy and decisions, signals, runs, publication requests, releases | open and migrate, compare-and-set of the policy, row groups | two builds on one file, an owner asked between read and write | no older schema, one decision per revision |
| Event streams, `server.ts` | events, listeners, what each stream wrote | append, announce, subscribe, replay | replay beside announcements, a stream destroyed meanwhile | once, in order, and of what was announced no hole |
| Capability policy and witness, `packages/capability-*`, `capability-controls.mjs` | policy revision, its head on another disk, admissions, controls | admit, claim, advance, pause, revoke | expiry and restored databases between read and use | what runs was admitted under the present policy |
| Qualification, `infrastructure-*.mjs`, `queue-delivery.mjs` | an attempt per trial, a session lock, a machine, a check | execute, reconcile, sweep, send, receive | lost connections, effects after the request was given up | clean means gone |
| Web application, `apps/web/src` | what a page shows, loads under way, history, forms | review and approve, create, cancel, switch | answers that arrive late or for another page | what is shown is what is acted on |
| feedback-hub template, `templates/feedback-hub` | records with revisions, a page with a form | write by agent or page, reload | a reload under an open form | no older version shown, no draft saved elsewhere |
| Producer results, `producer-results.ts`, `packages/hosted-routing/src/result.ts` | the snapshot and the frozen Result of a run, the registry a process was started with | capture, finalize, read, verify, compare | two processes that sign at once, rotation of keys, a clock that is set back | one Result, auditable ever after |
| Environment routing, `environment-router.ts`, `environment-adapters.ts` | the binding its caller keeps; descriptors, qualifications, grants | select, read back | inputs that change between two calls | what is selected is shown as able, a bound Work goes nowhere else |
| Connections, production authority, plans at startup, console | none beyond one call | pure functions | bytes and digests | left to tests |

They interact as follows. A WorkOrder is created by a page, a local caller or a poll of Linear,
and gets its Linear issue. It is run by a plain start or by a connection that prepared it; either
takes the one job. Preparing a Work creates its budget; dispatching binds one writer to it. Each
model call of that writer goes through a gateway and is one ledger operation. The host asks the
ledger before it begins completion and before it takes custody of the candidate. Ending an
attempt, stopping it or restarting the host fences the budget. In the hosted controller the
ledger also asks the producer's row for a live lease, admission asks the capability policy, and
tearing the machine down accounts for whatever operation was under way. A candidate is observed
and reviewed; a failed review may be answered by a repair, a new WorkOrder; a passed one may be
requested for publication, approved in the web application and sent to GitHub as a draft.

## Modules

| Module | Models | Runs and proofs |
|---|---|---|
| `SpendLedger` | every method of the ledger and its policy, one action each | `MCSpendLedger`, `SpendLedgerProofs` |
| `SpendGateway` (EXTENDS `SpendLedger`) | request handlers, the attempt's three gateways, the provider, restarts | `MCSpendGateway`, `SpendGatewayProofs` |
| `PaidWork` | abstract: the spend boundary | refined by `SpendGateway`, `PromiseProofs` |
| `CloudStore` (EXTENDS `SpendLedger`) | the transactions of the hosted stores, as operators | used by `CloudWork` |
| `CloudWork` (EXTENDS `CloudStore`) | executor, deliveries, verifier, recovery, stop, sandboxes | `MCCloudWork`, `CloudWorkProofs` |
| `WorkerSlot` | abstract: machines | refined by `CloudWork`, `PromiseProofs` |
| `JobManager` | the one job from start or claim to its end, processes, containers, holds, recovery | through `FactoryDispatch` |
| `FactoryDispatch` (EXTENDS `JobManager`) | prepare, dispatch, stop and read over the job and the paid authority | `MCDispatch`, `DispatchProofs` |
| `BoundAttempt` | abstract: an attempt a connection prepared | refined by `FactoryDispatch` |
| `ReviewRepair` | observations, reviews and the chain of repairs | through `Publication` |
| `Publication` (EXTENDS `ReviewRepair`) | request, approve, publish, the GitHub adapter, recovery | `MCApprovals`, `PublicationProofs` |
| `DraftPublication` | abstract: a publication request | refined by `Publication` |
| `CapabilityPolicy` | admission, the recovery witness, controls | `MCApprovals`, `ApprovalsProofs` |
| `Qualification` | the trial of a machine and the trial of the queue | `MCApprovals`, `ApprovalsProofs` |
| `EnvironmentRouting` | where a Work may run, the adapters that report environments, the owner's view of them | `MCApprovals`, `ApprovalsProofs` |
| `WebDesk`, `WebPages`, `WebPanels` | the review desk; pages, history, forms and the cancel question; panels and the dispatch switch | `MCApprovals`, `ApprovalsProofs` |
| `HostedIntake` | creation, Linear synchronization, the hosted poll | through `Services`, `ServicesProofs` |
| `IssueOnce` | abstract: one issue per WorkOrder | refined by `Services`, `ServicesProofs` |
| `PreviewManager` | local previews | through `Services`, `ServicesProofs` |
| `PreviewLifecycle` | abstract: a preview | refined by `Services`, `ServicesProofs` |
| `FactoryStore` | opening and migration by two builds, policy, groups of rows | through `Services`, `ServicesProofs` |
| `EventFeed` | events, announcements, streams | through `Services`, `ServicesProofs` |
| `ResultSigning` | the signed Result of an attempt: key rotation, processes that share the database, a clock that is set back, the consumer | `MCServices`, `ServicesProofs` |
| `Services` (EXTENDS `HostedIntake`, `PreviewManager`, `FactoryStore`, `EventFeed`) | the services of one supervisor process and its restart | `MCServices`, `ServicesProofs` |
| `FeedbackHub` | the template's store, agent and page | `MCServices`, `ServicesProofs` |

**Correspondence.** A ledger or store method is one transaction (`BEGIN IMMEDIATE`, or one
advisory lock), so it is one operator: a check that throws is a guard, and what it writes are the
primed variables. Code that awaits is a process: its record names the await it is at and keeps
what it read before. So `SpendGateway.request[r]` is a handler, `CloudWork.exec[r]` the executor,
`CloudWork.observer[c]` a delivery or a stop that reconciles, `JobManager.job` the job,
`FactoryDispatch.calls[c]` a dispatch or a read, `Publication.calls[h]` an approved publication,
`HostedIntake.syncing`, `creating` and `poll` the calls of intake, `Qualification.serving[s]` a
trial, `WebDesk.reads` and `WebPanels.loads` the requests a page waits for or has given up. What
such code read before an await is used after it, as in the code. Crashes end a process anywhere
(`Die`, `GiveUp`, `Restart`, `RestartSupervisor`, `Disconnect`); the rows, the host's processes and the remote
systems outlive them.

**Abstractions.** (requestId, workOrderId) is an Order; (dispatch identity, factory version, run)
is a Writer; (model, pricing revision) is a Card; usage is a cost. An operation id of `CloudWork`
is a run and a phase: one operation per phase, a bound of that module, while the gateway may go on as
long as its plan has slots, as `SpendGateway` does. A run has one sandbox name per task, so a session is known or not. One
lease is one tick. Paid calls of a hosted or local run appear as the ledger steps they may make;
their handler is the one of `SpendGateway`. An executor's own lease check right before a step is
part of that step. In `FactoryDispatch` the ledger is one word per Work (`authority`), the part of it
dispatch, stop and read look at. A chain of repairs is one sequence whose candidates are
published on their own. An actor with its idempotency key and input is a key. A policy of the
capability registry is what it admits and when. Web pages keep what they show as the number of
the state it was read in.

**Slips.** A definition marked "Slip:" is a plausible mistake in the one before which it stands
(a dropped guard, a swapped order). No specification uses it. For each checked property
`PROJECT.json` names the slip that breaks it, so that no property is empty.

## Runs

| Run | Question | Bounds |
|---|---|---|
| `ledger` | does the ledger alone keep its promises for every caller and order of calls? | one Work, 2 generations, 2 orders, 2 writers, 3 operations, 2 cards, a plan that fits and one that does not, the V1 plan, 3 instants |
| `gateway_local` | is every request answered, is no operation left alone, do real charges stay within the ceiling over two generations? | 2 handlers, 3 operations, one productive and one completion slot, restarts, a reliable store |
| `gateway_hosted` | does the boundary implement `PaidWork` when calls commit and throw? | the same with a repair slot and an expiring price |
| `cloud_one` | what does an outcome prove, what does teardown account for, does one run use one machine, does a claimed run end? | one run, one observer, deadline 2, Grace 1, clock to 3 |
| `cloud_generations` | the same machine for two generations of a Work? | two runs, one observer, deadline 1, Grace 1, clock to 2, constraint `Followed` |
| `dispatch` | is a prepared attempt executed once and its terminal answer final; do aborts win and end? | one plain and one prepared order, 2 start calls, 2 dispatchers, one reader, 2 restarts, 3 attempts, constraint `Followed` |
| `approvals` | what an owner allows and what becomes of it: publication, repair, capability policy, qualification, routing, web pages | 2 handlers, 2 requests, 1 change of the policy revision, 1 restart, 2 repair policies; 2 runs and 3 capability policies; 2 servers and 2 attempts of a trial; 2 environments of one type and 3 changes of what routing is given; the bounds of the pages below |
| `services` | one WorkOrder and one issue, previews that end, a schema that never goes back, streams that miss nothing announced, one auditable Result, the template's page | 1 hosted and 1 local key, 2 creators, 2 issues, 1 app, builds of migrations 8 and 9, 2 owners, 1 agent, 2 streams, 3 events, 1 restart; 2 processes that sign, 2 keys, one of them written later, a clock of 2 values that may be set back; 2 records with 3 revisions |
| `cloud_result` | violation: the Result agrees with the outcome | as `cloud_one` |
| `cloud_handoff` | violation: the handoff to the verifier is respected | as `cloud_one` |
| `dispatch_verifier` | violation: no labelled container at a terminal answer | one prepared order, one restart |
| `feedback_overwrite` | violation: an edit undoes no newer decision | one record, an agent and a page |

**Why the bounds are enough.** The interesting cases of the ledger need a second operation that
meets an unresolved first, a second generation that meets the operations of the first, and a
second writer; three operations also fill every slot of the plan, and three instants put a call
before, at and after a deadline. Two handlers are what a race needs. A hosted run has one
executor by its claim, so that one observer that may start over without limit stands for any
number of sequential deliveries, recoveries and stop reconciliations; two observers at once are
not checked by TLC, while the theorems about `CloudWork` hold for any number. Clock values reach
the deadline plus Grace, after which no create can land and recovery may clean a machine without
a session. A local run is started twice at most by the code (`run.start` refuses a third), which
two restarts and three attempts cover. Two publication requests by two handlers give a race for
one candidate and a request that meets the outcome of another; three capability policies give
admission, replacement and a restored older one. Events need one before, one during and one after
a subscription.

**Constraints.** A run with a `CONSTRAINT` follows a part of its states, and what it leaves out is
stated beside the constraint.
- `MCCloudWork!Followed` cuts the run of two generations: no send fails, and the later run is not
  followed further once its machine is recorded, except when its executor dies. What happens from
  there is what `cloud_one` checks; what the earlier run and its machine may still do is kept.
- `MCDispatch!Followed`: the one job is the plain order's, with all restarts, or the prepared
  one's, with one. The two orders share the slot and the rows of neither.
- `MCApprovals`: its parts share no variable and are followed one at a time, so that the run
  explores their sum and not their product. `Stories` keeps the publication of ordinary
  candidates (two requests, restarts, revisions in every order) apart from the repair of reviewed
  ones (every order with one request and one handler). `FirstNamed` says that runs are alike and so are
  attempts, which liveness rules out as a `SYMMETRY`. `OneTrialKind`, `LapseBounded`,
  `DeskBounded`, `PagesBounded` and `OnePanel` bound the others: `PagesBounded` follows two WorkOrders,
  of requests whose answer was lost only those of a form, and the cancel question only while one
  more action may be under way.
- `MCServices`: `OnePart` and `PreviewAlone` separate what meets only at a restart; `OneTable`
  follows one kind of rows at a time, since a transaction touches one kind; `HubBounded` bounds the
  template; `Attested` does not follow an interrupted attempt, of which nothing is ever signed,
  nor the rotation of keys beside an attempt that was made before Results were signed.

Invariants and action properties are checked in every state and step of what is followed.
Liveness under a constraint says that no followed behaviour stays for ever in a bad state; the
steps it needs are never the ones the constraints cut (except at a bound of a counter).

**Deadlock** is checked in the ledger, gateway and dispatch runs. The cloud runs may stop at the last
instant with every run finished, and the parts of `approvals` and `services` stop when their
counted inputs (requests, policies, loads, events, revisions) are used up, hence
`CHECK_DEADLOCK FALSE` there.

**Properties.** Each is stated in words above its definition; these are the parts of the
conjunctions.
- Ledger: `LedgerTypeOK`, `OneUnresolved`, `UnresolvedIsCurrent`, `UnknownFenced`, `CeilingHeld`,
  `CompletionOrder`, and the action properties `AuthorityOneWay`, `ExposureRetained`.
- Gateway: `PaidSound` (`PaidTypeOK`, `ChargesCovered`, `CandidatePaid`), `NoOrphan`,
  `SpentWithinCeiling`, the action property `LastSlotSawProgress`, liveness `Answered`, the
  refinement `ImplementsPaidWork`.
- Hosted: `CloudSound` (`CloudTypeOK`, `CompletedProven`), `TeardownAccounts`, `CancellationWins`,
  the action property `NoPaymentAfterTeardown`, liveness `Terminates`, `ImplementsWorkerSlot`.
- Local runs: `DispatchSound` (types, `TerminalFenced`, `TerminalQuiet`, `TerminalTruth`,
  `RecordsAgree`), `RunsBounded` (every run attended to, one worker, two runs of an order at
  most), the action property `AbortWins`, liveness `AbortEnds` and `StopEnds`,
  `ImplementsBoundAttempt`.
- Approvals: `PublicationSound` (types, `ChainSound`), the action property `DispatchedUnfailed`,
  `ImplementsDraftPublication`; `TrustSound`: `CapabilitySound` (`AdmittedCurrent`, `ControlsForward`,
  `AcknowledgedQuiet`) and `RoutingSound` (`SelectionShown`, `IdentityPinned`, `BoundStays`);
  `QualificationSound` (`ConfirmedMeansGone`, `OneTrial`, `PassProven`, `HandledOnce`); `WebSound` (`ApprovedSeen`,
  `AddressShown`, `ActsOnAddressed`, `OneOrderPerForm`, `PendingTrue`, `ShowsOwnAction`, `SwitchMeant`).
- Services: `ServicesSound` (`IntakeSound`, `PreviewSound`), `RecordsSound`: `StoreSound`
  (`SchemaSound`, `DecisionsSound`, `RowsSound`) and `ResultSound` (`OneResult`, `Auditable`); `FeedSound`, `HubSound` (`DraftHome`), the action property
  `ServicesForward` (`StoreForward`, `ShownForward`), `ImplementsIssueOnce`,
  `ImplementsPreviewLifecycle`.

**Fairness.** `PaidSpec` assumes that a handler takes its next step: every await of it has a
timeout. Nothing is assumed of the provider, the host or the clock. `FairCloudSpec` assumes that
time passes, that a delivery is tried again until the run ends (the consumer asks for a retry
after 15 seconds and the queue retains the recovery message for longer than the deadline and
Grace), and that the calls of a delivery do not fail for ever, although one that is refused
starts over. Nothing is assumed of an executor, which may die or be slow at any await.
`FairDispatchSpec` assumes that the job takes its next step and that a process or container ends
(each has a timeout and is killed after it), that a late ledger call settles, that the connection
keeps reading, and that a container runtime asked again and again in the end answers that
none is there. `StopEnds` leaves out the attempts nothing can prove the end of (`Unprovable`,
`HeldEarly`): `docs/factory-dispatch.md` says that these stay fenced until an operator looks.
`PublicationSpec` assumes that a call of `git` or `gh` ends, since each is given a time limit;
`ServicesFairness` that a request to Linear ends (15 seconds) and that the timers of a preview
fire. Nothing is assumed of an owner, of GitHub, of Linear or of when a restart comes.

## Findings

1. `ResultBound` (`cloud_result`). `retainCustody` accepts a destroyed machine and does not look
   for an outcome. If a stop or a delivery tears the machine down and finalizes while the executor
   stores its bundle, the outcome names no candidate, the candidate is retained afterwards, and
   every later Result of the run throws `RESULT_CUSTODY_MISMATCH`
   (`postgres-dispatch.mjs:211`, `cloud-work-result.mjs:22`).
2. `HandoffPending` (`cloud_handoff`). A comment in `cloud-work-control.mjs` calls the gap between
   teardown and the verifier's claim a "bounded handoff to the sole verifier". A duplicate delivery
   that reads the run in this gap finalizes it, as FAILED because nobody verified it
   (`cloud-work-lifecycle.mjs:66`), and the verifier's claim is refused.
3. `VerifiersAbsent` (`dispatch_verifier`). After a crash during the completion-eligibility
   checkpoint, read answers a terminal state while the container of that checkpoint still runs:
   only two events count as a started verifier (`local-execution-provider.ts:98`), and
   `docs/factory-dispatch.md:7` promises that labelled containers are absent.
4. `NothingOverwritten` (`feedback_overwrite`). The edit form saves an old draft under the version
   the five-second reload keeps current (`templates/feedback-hub/src/App.tsx:203`), so that a newer
   decision is overwritten without a conflict, which the template's `README.md:38` excludes.

The first three leave the run in a safe state as far as money and publication go; the first two
lose work that had passed.

Seen while modelling, without a promise of the repository that they would break:
- the claim of a verifier is refused for good when another run takes the machine slot between
  teardown and that claim (`postgres-verification.mjs:16`);
- an issue whose receipt Linear never confirms ends every poll at that issue
  (`hosted-intake.ts:94`);
- a supervisor that is not restarted after the retirement of its key was recorded signs with that
  key past the boundary, and after a restart that Result cannot be read back
  (`producer-results.ts:121`), the exception in `Auditable`;
- an event appended without an announcement while a stream is connected never reaches this
  stream (`server.ts`, the events route), which is why `FeedSound` speaks of announced events;
- an answer to one form while another page is open leaves the address of that other page
  (`App.tsx:282`), the `strayed` exception of `AddressShown`;
- the cancel question stays open over moves in the history and then cancels whatever is selected
  (`App.tsx:339`), which is why `ActsOnAddressed` speaks of the address and not of the page the
  question was asked on; `pendingAction` is one flag that any answer clears, so a second start may
  be asked for while the first is under way, and it is the supervisor that refuses it;
- a review that fails after a publication was claimed does not stop the push and the draft
  (`actions.ts:713`), which is why `DispatchedUnfailed` speaks of the claim, and of what is sent
  only that it is claimed and that its checks had passed before such a review;
- a crash between the start of an agent and its recorded process id leaves a process nobody looks
  for (`local-execution-provider.ts:116`), and a crash leaves a preview's build command behind
  (`preview.ts:280`).

## Proofs

The theorems hold for every value of the constants that satisfies the named assumptions of the
modules: `LedgerAssumption`, `GatewayAssumption`, `StoreAssumption`, `CloudAssumption`,
`Sentinels`, `CallSentinel`, `OrdersDisjoint`, `Bounds` and `Switches`, `QualificationBounds`,
`CapabilityBounds`, `RoutingBounds`, `DeskBounds`, `PagesBounds`, `PanelBounds`, `FeedBounds`,
`IntakeBounds`, `PreviewSentinel`, `StoreBounds`, `SigningBounds`, `ResultSentinel`, `HubBounds`,
`RestartBound`, `PublicationBounds` and `PolicyAssumption`. They ask for what every deployment has:
plans and ceilings of the shape the tables require, finitely many operation ids, bounds that are
numbers, switches that are on or off, markers such as `NoOp` that are not members of what they
stand beside, and in `StoreAssumption` a deadline that admission can write. So the theorems
hold for any number of Works, runs, observers, handlers, servers, streams, requests and
restarts, which the runs bound, and without the constraints of the runs.

**Money.**

| Theorem | States | Argument |
|---|---|---|
| `LedgerTyping` | `[]LedgerTypeOK` | inductive as it stands, one lemma per kind of step |
| `OneUnresolvedHolds`, `UnresolvedIsCurrentHolds`, `UnknownFencedHolds` | the three invariants | together they are inductive (`Chargeable`), none is alone: a reservation is the only chargeable operation because the policy refuses a second, it stays current because no step moves the generation, writer or phase of a Work that has one, and an unknown one is never rebound because its Work is fenced |
| `CompletionOrderHolds` | `[]CompletionOrder` | `CompletionInv` adds what `beginCompletion` found: in the completion phase the current attempt has a settled productive operation and owns every completion one |
| `AuthorityMovesForward`, `OperationsRetained` | `AuthorityOneWay`, `ExposureRetained` | every budget moves `Forward` or stays, every operation is `Retained`, one lemma per step |
| `CeilingHeldAlways` | `[]CeilingHeld` | the policy compares the total with a reservation before it is made; every other step lets every exposure fall (`OperationsRetained`), and a new Work has none and a plan whose reserve fits its ceiling (`PlanWithinCeiling`). Sums over a finite set are taken apart one element at a time (see below) |
| `BoundaryIsLedger`, `CloudIsLedger` | every behaviour of the boundary, and of hosted execution, is a behaviour of the ledger | one lemma per step; all of the above then holds of both |
| `PaidSoundHolds` | `[]PaidSound` | `Books`: a handler calls the provider for an operation whose dispatch is durable, a charge needs a call and stays within the reservation, and a settled row carries what was charged. A candidate is committed after the ledger was asked, and what it found settled stays settled |
| `SpentHolds` | `[]SpentWithinCeiling` | real charges are below exposures (`ChargesCovered`), which are within the ceiling (`CeilingHeld`) |
| `NoOrphanHolds` | `[]NoOrphan`, assuming `~UnreliableStore` | a handler before its reservation names no operation (`Fresh`); one that leaves has settled, released or retained its own, and a restart leaves none waiting |
| `LastSlotHolds` | `LastSlotSawProgress` | `SlotInv`: only handlers of the attempt that holds the productive authority can still reserve, one gateway has one of them at a time, a first gateway counts nothing once another has opened, and so nobody reserves between a handler's count and its own reservation |
| `BoundaryImplements` | `ImplementsPaidWork` | seen as commitments (`PaidView`) every step is one of `PaidWork` or a stutter, with `Books`, `Chargeable` and `CeilingHeld` for its guards |
| `ChargesCommittedHolds` | what `PaidWork` amounts to | inductive with the types of its variables; it carries over to the gateway by `BoundaryImplements` |

**Hosted execution.**

| Theorem | States | Argument |
|---|---|---|
| `CancellationWinsHolds` | `[]CancellationWins` | a stop is only recorded before an outcome, and an outcome of a stopped run is CANCELLED. The one place that stops without looking for an outcome is a validation send that failed; it is safe because an outcome needs a claim and a claim needs a delivered intent, which the invariant adds |
| `TeardownAccountsHolds` | `[]TeardownAccounts` | confirming the teardown settles what was under way, and nothing new can be reserved: each call asks for a lease the clean row has lost. The invariant adds that an operation of a run bears that run's binding, which no other run has because the generations of a Work are distinct |
| `NoPaymentHolds` | `NoPaymentAfterTeardown` | a dispatch asks for a live lease; an observer deletes a machine only after it ended that lease and knows its session or that its window is over (`ObserverAt`), and whoever takes a machine from an executor at work has ended its lease (`ProducerAt`); a stop reaches the row of its run whether it was claimed before or after (`StoppedCancelled`) |
| `SlotImplemented` | `ImplementsWorkerSlot` | one unclean row at most, of a run or of its verifier (`OneHolder`); a machine runs only while its row is unclean, and cannot land after the row was cleaned, because a row without a session is cleaned only when the window of its create is over (`ProducerAt`, `VerifierAt`) |
| `CloudSoundHolds` | `[]CloudSound` | an operation is named after its run and phase (`OpsNamed`), the phases are paid before the candidate is collected, and a run is marked as passed only after the executor's try block (`PaidAt`); what is paid up, in custody and clean stays so, and the outcome reads the rest in its own transaction |
| `SlotExclusiveHolds` | what `WorkerSlot` amounts to: one machine at a time, none after the outcome | inductive with the types; it carries over to hosted execution by `SlotImplemented` |

**Local runs.** All from one invariant, `DispatchInv` (`DispatchInvHolds`).

| Theorem | States | Argument |
|---|---|---|
| `DispatchSoundHolds` | `[]DispatchSound` | `CallInv`: what a read found of an attempt that was over when it asked, its state and that none of its processes ran, stays true until it answers, because a prepared order is executed once, after its claim, and what is closed is not opened again. Hence a terminal answer is final (`TerminalInv`) |
| `RunsBoundedHolds` | `[]RunsBounded` | a start call that may still succeed was counted against a limit that still holds (`RunsKept`); the job is at the last run of its order, which is the only open one (`JobAt`); a process of a plain order is the one the job waits for or holds its order (`HoldInv`) |
| `AbortWinsHolds` | `AbortWins` | the one step that makes a run ready tests the abort after its last await |
| `BoundAttemptImplemented` | `ImplementsBoundAttempt` | each step is, for each prepared order, one abstract step or a stutter, with `DispatchInv` for the guards |

**Approvals.**

| Theorem | States | Argument |
|---|---|---|
| `PublicationSoundHolds` | `[]PublicationSound` | the repairs of a chain are under the policy of the first (`Linked`), hence what they are allotted together is a multiple of it (`AllocatedIsProduct`), which the next approval compares with its limits (`Allotted`); a proposal is approved only while its parent is the last of the chain; every dispatched request is carried by a call (`Attended`) |
| `DispatchedUnfailedHolds` | `DispatchedUnfailed` | a candidate with a successor in the chain has failed for good, so the tip read again inside the transaction is neither failed nor replaced (`ReviewedLate`). A claimed candidate was observed at all three stages, so only a review can still fail it (`LateReview`), and nothing is sent without a claim (`SentUnderClaim`) |
| `PublicationKeepsPromise` | `DraftPublication` without its fairness, under the mapping of `ImplementsDraftPublication` | `PublicationInv`: a dispatched request has one carrying call, which has sent nothing if it is about to record a failure, and a reconciling call only looks up. Then one lemma per action names the abstract step it is, or shows a stutter |
| `QualificationSoundHolds` | `[]QualificationSound` | one executor per attempt for ever; whoever else touches the attempt waits until what the executor asked for can no longer take effect, so that clean means gone; the session lock makes the trial single |
| `TrustSoundHolds` | `[]TrustSound` | `CapabilityInv`: the witness is advanced before the database, so a policy that agrees with it is the last one the witness was shown, whatever the database has lost since (`HeadInv`); a run is admitted only at that policy and without a control in it, so a control marks nothing admitted after it (`RunOK`), and one answered complete has marked all that was admitted before and found it without machines, which a marked run cannot claim again (`CompleteInv`). `RoutingInv`: versions of a site only grow, so what no longer has the identity it was bound with has a later version; a selected environment passes every test of the owner's view (`SelectedRoutable`) |
| `WebSoundHolds` | `[]WebSound` | the desk: evidence on display, and every load that may still fill it in, is of the attempt on display (`EvidenceInv`), and an approval takes both from there. The pages: address and page are inverse to each other (`PlaceShown`), what is selected is the WorkOrder of the address, also where a page strayed, the transaction that makes a WorkOrder finds none of its key, and whatever clears an action under way clears the flag that names it. The panels: while a panel does not act, the load it waits for was asked after its last action (`PanelInv`), and whether dispatch is paused is a function of the revision, so the revision a change names says what was shown (`SwitchInv`) |

**Services.** Each part of `Services` is proved from the steps of that part and its restart
(`ServicesParts`, `ServicesStore`), so that no bound on the other parts matters.

| Theorem | States | Argument |
|---|---|---|
| `FeedSoundHolds` | `[]FeedSound` | no hole below the cursor: replay up to the last event and announcements after it leave nothing between them that was announced |
| `ServicesSoundHolds` | `[]ServicesSound` | `IntakeInv`: an order's issue is a number given out once or the key of its request, which is its own key; it never changes again, so two orders never share one (`OrderWritten`); a call or poll that adds an order looks its key up in the step that adds it (`OrderAdded`), and the poll holds requests that are at Linear, with the order of the one it handles. `PreviewSound` is inductive as it stands |
| `IntakeKeepsPromise` | `IssueOnce` without its `Ends` | an issue at Linear is the saved issue of the one order that asked for it (`IssueAtLinear`), so an order is marked synced with one issue exactly, and what is created later is what was asked for |
| `PreviewKeepsPromise` | `PreviewLifecycle` without its `Ends` | what is shown, the process a client could see and who asked for a stop, each as a function of the entry and the last event (`EntrySeen`, `EntryPut`); one lemma per action names the abstract step it is, or shows a stutter |
| `RecordsSoundHolds` | `[]RecordsSound` | of the store: the schema is what the version says and no process is beyond the next migration (`SchemaInv`); a question to the owner that is still asked of the present policy would change it (`PolicyInv`); a draft names a run of its order and the request for that run (`RowsInv`). Of the Result: a version of the registry drops no key of an earlier one and moves no term (`Follows`), and what is signed, frozen or admitted was attested by a key that its signer knew as not retired (`SigningInv`) |
| `ServicesForwardHolds` | `ServicesForward` | the schema and the signals from `SchemaInv` and `RowsInv`; on the hub's page, what was read of the record on display is not older than what is shown of it (`DetailOK` of `HubInv`) |
| `HubSoundHolds` | `[]HubSound` | `HubInv`: records are only appended to (`Grown`), and whatever the page shows, has written, or was answered is a version its record has (`Has`) |

**Sums.** The library's induction theorems take an operator, which the provers cannot
instantiate. Where a property needs induction over data it is had in another way: that strict
inclusion is well-founded on the subsets of a finite set is a first-order fact, from which
`SpendLedgerProofs` derives how a sum over operations changes by one row, and
`PublicationProofs` that the recursion of `Allocated` has a closed form.

**Only model-checked.** Liveness (`Answered`, `Terminates`, `AbortEnds`, `StopEnds`, and what the
abstract specifications promise will happen: the fairness of `DraftPublication`, `Ends` of
`IssueOnce` and `PreviewLifecycle`), which is out of the provers' reach, and the properties that
are violated. Every other property of the passing runs is a theorem.

## Not modelled

Client grants, `maxWorks` and production approvals can only refuse a call inside the transaction
it would commit, which the models already allow. The message nonce and all digests, signatures
and bundles are data. The body of a paid request is read before its handler appears in the model;
that read has no timeout of its own, so a client that never finishes its body holds the
productive gateway, which `Answered` does not cover. The capability policy is written by another
product: its writer is modelled by the contract in the comment of the function it calls, with the
witness configured. The generation of an app's files is one step (`Scaffold`). That a preview appends its
events is taken for granted (`preview.ts:140`, `preview.ts:371`): a request whose event is not
recorded is taken back before it has a process, and a server whose start is not recorded is killed. Nothing in
production calls the router yet (`docs/environment-fabric/qualification.md:5`); its caller is modelled
as its tests call it. The panels of the
web application that only show what they read, connections and identity, the
installation of production authority, the validation of plans at startup and the factory console
keep no state that a property could be about. `PROJECT.json` lists every component with its
status, and each hazard that no property covers with the reason.

## Plan

Done: the modules above and the theorems listed.

Next: a run with two observers at once in `CloudWork`, over a coarser executor. Its safety is proved
for any number of them; its liveness is checked for one.
