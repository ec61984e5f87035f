# DONNA v9 in TLA+

DONNA is an operations platform: people state objectives, the control plane
turns them into durable tasks, and workers carry the tasks out through adapters
(deterministic functions, automations, models). This directory models the parts
of it that are hard to get right and hard to test: what happens to a task when
workers crash and jobs are redelivered, to an event when the dispatchers of the
outbox overlap, to an organization's constitution and members when Postgres
transactions interleave, to an order on its way through the two routers and
the adapters, and to a deployment with an incomplete environment or a webhook
that is retried.

Modules named `MC...` instantiate a specification for TLC, modules named
`..._proofs` hold the theorems TLAPS checks. `PROJECT.json` maps each
definition to the source lines it stands for, and lists components, runs,
mutants, hazards, findings and theorems.

    tlc -config MCTaskExecution.cfg MCTaskExecution
    tlapm TaskExecution_proofs.tla

## 1. The system

| component | state | operations | interacts with |
|---|---|---|---|
| Start of the control plane (`runtime-config.ts`, `main.ts`) | none: the environment | choose mode, authenticator, stores and routes, or refuse | everything the process then serves |
| Authentication (`auth/`) | none | verify a token, resolve its subject | tables of the webhook |
| Control-plane API (`apps/control-plane`) | `objectives` | create and read an objective, dispatch a task | resolver, policy, dispatcher |
| Provisioning webhook | `organizations`, `users`, `memberships` | membership synced or deleted, user revoked, organization upserted | read by the resolver of every request |
| Policy engine (`packages/policy`) | none: a pure decision | `evaluate` | called by each route and, if an order carries a policy, by the orchestrator |
| Task dispatcher | `tasks`, `events`, `graphile_worker.jobs` | one transaction: task, `task.created`, job | queue |
| Worker (`apps/worker`) | the same three tables, and a job slot's memory | pick a job, execute, commit the outcome, finish the job | orchestrator, queue |
| Orchestrator (`packages/orchestrator`) | one order's progress | policy gate, Work Router, capability loop, model loop | routers, budget, adapters |
| Adapters (`packages/adapters`) | the usage of the last call | estimate, execute, classify an error, report usage | services; shared by a worker's jobs |
| Work Router, Model Router | none | match, rank, choose | orchestrator |
| Outbox and bus (`packages/events`) | `events.dispatched_at`, a run's batch | create, commit, fetch, publish, mark | cron of the worker |
| Business Constitution | versions of an organization's constitution | propose, approve, getActive | Postgres only |

What makes each correct:

- a task's row, its events and its job agree after any crash, a retry is counted
  and enqueued once, and a task that is settled stays so;
- an event reaches every subscriber after its commit, oldest first, and is not
  lost by a failed or overlapping run;
- an order is tried on the cheapest capable candidate first, falls through only on
  errors that may pass, is billed within its budget, and ends with a result its
  trace and its closing event confirm;
- services that do not answer do not stop the worker;
- a deployment admits and stores as in production unless it is told otherwise;
- the access that is granted follows the provider's, through crashes, lost
  answers and retries;
- `getActive` answers with one version of a constitution, the approved one of the
  highest number (two may be approved at once, see section 6), and always with
  one after the first approval;
- a user has access to one organization at most, with the role of one membership,
  and rows never refer across organizations;
- no request is decided on authority its subject never had, and no gate of the
  policy can be passed by combining roles, scopes and switches.

Left out, with reasons in section 8: signatures, context packets, approval
validity, the business graph, the web application.

What is hard here:

- **Crashes and redelivery.** A slot may die at any point between the adapter's
  effect and the deletion of its job; the job is locked for four hours and then
  given to another slot, also if the first is merely slow.
- **A retry enqueues under the key of the job that is running.** `commitOutcome`
  calls `add_job` with the job key of the job whose handler it runs in.
- **Transactions at READ COMMITTED.** All services read and then write without
  locking what they read, except `commitOutcome`, which selects `FOR UPDATE`.
- **Overlapping cron runs.** Nothing stops two runs of `dispatch-outbox` from
  fetching the same batch, and an event's timestamp is taken before its commit.
- **Requests beside the webhook.** A principal is put together from separate
  reads of rows the webhook is changing.
- **Redelivered webhooks.** The provider tells each change in a message of its
  own, tries again until it is acknowledged, and keeps no order between them.
- **One adapter, many jobs.** Four slots share an adapter that remembers one
  usage and whose timer covers half of a call.
- **Six classifications.** Whether the next candidate is tried depends on what
  each adapter makes of an error it may not have raised itself.
- **Many exits.** The orchestrator returns from thirteen places, each with a
  result, a trace and a closing event that must agree.

## 2. Modules

    TaskStateMachine <- TaskExecution -> DurableTask         (refinement)
                                         TaskExecution_proofs, DurableTask_proofs
    Outbox -> AtLeastOnceDelivery                            (refinement)
                                         Outbox_proofs
    WorkRouter, ModelRouter, Adapters, TaskStateMachine <- Orchestrator
                                         Orchestrator_proofs
    AdapterCalls                         AdapterCalls_proofs
    Constitution                         Constitution_proofs
    Provisioning -> MemberDirectory                          (refinement)
    Policy, Provisioning <- ControlPlane                     (composition)
                                         ControlPlane_proofs
    StartupConfig, RequestAuth, ClerkEvents <- Gateway       (composition)
                                         Gateway_proofs

`A <- B` reads "B is built on A", `A -> B` "A is shown to implement B".

- **TaskStateMachine**: statuses, the legal transitions, how a result becomes a
  target status and the path on which `commitOutcome` walks a row there.
- **DurableTask** (abstract): a task is created, retried while its budget
  lasts, and settled once; each step writes the row and its events together.
- **TaskExecution**: the dispatcher's transaction, the job queue, and a worker
  slot with one action per step between two waits: `PickJob`, `Execute`
  (the adapter's effect), `LockRow` (`SELECT ... FOR UPDATE`) or `SkipOutcome`,
  `CommitOutcome`, `FinishJob`; besides `RejectPayload`, `Throw`,
  `HandlerFails` (also: the COMMIT took effect and its acknowledgement was
  lost), `Crash`, `ReclaimJob` and `LeaseExpires`.
- **AtLeastOnceDelivery** (abstract): an event is committed, delivered after
  its commit any number of times, and retired after a delivery.
- **Outbox**: `createEvent` reads the clock, a transaction commits or rolls back
  a batch of events, and any number of `dispatch-outbox` runs fetch, call each
  handler, and mark. A handler may throw (the bus swallows it), a run may fail.
- **WorkRouter, ModelRouter**: the routing decisions as operators over the
  tables they read; ModelRouter contains the production registry.
- **Adapters**: what the six adapters estimate, refuse, throw and bill, how
  each classifies a failure, and which of them an environment binds. A failure
  is a cause and, if a service answered, a status.
- **Orchestrator**: `executeWorkOrder` as one order's state machine, from the
  gate to the last fallback. An order comes from the queue, through
  `BuildWorkOrder` and `ParseWorkOrder`, or from a caller of the package; an
  adapter answers whatever Adapters lets its kind answer.
- **AdapterCalls**: the pool's slots, the jobs in them and the HTTP adapter they
  share: `Send` sets the timer, `HeadersArrive` clears it, `ReadBody` remembers
  the usage, `Bill` asks for it.
- **StartupConfig, RequestAuth, ClerkEvents**: `resolveStartupConfig`, the two
  authenticators and the parsing of the provider's payloads, as operators.
- **Gateway**: the control plane in its surroundings: a process that is started
  from an environment, may stop and is started again; the provider's accounts
  and the messages about them; the tables, with the constraints a message may
  violate; the objectives and tasks a client was told are created, in the
  database or in the process. Handlers are one step each: Provisioning has them
  statement by statement.
- **Constitution**: `propose` and `approve` statement by statement; a row has a
  committed status, a holder and what the holder wrote. `StartSupersede` takes
  the snapshot of the first UPDATE, `SupersedeRow` is one row of it, waiting
  for its holder and re-evaluating its condition.
- **MemberDirectory** (abstract): the access of a subject changes one subject
  at a time, and from one organization to another only through none.
- **Provisioning**: the webhook's handlers statement by statement. A membership
  sync is a transaction; deletion and revocation are single statements after
  separate reads.
- **Policy**: `evaluate` as the reason given by the first check that applies,
  and the effect of that reason.
- **ControlPlane**: requests beside Provisioning: the resolver's two reads, the
  decision, and the objective that is stored, shown or given a task.

### Assumed of the libraries

graphile-worker: `add_job` with a job key inserts a job, replaces in place a
keyed job that is available, and takes the key and the remaining attempts from
one that is locked or out of attempts; `complete_job` deletes by id without
checking the holder; `fail_job` checks it; a lock expires after four hours; a
job has 25 attempts unless it says otherwise.

Svix and Clerk: a message is tried again until it is answered with 2xx, a
bounded number of times; a user is a member of one organization at a time, and
two accounts do not have one email at the same time. jose checks the signature
and the expiry, and issuer and audience if they are given. The platform's
`fetch` gives up on a connection that stays silent. The SDKs of the models throw
an error with the status for a refusal, one without for a lost connection.

Postgres at READ COMMITTED: a statement sees what was committed when it began
and its own transaction's writes; an UPDATE or DELETE waits for a row another
transaction has changed, then re-evaluates its condition on the latest version;
an insert waits for an uncommitted row with the same key, then fails or
proceeds; a foreign key is checked at the end of the statement; a deadlock or a
lost connection may end a transaction at any point.

## 3. Runs

| run | instance | what it shows |
|---|---|---|
| `execution_safety` | 1 task, 2 slots, 2 retries, 3 attempts, 1 crash, 1 expired lease | the row, the events and the job of a task never disagree, at most one runnable job, no phantom completion, the budget kept, settled rows final; TaskExecution implements DurableTask |
| `execution_liveness` | 1 task, 2 slots, 1 retry, 3 attempts, 2 crashes | a pending task settles or its job runs out of attempts, and retries end |
| `outbox_safety` | 3 events, 2 dispatchers, batches of 2, 2 milliseconds, 1 failed run | order of first publication, duplicates bounded by failures and overlap; Outbox implements AtLeastOnceDelivery |
| `outbox_liveness` | 2 events, 2 dispatchers, batches of 1, 2 handlers, 1 failed run | every handler is called with every committed event, which is in the end marked |
| `orchestrator` | the production registry and providers' variables, every pair of providers over three classes, the adapters of capabilities of each kind, requests with and without a limit, budgets | result, trace and closing event agree; fallback only after failures that may pass, in order; a model last; billed within the budget; termination |
| `adapter_calls` | 3 orders of which 1 may meet a trickling body, 1 dispatch of the outbox, 2 slots | no job is billed a usage older than its own call; every other job comes to its end |
| `constitution` | 3 sessions, 3 versions, 3 approvals | versions without a gap, one that `getActive` answers with once any was approved, an approve supersedes all it could see |
| `control_plane` | 1 subject, 2 organizations, 3 deliveries of which 1 earlier, 2 requests, one body per scope | one membership per user, rows stay in their user's organization, no request served with a role never had, a creator may read; Provisioning implements MemberDirectory |
| `gateway` | 56 environments (complete but for one variable, nothing but a mode, complete with contradicting modes), requests that lack one thing each, 2 accounts that may share an email in turn, 2 organizations, 3 messages of 2 tries, 2 objectives or tasks | no request without proof and nothing confirmed lost unless the environment says development; access follows the provider |

Runs that end in a violation are listed in section 6.

Why the bounds suffice. Tasks share nothing but the slots, so one task with two
slots has every race between two jobs of a task; one crash and one expired lease
give a redelivery and a slot that works without its lease, and with two retries
such a slot meets a task that has been retried since and may be retried again. Three events and batches
of two leave an event out of a batch; two milliseconds give ties as well as an
order, and one failed run a partial batch. In the constitution a third session
is needed to see what two overlapping approves left. The control plane needs
two new deliveries to overlap and one earlier one so that rows of every shape
exist at the start (a member, a user without membership, a revoked user); a
second organization for a move; two requests so that one may ask for what the
other created. The gateway starts with accounts that exist already, so three
messages are a join, a departure and a join elsewhere, or a role changed twice,
each of them lost, repeated or overtaken; two tries are a retry and a last one.
With two slots, one trickling body leaves one slot for everything else, the least
for which the others can go on. Counters that would grow (crashes, expiries, failures, time,
approvals, deliveries, requests, messages, items) are bounded by a named constant each; the
proofs of section 5 hold for every value of them.

Deadlock is not checked, because every instance stops once its bounded supply
of tasks, events, approvals or deliveries is used up; the liveness runs say that it
does not stop earlier.

## 4. Fairness

`TaskExecution!FairSpec`: weak fairness of each slot's `Progress` (the runner
polls, and a handler that is not interrupted goes on) and of `ReclaimJob` (a
runner unlocks expired jobs). No fairness of dispatches, of failures or of
crashes. A slot's step may still be one that throws, so that retries are really
used up. `Outbox!FairSpec`: weak fairness of each dispatcher's steps (the cron
starts a run every minute); none of event creation, of commits or of failures.
`Orchestrator!FairSpec`: the order's own step, which assumes that an adapter
that was called answers. `AdapterCalls!FairSpec` says when one does: timers fire
and a body is read or cut short, weak fairness of each job's steps; no service
has to send headers, and the bodies of `Trickling` orders need not end. Those
must be fewer than the slots: with as many, nothing moves again. That free slots
are taken is fairness of the pool, not of a job: there are finitely many.

## 5. Theorems

Every safety property that a passing run checks is also a theorem, for every
value of the constants under the named assumptions next to them. Those say what
the constants are, and bound nothing: numbers are naturals, `None` is no value of
another set (`NoneAssumption`), the runs of a cron are finitely many at a time
(`DispatchersAssumption`), orders, environments and registries have the fields
the code gives them (`OrdersAssumption`, `EnvironmentsAssumption`,
`TablesAssumption`, `ModelTableAssumption`).

**TaskExecution_proofs.** Neither the budget nor the finality of a settled row
is inductive: that the row a slot is about to commit is still what it selected
follows from the row lock. `LockInv` says this: a slot in stage `locked` saw the
row's current retry count, the row is pending, and no other slot has locked it;
with `CountInv` it gives each abstract step under the refinement, hence
`Refinement`, and by instantiation `RowsMatchTraces`, `BudgetKept` and
`SettledTasksStay`. `QueueInv` (a task has at most one keyed job, and a job without
its key has no attempts left) gives `NeverTwoRunnableJobs`. `HoldInv`, as long as
no lease was lost by a live slot, says that a busy slot holds its job, which keeps
its key until the slot has committed; if the task is pending again by then, the
key has moved to the job of the retry. It gives `NeverTwoRuns` and
`PendingTasksHaveJobs`. `DoneInv` carries the effect from the adapter to the
row for `NoPhantomCompletion`.

**DurableTask_proofs.** The abstract lifecycle itself keeps row and trace
together and never changes a settled task.

**Outbox_proofs.** `OutboxInv`: a run works on committed events and has published
those it is done with (`BatchInv`), what is marked was published (`MarkInv`), and
whatever must be published before an event of a batch is published already or
comes before it in the batch (`OrderInv`). `OldestFirst` is not inductive without
the last, and the number of its commit, kept in `written`, says which older events
a batch could not have seen. `Refinement` follows step by step. The bound on
duplicates is about how many runs can have published an event, and a count alone is
not inductive: `CountInv` puts each publication beyond the failures down to a run of
its own, to one that has the event behind it in its batch or, once the event is
marked, to any that does not still have it ahead. A run that fails is counted by
its failure instead, and one that ends has marked its batch, which no later run
fetches.

**Constitution_proofs.** `Consistent`: what the rows a session holds may become
(`HeldRows`), that a transaction about to commit holds the row it wrote
(`Written`), and that the versions below a proposal's exist (`Numbers`). For
`SeenAreSuperseded` it is strengthened by `Noticed`: each approval an approve's
first UPDATE could see and that is still in force is of a row it has still to
write, has superseded, or is itself approving again.

**ControlPlane_proofs.** First the decision of the policy, for all principals,
actions, resources and switches: pausing more never permits more, reads ignore the
switches, a higher ceiling permits more, and the gates of levels 3 and 4 cannot
be passed by an agent or without an approval. Then the tables. `upsertMembership`
selects and then inserts without a key that would stop a second row, so
`OneMembership` rests on what the transaction holds. `TableInv` says so for each
delivery: no two hold one user's row or insert one subject (`LockOK`); the user it
holds exists, or is the one it inserts (`UserOK`); nothing refers to a user it
moves where the user was (`MoveOK`); and where it is about to insert a membership
there is none (`MemberOK`). With the keys (`OneUser`) and the references
(`RowInv`) this is inductive, also while requests insert objectives, and gives
`MembershipIsUnique` and `TenancyIsKept`. `APIInv` follows a request: what
its subject has now is part of what it had since the request came, and the row it
read is still the subject's or revoked; hence `AdmittedWithAccess` and
`CreatorsMayRead`. `DirectoryImplemented` is the refinement: only `Commit`,
`Delete` and `Revoke` change what a subject may access, each by one step of
MemberDirectory; for `Commit` one must know that what the subject may
access before is in the organization of the event (`MoveOK`, `TenantsAgree`) and
that it has exactly one membership there afterwards (`OneMembership`).

**Orchestrator_proofs.** For any order, registries, environment and error of the
estimate. `IInv` adds to the properties where the two loops are: what is left
comes after what was called, and whatever resolves is in one or the other
(`LoopInv`); what is being called is the first of what is left and affordable
(`CurrentInv`); when a model may be called every capability that resolves was
(`CalledInv`); and a call that succeeded is the last (`ResultInv`). That the
loops have a first element at all (`FirstCandidateIsFirst`, `FirstModelIsFirst`)
follows from the well-foundedness of the naturals. `FallbackMayPass` needs,
for each kind of adapter, that the class it makes of a failure is retryable only
if the failure may pass; `BudgetIsKept` that the estimate covers what is billed
but for the input a service counts differently (`CostsOfModel`).

**AdapterCalls_proofs.** That a bill is not stale is not inductive: one needs
that the adapter remembers the call that ended last (`UsageIsNewest`) and that a
job which waits to be billed has its own call among those that ended.

**Gateway_proofs.** `UpIsConfigured`: a process that serves was given a
configuration it accepts. `FailsClosed` turns what the environment does not say
into what the configuration then contains, for every environment and not only
the 56 of the run; with `VerifiedIsProven` and `AdmittedIsVerified` it gives
`NothingWithoutProof`, and with the one step that confirms anything
`NothingConfirmedIsLost`. `AgreesWhenQuiet` says nothing while a message is on its
way, so it is far from inductive. `FollowInv` compares the tables with the past of
the provider: unless a message about an account is overtaken or given up, or will
be (`Doomed`), there is a history of the account's access, by message number,
such that the provider is at its end, the tables are where it was after the
newest message handled, and it changes only with a message still pending, as that
message says (`History`). `HandleEffect` is why a message handled in turn or twice
leaves the access it names: a sync and a revocation whatever was before, a
removal because the access before was in its organization. Hence
`TablesFollowProvider`, for any number of accounts, messages and tries.

Only model-checked: liveness (`EveryTaskSettles`, `RetriesEnd`,
`EveryEventRetired`, `Ends`, `EveryJobRuns`), which is out of TLAPS's reach.

## 6. Findings

Each is a run whose property states what a comment or document says and TLC
shows the code to do otherwise.

- `effect_twice`: adapters get no idempotency key, so a crash between the effect
  and the commit repeats the effect, against `contracts.ts:69` and
  `execution.ts:90`.
- `handler_error_lost`: the bus swallows a handler's error and the event is
  marked, against `outbox.ts:25`.
- `team_dispatch`: the dispatch route's resource has no team, so nobody, not even
  its creator, may dispatch a task under a TEAM objective, against
  `server.ts:208`.

Seen while modelling, without a run of its own:

- `commitOutcome` retries a failed outcome whatever class its error had, while
  its comment `task-state.ts:108` speaks of a retryable failure.
- The model router's fallbacks are only the models that cover the tier (or, if
  none does, those capable of it), while `packages/model-router/src/router.ts:48`
  calls them the remaining eligible models. In the production registry one model
  covers the default tier: an order of it fails when that model's service is
  overloaded, and no other eligible model is called. `NoneIsSkipped` ranges over
  the models of the decision and says nothing of this.
- An order may return `budget_exceeded` after an earlier candidate ran and
  failed, while `task-state.ts:50` says that blocked outcomes never reach running.
- `actions.ts:31` says that the orchestrator's gate re-enforces a task's
  authority, but `buildWorkOrder` gives the order no policy.
- Two approves that overlap may leave the version approved last not in force,
  because `getActive` takes the highest number (`SeenIsSuperseded` says exactly when).
- The HTTP adapter's timeout ends with the headers, while the adapter's README
  says that each call has one.
- An answer whose body cannot be read (`http-adapter.ts:219`) is classed as
  transient (`:199`), whatever its status: also after a 2xx the next candidate
  repeats what was done.
- The usage a job is billed may be another job's, of a later call:
  `BilledUsageIsCurrent` bounds its age and not its owner (its price is the adapter's, so
  only the latency and the status are wrong).
- A GHL operation does not survive the queue: `parseWorkOrder` drops
  `capabilityInput`, and the adapter then throws an error classed as transient.
- A hint of another type passes the dispatch route and fails `parseWorkOrder` at
  every attempt.
- The control plane's README (`apps/control-plane/README.md:38-39`, `65-68`,
  `127-134`) lets the process fall back to claimed headers and to stores in memory
  when `AUTH_JWKS_URL` or `DATABASE_URL` is unset, "for local runs and tests", and
  does not say that `APP_ENV` (or `NODE_ENV`) must name development or test:
  `resolveStartupConfig` refuses to start otherwise.
- A user without an email address, or an organization without a slug, is
  answered with 400 at each delivery until the provider gives the message up.
- A membership sync delivered after `user.deleted` inserts the user anew, unless
  the old row's email is in its way: access is back.
- A revoked row keeps its email, and a new account of the same person is refused.
- The author of an objective cannot be moved to another organization.
- Without a database, the queue of the in-memory dispatcher is drained by no one.

## 7. Limits of what is shown

- `PendingHasJob` and `OneRunPerTask` hold as long as no lease expires under a
  live slot. With such an expiry the slow slot's `complete_job`, which deletes by
  id, can remove the job of a pending task; TLC finds the trace.
- `DuplicatesBounded` counts publications; handlers must be idempotent.
- `AdmittedHadAccess` excepts a subject revoked meanwhile: a sync that read the
  user before the revocation may give the revoked row a membership, which a
  request that also read the row before then finds.
- The provider's events carry no order that the code keeps: a sync delivered
  after the deletion it preceded restores the access. Nothing promises otherwise:
  `ImplementsDirectory` says that each event is applied as a whole, and
  `AgreesWhenQuiet` leaves out the accounts of which an older message was handled
  last, and those of which one was given up.
- `FallbackOnlyIfItMayPass` excepts the errors of the HTTP adapter's own code,
  which its classification cannot tell from a lost connection.
- `SpendWithinBudget` is about one order: the spending an order is created with is
  given by its caller, so orders of one scope may together exceed its budget.
- `EveryJobRuns` promises nothing for an order whose body trickles on.
- The effects of an adapter that took effect and then failed are not counted.

## 8. Not modelled

The signature of a webhook and of a token (a library's check of one input: what
it tells apart is an input of RequestAuth and Gateway). Names and slugs. The rows
of teams and projects (written by no code; constants in ControlPlane). The
business graph (plain inserts and selects). Orders without a task id (enqueued
by no code). Approval validity, context packets and the summaries of model
evaluations (called by no code). The contents of requests and responses of the
adapters, the price of cached input. `GraphileWorkQueue` (used by no route).
Feature flags, migrations, the shutdown of the runner, the web application, CI.

## 9. Plan

Order in which the modules were and will be written:

1. TaskStateMachine, DurableTask, TaskExecution with proofs (done)
2. Outbox, AtLeastOnceDelivery with proofs (done)
3. WorkRouter, ModelRouter, Orchestrator with proofs (done)
4. Constitution with proofs (done)
5. Policy, Provisioning, MemberDirectory, ControlPlane with proofs (done)
6. Adapters in Orchestrator, AdapterCalls with proofs (done)
7. StartupConfig, RequestAuth, ClerkEvents, Gateway with proofs (done)
8. Pure algorithms checked against a reference over bounded inputs: context
   packets, approval validity
9. A composition of dispatch, execution, orchestration and outbox: an accepted
   request leads to a settled task and delivered events
