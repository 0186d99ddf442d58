# Nimbleship, specified

TLA+ models of the parts of Nimbleship whose correctness depends on what
overlaps, fails or is retried; the TLC runs that check them on small instances;
and proofs, checked by TLAPS, that hold for every size of instance. Paths below are relative to
the repository; `nimbleship/` stands for `src/api/src/nimbleship/`.

    tlc -config Dispatch_races.cfg MCDispatch.tla     # one of the runs
    tlapm Booking_proofs.tla                          # one of the proof modules

`PROJECT.json` lists the runs with their properties, the source lines behind each
definition, and for each property a mutated definition that the run rejects.

## 1. The system

Nimbleship takes orders, chooses a carrier service for each (allocation), books
it with the carrier, keeps its label, and later declares what left a warehouse
on a manifest that is sent to the carrier. It has a JSON API, a legacy SOAP edge
for an existing warehouse system, a PostgreSQL database with READ COMMITTED
transactions (one per request, `nimbleship/db.py`), a Postgres-backed job queue
with workers (`nimbleship/queue.py`), and a web client. Carriers are described by
published documents ("definitions"), eligibility by a published "rulebook".

| Component | State | Operations | What makes it correct |
|---|---|---|---|
| **Manifest path** (`domain/manifests.py`, `routers/manifests.py`, `queue.py`, `legacy/manifest_service.py`, `legacy/consignment_service.py`) | `Consignment.status`, `Manifest`, `ManifestConsignment`, timeline events, send jobs | confirm a dispatch, mark ready, sweep, run/retry a send | declared on one manifest; dispatched only with the carrier told; a sent manifest is whole; a pending one settles |
| **Booking** (`domain/consignments.py`, `routers/consignments.py`, `legacy/paperwork_service.py`, `labels/store.py`) | `Consignment` row, label file, `CarrierTraffic`, SSCC serials, the carrier's shipment | create a consignment; prune labels | a shipment has a row; a retry never books twice; every call is on record; no serial twice |
| **Executor** (`engine/execute.py`, `uploaders.py`, `http_client.py`) | none of its own | render, authenticate, call, extract, step by step | steps in order, first refusal ends the operation, traffic of every step that ran |
| **Number ranges** (`engine/plugins/number_range.py`) | counter row per range | allocate under wrap or halt policy, grow, backfill | no number live twice, halt never wraps |
| **Definition and config rails** (`domain/definitions.py`, `routers/definitions.py`, `routers/carriers.py`) | versions, drafts, carrier config | draft, publish behind gates, merge config | versions only grow, one live, published once, no config key lost |
| **Rulebook rails** (`domain/rulebook.py`) | versions, draft | seed, draft, publish | the same, and a live version from the first request on |
| **Handoff blockers** (`carrier_builder/handoff.py`) | blocker rows | raise, resolve | an open blocker stops publishing; a resolution is final |
| **Legacy staging** (`legacy/staging.py`, `legacy/allocation_service.py`) | staged consignment per order | create/resend, allocate, deallocate, amend, mark printed | one row and one code per order, no lost write |
| **Tracking** (`domain/tracking.py`) | tracking events | ingest a webhook, current status | each event once; status independent of arrival order |
| **Allocation, checks, costs, charges** (`domain/allocation.py`, `checks/`, `costs.py`, `charges.py`) | none | pure functions of order, rulebook, catalogue | the cheapest eligible service, rounding at boundaries |
| **Geography, collection days** (`domain/geography.py`, `domain/collection.py`) | area tables | match a postcode, next collection day | most specific area wins; first open day within the scan |
| **Catalogues** (`domain/propositions.py`, `domain/service_groups.py`) | seeded rows | seed, create | seeded once |
| **Definition schema, rendering** (`domain/carrier_definition.py`, `engine/render.py`, `domain/facts.py`) | none | validate, render | what authoring accepts renders at a booking, or fails in a way booking handles |
| **OAuth token cache** (`engine/plugins/oauth_client_credentials.py`) | cached tokens of a process | fetch, reuse | no token dies on its way to the carrier |
| **Shadow replay** (`shadow.py`) | a savepoint that is rolled back | replay a create | leaves no trace |
| **Dry run, golden replay** (`domain/dry_run.py`, `routers/definitions.py`) | none | replay orders under a draft | identical rules show no difference |
| **Builders, assistant** (`carrier_builder/`, `rules_builder/`, `assistant/`) | a working copy that rides with each turn | tools that edit the copy, asked for by a language model | what they accept is valid; the copy and its marks agree |
| **Labels, barcodes** (`domain/barcodes.py`, `engine/labels_*.py`) | none | draw | pure output |
| **Dashboard, middleware, wiring** (`routers/dashboard.py`, `middleware.py`, `main.py`) | none | read, limit, wire | - |
| **Web client** (`src/web`) | browser state | pages, draft editing | - |

How they meet: booking calls allocation, the executor and number ranges inside one
request; it leaves a consignment `allocated` for the manifest path, or `dispatched`
when the carrier's definition has no manifest operation. The manifest path reads the
*current* definition at confirmation and again at the send, so a publish in between
reaches it. The legacy edge reaches booking through staged rows, and the manifest
path through mark-ready and the sweep. The queue calls the executor from a worker.

What is hard: requests overlap under READ COMMITTED, and only some reads lock; several
effects escape the request's transaction (serials, traffic, label files, the carrier);
the answer leaves before the commit; sends are retried, redelivered and cut off by a
worker's death; carriers may act and have their answer lost. `PROJECT.json` lists
each such place as a hazard at its line, with the properties that cover it.

## 2. Plan

| Module | Part of the system | State of it |
|---|---|---|
| `Dispatch`, `DispatchPromise` | manifest path, and what ADR 0013 promises of it | checked; safety and the refinement proved in `Dispatch_proofs` |
| `Booking` | one create request, step by step | checked; proved in `Booking_proofs` |
| `NumberRange` | allocation from a range | checked; proved in `Inbound_proofs` |
| `TokenCache` | OAuth tokens of one process | checked; proved in `Inbound_proofs` |
| `Rails` | versions of definitions and rulebook, gates, blockers, config | checked; proved in `Rails_proofs` |
| `LegacyStaging` | staged rows of the legacy edge | checked; proved in `LegacyStaging_proofs` |
| `Tracking` | tracking webhooks | checked; proved in `Inbound_proofs` |
| `Documents`, `Mapping` | facts, configs, answers and bodies; the mapping of a request body and how it renders | checked through the builder; proved in `Engine_proofs` |
| `CarrierDefinition`, `Engine`, `CarrierBuilder` | schema, execution, the builder's edits | checked; what renders proved in `Engine_proofs`, what a builder's copy does in `CarrierBuilder_proofs` |
| `Allocation`, `RulesBuilder` | what the rulebook makes of an order; edits of a rulebook | checked; proved in `RulesBuilder_proofs` |

`MCInbound` puts `NumberRange`, `TokenCache`, `LegacyStaging` and `Tracking` together,
`MCAuthoring` the builders and `Rails`; `MCBuilder` holds the builder's inputs.

Still worth doing: `Booking` extended by the pruning of labels and by the SOAP answer
that reads a label file back while a duplicate runs. Every safety invariant and action
property that a passing run checks has a theorem.

## 3. Modules

### Dispatch

The state is the columns it is named after (`status`, `mstatus`, `members`, `mgroup`,
`code`, `attempts`, `timeline`), the queue's view of each send job (`job`, `tries`),
the open requests (`txn`), the session of a running attempt (`attempt`), whether each
carrier's published definition has a manifest operation (`declares`), and one fact
about the outside, the documents a carrier has taken (`accepted`).

| Action | Code |
|---|---|
| `CreateConsignment` | the end of `create_consignment` and `arrives_as`, as one step (Booking opens it up) |
| `PublishDefinition` | a published definition that gains or drops the manifest operation |
| `ConfirmRead`, `ConfirmCommit` | `confirm_dispatch`: lock and validate; `create_manifests`, `defer_manifest_send`, commit |
| `SweepRead`, `SweepCommit` | the legacy `createManifest`: `ready_to_manifest` FOR UPDATE; mint a code, create, commit |
| `MarkRead`, `MarkWrite` | `markConsignmentsAsReadyToManifest`: the unlocked read; the flush |
| `Rollback` | any error, or being chosen as a deadlock's victim |
| `StartAttempt`, `EmitDocument`, `CommitSent` | `send_manifest` in `queue.py`'s task |
| `RedeliveredNoop` | the early return for a manifest already sent |
| `CommitFailure` | a carrier or definition error: bookkeeping committed, error raised again |
| `InfrastructureFault` | any other error: rolled back, raised |
| `FinishJob`, `Requeue`, `WorkerCrash` | the queue (external), a stalled job, a death |

A request is two steps, because that is where its transaction's snapshot and its
writes are. Row locks held in between are part of `txn`. Abstractions, each of which only
adds behaviour or leaves out what no property tells apart: a request takes its locks in
one step (waiting is a later read; a deadlock's victim is a `Rollback`); the queue's
exponential wait is dropped, so a retry may come at once; a manifest code is its
number in the sequence; mark-ready reads its rows at one moment. A dead worker's job stays
`stalled` until somebody requeues it, which nothing does by itself
(`docs/ROADMAP.md:178-181`).

`clobbered` is a history variable: the consignments that a mark-ready wrote after they had
left `allocated`. It separates the one known way out of the promise (section 6)
from everything else: the properties named `...UnlessClobbered` say that every *other*
way to declare twice or to move backwards is closed.

### DispatchPromise

What ADR 0013 promises with requests, jobs and retries removed: held, declared in one
batch, gone with the whole batch. `Dispatch!Promise` maps `status` to a phase (`Phase`),
`members` to batches and sent manifests to those that are away (`Away`).

### Booking

One variable per place where a create request leaves something: the number range
(`issued`, `codes`), the carrier (`booked`, `calls`), committed traffic (`traffic`),
the label file of an order (`label`), the unique key held by an uncommitted insert
(`holder`) and the row (`row`). `pc` is the request's place in the code.

| Action | Code |
|---|---|
| `Start` | the existence check, allocation (abstracted to its outcomes) and the definition read |
| `Mint` | `_mint_parcel_allocations` over the SSCC range, committed on its own |
| `CallCarrier`, `StepUnsent` | a step of the book operation that reached the carrier, or did not |
| `RecordTraffic` | `record_traffic`, committed on its own |
| `SaveLabel`, `BadLabel` | `store.save`; a carrier label that does not decode |
| `PersistFailure` | `persist_failure`: rollback, insert and commit of a failed booking |
| `Insert` | the flush of the success path and of a rejection: wait for the key, or conflict |
| `Reply`, `Commit` | the answer, and the commit of `get_session` after it |
| `Break` | the process dies, or an exception that no handler names |
| `PoolTimeout` | no connection for the mint or the traffic record within the pool's time-out |

The carrier may create the shipment and still refuse, or its answer may be lost
(`answer` refused, `r \in booked`). A client may send the same order again at any
moment, which is another `Request`; `earlier` remembers which requests had already
ended. A request holds a connection from its first query to its end, so who is
`Connected` follows from `pc`; minting and recording traffic need one more for a moment.
Response parsing, label bytes and timeline events are left out; pruning of
old labels is left out.

### Rails

One carrier's definition versions, or the rulebook's, and the two stores the publish
gates read. A request is one READ COMMITTED transaction: `row`, `config`, `blocker` and
`answer` are committed, `wrote`, `staged` and `resolving` belong to open transactions,
`lock` to the two advisory locks. `Sees` is what a transaction sees: its own write, or else
the committed row. A request's answer (`told`) leaves before its `Commit`.

`rail` is chosen at the start: the rulebook (numbered by its primary-key sequence, no
gates, seeded), the drop-out carrier's definition (numbered `max + 1` under the lock,
gated, seeded) or another carrier's (not seeded). `serial` also says how many versions an
older install left.

| Action | Code |
|---|---|
| `StartRequest`, `SeedIfFresh` | `_seed_if_fresh`, `_seed_dropout_if_fresh` at every entry point: unlocked look, lock, second look, insert |
| `ReadActive` | `active_rulebook`, `active_definition_row` |
| `CreateDraft`, `RefuseDraft` | `create_draft`; a draft that does not validate |
| `PassBlockerGate`, `PassConfigGate`, `ClaimPublish`, `RefusePublish` | `publish_version` of both routers, in the order of the code: fetch and open blockers, config and trial render, then the lock, the order check and the guarded UPDATE |
| `RaiseBlocker`, `ResolveBlocker`, `RefuseResolve` | `carrier_builder/handoff.py` |
| `SaveConfig` | `merge_carrier_config`, `upsert_carrier_config` |
| `Commit`, `Die` | the end of `get_session`; a death before it |

`late`, `shipped`, `latest`, `dead` and `told` are history. Raising a blocker is its whole
transaction, since nothing else in it matters to the rail.

### NumberRange

The range row (`range`), its lock, and per call the terms it passes, the row it read, the
number it claims and the row it will commit; `handed` lists what was handed out, with the
policy and ceiling that were in force. `TakeRange`, `ReadRange`, `ClaimNumber`, `CommitNumber` and
`AbortNumber` follow `allocate_number`: the lock, the read with its back-fill of null
columns, the refusals (another policy, another halt ceiling, no room), the UPDATE guarded
by the value read. A row of an older install has nulls for the policy, the ceiling, or
both. Padding and the check digit are formatting and left out.

### TokenCache

Threads look a token up (`LookUp`), or fetch one (`Grant` at the endpoint, `Store` when
the answer arrives) with no lock between, and send (`Send`). `dies` is the endpoint's
clock, `expires_at` the plugin's: it counts from the answer's arrival, at most
`Travel` later, less `Margin`, the safety margin. Nothing else bounds a token's use.

### LegacyStaging

The staging rows by id (an id is the code the WMS is given), the orders that have a
consignment, and calls that write rows under one advisory lock, whole batches at a time:
`CreateConsignments`, `AmendConsignments`, `AllocateConsignments`, `Deallocate`.
`StartPaperwork` reads one row without the lock and `InsertConsignment` ends its booking,
which `Booking` opens up; a rejection or any fault is `FaultCall`. `acked` remembers what
the committed answers said, order by order: it is what the WMS believes. `overtaken` are
the paperwork calls whose row a committed call changed after they had read it.
No constraint keeps order numbers unique among staging rows; only the lock does.

### Tracking

A webhook delivery is a transaction that stores its events one after the other, each in a
savepoint (`StoreEvent`): a duplicate is skipped alone. An insert waits for the delivery that
holds the same id uncommitted (`Waits`), and a ring of waiting deliveries is a deadlock
that Postgres resolves by ending one (`EndVictim`). That error is no IntegrityError, so the
delivery answers with a server error, which `domain/tracking.py:93-95` does not foresee;
the carrier's redelivery is another `Webhook`. The answer leaves first (`AnswerEvents`), with
the inserts still uncommitted and still waited for, and the session's commit follows
(`CommitEvents`). A death, a lost connection or a failed commit may come before the answer
(`BreakBeforeAnswer`: the source sees a failure) or between the two (`BreakAfterAnswer`: the
source holds an answer for events that are gone). A `Payload` is what a delivery's body parses
to: a sequence of events in which an id may come twice. `CurrentStatus` is `current_status`.

### Documents, Mapping, CarrierDefinition, Engine, CarrierBuilder, MCBuilder

`Documents` says what an order's facts, a config, a carrier's answer and a request body are:
functions from the paths in them to the node at each (an object, a list, a scalar with what it
says, a null), where a path is the sequence of its segments. `Part` is what a path leads
to, `Insert` is `insert_at_target` with its conflicts, `Fill` the loop of `_render_mapping`. What does not
resolve is a document of one node, an error or a token, so that an operator returns one kind of
thing. The text of a scalar matters only where two renders are compared. Segments are
members of `Name`; the first three of them that are digits (`Digits`) bound the length of a list.

`Mapping` is the mapping of a request body. An entry may hold entries (`each`), to any depth:
`Entry` are the entries there are, `Nesting` the bound on the depth, and `Level` the entries so
many levels down, so that rules over a whole tree are quantifiers over `Everyone`.
What the each of an entry makes of an item is a function of the level, the entry and the item's
place in the facts (`RenderedInside`); a path that starts with `item` is read below that place. In
the code's order: the value of an entry is rendered, then inserted, then the next entry; an upload
renders its path, its content and its file name, a request its url, its secret and its
body, and the first of them that fails is what fails.

`CarrierDefinition` holds the schema's other rules as operators (`DefinitionOK`, `OperationOK`,
`SourcesResolve`, `MissingConfigKeys`...), each with a `lenient` form where
loading a stored definition skips what authoring checks.
`Engine` renders the requests of an operation from facts, offline with tokens for outputs of steps that no
carrier has answered, live without, and executes it: render, authenticate, encode, send,
parse, extract, step by step, until a step fails. `ExecuteOperation` returns how a run ended:
`failed` (a carrier error, which booking handles), `unsupported`, or `crashed` (an exception
nobody handles). A `CarrierAnswer` is what the exchange leads to: taken, `declined` (an error
status or an unmet success condition, whose body is read for a message), `unreadable` (the
parser itself breaks down), `refused` (any other failure), or `unsendable`: no answer, since httpx
or the uploader cannot make the request at all, which `execute.py:316` does not catch
because `httpx.InvalidURL` is no `HTTPError`. The schema does not look at response paths, so a
step says at which of the three places where an answer is looked into its path makes the
lookup raise (`raises`): ElementPath does for an xml path such as `Response/@status`.
`CarrierBuilder` is the state machine on top: the working copy, the marks of capabilities
that do not apply, and one action per editing tool (`SetIdentity`, `SetAuth`,
`PutOperation`, `RemoveOperation`, `PutStep`, `RemoveStep`, `PutMappingEntry`,
`RemoveMappingEntry`, `MarkNotApplicable`, `MarkApplicable`). The language model is the
choice of the next edit; a refused edit is a step not taken. The copy comes from the client
with every turn, so it starts as any seed, ones saved under older rules included. The
publish gate, a booking and the golden replay are operators over the copy.
`MCBuilder` lists the seeds and the edits: for each rule an edit that meets it and one that
breaks it. Its `Nesting` is 2: a manifest lists its consignments and the parcels of each.

### Allocation, RulesBuilder

`Allocation` has the eight checks, delivery cost, delivery charge, selection, quotes, the
areas of a postcode, the facts of an order, the row its dispatch leaves and the dry run that
reads it back. Quantities are whole numbers in the hundredths they are stored in. A service
with bands of which none matches has no cost and is not selected (`HasCost`).
`ServiceDeclaration`, `CostBand` and `ChargeBand` are the validated types.
`RulesBuilder` edits a rulebook copy service by service (`AddService`, `UpdateService`,
`RemoveService`), so that the properties of selection are asked of rulebooks reached by
edits. The copy the client hands in, and the one an edit would make, are validated and refused
if they clash (`Valid`); an empty copy is a state of an edit, though not a rulebook.

### MC and proof modules

`MCDispatch` and `MCBooking` only hold the functions and the symmetry sets the
configurations name; `MCInbound` and `MCAuthoring` also join components that run side by
side. The components of `MCInbound` share no state, and neither do the builders and the
rails in `MCAuthoring`: what meets is the kind of caller. Their product would
multiply state spaces and add no behaviour, so a variable `scope` picks one of them at the
start and the others rest in an initial state: the state spaces add up, and each
component is explored completely.
A `*_proofs` module extends its component.

## 4. Runs

| Run | Instance | Shows |
|---|---|---|
| `dispatch_races` (about 171,000 states) | 2 consignments in different warehouses, 2 overlapping requests of any kind, 3 manifests, one sweep, no retries | row locks keep a consignment on one manifest and moving forward |
| `dispatch_retries` (about 277,000) | 2 consignments on one fan-out manifest, one request at a time, 1 retry, 1 death, 1 database fault | nothing is dispatched silently or sent in part; pending manifests settle; the promise is kept |
| `dispatch_stale_ready` | 1 consignment, 2 requests, 2 sweeps | finding 1 |
| `dispatch_lost_failure` | 1 consignment, 1 fault in the only attempt | finding 2 |
| `booking_races` (about 784,000) | 3 requests for one order, 2 parcels, a range of 5, one break | what is at the carrier, on record, in the range, on disk and in the row agree |
| `booking_ends` (about 37,000) | 2 requests, 2 connections, both may break, 3 kinds of definition | requests waiting for a key, or for a connection each of them holds, all end |
| `booking_starved` | 2 requests, 2 connections, nothing breaks | finding 3 |
| `booking_stray_label` | 2 requests, nothing breaks | finding 4 |
| `inbound_races` (about 1,177,000) | range: 2 callers, ceilings 0 to 3, old counters 2 and 3, 8 numbers handed; token: 2 threads, 2 clients, lifetimes 1, 3, 5 against a margin of 2, clock to 6; staging: 2 overlapping calls of 3, 2 orders, 2 groups of which one is known, 2 ids; tracking: 3 deliveries of up to 2 of 3 events, an id twice included, each broken before or after its answer or not at all | numbers are not handed out again, tokens are good when used, staged rows hold what the answers said, webhooks have stored what they acknowledged once they have committed |
| `authoring_races` (about 608,000) | rails: 3 requests of any kind, 4 versions (none, or 3 from an older install), 1 blocker, 2 config keys, 1 death; builders: 2 edits from each of 12 seed copies and 4 seed rulebooks (one of which is refused), 5 steps, 10 mapping entries, 6 operations, 5 auth blocks, 2 configs, 15 orders | what is accepted renders, books and replays; selection is repeatable and was on offer; drafts, publishes, blockers and config writes neither overtake nor lose each other |
| `builder_form_list` | the builder alone | finding 5 |
| `builder_replay` | the builder alone | finding 6 |

Why the bounds are enough to be of interest. Two requests are enough for every
pairwise race of reads and writes, and the third manifest lets a double declaration
happen; two warehouses split one confirmation over two manifests while sweeps
close one each. One retry distinguishes first, last and redelivered attempts; two members
under fan-out make "some documents away" a state. For booking, three requests give a
duplicate that loses *and* a later retry; the range of 5 with 2 parcels is exhausted by the
third mint with one serial left over, so that a partial mint would show; two
steps make a booking that fails halfway. `booking_races` has more connections than
requests (`Pool` 4), so that only the one break loses a request; `booking_ends` has as many. `MaxAttempts`, `MaxSweeps`,
`MaxCrashes`, `MaxFaults` and `MaxBroken` are the only bounds that are not the code's
(`MaxAttempts` is, as `MANIFEST_RETRY.max_attempts`, at a smaller value).

For the rails, three requests are enough for a publish that passes a gate while one request
raises a blocker and another resolves it, and for two publishes over a draft of a third; four
versions with three taken let a draft be numbered once by each way. Two keys tell a merge
that loses another's key from one that does not. The number range reaches the end of
its ceiling twice: 8 numbers over ceilings of at most 3 give two whole laps, and a counter
left at 3 stands past ceilings 1 and 2. Lifetimes below, just above and well above the
margin make tokens that the cache never serves, serves for one instant, and serves long.
Two orders and two ids make a batch of which one order is new and one resent. The events of
the tracking run are a delivery and an exception at one instant and a movement that says no
time, so that it is dated by its arrival; two-event deliveries in opposite order
deadlock, and a third waits for both. Two edits reach every pair of rules that meet in one
definition; copies saved under older rules are seeds, since no edit reaches them.
`MaxBatch`, `MaxReceived`, `MaxRow`, `MaxCalls`, `MaxHanded`, `Horizon`, `MaxVersion`,
`MaxDead`, `MaxEdits` and `MaxRuleEdits` are bounds that the code does not have.

Symmetry is used only in runs without liveness properties. Deadlock is checked in every Dispatch run; in
Booking it is off because a finite set of requests comes to its end, and
`RequestEnds` says that it is an end. `inbound_races` and `authoring_races` end at their
bounds, too.

**Fairness.** `Dispatch!FairSpec`: an open request commits or rolls back (the server
finishes or aborts its transactions), and the workers run `procrastinate`'s loop: take a
free job and go through the attempt. Nothing obliges anyone to send requests, publish,
requeue a stalled job, fail or die; `PendingSettles` therefore ends in "sent, failed, or
the job is visibly stalled or failed". `Booking!FairSpec`: a request that has begun is
served until it ends, or the pool's time-out ends it; each request on its own, since
each has its thread.

## 5. Proofs

The proof modules assume nothing but the named assumptions on the constants (the
bounds are numbers, the functions are functions, a marker is not a member), so the
theorems hold for any numbers of consignments, requests, manifests, versions, callers,
threads, retries, deaths and faults.

**Dispatch.** `DispatchInv` is inductive together with `TypeOK`. The safety properties alone are not: that a
consignment is declared once depends on a row being frozen from its locked read to
the commit (`LocksHold`), and on a declared row having left the statuses that
a confirmation or sweep accepts (`DeclaredHasMovedOn`). That a sent manifest is complete
depends on what an attempt saw at its start still holding when it commits
(`AttemptIsCurrent`), although other requests run meanwhile.

`QueueInv` keeps three counts in step: the queue's tries, the manifest's own `attempts` and
its status. A manifest is failed only with the last try spent, and, as long as no
infrastructure fault has rolled its bookkeeping back, a job that is over has said so;
`OverIsNotPendingHolds` therefore has `faults = 0` in it (finding 2 is the other case).
`OnManifestWaits` strengthens `OnManifestIsUnsent` by what an attempt knows: a consignment
that is on_manifest on a manifest being sent was read as undispatched by the attempt, so the
commit that marks the manifest sent moves it, too.

The refinement (`PromiseKept`) assumes `OneByOne`, one request open at a time, since
otherwise finding 1 breaks it. `SoloInv` says what that gives: a mark-ready writes
rows that are still allocated, so nothing is `clobbered`, and no manifest that exists is
empty. Each action then maps to a declaration, a departure, an arrival or a stutter:
the proof has one lemma per action that changes `status`, `members` or `mstatus`, and none
for the rest, however often a worker retries, repeats a document or dies.

| Theorem | Says |
|---|---|
| `TypeCorrect` | `TypeOK` always |
| `DispatchSafe` | the inductive invariant |
| `DeclaredOnceHolds` | `DeclaredOnceUnlessClobbered` |
| `NeverSilentlyDispatched` | `DispatchedIsAccountedFor` |
| `SentIsCompleteHolds` | `SentIsComplete` |
| `QueueSafe`, `AuditTracksQueueHolds`, `FailedIsExhaustedHolds` | the queue's invariant; `AuditTracksQueue`; `FailedIsExhausted` |
| `OverIsNotPendingHolds` | `OverIsNotPending` while `faults = 0` |
| `OnManifestIsUnsentHolds` | `OnManifestIsUnsent` |
| `ForwardHolds` | the action property `ForwardUnlessClobbered` |
| `PromiseKept` | `KeepsPromise`, given `OneByOne` |

**Booking.** `BookingInv` says what is true of a request at each point of its way
(`Underway`), how far traffic may lag (`TrafficFollows`), who holds a unique key
(`KeysHold`), that rows come from requests that are over (`RowsAreOver`), that nothing
is minted beyond the counter (`CodesAreIssued`), and that a request past the existence
check had no booked predecessor that did not break (`NoPredecessor`). The last is why
`RebookedOnlyByOverlap` holds: a predecessor that ended with a shipment left a row
(`BookedIsRecorded`), so the existence check stops its retry.

| Theorem | Says |
|---|---|
| `TypeCorrect`, `BookingSafe` | `TypeOK` and the inductive invariant |
| `BookedIsRecordedHolds` | a shipment has a row, unless the request broke |
| `NoDoubleBooking` | `RebookedOnlyByOverlap` |
| `AuditCompleteHolds` | traffic is at most the one call in flight behind |
| `NoSilentSuccess` | `SuccessIsBooked` |
| `CodesAreUnique` | `NoCodeReused` |
| `LabelledHasLabelHolds` | `LabelledHasLabel` |
| `RowsAreFinal` | the action property `RowIsFinal` |

**Rails.** Three invariants, each inductive with `RailsTypeOK`, one per concern, over one
lemma (`OthersStay`) that a step of a request leaves the others' private state alone.
`ConfigInv`: a saved and uncommitted config is what its patch makes of the *committed* one
(`ConfigHeld`), since its request has the lock; so no commit writes back a stale key.
`BlockerInv`: a publish past the gate while a blocker is open is in `late`
(`GateLooked`), and an uncommitted resolution is on an open blocker (`Resolvers`), so a
resolved one gets no second answer.
`VersionInv`: whoever has published uncommitted, or drafted on a definition, has the
lock (`HoldsRail`); the rulebook's sequence is ahead of every version, uncommitted ones
included (`SerialAhead`); an uncommitted draft has its number to itself
(`DraftsAreFresh`); an uncommitted publish is above everything published
(`NewestPublished`), which its request checked under the lock and which nobody can
change while it holds it; and on a seeded rail whoever is past the seed has a published
version in sight (`SeedHolds`). That a set of versions has a highest one is proved from the
well-foundedness of strict subsets (`HasHighest`).

| Theorem | Says |
|---|---|
| `RailsTypeCorrect` | `RailsTypeOK` |
| `ConfigSafe`, `NoSettingLostHolds` | the config invariant; `NoSettingLost` |
| `BlockerSafe`, `BlockedPublishIsRacedHolds`, `ResolutionStandsHolds` | the blocker invariant; `BlockedPublishIsRaced`; `ResolutionStands` |
| `VersionsSafe`, `NumbersDistinctHolds`, `AlwaysLiveHolds` | the version invariant; `NumbersDistinct`; `AlwaysLive` |
| `PublishedBecomesLiveHolds` | the action property `PublishedBecomesLive` |

**NumberRange (in `Inbound_proofs`).** `RangeInv` relates the committed counter to the last number handed out and
a claim to the row it was read from. A halt range's numbers strictly grow. A wrap range's
go up by one or return to 1 from the ceiling in force; ceilings only grow, so between two
uses of one number lie as many others as the ceiling of the first.

| Theorem | Says |
|---|---|
| `RangeSafe` | the inductive invariant, types included |
| `HaltHolds`, `LapHolds` | `HaltNeverReissues`; `ReissuedOnlyAfterALap` |
| `TermsFixed` | the action property `RangeTermsFixed` |

**TokenCache (in `Inbound_proofs`).** `TokenInv` says that a cached token's true end is at least the margin less
the travel time after the cache's own.

| Theorem | Says |
|---|---|
| `TokenSafe`, `BearerHolds` | the inductive invariant, types included; `BearerIsGood` |

**LegacyStaging.** `Agreed` relates staged rows to what was answered for them: one row per
answered order, which holds what its last answer said. `StagingInv` says it of the
committed rows and answers, and of what they will be when the holder of the advisory lock
commits; nobody else is `staged`, so no commit invalidates another's. Paperwork reads
without the lock, so `PaperworkInv` says of a running booking only that its row still holds
what was last said of the order, or that the booking is in `overtaken`.

| Theorem | Says |
|---|---|
| `StagingTypes` | `StagingTypeOK` |
| `StagingSafe`, `PaperworkSafe` | the two inductive invariants |
| `AcknowledgedIsStagedHolds` | `AcknowledgedIsStaged` |
| `ShipsWhatWasToldHolds` | `ShipsWhatWasTold` |

**Tracking** (in `Inbound_proofs`). `TrackingInv` says what a delivery has made of its payload so
far: every event it was sent is either left to do, its own uncommitted insert, or stored
(`StoringInv`), an uncommitted event belongs to one delivery whose transaction is open, answered
or not (`MineIsMine`), and what the deliveries have counted is as much as they have inserted.
Rolling back the victim of a deadlock, or a delivery that broke, therefore takes nothing from
anybody else. `AnsweredIsStoredHolds` then says that an answered delivery is stored in full once
it has committed, that the counts of these answers add up to the stored events, and that a
delivery which broke between answer and commit misses at most as many events as it counted:
those it skipped as duplicates had been committed by others. The count is proved by a bijection of what was
told with what is stored. `DeliveryNotHiddenHolds` needs a latest instant of a finite
set of events, which comes from the well-foundedness of strict subsets.

| Theorem | Says |
|---|---|
| `TrackingSafe` | the inductive invariant, types included |
| `AnsweredIsStoredHolds` | `AnsweredIsStored` |
| `DeliveryNotHiddenHolds` | the action property `DeliveryNotHidden` |
| `SideBySide` | `InboundSpec` implies the specification of each of its four components |
| `InboundTypeCorrect` | `InboundTypeOK` |

**Rendering** (`Engine_proofs`). About the operators, for every mapping at every nesting, all facts
and any length of lists up to `Digits`. Three inductions: over the entries of one body (`Fill`),
over the levels of entries inside others, over the steps of a run. `DryRunIsSound`: a body of
nulls mirrors a body of any values (`Mirrors`): it has the same objects and lists above the targets,
and what else the other has is below one of its nulls, so a target that the one takes the other takes. `SameOfflineAndLive`: what two
renders see differs only below `steps` (`AlikeFacts`); a path that does not start there leads
to the same part, and so, level by level, does everything made of such parts. The
third result says what a render can fail at (`FairRequest`): if every path a step reads is
`Provided` (its root is one below which an order may lack something, or it is a path into the
config that is there), a failure is a value of the wrong shape, or names a path below such a root.

| Theorem | Says |
|---|---|
| `DryRunIsSound` | where the dry run of the targets succeeded, a body fails only as one of its values did |
| `SameOfflineAndLive` | a step that reads no other's output renders live as it does offline |

**CarrierBuilder.** `BuilderInv` is the shape of a copy and `MarksAreUndrafted`. Every granular edit
ends in storing an operation with the label of the old one (`RestoredDrafts`), which is why an
edit that keeps the marks drafts nothing. The other three hold in every state whose copy has
that shape, since they ask only what such a copy does, and each is an invariant of a run, shown step by
step. `CrashesAreLocated`: a run is `Located` after each of its steps, that is, a crash is at
one of the `CrashSites` of a step. The two crashes that are no such site cannot happen: an auth
plugin that is not registered is excluded by the rule that a lenient load keeps, and an
operation that is not there by the choice of the name. A crash while encoding belongs to a form
step, since what is rendered keeps the content type of its step (`RenderedKeeps`). `RendersWhatItAccepts`: what the strict rules let a step read (`StepReads`) is provided,
in a config that misses none of the keys the definition names (`KeysHeld`), by the facts and by the
outputs of the steps before it; those stay plain documents because what a carrier
answers is extracted value by value (`Steady`). So `FairRequest` applies to each step
(`AcceptedIsFair`, `FairProgress`). `GatedOrdersRender`: the gate rendered each step from the facts of such an
order (`GateRendered`), and a step that reads no other renders the same live
(`SameOfflineAndLive`), whatever the steps before it left; what remains to fail is the carrier or an
extraction. `Progress` is a recursive function; that there is such a function is proved, too
(`ProgressSteps`). The facts are the model's (`OrderFacts`, `ManifestFacts`): two address lines
and two parcels, a depot or none, and any config of `Configs`.

| Theorem | Says |
|---|---|
| `BuilderSafe` | the inductive invariant |
| `MarksAreUndraftedHolds` | `MarksAreUndrafted` |
| `CrashesAreLocatedHolds` | `CrashesAreLocated` |
| `RendersWhatItAcceptsHolds` | `RendersWhatItAccepts` |
| `GatedOrdersRenderHolds` | `GatedOrdersRender` |

**RulesBuilder.** The type of the copy is the invariant (`RulesTypeCorrect`); the rest is about the
operators, for every copy of that type. That a cost does not depend on how bands are listed
needs sums: the library adds up a set in an order it chooses, so `SumIsPoints` shows that
its result is a count of points, and a count is the same for two sets in bijection
(`SumRelisted`). Minima are the same because the sets are (`HasLeast`, `CostRelisted`). A
rulebook has distinct codes and places in the tie-break, so a best service exists and is the only
one (`SomeoneWins`, `WinnerSelected`), wherever it is listed. Rounded parcels are not
rounded again, so a row's facts are the order's (`FactsRebuilt`). `ChecksAreOptimistic` is the
core of `CheckoutHolds`: a service that passes all eight checks on an order's facts passes them
with any part of the facts hidden; what an unknown dimension hides of the cost is no
reason to have none.

| Theorem | Says |
|---|---|
| `RulesTypeCorrect` | `RulesTypeOK` |
| `SelectionHolds` | `SelectionIsRepeatable` |
| `ChecksAreOptimistic`, `CheckoutHolds` | the checks alone; `CheckoutIsOptimistic` |

The library's induction theorems take an operator as a parameter, which the provers cannot
instantiate. The inductions above are therefore by minimal counterexample: `WFMin` gives a
least element of the set of exceptions, under `<` on the naturals or strict inclusion of finite
sets, and the step shows that it has a smaller one. `Upwards` in `Engine_proofs` states it once
for a set of naturals. That is why the renderer is not a RECURSIVE operator but a function of a
level: induction over documents or entries themselves would be out of reach.

Only model-checked: liveness (`PendingSettles`, `RequestEnds`), since fairness and
ENABLED are out of the prover's reach; and what the six runs that end in a violation find,
which is a counterexample and needs no proof.

## 6. Where code and documents part

1. `dispatch_stale_ready`: mark-ready reads statuses without a lock
   (`nimbleship/legacy/consignment_service.py:69-83`) and writes `ready_to_manifest`
   without looking again. A confirmation that commits in between is undone, and the
   next sweep declares the consignment on a second manifest. `domain/manifests.py:33-37`
   names that "sending the carrier the same dispatch twice".
2. `dispatch_lost_failure`: a database error in the last attempt rolls the bookkeeping
   back; the queue fails the job and the manifest stays `pending`, although
   `models.py:337` says "pending -> sent, or -> failed once the send job exhausts its
   retries."
3. `booking_starved`: recording a carrier call opens a second connection while the
   request keeps its first. When as many requests as the pool has connections are at
   that point, the pool times out and the request unwinds: a call that reached the
   carrier leaves neither traffic nor a row, although `domain/consignments.py:290-292`
   says "so no later failure can discard the audit trail". The pool has SQLAlchemy's
   default size, 15 connections (`db.py:24-28`); the run uses two of each.
4. `booking_stray_label`: the label file is saved before the flush that decides the
   duplicate race. When a failed duplicate wins, the loser's label stays under
   the failed consignment and is served, although `domain/consignments.py:75-76` says
   "Failure statuses (rejected, booking_failed, label_failed) have no label."
5. `builder_form_list`: a form body is encoded only when its step is sent, and a field
   that holds a list or an object raises a bare `ValueError` there
   (`engine/execute.py:129-134`), which the booking path does not catch. Schema,
   completeness check and publish gate accept such a definition; every booking with it is an
   uncaught error, although `engine/execute.py:248-250` says a render failure "is a booking
   failure, not an uncaught 500". It is one of four places where that can happen:
   `CrashesAreLocated` lists them and says that there is no fifth.
6. `builder_replay`: the golden replay renders from shipment and config alone
   (`routers/definitions.py:433-436`), a booking and the gate with the warehouse too. A
   definition that reads the warehouse differs from itself, although `domain/facts.py:1-4`
   says one builder per fact root is shared by all three.

Smaller remarks, without a run. The other three places of `CrashSites` leave no `StepRecord`
either: a request httpx cannot make (`InvalidURL` at `execute.py:308-316`; the same error at the
token endpoint is handled, and tested), a parser that breaks down (329, 339), and an xml
response path on which `node.find` raises (92, reached from 333, 345 and 350). The
last two come after the carrier has answered, so a shipment may be at the carrier with no
traffic and no row, although `execute.py:6-8` says "Every attempted step yields a StepRecord -
success or failure". An answer of a webhook leaves before its commit: a source that was told
`events_stored` may not send again what then was lost. Deliveries that deadlock answer one of them with a
server error, where `domain/tracking.py:93-95` says "never a 500". And the publish gates run
before the publish lock: a blocker raised in between does not stop the publish
(`BlockedPublishIsRaced` says that this is the only way past it).

## 7. Not modelled, and limits of the properties

- **Rounding at a checkout**: `CheckoutIsOptimistic` gives the checkout the weights the order is
  dispatched with, which are rounded to the stored hundredths, with facts hidden.
  `routers/quotes.py:39-43` evaluates the payload's own total, so a total that is over a limit by
  less than the rounding, or under it, is not covered.
- **The publish gates**: `BlockedPublishIsRaced` is about the blockers. A config key removed
  between the gate and the publish lock is possible in `Rails` but no property speaks of it.
- **A document declared twice**: `accepted` is the set of consignments a carrier took, so the
  repeat of a document whose answer timed out adds nothing to it and no property sees it; the
  code has no means against it.
- **Overlapping calls**: `ShipsWhatWasTold` exempts a booking that a committed call overtook. The
  code lets deallocate change the row after paperwork has read it; the property says that
  nothing else does.
- **Shadow replay**: its isolation is which side effects it hands to the booking path, all
  kept inside a savepoint that is rolled back: a fact about wiring, not about steps.
  What it replays is `Booking`, `LegacyStaging` and `Allocation`.
- **Catalogues**: a seed like the rails' and an insert under a unique code.
- **Collection days**: a scan of a calendar; the postcode areas are in `Allocation`.
- **Labels and barcodes, SOAP parsing, the text of messages and of rendered bodies**:
  documents and strings with no state.
- **Language-model conversations**: the model is the choice of the next edit; prompts and
  redaction are text, and the assistant's tools only read.
- **Dashboard, middleware, wiring, web client**: read-only queries, limits, pages.
- Of the modelled components: timeline events of a booking, pruning of old labels, the
  read-back of a label file by the SOAP answer, the flattening of a rendered step in the
  golden replay's report, and a blocker raised under a carrier name that the builder changes
  afterwards (it stays with the old name).
