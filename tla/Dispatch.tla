------------------------------ MODULE Dispatch ------------------------------
(***************************************************************************)
(* The manifest path of a consignment (ADR 0013): paperwork leaves it      *)
(* allocated, a dispatch confirmation (JSON edge) or a mark-ready call and *)
(* a createManifest sweep (legacy edge) declare it on a Manifest, and a    *)
(* queue worker sends the Manifest to the carrier, with retries.           *)
(*                                                                         *)
(* Every HTTP request is a database transaction under READ COMMITTED.  The *)
(* confirmation and the sweep take their rows FOR UPDATE; mark-ready reads *)
(* its rows without a lock and writes them by primary key at its flush.    *)
(* A request is therefore two steps, the read and the commit, and holds    *)
(* its row locks in between.  Row locks are taken in one step: a request   *)
(* that waits for one of its rows is a request whose read comes later.     *)
(*                                                                         *)
(* A Manifest's primary key is a fresh identity.  The queue's exponential  *)
(* wait is left out: a job that is to be retried may run at once.          *)
(***************************************************************************)
EXTENDS Integers, FiniteSets

CONSTANTS
    Consignment,     \* order numbers
    ManifestId,      \* primary keys a Manifest row may get (bounds their number)
    Txn,             \* request slots: how many API requests may overlap
    Group,           \* (carrier, warehouse) pairs
    Carrier,
    GroupOf,         \* consignment -> group, fixed when it is created
    CarrierOf,       \* group -> carrier
    FailureStatus,   \* rejected, booking_failed, label_failed: paperwork refused
    FanOut,          \* the carriers whose manifest operation is fan_out
    MaxAttempts,     \* MANIFEST_RETRY.max_attempts
    MaxSweeps,       \* bound on createManifest calls
    MaxCrashes,      \* bound on worker deaths
    MaxFaults        \* bound on infrastructure faults inside an attempt

ASSUME GroupAssumption   == Group # {} /\ GroupOf \in [Consignment -> Group]
ASSUME CarrierAssumption == CarrierOf \in [Group -> Carrier]
ASSUME FanOutAssumption  == FanOut \subseteq Carrier
ASSUME FailureAssumption ==
    FailureStatus \subseteq {"rejected", "booking_failed", "label_failed"}
ASSUME BoundsAssumption  == /\ MaxAttempts \in Nat
                            /\ MaxSweeps \in Nat
                            /\ MaxCrashes \in Nat
                            /\ MaxFaults \in Nat

VARIABLES
    status,      \* Consignment.status, "absent" before the row exists
    txn,         \* the open request of each slot
    declares,    \* does the carrier's published definition have a manifest operation
    mstatus,     \* Manifest.status, "none" before the row exists
    members,     \* the ManifestConsignment rows of a Manifest
    mgroup,      \* Manifest.(carrier, warehouse)
    code,        \* Manifest.code: 0 for NULL, else its number in the code sequence
    minted,      \* how many manifest codes the sequence has given out
    attempts,    \* Manifest.attempts
    timeline,    \* OrderEvent rows of the stages below, as <<stage, consignment, manifest>>
    job,         \* the send job's state in the queue
    tries,       \* job.attempts: attempts the queue has counted as completed
    attempt,     \* the worker's session during an attempt
    accepted,    \* the documents (one per consignment) the carrier has taken
    crashes, faults,
    clobbered    \* history: rows a mark-ready wrote after they had left "allocated"

requestVars  == <<status, txn>>
manifestVars == <<mstatus, members, mgroup, code, minted>>
workerVars   == <<job, tries, attempt, accepted, attempts>>
vars == <<status, txn, declares, mstatus, members, mgroup, code, minted, attempts,
          timeline, job, tries, attempt, accepted, crashes, faults, clobbered>>

Status == {"absent", "allocated", "ready_to_manifest", "on_manifest", "dispatched"}
             \union FailureStatus

NoManifest == "no manifest"
ASSUME NoManifestAssumption == NoManifest \notin ManifestId
Stage == {"dispatched", "on_manifest", "manifested", "manifest_failed"}

Idle == [kind |-> "idle", held |-> {}, work |-> {}]
AnyGroup == CHOOSE g \in Group : TRUE   \* the unread field of an unused identity
NoAttempt == [able |-> FALSE, unsent |-> {}, emitted |-> {}]

TypeOK ==
    /\ status \in [Consignment -> Status]
    /\ txn \in [Txn -> [kind : {"idle", "confirm", "sweep", "mark"},
                        held : SUBSET Consignment, work : SUBSET Consignment]]
    /\ declares \in [Carrier -> BOOLEAN]
    /\ mstatus \in [ManifestId -> {"none", "pending", "sent", "failed"}]
    /\ members \in [ManifestId -> SUBSET Consignment]
    /\ mgroup \in [ManifestId -> Group]
    /\ code \in [ManifestId -> 0 .. MaxSweeps]
    /\ minted \in 0 .. MaxSweeps
    /\ attempts \in [ManifestId -> 0 .. MaxAttempts + 1]
    /\ timeline \subseteq Stage \X Consignment \X (ManifestId \union {NoManifest})
    /\ job \in [ManifestId -> {"none", "todo", "doing", "succeeded", "raised",
                               "stalled", "done", "failed"}]
    /\ tries \in [ManifestId -> 0 .. MaxAttempts]
    /\ attempt \in [ManifestId -> [able : BOOLEAN, unsent : SUBSET Consignment,
                                   emitted : SUBSET Consignment]]
    /\ accepted \in [ManifestId -> SUBSET Consignment]
    /\ crashes \in 0 .. MaxCrashes
    /\ faults \in 0 .. MaxFaults
    /\ clobbered \subseteq Consignment

Init ==
    /\ status = [c \in Consignment |-> "absent"]
    /\ txn = [t \in Txn |-> Idle]
    /\ declares = [k \in Carrier |-> TRUE]
    /\ mstatus = [m \in ManifestId |-> "none"]
    /\ members = [m \in ManifestId |-> {}]
    /\ mgroup = [m \in ManifestId |-> AnyGroup]
    /\ code = [m \in ManifestId |-> 0]
    /\ minted = 0
    /\ attempts = [m \in ManifestId |-> 0]
    /\ timeline = {}
    /\ job = [m \in ManifestId |-> "none"]
    /\ tries = [m \in ManifestId |-> 0]
    /\ attempt = [m \in ManifestId |-> NoAttempt]
    /\ accepted = [m \in ManifestId |-> {}]
    /\ crashes = 0 /\ faults = 0
    /\ clobbered = {}

-----------------------------------------------------------------------------
(* Requests.  A definition such as RowsForUpdate_variant is a plausible slip  *)
(* in the code that RowsForUpdate models; nothing in Next uses it.          *)

\* Rows of rs that no other open request holds a lock on.
Free(t, rs) == \A u \in Txn \ {t} : txn[u].held \cap rs = {}

Begin(t, kind, held, work) ==
    /\ txn[t] = Idle
    /\ txn' = [txn EXCEPT ![t] = [kind |-> kind, held |-> held, work |-> work]]
    /\ UNCHANGED <<status, declares, timeline, attempts, crashes, faults, clobbered>>
    /\ UNCHANGED manifestVars /\ UNCHANGED <<job, tries, attempt, accepted>>

\* create_consignment, seen from here: the row appears with its paperwork done
\* or refused.  Without a manifest operation the label is the departure.
CreateConsignment(c) ==
    /\ status[c] = "absent"
    /\ \/ /\ declares[CarrierOf[GroupOf[c]]]
          /\ status' = [status EXCEPT ![c] = "allocated"]
          /\ UNCHANGED timeline
       \/ /\ ~ declares[CarrierOf[GroupOf[c]]]
          /\ status' = [status EXCEPT ![c] = "dispatched"]
          /\ timeline' = timeline \union {<<"dispatched", c, NoManifest>>}
       \/ /\ status' \in {[status EXCEPT ![c] = f] : f \in FailureStatus}
          /\ UNCHANGED timeline
    /\ UNCHANGED <<txn, declares, attempts, crashes, faults, clobbered>>
    /\ UNCHANGED manifestVars /\ UNCHANGED <<job, tries, attempt, accepted>>

\* A newly published definition gains or drops the manifest operation.
PublishDefinition(k) ==
    /\ declares' = [declares EXCEPT ![k] = ~ @]
    /\ UNCHANGED <<status, txn, timeline, crashes, faults, clobbered>>
    /\ UNCHANGED manifestVars /\ UNCHANGED workerVars

\* The rows the confirmation's SELECT locks.
RowsForUpdate_variant(rows) == {}
RowsForUpdate(rows) == rows

Confirmable_variant(c) == status[c] \in {"allocated", "dispatched", "on_manifest"}
Confirmable(c) == status[c] \in {"allocated", "dispatched"}

\* confirm_dispatch up to create_manifests.  An unknown or unconfirmable order
\* ends the request with nothing written.
ConfirmRead(t, orders) ==
    /\ orders # {}
    /\ Free(t, orders)
    /\ \A c \in orders : Confirmable(c)
    /\ Begin(t, "confirm", RowsForUpdate(orders), {c \in orders : status[c] # "dispatched"})

\* createManifest's sweep: the rows of one group that are ready.
SweepRead(t, g) ==
    LET ready == {c \in Consignment : GroupOf[c] = g /\ status[c] = "ready_to_manifest"}
    IN  /\ Free(t, ready)
        /\ Begin(t, "sweep", RowsForUpdate(ready), ready)

\* What create_manifests makes of a consignment: on a manifest it waits for the
\* send; with no manifest operation left it is dispatched here.
StageOf_variant(declared) == "dispatched"
StageOf_waiting(declared) == "on_manifest"
StageOf(declared) == IF declared THEN "on_manifest" ELSE "dispatched"

\* create_manifests, defer_manifest_send for each manifest, and the commit.
CreateManifests(t, newCode) ==
    LET work      == txn[t].work
        declaring == {g \in {GroupOf[c] : c \in work} : declares[CarrierOf[g]]}
    IN  \E id \in [declaring -> {m \in ManifestId : mstatus[m] = "none"}] :
        LET new     == {id[g] : g \in declaring}
            groupOf == [m \in new |-> CHOOSE g \in declaring : id[g] = m]
            declared(c) == GroupOf[c] \in declaring
        IN  /\ \A g, h \in declaring : id[g] = id[h] => g = h
            /\ status' = [c \in Consignment |->
                            IF c \in work THEN StageOf(declared(c)) ELSE status[c]]
            /\ timeline' = timeline \union
                 {<<StageOf(declared(c)), c,
                    IF declared(c) THEN id[GroupOf[c]] ELSE NoManifest>> : c \in work}
            /\ mstatus' = [m \in ManifestId |-> IF m \in new THEN "pending" ELSE mstatus[m]]
            /\ mgroup' = [m \in ManifestId |-> IF m \in new THEN groupOf[m] ELSE mgroup[m]]
            /\ members' = [m \in ManifestId |->
                             IF m \in new THEN {c \in work : GroupOf[c] = groupOf[m]}
                                          ELSE members[m]]
            /\ code' = [m \in ManifestId |-> IF m \in new THEN newCode ELSE code[m]]
            /\ job' = [m \in ManifestId |-> IF m \in new THEN "todo" ELSE job[m]]
    /\ txn' = [txn EXCEPT ![t] = Idle]
    /\ UNCHANGED <<declares, attempts, tries, attempt, accepted, crashes, faults, clobbered>>

ConfirmCommit(t) ==
    /\ txn[t].kind = "confirm"
    /\ CreateManifests(t, 0)
    /\ UNCHANGED minted

\* Every call mints a code, an empty sweep's too.
SweepCommit(t) ==
    /\ txn[t].kind = "sweep"
    /\ minted < MaxSweeps
    /\ minted' = minted + 1
    /\ CreateManifests(t, minted + 1)

\* markConsignmentsAsReadyToManifest: every code is validated on an unlocked read,
\* then the allocated ones are written at the flush.  The write waits for a row
\* lock and does not look at the status again.
MarkReadable(c) == status[c] \in {"allocated", "ready_to_manifest", "dispatched"}

MarkRead(t, orders) ==
    /\ \A c \in orders : MarkReadable(c)
    /\ \E work \in {{c \in orders : status[c] \notin {"ready_to_manifest", "dispatched"}}} :
        /\ work # {}
        /\ Begin(t, "mark", {}, work)

MarkWrite(t) ==
    LET work == txn[t].work
    IN  /\ txn[t].kind = "mark"
        /\ Free(t, work)
        /\ status' = [c \in Consignment |->
                        IF c \in work THEN "ready_to_manifest" ELSE status[c]]
        /\ clobbered' = clobbered \union
             {c \in work : status[c] \notin {"allocated", "ready_to_manifest"}}
        /\ txn' = [txn EXCEPT ![t] = Idle]
        /\ UNCHANGED <<declares, timeline, attempts, crashes, faults>>
        /\ UNCHANGED manifestVars /\ UNCHANGED <<job, tries, attempt, accepted>>

\* The request raises, its process dies or the database picks it as a deadlock's
\* victim: the transaction leaves nothing.
Rollback(t) ==
    /\ txn[t] # Idle
    /\ txn' = [txn EXCEPT ![t] = Idle]
    /\ UNCHANGED <<status, declares, timeline, attempts, crashes, faults, clobbered>>
    /\ UNCHANGED manifestVars /\ UNCHANGED <<job, tries, attempt, accepted>>

-----------------------------------------------------------------------------
(* The worker: run_manifest_send and send_manifest, one attempt at a time.   *)

CarrierOfManifest(m) == CarrierOf[mgroup[m]]

\* The attempt's reads: the manifest, the published definition, the members.
\* Only a member not read as dispatched will be updated at the commit.
StartAttempt(m) ==
    /\ job[m] = "todo"
    /\ mstatus[m] # "sent"
    /\ job' = [job EXCEPT ![m] = "doing"]
    /\ attempt' = [attempt EXCEPT ![m] =
                     [able    |-> declares[CarrierOfManifest(m)],
                      unsent  |-> {c \in members[m] : status[c] # "dispatched"},
                      emitted |-> {}]]
    /\ UNCHANGED <<declares, timeline, attempts, tries, accepted, crashes, faults, clobbered>>
    /\ UNCHANGED requestVars /\ UNCHANGED manifestVars

\* manifest.attempts = attempts + 1, from the queue's own count.
Audit_variant(m) == attempts[m] + 1
Audit(m) == tries[m] + 1

\* A redelivered job whose work committed: only the attempt count is written.
RedeliveredNoop(m) ==
    /\ job[m] = "todo"
    /\ mstatus[m] = "sent"
    /\ job' = [job EXCEPT ![m] = "succeeded"]
    /\ attempts' = [attempts EXCEPT ![m] = Audit(m)]
    /\ UNCHANGED <<declares, timeline, tries, attempt, accepted, crashes, faults, clobbered>>
    /\ UNCHANGED requestVars /\ UNCHANGED manifestVars

\* One rendered document: a consignment each under fan_out, else the whole manifest.
Documents(m) == IF CarrierOfManifest(m) \in FanOut
                THEN {{c} : c \in members[m]} ELSE {members[m]}

\* The carrier takes a document; the attempt may still fail on its answer.
EmitDocument(m) ==
    /\ job[m] = "doing"
    /\ attempt[m].able
    /\ \E doc \in Documents(m) :
        /\ doc \cap attempt[m].emitted = {}
        /\ attempt' = [attempt EXCEPT ![m].emitted = @ \union doc]
        /\ accepted' = [accepted EXCEPT ![m] = @ \union doc]
    /\ UNCHANGED <<declares, timeline, attempts, job, tries, crashes, faults, clobbered>>
    /\ UNCHANGED requestVars /\ UNCHANGED manifestVars

AllEmitted_variant(m) == attempt[m].emitted # {}
AllEmitted(m) == attempt[m].emitted = members[m]

\* Every document is away: the manifest is sent and its members are dispatched.
\* The updates wait for the rows' locks.
CommitSent(m) ==
    /\ job[m] = "doing"
    /\ attempt[m].able
    /\ AllEmitted(m)
    /\ \A t \in Txn : txn[t].held \cap attempt[m].unsent = {}
    /\ mstatus' = [mstatus EXCEPT ![m] = "sent"]
    /\ status' = [c \in Consignment |->
                    IF c \in attempt[m].unsent THEN "dispatched" ELSE status[c]]
    /\ timeline' = timeline \union {<<"manifested", c, m>> : c \in members[m]}
    /\ attempts' = [attempts EXCEPT ![m] = Audit(m)]
    /\ job' = [job EXCEPT ![m] = "succeeded"]
    /\ attempt' = [attempt EXCEPT ![m] = NoAttempt]
    /\ UNCHANGED <<txn, declares, members, mgroup, code, minted, tries, accepted,
                   crashes, faults, clobbered>>

FinalAttempt_variant(m) == tries[m] > MaxAttempts
FinalAttempt_early(m) == tries[m] + 1 >= MaxAttempts
FinalAttempt(m) == tries[m] >= MaxAttempts

\* What the queue sees of a failed attempt: the error is raised again.
FailureOutcome_variant == "succeeded"
FailureOutcome == "raised"

\* CarrierCallError, ValueError or NotImplementedError: the attempt's bookkeeping
\* commits, and the error reaches the queue.
CommitFailure(m) ==
    /\ job[m] = "doing"
    /\ attempts' = [attempts EXCEPT ![m] = Audit(m)]
    /\ IF FinalAttempt(m)
       THEN /\ mstatus' = [mstatus EXCEPT ![m] = "failed"]
            /\ timeline' = timeline \union {<<"manifest_failed", c, m>> : c \in members[m]}
       ELSE UNCHANGED <<mstatus, timeline>>
    /\ job' = [job EXCEPT ![m] = FailureOutcome]
    /\ attempt' = [attempt EXCEPT ![m] = NoAttempt]
    /\ UNCHANGED <<declares, members, mgroup, code, minted, tries, accepted,
                   crashes, faults, clobbered>>
    /\ UNCHANGED requestVars

\* A database error: the session rolls back, the error reaches the queue.
InfrastructureFault(m) ==
    /\ job[m] = "doing"
    /\ faults < MaxFaults
    /\ faults' = faults + 1
    /\ job' = [job EXCEPT ![m] = "raised"]
    /\ attempt' = [attempt EXCEPT ![m] = NoAttempt]
    /\ UNCHANGED <<declares, timeline, attempts, tries, accepted, crashes, clobbered>>
    /\ UNCHANGED requestVars /\ UNCHANGED manifestVars

\* The queue (external): a job that raised is retried until max_attempts.
RetriesRemain(m) == tries[m] < MaxAttempts

FinishJob(m) ==
    /\ \/ /\ job[m] = "succeeded"
          /\ job' = [job EXCEPT ![m] = "done"]
          /\ UNCHANGED tries
       \/ /\ job[m] = "raised"
          /\ RetriesRemain(m)
          /\ job' = [job EXCEPT ![m] = "todo"]
          /\ tries' = [tries EXCEPT ![m] = @ + 1]
       \/ /\ job[m] = "raised"
          /\ ~ RetriesRemain(m)
          /\ job' = [job EXCEPT ![m] = "failed"]
          /\ UNCHANGED tries
    /\ UNCHANGED <<declares, timeline, attempts, attempt, accepted, crashes, faults, clobbered>>
    /\ UNCHANGED requestVars /\ UNCHANGED manifestVars

\* The worker dies, inside the attempt or before it told the queue: nothing
\* uncommitted survives, and the job stays checked out.
WorkerCrash(m) ==
    /\ job[m] \in {"doing", "succeeded", "raised"}
    /\ crashes < MaxCrashes
    /\ crashes' = crashes + 1
    /\ job' = [job EXCEPT ![m] = "stalled"]
    /\ attempt' = [attempt EXCEPT ![m] = NoAttempt]
    /\ UNCHANGED <<declares, timeline, attempts, tries, accepted, faults, clobbered>>
    /\ UNCHANGED requestVars /\ UNCHANGED manifestVars

\* Somebody requeues the stalled job: it runs again with the same attempt count.
Requeue(m) ==
    /\ job[m] = "stalled"
    /\ job' = [job EXCEPT ![m] = "todo"]
    /\ UNCHANGED <<declares, timeline, attempts, tries, attempt, accepted, crashes, faults,
                   clobbered>>
    /\ UNCHANGED requestVars /\ UNCHANGED manifestVars

-----------------------------------------------------------------------------
Request(t) ==
    \/ \E orders \in SUBSET Consignment : ConfirmRead(t, orders) \/ MarkRead(t, orders)
    \/ \E g \in Group : SweepRead(t, g)
    \/ ConfirmCommit(t) \/ SweepCommit(t) \/ MarkWrite(t) \/ Rollback(t)

Worker(m) ==
    \/ StartAttempt(m) \/ RedeliveredNoop(m) \/ EmitDocument(m)
    \/ CommitSent(m) \/ CommitFailure(m) \/ FinishJob(m)

Environment ==
    \/ \E c \in Consignment : CreateConsignment(c)
    \/ \E k \in Carrier : PublishDefinition(k)
    \/ \E m \in ManifestId : InfrastructureFault(m) \/ WorkerCrash(m) \/ Requeue(m)

Next == \/ \E t \in Txn : Request(t)
        \/ \E m \in ManifestId : Worker(m)
        \/ Environment

Spec == Init /\ [][Next]_vars

\* A request ends, a free worker takes a job and finishes its attempt.  Nobody has
\* to send requests, publish, requeue, fail or crash.
Fairness ==
    /\ \A t \in Txn : WF_vars(ConfirmCommit(t) \/ SweepCommit(t) \/ MarkWrite(t) \/ Rollback(t))
    /\ \A m \in ManifestId : WF_vars(Worker(m))

FairSpec == Spec /\ Fairness

-----------------------------------------------------------------------------
(* Safety *)

\* The overlapping-confirmation comment of routers/manifests.py and that of
\* ready_to_manifest: no consignment is declared on two manifests.
DeclaredOnce ==
    \A c \in Consignment : \A m, n \in ManifestId :
        c \in members[m] \cap members[n] => m = n

\* The same of every consignment whose row no mark-ready overwrote after another
\* request had moved it on: the row locks close every other way to declare it twice.
DeclaredOnceUnlessClobbered ==
    \A c \in Consignment \ clobbered : \A m, n \in ManifestId :
        c \in members[m] \cap members[n] => m = n

\* Never silently dispatched (ADR 0013): a dispatched consignment left with its
\* label, its carrier having no manifest operation, or the carrier has taken the
\* document that declares it and the manifest is marked sent.
AccountedFor(c) ==
    \/ <<"dispatched", c, NoManifest>> \in timeline
    \/ \E m \in ManifestId : /\ mstatus[m] = "sent"
                             /\ c \in members[m] \cap accepted[m]
                             /\ <<"manifested", c, m>> \in timeline

DispatchedIsAccountedFor ==
    \A c \in Consignment : status[c] = "dispatched" => AccountedFor(c)

\* A consignment shown as on_manifest is on one that has not been sent, so its
\* send, its failure or its stalled job is there to be seen.
OnManifestIsUnsent ==
    \A c \in Consignment : status[c] = "on_manifest" =>
        \E m \in ManifestId : c \in members[m] /\ mstatus[m] \in {"pending", "failed"}

\* A sent manifest is wholly away: no member is left behind, whichever of the
\* documents earlier attempts had already delivered.
SentIsComplete ==
    \A m \in ManifestId : mstatus[m] = "sent" =>
        /\ members[m] \subseteq accepted[m]
        /\ \A c \in members[m] \ clobbered : status[c] = "dispatched"

\* models.py of Manifest.status: "pending -> sent, or -> failed once the send job
\* exhausts its retries".  No manifest is pending when its job is over.
OverIsNotPending ==
    \A m \in ManifestId : job[m] \in {"done", "failed"} => mstatus[m] # "pending"

\* A manifest is failed only after the last attempt the queue grants, which its
\* audit counter then shows, and each member's timeline says so.
FailedIsExhausted ==
    \A m \in ManifestId : mstatus[m] = "failed" =>
        /\ attempts[m] = MaxAttempts + 1
        /\ \A c \in members[m] : <<"manifest_failed", c, m>> \in timeline

\* The audit counter and the queue's count cannot drift, whatever is redelivered:
\* it never runs ahead of the queue, and it agrees when the send succeeded.
AuditTracksQueue ==
    \A m \in ManifestId :
        /\ attempts[m] <= tries[m] + 1
        /\ job[m] \in {"succeeded", "done"} => attempts[m] = tries[m] + 1

\* The lifecycle of ADR 0013.
Lifecycle ==
    ({"absent"} \X (Status \ {"absent", "ready_to_manifest", "on_manifest"}))
    \union ({"allocated"} \X {"ready_to_manifest", "on_manifest", "dispatched"})
    \union ({"ready_to_manifest"} \X {"on_manifest", "dispatched"})
    \union {<<"on_manifest", "dispatched">>}

\* A consignment only moves along it, unless a mark-ready overwrote its row.
ForwardUnlessClobbered ==
    [][\A c \in Consignment \ clobbered' :
         status'[c] # status[c] => <<status[c], status'[c]>> \in Lifecycle]_vars

(* The inductive invariant behind the theorems of Dispatch_proofs *)

\* Row locks exclude one another, and a locked row still has the status it was read with.
LocksHold ==
    /\ \A t \in Txn :
        /\ txn[t].kind \in {"confirm", "sweep"} => txn[t].work \subseteq txn[t].held
        /\ txn[t].kind = "confirm" => \A c \in txn[t].work : status[c] = "allocated"
        /\ txn[t].kind = "sweep" => \A c \in txn[t].work : status[c] = "ready_to_manifest"
    /\ \A t, u \in Txn : t # u => txn[t].held \cap txn[u].held = {}

\* A row on a manifest has moved on, unless a mark-ready pulled it back.
DeclaredHasMovedOn ==
    \A c \in Consignment \ clobbered : \A m \in ManifestId :
        c \in members[m] => status[c] \in {"on_manifest", "dispatched"}

\* What an attempt knows is still so when it commits.
Current(m) ==
    /\ mstatus[m] = "none" => members[m] = {} /\ job[m] = "none"
    /\ job[m] = "doing" =>
        /\ mstatus[m] # "sent"
        /\ attempt[m].unsent \subseteq members[m]
        /\ attempt[m].emitted \subseteq accepted[m]
        /\ \A c \in members[m] \ (attempt[m].unsent \union clobbered) :
              status[c] = "dispatched"

AttemptIsCurrent == \A m \in ManifestId : Current(m)

\* The timeline of a sent manifest names every member.
SentIsLogged ==
    \A m \in ManifestId : mstatus[m] = "sent" =>
        \A c \in members[m] : <<"manifested", c, m>> \in timeline

DispatchInv ==
    /\ LocksHold
    /\ DeclaredHasMovedOn
    /\ AttemptIsCurrent
    /\ DeclaredOnceUnlessClobbered
    /\ SentIsComplete
    /\ SentIsLogged
    /\ DispatchedIsAccountedFor

\* Who is on_manifest waits on one: an attempt that is running read it as undispatched.
WaitsOn(c, m) ==
    /\ c \in members[m]
    /\ mstatus[m] \in {"pending", "failed"}
    /\ job[m] = "doing" => c \in attempt[m].unsent

OnManifestWaits ==
    \A c \in Consignment : status[c] = "on_manifest" => \E m \in ManifestId : WaitsOn(c, m)

\* The audit counter, the queue's count and the manifest's status agree at every point
\* of a job's way; only an infrastructure fault lets the last attempt end unmarked.
InStep(m) ==
    /\ attempts[m] <= tries[m] + 1
    /\ job[m] \in {"succeeded", "done"} => attempts[m] = tries[m] + 1 /\ mstatus[m] = "sent"
    /\ mstatus[m] = "failed" =>
        /\ tries[m] = MaxAttempts
        /\ attempts[m] = MaxAttempts + 1
        /\ \A c \in members[m] : <<"manifest_failed", c, m>> \in timeline
    /\ faults = 0 =>
        /\ (job[m] = "raised" /\ ~ RetriesRemain(m)) => mstatus[m] = "failed"
        /\ job[m] = "failed" => mstatus[m] = "failed"

QueueInv == \A m \in ManifestId : InStep(m)

\* While no two requests are open at once, a mark-ready writes rows that are as it read
\* them, so none is overwritten; and no manifest is ever empty.
SoloInv ==
    /\ clobbered = {}
    /\ \A t \in Txn : txn[t].kind = "mark" => \A c \in txn[t].work : status[c] = "allocated"
    /\ \A m \in ManifestId : mstatus[m] # "none" => members[m] # {}

(* Liveness *)

\* A pending manifest is sent or failed in the end, or its job is visibly dead:
\* stalled by a worker's death, or failed in the queue.
PendingSettles ==
    \A m \in ManifestId :
        mstatus[m] = "pending" ~> (mstatus[m] \in {"sent", "failed"}
                                   \/ job[m] \in {"stalled", "failed"})

(* Refinement *)

PhaseAt(s) ==
    CASE s = "absent" -> "unknown"
      [] s \in {"allocated", "ready_to_manifest"} -> "held"
      [] s = "on_manifest" -> "declared"
      [] s = "dispatched" -> "gone"
      [] OTHER -> "refused"

Phase == [c \in Consignment |-> PhaseAt(status[c])]
Away == {m \in ManifestId : mstatus[m] = "sent"}

Promise == INSTANCE DispatchPromise WITH
    Batch <- ManifestId, NoBatch <- NoManifest,
    batch <- members, away <- Away, phase <- Phase

\* While requests do not overlap, the manifest path implements the promise.
KeepsPromise == Promise!Spec

=============================================================================
