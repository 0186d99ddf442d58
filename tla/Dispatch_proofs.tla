--------------------------- MODULE Dispatch_proofs ---------------------------
(* Theorems about Dispatch for any number of consignments, manifests,        *)
(* overlapping requests, warehouses, carriers, retries, crashes and faults.  *)
EXTENDS Dispatch, TLAPS

-----------------------------------------------------------------------------
(* Types *)

\* create_manifests keeps every variable in its type, for a code of the sequence.
LEMMA CreateManifestsType ==
    ASSUME TypeOK, NEW t \in Txn, NEW newCode \in 0 .. MaxSweeps,
           CreateManifests(t, newCode), minted' \in 0 .. MaxSweeps
    PROVE  TypeOK'
<1> DEFINE work      == txn[t].work
           declaring == {g \in {GroupOf[c] : c \in work} : declares[CarrierOf[g]]}
<1>1. work \subseteq Consignment
  BY DEF TypeOK
<1>2. declaring \subseteq Group
  BY <1>1, GroupAssumption
<1>3. PICK id \in [declaring -> {m \in ManifestId : mstatus[m] = "none"}] :
        LET new     == {id[g] : g \in declaring}
            groupOf == [m \in new |-> CHOOSE g \in declaring : id[g] = m]
            declared(c) == GroupOf[c] \in declaring
        IN  /\ \A g, h \in declaring : id[g] = id[h] => g = h
            /\ status' = [c \in Consignment |->
                            IF c \in work THEN StageOf(declared(c)) ELSE status[c]]
            /\ timeline' = timeline \union
                 {<<StageOf(declared(c)), c,
                    IF declared(c) THEN id[GroupOf[c]] ELSE NoManifest>> : c \in work}
            /\ mstatus' = [m \in ManifestId |-> IF m \in new THEN "pending" ELSE mstatus[m]]
            /\ mgroup' = [m \in ManifestId |-> IF m \in new THEN groupOf[m] ELSE mgroup[m]]
            /\ members' = [m \in ManifestId |->
                             IF m \in new THEN {c \in work : GroupOf[c] = groupOf[m]}
                                          ELSE members[m]]
            /\ code' = [m \in ManifestId |-> IF m \in new THEN newCode ELSE code[m]]
            /\ job' = [m \in ManifestId |-> IF m \in new THEN "todo" ELSE job[m]]
  BY DEF CreateManifests
<1> DEFINE new     == {id[g] : g \in declaring}
           groupOf == [m \in new |-> CHOOSE g \in declaring : id[g] = m]
<1>4. /\ txn' = [txn EXCEPT ![t] = Idle]
      /\ UNCHANGED <<declares, attempts, tries, attempt, accepted, crashes, faults, clobbered>>
  BY DEF CreateManifests
<1>5. \A m \in new : groupOf[m] \in Group
  BY <1>2
<1>6. \A b \in BOOLEAN : StageOf(b) \in {"on_manifest", "dispatched"}
  BY DEF StageOf
<1>7. status' \in [Consignment -> Status]
  <2>1. \A c \in Consignment : StageOf(GroupOf[c] \in declaring) \in Status
    BY DEF StageOf, Status
  <2>2. QED
    BY <1>3, <2>1 DEF TypeOK
<1>8. timeline' \subseteq Stage \X Consignment \X (ManifestId \union {NoManifest})
  <2> SUFFICES ASSUME NEW c \in work
               PROVE  <<StageOf(GroupOf[c] \in declaring), c,
                        IF GroupOf[c] \in declaring THEN id[GroupOf[c]] ELSE NoManifest>>
                        \in Stage \X Consignment \X (ManifestId \union {NoManifest})
    BY <1>3 DEF TypeOK
  <2>1. StageOf(GroupOf[c] \in declaring) \in Stage
    BY DEF StageOf, Stage
  <2>2. (IF GroupOf[c] \in declaring THEN id[GroupOf[c]] ELSE NoManifest)
          \in ManifestId \union {NoManifest}
    BY <1>3
  <2>3. QED
    BY <1>1, <2>1, <2>2
<1>9. mstatus' \in [ManifestId -> {"none", "pending", "sent", "failed"}]
  BY <1>3 DEF TypeOK
<1>10. members' \in [ManifestId -> SUBSET Consignment]
  BY <1>1, <1>3 DEF TypeOK
<1>11. mgroup' \in [ManifestId -> Group]
  BY <1>3, <1>5 DEF TypeOK
<1>12. code' \in [ManifestId -> 0 .. MaxSweeps]
  BY <1>3 DEF TypeOK
<1>13. job' \in [ManifestId -> {"none", "todo", "doing", "succeeded", "raised",
                                "stalled", "done", "failed"}]
  BY <1>3 DEF TypeOK
<1>14. txn' \in [Txn -> [kind : {"idle", "confirm", "sweep", "mark"},
                         held : SUBSET Consignment, work : SUBSET Consignment]]
  BY <1>4 DEF TypeOK, Idle
<1>15. QED
  BY <1>4, <1>7, <1>8, <1>9, <1>10, <1>11, <1>12, <1>13, <1>14 DEF TypeOK

LEMMA InitType == Init => TypeOK
<1> SUFFICES ASSUME Init PROVE TypeOK
  OBVIOUS
<1>1. AnyGroup \in Group
  BY GroupAssumption DEF AnyGroup
<1>2. Idle \in [kind : {"idle", "confirm", "sweep", "mark"},
                held : SUBSET Consignment, work : SUBSET Consignment]
  BY DEF Idle
<1>3. NoAttempt \in [able : BOOLEAN, unsent : SUBSET Consignment,
                     emitted : SUBSET Consignment]
  BY DEF NoAttempt
<1>4. /\ 0 \in 0 .. MaxSweeps /\ 0 \in 0 .. MaxAttempts + 1 /\ 0 \in 0 .. MaxAttempts
      /\ 0 \in 0 .. MaxCrashes /\ 0 \in 0 .. MaxFaults
  BY BoundsAssumption
<1>5. QED
  BY <1>1, <1>2, <1>3, <1>4 DEF Init, TypeOK, Status

\* A request's step that is not create_manifests keeps the types.
LEMMA RequestReadType ==
    ASSUME TypeOK, NEW t \in Txn, NEW kind \in {"confirm", "sweep", "mark"},
           NEW held \in SUBSET Consignment, NEW work \in SUBSET Consignment,
           Begin(t, kind, held, work)
    PROVE  TypeOK'
BY DEF Begin, TypeOK, manifestVars

LEMMA RequestType ==
    ASSUME TypeOK, NEW t \in Txn, Request(t)
    PROVE  TypeOK'
<1>1. ASSUME NEW orders \in SUBSET Consignment, ConfirmRead(t, orders)
      PROVE  TypeOK'
  <2>1. /\ Begin(t, "confirm", RowsForUpdate(orders),
                 {c \in orders : status[c] # "dispatched"})
        /\ RowsForUpdate(orders) \in SUBSET Consignment
    BY <1>1 DEF ConfirmRead, RowsForUpdate
  <2>2. QED
    BY <2>1, RequestReadType
<1>2. ASSUME NEW orders \in SUBSET Consignment, MarkRead(t, orders)
      PROVE  TypeOK'
  <2>1. PICK work \in SUBSET Consignment : Begin(t, "mark", {}, work)
    BY <1>2 DEF MarkRead
  <2>2. QED
    BY <2>1, RequestReadType
<1>3. ASSUME NEW g \in Group, SweepRead(t, g)
      PROVE  TypeOK'
  <2> DEFINE ready == {c \in Consignment : GroupOf[c] = g /\ status[c] = "ready_to_manifest"}
  <2>1. /\ Begin(t, "sweep", RowsForUpdate(ready), ready)
        /\ RowsForUpdate(ready) \in SUBSET Consignment
    BY <1>3 DEF SweepRead, RowsForUpdate
  <2>2. QED
    BY <2>1, RequestReadType
<1>4. CASE ConfirmCommit(t)
  <2>1. /\ CreateManifests(t, 0)
        /\ 0 \in 0 .. MaxSweeps
        /\ minted' \in 0 .. MaxSweeps
    BY <1>4, BoundsAssumption DEF ConfirmCommit, TypeOK
  <2>2. QED
    BY <2>1, CreateManifestsType
<1>5. CASE SweepCommit(t)
  <2>1. /\ CreateManifests(t, minted + 1)
        /\ minted + 1 \in 0 .. MaxSweeps
        /\ minted' \in 0 .. MaxSweeps
    BY <1>5, BoundsAssumption DEF SweepCommit, TypeOK
  <2>2. QED
    BY <2>1, CreateManifestsType
<1>6. CASE MarkWrite(t)
  BY <1>6 DEF MarkWrite, TypeOK, Status, Idle, manifestVars
<1>7. CASE Rollback(t)
  BY <1>7 DEF Rollback, TypeOK, Idle, manifestVars
<1>8. QED
  BY <1>1, <1>2, <1>3, <1>4, <1>5, <1>6, <1>7 DEF Request

LEMMA WorkerType ==
    ASSUME TypeOK, NEW m \in ManifestId, Worker(m)
    PROVE  TypeOK'
<1>1. CASE StartAttempt(m)
  <2>1. declares[CarrierOfManifest(m)] \in BOOLEAN
    BY CarrierAssumption DEF TypeOK, CarrierOfManifest
  <2>2. QED
    BY <1>1, <2>1 DEF StartAttempt, TypeOK, requestVars, manifestVars
<1>2. tries[m] + 1 \in 0 .. MaxAttempts + 1
  BY BoundsAssumption DEF TypeOK
<1>3. CASE RedeliveredNoop(m)
  BY <1>2, <1>3 DEF RedeliveredNoop, Audit, TypeOK, requestVars, manifestVars
<1>4. CASE EmitDocument(m)
  <2>1. \A doc \in Documents(m) : doc \subseteq Consignment
    BY DEF TypeOK, Documents
  <2>2. PICK doc \in Documents(m) :
          /\ attempt' = [attempt EXCEPT ![m].emitted = @ \union doc]
          /\ accepted' = [accepted EXCEPT ![m] = @ \union doc]
    BY <1>4 DEF EmitDocument
  <2>3. /\ attempt' \in [ManifestId -> [able : BOOLEAN, unsent : SUBSET Consignment,
                                        emitted : SUBSET Consignment]]
        /\ accepted' \in [ManifestId -> SUBSET Consignment]
    BY <2>1, <2>2 DEF TypeOK
  <2>4. QED
    BY <1>4, <2>3 DEF EmitDocument, TypeOK, requestVars, manifestVars
<1>5. CASE CommitSent(m)
  BY <1>2, <1>5 DEF CommitSent, Audit, TypeOK, Status, Stage, NoAttempt
<1>6. CASE CommitFailure(m)
  BY <1>2, <1>6 DEF CommitFailure, FailureOutcome, Audit, TypeOK, Stage, NoAttempt, requestVars
<1>7. CASE FinishJob(m)
  <2>1. job' \in [ManifestId -> {"none", "todo", "doing", "succeeded", "raised",
                                 "stalled", "done", "failed"}]
    BY <1>7 DEF FinishJob, TypeOK
  <2>2. CASE RetriesRemain(m)
    <3>1. tries[m] + 1 \in 0 .. MaxAttempts
      BY <2>2, BoundsAssumption DEF RetriesRemain, TypeOK
    <3>2. tries' = tries \/ tries' = [tries EXCEPT ![m] = tries[m] + 1]
      BY <1>7 DEF FinishJob
    <3>3. tries' \in [ManifestId -> 0 .. MaxAttempts]
      BY <3>1, <3>2 DEF TypeOK
    <3>4. QED
      BY <1>7, <2>1, <3>3 DEF FinishJob, TypeOK, requestVars, manifestVars
  <2>3. CASE ~ RetriesRemain(m)
    <3>1. UNCHANGED tries
      BY <1>7, <2>3 DEF FinishJob
    <3>2. QED
      BY <1>7, <2>1, <3>1 DEF FinishJob, TypeOK, requestVars, manifestVars
  <2>4. QED
    BY <2>2, <2>3
<1>8. QED
  BY <1>1, <1>3, <1>4, <1>5, <1>6, <1>7 DEF Worker

LEMMA EnvironmentType ==
    ASSUME TypeOK, Environment
    PROVE  TypeOK'
<1>1. ASSUME NEW c \in Consignment, CreateConsignment(c)
      PROVE  TypeOK'
  <2>1. status' \in [Consignment -> Status]
    <3>1. PICK s \in Status : status' = [status EXCEPT ![c] = s]
      BY <1>1 DEF CreateConsignment, Status
    <3>2. QED
      BY <3>1 DEF TypeOK
  <2>2. timeline' \subseteq Stage \X Consignment \X (ManifestId \union {NoManifest})
    BY <1>1 DEF CreateConsignment, TypeOK, Stage
  <2>3. QED
    BY <1>1, <2>1, <2>2 DEF CreateConsignment, TypeOK, manifestVars
<1>2. ASSUME NEW k \in Carrier, PublishDefinition(k)
      PROVE  TypeOK'
  BY <1>2 DEF PublishDefinition, TypeOK, manifestVars, workerVars
<1>3. NoAttempt \in [able : BOOLEAN, unsent : SUBSET Consignment,
                     emitted : SUBSET Consignment]
  BY DEF NoAttempt
<1>4. ASSUME NEW m \in ManifestId, InfrastructureFault(m)
      PROVE  TypeOK'
  <2>1. faults' \in 0 .. MaxFaults
    BY <1>4, BoundsAssumption DEF InfrastructureFault, TypeOK
  <2>2. QED
    BY <1>3, <1>4, <2>1 DEF InfrastructureFault, TypeOK, requestVars, manifestVars
<1>5. ASSUME NEW m \in ManifestId, WorkerCrash(m)
      PROVE  TypeOK'
  <2>1. crashes' \in 0 .. MaxCrashes
    BY <1>5, BoundsAssumption DEF WorkerCrash, TypeOK
  <2>2. QED
    BY <1>3, <1>5, <2>1 DEF WorkerCrash, TypeOK, requestVars, manifestVars
<1>6. ASSUME NEW m \in ManifestId, Requeue(m)
      PROVE  TypeOK'
  BY <1>6 DEF Requeue, TypeOK, requestVars, manifestVars
<1>7. QED
  BY <1>1, <1>2, <1>4, <1>5, <1>6 DEF Environment

\* Every variable keeps its type: in particular the queue's count never passes
\* max_attempts and no status outside the lifecycle is ever written.
THEOREM TypeCorrect == Spec => []TypeOK
<1>1. TypeOK /\ [Next]_vars => TypeOK'
  <2>1. ASSUME TypeOK, Next PROVE TypeOK'
    BY <2>1, RequestType, WorkerType, EnvironmentType DEF Next
  <2>2. ASSUME TypeOK, UNCHANGED vars PROVE TypeOK'
    BY <2>2 DEF TypeOK, vars
  <2>3. QED
    BY <2>1, <2>2
<1>2. QED
  BY InitType, <1>1, PTL DEF Spec

-----------------------------------------------------------------------------
(* Safety *)

\* What create_manifests does to the rows: the work moves on, no existing
\* manifest changes, and each new manifest declares a part of the work of its own.
LEMMA CreateManifestsEffect ==
    ASSUME TypeOK, NEW t \in Txn, NEW newCode, CreateManifests(t, newCode)
    PROVE  /\ \A c \in Consignment :
                IF c \in txn[t].work THEN status'[c] \in {"on_manifest", "dispatched"}
                                     ELSE status'[c] = status[c]
           /\ \A m \in ManifestId :
                \/ UNCHANGED <<mstatus[m], members[m], job[m]>>
                \/ /\ mstatus[m] = "none"
                   /\ mstatus'[m] = "pending"
                   /\ job'[m] = "todo"
                   /\ members'[m] \subseteq txn[t].work
           /\ \A c \in Consignment : \A m, n \in ManifestId :
                /\ mstatus'[m] # mstatus[m]
                /\ mstatus'[n] # mstatus[n]
                /\ c \in members'[m] \cap members'[n]
                => m = n
           /\ \A c \in txn[t].work : status'[c] = "dispatched" =>
                <<"dispatched", c, NoManifest>> \in timeline'
           /\ timeline \subseteq timeline'
           /\ txn' = [txn EXCEPT ![t] = Idle]
           /\ UNCHANGED <<attempt, accepted, clobbered>>
<1> DEFINE work      == txn[t].work
           declaring == {g \in {GroupOf[c] : c \in work} : declares[CarrierOf[g]]}
<1>1. PICK id \in [declaring -> {m \in ManifestId : mstatus[m] = "none"}] :
        LET new     == {id[g] : g \in declaring}
            groupOf == [m \in new |-> CHOOSE g \in declaring : id[g] = m]
            declared(c) == GroupOf[c] \in declaring
        IN  /\ \A g, h \in declaring : id[g] = id[h] => g = h
            /\ status' = [c \in Consignment |->
                            IF c \in work THEN StageOf(declared(c)) ELSE status[c]]
            /\ timeline' = timeline \union
                 {<<StageOf(declared(c)), c,
                    IF declared(c) THEN id[GroupOf[c]] ELSE NoManifest>> : c \in work}
            /\ mstatus' = [m \in ManifestId |-> IF m \in new THEN "pending" ELSE mstatus[m]]
            /\ mgroup' = [m \in ManifestId |-> IF m \in new THEN groupOf[m] ELSE mgroup[m]]
            /\ members' = [m \in ManifestId |->
                             IF m \in new THEN {c \in work : GroupOf[c] = groupOf[m]}
                                          ELSE members[m]]
            /\ code' = [m \in ManifestId |-> IF m \in new THEN newCode ELSE code[m]]
            /\ job' = [m \in ManifestId |-> IF m \in new THEN "todo" ELSE job[m]]
  BY DEF CreateManifests
<1> DEFINE new     == {id[g] : g \in declaring}
           groupOf == [m \in new |-> CHOOSE g \in declaring : id[g] = m]
<1>2. \A m \in new : groupOf[m] \in declaring /\ id[groupOf[m]] = m
  OBVIOUS
<1>3. \A c \in Consignment :
        IF c \in work THEN status'[c] \in {"on_manifest", "dispatched"}
                      ELSE status'[c] = status[c]
  BY <1>1 DEF StageOf
<1>4. ASSUME NEW m \in ManifestId
      PROVE  \/ UNCHANGED <<mstatus[m], members[m], job[m]>>
             \/ /\ mstatus[m] = "none"
                /\ mstatus'[m] = "pending"
                /\ job'[m] = "todo"
                /\ members'[m] \subseteq work
  <2>1. CASE m \in new
    <3>1. mstatus[m] = "none"
      BY <1>1, <2>1
    <3>2. mstatus'[m] = "pending" /\ job'[m] = "todo" /\ members'[m] \subseteq work
      BY <1>1, <2>1
    <3>3. QED
      BY <3>1, <3>2
  <2>2. CASE m \notin new
    BY <1>1, <2>2
  <2>3. QED
    BY <2>1, <2>2
<1>5. ASSUME NEW c \in Consignment, NEW m \in ManifestId, NEW n \in ManifestId,
             mstatus'[m] # mstatus[m], mstatus'[n] # mstatus[n],
             c \in members'[m] \cap members'[n]
      PROVE  m = n
  <2>1. m \in new /\ n \in new
    BY <1>1, <1>5
  <2>2. GroupOf[c] = groupOf[m] /\ GroupOf[c] = groupOf[n]
    BY <1>1, <1>5, <2>1
  <2>3. QED
    BY <1>2, <2>1, <2>2
<1>6. ASSUME NEW c \in work, status'[c] = "dispatched"
      PROVE  <<"dispatched", c, NoManifest>> \in timeline'
  <2>1. c \in Consignment
    BY DEF TypeOK
  <2>2. GroupOf[c] \notin declaring
    BY <1>1, <1>6, <2>1 DEF StageOf
  <2>3. StageOf(GroupOf[c] \in declaring) = "dispatched"
    BY <2>2 DEF StageOf
  <2>4. <<StageOf(GroupOf[c] \in declaring), c,
          IF GroupOf[c] \in declaring THEN id[GroupOf[c]] ELSE NoManifest>> \in timeline'
    BY <1>1
  <2>5. QED
    BY <2>2, <2>3, <2>4
<1>7. timeline \subseteq timeline'
  BY <1>1
<1>8. txn' = [txn EXCEPT ![t] = Idle] /\ UNCHANGED <<attempt, accepted, clobbered>>
  BY DEF CreateManifests
<1>9. QED
  BY <1>3, <1>4, <1>5, <1>6, <1>7, <1>8

\* The conjuncts of the invariant that a step leaving the rows and the manifests
\* alone cannot disturb.
LEMMA RowsUntouched ==
    ASSUME DispatchInv, LocksHold',
           UNCHANGED <<status, mstatus, members, timeline, job, attempt, accepted, clobbered>>
    PROVE  DispatchInv'
BY DEF DispatchInv, DeclaredHasMovedOn, AttemptIsCurrent, DeclaredOnceUnlessClobbered,
       Current, SentIsComplete, SentIsLogged, DispatchedIsAccountedFor, AccountedFor

\* A read takes its locks only where no other request holds one, and remembers the
\* status the rows have.
LEMMA ReadKeepsInv ==
    ASSUME TypeOK, DispatchInv, NEW t \in Txn,
           NEW kind \in {"confirm", "sweep", "mark"},
           NEW held \in SUBSET Consignment, NEW work \in SUBSET Consignment,
           Begin(t, kind, held, work),
           Free(t, held),
           kind \in {"confirm", "sweep"} => work \subseteq held,
           kind = "confirm" => \A c \in work : status[c] = "allocated",
           kind = "sweep" => \A c \in work : status[c] = "ready_to_manifest"
    PROVE  DispatchInv'
<1>1. txn' = [txn EXCEPT ![t] = [kind |-> kind, held |-> held, work |-> work]]
  BY DEF Begin
<1>2. UNCHANGED <<status, mstatus, members, timeline, job, attempt, accepted, clobbered>>
  BY DEF Begin, manifestVars
<1>3. txn'[t] = [kind |-> kind, held |-> held, work |-> work]
  BY <1>1 DEF TypeOK
<1>4. \A u \in Txn \ {t} : txn'[u] = txn[u]
  BY <1>1 DEF TypeOK
<1>5. LocksHold'
  BY <1>2, <1>3, <1>4 DEF DispatchInv, LocksHold, Free
<1>6. QED
  BY <1>2, <1>5, RowsUntouched

LEMMA RollbackKeepsInv ==
    ASSUME TypeOK, DispatchInv, NEW t \in Txn, Rollback(t)
    PROVE  DispatchInv'
<1>1. UNCHANGED <<status, mstatus, members, timeline, job, attempt, accepted, clobbered>>
  BY DEF Rollback, manifestVars
<1>2. txn'[t] = Idle /\ \A u \in Txn \ {t} : txn'[u] = txn[u]
  BY DEF Rollback, TypeOK
<1>3. LocksHold'
  BY <1>1, <1>2 DEF DispatchInv, LocksHold, Idle
<1>4. QED
  BY <1>1, <1>3, RowsUntouched

\* Declaring the rows a request has locked.
LEMMA CreateManifestsKeepsInv ==
    ASSUME TypeOK, DispatchInv, NEW t \in Txn, NEW newCode, CreateManifests(t, newCode),
           txn[t].kind \in {"confirm", "sweep"}
    PROVE  DispatchInv'
<1> DEFINE work == txn[t].work
<1>1. work \subseteq Consignment /\ work \subseteq txn[t].held
  BY DEF TypeOK, DispatchInv, LocksHold
<1>2. \A c \in work : status[c] \in {"allocated", "ready_to_manifest"}
  BY DEF DispatchInv, LocksHold
<1>3. \A c \in work : status'[c] \in {"on_manifest", "dispatched"}
  BY <1>1, CreateManifestsEffect
<1>4. \A c \in Consignment \ work : status'[c] = status[c]
  BY CreateManifestsEffect
<1>5. \A m \in ManifestId :
         \/ UNCHANGED <<mstatus[m], members[m], job[m]>>
         \/ /\ mstatus[m] = "none"
            /\ mstatus'[m] = "pending"
            /\ job'[m] = "todo"
            /\ members'[m] \subseteq work
  BY CreateManifestsEffect
<1>6. /\ \A c \in work : status'[c] = "dispatched" =>
            <<"dispatched", c, NoManifest>> \in timeline'
      /\ timeline \subseteq timeline'
      /\ txn' = [txn EXCEPT ![t] = Idle]
      /\ UNCHANGED <<attempt, accepted, clobbered>>
  BY CreateManifestsEffect
<1>7. \A m \in ManifestId : mstatus[m] = "none" => members[m] = {} /\ job[m] = "none"
  BY DEF DispatchInv, AttemptIsCurrent, Current
<1>8. \A c \in work \ clobbered : \A m \in ManifestId : c \notin members[m]
  BY <1>1, <1>2 DEF DispatchInv, DeclaredHasMovedOn
<1>9. LocksHold'
  <2>1. txn'[t] = Idle /\ \A u \in Txn \ {t} : txn'[u] = txn[u]
    BY <1>6 DEF TypeOK
  <2>2. \A u \in Txn \ {t} : txn[u].held \cap work = {}
    BY <1>1 DEF DispatchInv, LocksHold
  <2>3. \A u \in Txn \ {t} : txn[u].kind \in {"confirm", "sweep"} =>
           \A c \in txn[u].work : status'[c] = status[c]
    BY <1>4, <2>2 DEF DispatchInv, LocksHold, TypeOK
  <2>4. QED
    BY <2>1, <2>3 DEF DispatchInv, LocksHold, Idle
<1>10. DeclaredHasMovedOn'
  <2> SUFFICES ASSUME NEW c \in Consignment, c \notin clobbered', NEW m \in ManifestId,
                      c \in members'[m]
               PROVE  status'[c] \in {"on_manifest", "dispatched"}
    BY DEF DeclaredHasMovedOn
  <2>1. CASE c \in work
    BY <1>3, <2>1
  <2>2. CASE c \notin work
    BY <1>4, <1>5, <1>6, <2>2 DEF DispatchInv, DeclaredHasMovedOn
  <2>3. QED
    BY <2>1, <2>2
<1>11. DeclaredOnceUnlessClobbered'
  <2> SUFFICES ASSUME NEW c \in Consignment, c \notin clobbered',
                      NEW m \in ManifestId, NEW n \in ManifestId,
                      c \in members'[m] \cap members'[n]
               PROVE  m = n
    BY DEF DeclaredOnceUnlessClobbered
  <2>1. CASE c \in work
    <3>1. mstatus'[m] # mstatus[m] /\ mstatus'[n] # mstatus[n]
      BY <1>5, <1>6, <1>8, <2>1
    <3>2. QED
      BY <3>1, CreateManifestsEffect
  <2>2. CASE c \notin work
    BY <1>5, <1>6, <2>2 DEF DispatchInv, DeclaredOnceUnlessClobbered
  <2>3. QED
    BY <2>1, <2>2
<1>12. AttemptIsCurrent'
  <2> SUFFICES ASSUME NEW m \in ManifestId
               PROVE  Current(m)'
    BY DEF AttemptIsCurrent
  <2>1. CASE UNCHANGED <<mstatus[m], members[m], job[m]>>
    <3>1. \A c \in members[m] \ clobbered : c \notin work
      BY <1>1, <1>8 DEF TypeOK
    <3>2. \A c \in members[m] \ clobbered : status'[c] = status[c]
      BY <1>4, <3>1 DEF TypeOK
    <3>3. QED
      BY <1>6, <2>1, <3>2 DEF DispatchInv, AttemptIsCurrent, Current
  <2>2. CASE mstatus'[m] = "pending" /\ job'[m] = "todo"
    BY <2>2 DEF Current
  <2>3. QED
    BY <1>5, <2>1, <2>2
<1>13. SentIsComplete'
  <2> SUFFICES ASSUME NEW m \in ManifestId, mstatus'[m] = "sent"
               PROVE  /\ members'[m] \subseteq accepted'[m]
                      /\ \A c \in members'[m] \ clobbered' : status'[c] = "dispatched"
    BY DEF SentIsComplete
  <2>1. UNCHANGED <<mstatus[m], members[m]>>
    BY <1>5
  <2>2. \A c \in members[m] \ clobbered : c \in Consignment \ work
    BY <1>1, <1>8 DEF TypeOK
  <2>3. QED
    BY <1>4, <1>6, <2>1, <2>2 DEF DispatchInv, SentIsComplete
<1>14. SentIsLogged'
  BY <1>5, <1>6 DEF DispatchInv, SentIsLogged
<1>15. DispatchedIsAccountedFor'
  <2> SUFFICES ASSUME NEW c \in Consignment, status'[c] = "dispatched"
               PROVE  AccountedFor(c)'
    BY DEF DispatchedIsAccountedFor
  <2>1. CASE c \in work
    BY <1>6, <2>1 DEF AccountedFor
  <2>2. CASE c \notin work
    <3>1. status[c] = "dispatched"
      BY <1>4, <2>2
    <3>2. CASE <<"dispatched", c, NoManifest>> \in timeline
      BY <1>6, <3>2 DEF AccountedFor
    <3>3. ASSUME NEW m \in ManifestId, mstatus[m] = "sent",
                 c \in members[m] \cap accepted[m], <<"manifested", c, m>> \in timeline
          PROVE  AccountedFor(c)'
      BY <1>5, <1>6, <3>3 DEF AccountedFor
    <3>4. QED
      BY <3>1, <3>2, <3>3 DEF DispatchInv, DispatchedIsAccountedFor, AccountedFor
  <2>3. QED
    BY <2>1, <2>2
<1>16. QED
  BY <1>9, <1>10, <1>11, <1>12, <1>13, <1>14, <1>15 DEF DispatchInv

\* A mark-ready's late write: the rows it overwrites wrongly are the clobbered ones.
LEMMA MarkWriteKeepsInv ==
    ASSUME TypeOK, DispatchInv, NEW t \in Txn, MarkWrite(t)
    PROVE  DispatchInv'
<1> DEFINE work == txn[t].work
<1>1. /\ Free(t, work)
      /\ status' = [c \in Consignment |->
                      IF c \in work THEN "ready_to_manifest" ELSE status[c]]
      /\ clobbered' = clobbered \union
           {c \in work : status[c] \notin {"allocated", "ready_to_manifest"}}
      /\ txn' = [txn EXCEPT ![t] = Idle]
      /\ UNCHANGED <<timeline, mstatus, members, job, attempt, accepted>>
  BY DEF MarkWrite, manifestVars
<1>2. \A c \in Consignment \ clobbered' : c \notin clobbered
  BY <1>1
<1>3. \A c \in Consignment \ clobbered' :
         status[c] \in {"on_manifest", "dispatched"} => status'[c] = status[c]
  BY <1>1
<1>4. \A c \in Consignment : status'[c] = "dispatched" => status[c] = "dispatched"
  BY <1>1
<1>5. LocksHold'
  <2>1. txn'[t] = Idle /\ \A u \in Txn \ {t} : txn'[u] = txn[u]
    BY <1>1 DEF TypeOK
  <2>2. \A u \in Txn \ {t} : txn[u].kind \in {"confirm", "sweep"} =>
           \A c \in txn[u].work : c \notin work /\ c \in Consignment
    BY <1>1 DEF DispatchInv, LocksHold, Free, TypeOK
  <2>3. \A u \in Txn \ {t} : txn[u].kind \in {"confirm", "sweep"} =>
           \A c \in txn[u].work : status'[c] = status[c]
    BY <1>1, <2>2
  <2>4. QED
    BY <2>1, <2>3 DEF DispatchInv, LocksHold, Idle
<1>6. DeclaredHasMovedOn'
  BY <1>1, <1>2, <1>3 DEF DispatchInv, DeclaredHasMovedOn
<1>7. DeclaredOnceUnlessClobbered'
  BY <1>1, <1>2 DEF DispatchInv, DeclaredOnceUnlessClobbered
<1>8. AttemptIsCurrent'
  <2> SUFFICES ASSUME NEW m \in ManifestId
               PROVE  Current(m)'
    BY DEF AttemptIsCurrent
  <2>1. \A c \in members[m] \ (attempt[m].unsent \union clobbered') :
           status[c] = "dispatched" => status'[c] = "dispatched"
    BY <1>1, <1>3 DEF TypeOK
  <2>2. QED
    BY <1>1, <2>1 DEF DispatchInv, AttemptIsCurrent, Current
<1>9. SentIsComplete'
  BY <1>1, <1>2, <1>3 DEF DispatchInv, SentIsComplete, TypeOK
<1>10. SentIsLogged' /\ DispatchedIsAccountedFor'
  BY <1>1, <1>4 DEF DispatchInv, SentIsLogged, DispatchedIsAccountedFor, AccountedFor
<1>11. QED
  BY <1>5, <1>6, <1>7, <1>8, <1>9, <1>10 DEF DispatchInv

LEMMA CommitSentKeepsInv ==
    ASSUME TypeOK, DispatchInv, NEW m \in ManifestId, CommitSent(m)
    PROVE  DispatchInv'
<1> DEFINE unsent == attempt[m].unsent
<1>1. /\ job[m] = "doing"
      /\ attempt[m].emitted = members[m]
      /\ \A t \in Txn : txn[t].held \cap unsent = {}
      /\ mstatus' = [mstatus EXCEPT ![m] = "sent"]
      /\ status' = [c \in Consignment |-> IF c \in unsent THEN "dispatched" ELSE status[c]]
      /\ timeline' = timeline \union {<<"manifested", c, m>> : c \in members[m]}
      /\ job' = [job EXCEPT ![m] = "succeeded"]
      /\ attempt' = [attempt EXCEPT ![m] = NoAttempt]
      /\ UNCHANGED <<txn, members, accepted, clobbered>>
  BY DEF CommitSent, AllEmitted
<1>2. /\ mstatus[m] \notin {"none", "sent"}
      /\ unsent \subseteq members[m]
      /\ members[m] \subseteq accepted[m]
      /\ \A c \in members[m] \ (unsent \union clobbered) : status[c] = "dispatched"
  BY <1>1 DEF DispatchInv, AttemptIsCurrent, Current
<1>3. mstatus'[m] = "sent" /\ \A n \in ManifestId \ {m} : mstatus'[n] = mstatus[n]
  BY <1>1 DEF TypeOK
<1>4. \A n \in ManifestId \ {m} : job'[n] = job[n] /\ attempt'[n] = attempt[n]
  BY <1>1 DEF TypeOK
<1>5. job'[m] = "succeeded"
  BY <1>1 DEF TypeOK
<1>6. \A c \in Consignment : status[c] = "dispatched" => status'[c] = "dispatched"
  BY <1>1
<1>7. \A c \in Consignment : status'[c] # status[c] =>
         c \in unsent /\ status'[c] = "dispatched"
  BY <1>1
<1>8. LocksHold'
  <2>1. \A u \in Txn : txn[u].kind \in {"confirm", "sweep"} =>
           \A c \in txn[u].work : status'[c] = status[c]
    BY <1>1 DEF DispatchInv, LocksHold, TypeOK
  <2>2. QED
    BY <1>1, <2>1 DEF DispatchInv, LocksHold
<1>9. DeclaredHasMovedOn' /\ DeclaredOnceUnlessClobbered'
  BY <1>1, <1>7 DEF DispatchInv, DeclaredHasMovedOn, DeclaredOnceUnlessClobbered
<1>10. AttemptIsCurrent'
  <2> SUFFICES ASSUME NEW n \in ManifestId
               PROVE  Current(n)'
    BY DEF AttemptIsCurrent
  <2>1. CASE n = m
    BY <1>3, <1>5, <2>1 DEF Current
  <2>2. CASE n # m
    <3>1. \A c \in members[n] : status[c] = "dispatched" => status'[c] = "dispatched"
      BY <1>6 DEF TypeOK
    <3>2. QED
      BY <1>1, <1>3, <1>4, <2>2, <3>1 DEF DispatchInv, AttemptIsCurrent, Current
  <2>3. QED
    BY <2>1, <2>2
<1>11. SentIsComplete'
  <2> SUFFICES ASSUME NEW n \in ManifestId, mstatus'[n] = "sent"
               PROVE  /\ members'[n] \subseteq accepted'[n]
                      /\ \A c \in members'[n] \ clobbered' : status'[c] = "dispatched"
    BY DEF SentIsComplete
  <2>1. CASE n = m
    BY <1>1, <1>2, <1>6, <2>1 DEF TypeOK
  <2>2. CASE n # m
    BY <1>1, <1>3, <1>6, <2>2 DEF DispatchInv, SentIsComplete, TypeOK
  <2>3. QED
    BY <2>1, <2>2
<1>12. SentIsLogged'
  <2> SUFFICES ASSUME NEW n \in ManifestId, mstatus'[n] = "sent", NEW c \in members[n]
               PROVE  <<"manifested", c, n>> \in timeline'
    BY <1>1 DEF SentIsLogged
  <2>1. CASE n = m
    BY <1>1, <2>1
  <2>2. CASE n # m
    BY <1>1, <1>3, <2>2 DEF DispatchInv, SentIsLogged
  <2>3. QED
    BY <2>1, <2>2
<1>13. DispatchedIsAccountedFor'
  <2> SUFFICES ASSUME NEW c \in Consignment, status'[c] = "dispatched"
               PROVE  AccountedFor(c)'
    BY DEF DispatchedIsAccountedFor
  <2>1. CASE c \in unsent
    BY <1>1, <1>2, <1>3, <2>1 DEF AccountedFor
  <2>2. CASE c \notin unsent
    <3>1. AccountedFor(c)
      BY <1>1, <2>2 DEF DispatchInv, DispatchedIsAccountedFor
    <3>2. CASE <<"dispatched", c, NoManifest>> \in timeline
      BY <1>1, <3>2 DEF AccountedFor
    <3>3. ASSUME NEW n \in ManifestId, mstatus[n] = "sent",
                 c \in members[n] \cap accepted[n], <<"manifested", c, n>> \in timeline
          PROVE  AccountedFor(c)'
      BY <1>1, <1>3, <3>3 DEF AccountedFor
    <3>4. QED
      BY <3>1, <3>2, <3>3 DEF AccountedFor
  <2>3. QED
    BY <2>1, <2>2
<1>14. QED
  BY <1>8, <1>9, <1>10, <1>11, <1>12, <1>13 DEF DispatchInv

\* A step of the queue that takes one job out of its attempt, or moves it between
\* states in which no attempt runs.
LEMMA JobMoveKeepsInv ==
    ASSUME TypeOK, DispatchInv, NEW m \in ManifestId,
           job[m] # "none", job'[m] # "doing",
           \A n \in ManifestId \ {m} : job'[n] = job[n] /\ attempt'[n] = attempt[n],
           UNCHANGED <<status, txn, mstatus, members, timeline, accepted, clobbered>>
    PROVE  DispatchInv'
<1>1. LocksHold'
  BY DEF DispatchInv, LocksHold
<1>2. AttemptIsCurrent'
  BY DEF DispatchInv, AttemptIsCurrent, Current
<1>3. /\ DeclaredHasMovedOn' /\ DeclaredOnceUnlessClobbered'
      /\ SentIsComplete' /\ SentIsLogged' /\ DispatchedIsAccountedFor'
  BY DEF DispatchInv, DeclaredHasMovedOn, DeclaredOnceUnlessClobbered,
         SentIsComplete, SentIsLogged, DispatchedIsAccountedFor, AccountedFor
<1>4. QED
  BY <1>1, <1>2, <1>3 DEF DispatchInv

LEMMA StartAttemptKeepsInv ==
    ASSUME TypeOK, DispatchInv, NEW m \in ManifestId, StartAttempt(m)
    PROVE  DispatchInv'
<1>1. /\ mstatus[m] # "sent"
      /\ attempt'[m].unsent = {c \in members[m] : status[c] # "dispatched"}
      /\ attempt'[m].emitted = {}
      /\ mstatus[m] # "none"
      /\ \A n \in ManifestId \ {m} : job'[n] = job[n] /\ attempt'[n] = attempt[n]
      /\ UNCHANGED <<status, txn, mstatus, members, timeline, accepted, clobbered>>
  BY DEF StartAttempt, TypeOK, DispatchInv, AttemptIsCurrent, Current,
         requestVars, manifestVars
<1>2. LocksHold'
  BY <1>1 DEF DispatchInv, LocksHold
<1>3. AttemptIsCurrent'
  <2> SUFFICES ASSUME NEW n \in ManifestId
               PROVE  Current(n)'
    BY DEF AttemptIsCurrent
  <2>1. CASE n = m
    BY <1>1, <2>1 DEF Current, TypeOK
  <2>2. CASE n # m
    BY <1>1, <2>2 DEF DispatchInv, AttemptIsCurrent, Current
  <2>3. QED
    BY <2>1, <2>2
<1>4. /\ DeclaredHasMovedOn' /\ DeclaredOnceUnlessClobbered'
      /\ SentIsComplete' /\ SentIsLogged' /\ DispatchedIsAccountedFor'
  BY <1>1 DEF DispatchInv, DeclaredHasMovedOn, DeclaredOnceUnlessClobbered,
         SentIsComplete, SentIsLogged, DispatchedIsAccountedFor, AccountedFor
<1>5. QED
  BY <1>2, <1>3, <1>4 DEF DispatchInv

LEMMA EmitDocumentKeepsInv ==
    ASSUME TypeOK, DispatchInv, NEW m \in ManifestId, EmitDocument(m)
    PROVE  DispatchInv'
<1>1. PICK doc \in Documents(m) :
        /\ attempt' = [attempt EXCEPT ![m].emitted = @ \union doc]
        /\ accepted' = [accepted EXCEPT ![m] = @ \union doc]
  BY DEF EmitDocument
<1>2. /\ UNCHANGED <<status, txn, mstatus, members, timeline, job, clobbered>>
      /\ attempt'[m].unsent = attempt[m].unsent
      /\ attempt'[m].emitted = attempt[m].emitted \union doc
      /\ accepted'[m] = accepted[m] \union doc
      /\ \A n \in ManifestId \ {m} :
           attempt'[n] = attempt[n] /\ accepted'[n] = accepted[n]
  BY <1>1 DEF EmitDocument, TypeOK, requestVars, manifestVars
<1>3. \A n \in ManifestId : accepted[n] \subseteq accepted'[n]
  BY <1>2
<1>4. AttemptIsCurrent'
  <2> SUFFICES ASSUME NEW n \in ManifestId
               PROVE  Current(n)'
    BY DEF AttemptIsCurrent
  <2>1. CASE n = m
    BY <1>2, <2>1 DEF DispatchInv, AttemptIsCurrent, Current
  <2>2. CASE n # m
    BY <1>2, <2>2 DEF DispatchInv, AttemptIsCurrent, Current
  <2>3. QED
    BY <2>1, <2>2
<1>5. SentIsComplete'
  BY <1>2, <1>3 DEF DispatchInv, SentIsComplete
<1>6. DispatchedIsAccountedFor'
  BY <1>2, <1>3 DEF DispatchInv, DispatchedIsAccountedFor, AccountedFor
<1>7. LocksHold' /\ DeclaredHasMovedOn' /\ DeclaredOnceUnlessClobbered' /\ SentIsLogged'
  BY <1>2 DEF DispatchInv, LocksHold, DeclaredHasMovedOn, DeclaredOnceUnlessClobbered,
              SentIsLogged
<1>8. QED
  BY <1>4, <1>5, <1>6, <1>7 DEF DispatchInv

LEMMA CommitFailureKeepsInv ==
    ASSUME TypeOK, DispatchInv, NEW m \in ManifestId, CommitFailure(m)
    PROVE  DispatchInv'
<1>1. /\ job[m] = "doing" /\ mstatus[m] \notin {"none", "sent"}
      /\ mstatus'[m] \in {mstatus[m], "failed"}
      /\ \A n \in ManifestId \ {m} : mstatus'[n] = mstatus[n]
      /\ timeline \subseteq timeline'
      /\ job'[m] = "raised"
      /\ \A n \in ManifestId \ {m} : job'[n] = job[n] /\ attempt'[n] = attempt[n]
      /\ UNCHANGED <<status, txn, members, accepted, clobbered>>
  BY DEF CommitFailure, FailureOutcome, TypeOK, DispatchInv, AttemptIsCurrent, Current,
         requestVars
<1>2. \A n \in ManifestId : mstatus'[n] = "sent" <=> mstatus[n] = "sent"
  BY <1>1
<1>3. LocksHold' /\ DeclaredHasMovedOn' /\ DeclaredOnceUnlessClobbered'
  BY <1>1 DEF DispatchInv, LocksHold, DeclaredHasMovedOn, DeclaredOnceUnlessClobbered
<1>4. AttemptIsCurrent'
  <2> SUFFICES ASSUME NEW n \in ManifestId
               PROVE  Current(n)'
    BY DEF AttemptIsCurrent
  <2>1. CASE n = m
    BY <1>1, <2>1 DEF Current
  <2>2. CASE n # m
    BY <1>1, <2>2 DEF DispatchInv, AttemptIsCurrent, Current
  <2>3. QED
    BY <2>1, <2>2
<1>5. SentIsComplete' /\ SentIsLogged' /\ DispatchedIsAccountedFor'
  BY <1>1, <1>2 DEF DispatchInv, SentIsComplete, SentIsLogged,
                    DispatchedIsAccountedFor, AccountedFor
<1>6. QED
  BY <1>3, <1>4, <1>5 DEF DispatchInv

LEMMA CreateConsignmentKeepsInv ==
    ASSUME TypeOK, DispatchInv, NEW c \in Consignment, CreateConsignment(c)
    PROVE  DispatchInv'
<1>1. /\ status[c] = "absent"
      /\ \A d \in Consignment \ {c} : status'[d] = status[d]
      /\ timeline \subseteq timeline'
      /\ UNCHANGED <<txn, mstatus, members, job, attempt, accepted, clobbered>>
  BY DEF CreateConsignment, TypeOK, manifestVars
<1>2. status'[c] = "dispatched" => <<"dispatched", c, NoManifest>> \in timeline'
  BY FailureAssumption DEF CreateConsignment, TypeOK
<1>3. \A d \in Consignment : status[d] # "absent" => status'[d] = status[d]
  BY <1>1
<1>4. LocksHold'
  <2>1. \A u \in Txn : txn[u].kind \in {"confirm", "sweep"} =>
           \A d \in txn[u].work : status'[d] = status[d]
    BY <1>3 DEF DispatchInv, LocksHold, TypeOK
  <2>2. QED
    BY <1>1, <2>1 DEF DispatchInv, LocksHold
<1>5. DeclaredHasMovedOn'
  BY <1>1, <1>3 DEF DispatchInv, DeclaredHasMovedOn
<1>6. AttemptIsCurrent'
  <2> SUFFICES ASSUME NEW m \in ManifestId
               PROVE  Current(m)'
    BY DEF AttemptIsCurrent
  <2>1. \A d \in members[m] : status[d] = "dispatched" => status'[d] = "dispatched"
    BY <1>3 DEF TypeOK
  <2>2. QED
    BY <1>1, <2>1 DEF DispatchInv, AttemptIsCurrent, Current
<1>7. SentIsComplete'
  BY <1>1, <1>3 DEF DispatchInv, SentIsComplete, TypeOK
<1>8. DeclaredOnceUnlessClobbered' /\ SentIsLogged'
  BY <1>1 DEF DispatchInv, DeclaredOnceUnlessClobbered, SentIsLogged
<1>9. DispatchedIsAccountedFor'
  <2> SUFFICES ASSUME NEW d \in Consignment, status'[d] = "dispatched"
               PROVE  AccountedFor(d)'
    BY DEF DispatchedIsAccountedFor
  <2>1. CASE d = c
    BY <1>2, <2>1 DEF AccountedFor
  <2>2. CASE d # c
    BY <1>1, <2>2 DEF DispatchInv, DispatchedIsAccountedFor, AccountedFor
  <2>3. QED
    BY <2>1, <2>2
<1>10. QED
  BY <1>4, <1>5, <1>6, <1>7, <1>8, <1>9 DEF DispatchInv

LEMMA RequestKeepsInv ==
    ASSUME TypeOK, DispatchInv, NEW t \in Txn, Request(t)
    PROVE  DispatchInv'
<1>1. ASSUME NEW orders \in SUBSET Consignment, ConfirmRead(t, orders)
      PROVE  DispatchInv'
  <2> DEFINE work == {c \in orders : status[c] # "dispatched"}
  <2>1. Begin(t, "confirm", orders, work) /\ Free(t, orders)
    BY <1>1 DEF ConfirmRead, RowsForUpdate
  <2>2. \A c \in work : status[c] = "allocated"
    BY <1>1 DEF ConfirmRead, Confirmable
  <2>3. work \in SUBSET Consignment /\ work \subseteq orders
    OBVIOUS
  <2> HIDE DEF work
  <2>4. QED
    BY <2>1, <2>2, <2>3, ReadKeepsInv
<1>2. ASSUME NEW orders \in SUBSET Consignment, MarkRead(t, orders)
      PROVE  DispatchInv'
  <2>1. PICK work \in SUBSET Consignment : Begin(t, "mark", {}, work)
    BY <1>2 DEF MarkRead
  <2>2. Free(t, {})
    BY DEF Free
  <2>3. QED
    BY <2>1, <2>2, ReadKeepsInv
<1>3. ASSUME NEW g \in Group, SweepRead(t, g)
      PROVE  DispatchInv'
  <2> DEFINE ready == {c \in Consignment : GroupOf[c] = g /\ status[c] = "ready_to_manifest"}
  <2>1. Begin(t, "sweep", ready, ready) /\ Free(t, ready)
    BY <1>3 DEF SweepRead, RowsForUpdate
  <2>2. /\ \A c \in ready : status[c] = "ready_to_manifest"
        /\ ready \in SUBSET Consignment
    OBVIOUS
  <2> HIDE DEF ready
  <2>3. QED
    BY <2>1, <2>2, ReadKeepsInv
<1>4. CASE ConfirmCommit(t)
  BY <1>4, CreateManifestsKeepsInv DEF ConfirmCommit
<1>5. CASE SweepCommit(t)
  BY <1>5, CreateManifestsKeepsInv DEF SweepCommit
<1>6. QED
  BY <1>1, <1>2, <1>3, <1>4, <1>5, MarkWriteKeepsInv, RollbackKeepsInv DEF Request

LEMMA WorkerKeepsInv ==
    ASSUME TypeOK, DispatchInv, NEW m \in ManifestId, Worker(m)
    PROVE  DispatchInv'
<1>1. CASE RedeliveredNoop(m)
  BY <1>1, JobMoveKeepsInv DEF RedeliveredNoop, TypeOK, requestVars, manifestVars
<1>2. CASE FinishJob(m)
  BY <1>2, JobMoveKeepsInv DEF FinishJob, TypeOK, requestVars, manifestVars
<1>3. QED
  BY <1>1, <1>2, StartAttemptKeepsInv, EmitDocumentKeepsInv, CommitSentKeepsInv,
     CommitFailureKeepsInv DEF Worker

LEMMA EnvironmentKeepsInv ==
    ASSUME TypeOK, DispatchInv, Environment
    PROVE  DispatchInv'
<1>1. ASSUME NEW k \in Carrier, PublishDefinition(k)
      PROVE  DispatchInv'
  <2>1. UNCHANGED <<status, txn, mstatus, members, timeline, job, attempt, accepted, clobbered>>
    BY <1>1 DEF PublishDefinition, manifestVars, workerVars
  <2>2. LocksHold'
    BY <2>1 DEF DispatchInv, LocksHold
  <2>3. QED
    BY <2>1, <2>2, RowsUntouched
<1>2. ASSUME NEW m \in ManifestId, InfrastructureFault(m)
      PROVE  DispatchInv'
  BY <1>2, JobMoveKeepsInv DEF InfrastructureFault, TypeOK, requestVars, manifestVars
<1>3. ASSUME NEW m \in ManifestId, WorkerCrash(m)
      PROVE  DispatchInv'
  BY <1>3, JobMoveKeepsInv DEF WorkerCrash, TypeOK, requestVars, manifestVars
<1>4. ASSUME NEW m \in ManifestId, Requeue(m)
      PROVE  DispatchInv'
  BY <1>4, JobMoveKeepsInv DEF Requeue, TypeOK, requestVars, manifestVars
<1>5. QED
  BY <1>1, <1>2, <1>3, <1>4, CreateConsignmentKeepsInv DEF Environment

LEMMA InitInv == Init => DispatchInv
BY DEF Init, DispatchInv, LocksHold, DeclaredHasMovedOn, AttemptIsCurrent, Current,
       DeclaredOnceUnlessClobbered, SentIsComplete, SentIsLogged,
       DispatchedIsAccountedFor, AccountedFor, Idle

\* The inductive invariant: locks exclude and preserve what was read under them,
\* a declared row has moved on, and a running attempt's knowledge is still good.
THEOREM DispatchSafe == Spec => []DispatchInv
<1>1. TypeOK /\ DispatchInv /\ [Next]_vars => DispatchInv'
  <2>1. ASSUME TypeOK, DispatchInv, Next PROVE DispatchInv'
    BY <2>1, RequestKeepsInv, WorkerKeepsInv, EnvironmentKeepsInv DEF Next
  <2>2. ASSUME DispatchInv, UNCHANGED vars PROVE DispatchInv'
    <3>1. LocksHold'
      BY <2>2 DEF DispatchInv, LocksHold, vars
    <3>2. QED
      BY <2>2, <3>1, RowsUntouched DEF vars
  <2>3. QED
    BY <2>1, <2>2
<1>2. QED
  BY InitInv, TypeCorrect, <1>1, PTL DEF Spec

\* No consignment is on two manifests, for any number of overlapping confirmations
\* and sweeps, unless a mark-ready wrote over its row after another request had
\* moved it on.
THEOREM DeclaredOnceHolds == Spec => []DeclaredOnceUnlessClobbered
<1>1. DispatchInv => DeclaredOnceUnlessClobbered
  BY DEF DispatchInv
<1>2. QED
  BY <1>1, DispatchSafe, PTL

\* Never silently dispatched: a dispatched consignment's carrier has no manifest, or
\* has taken the document that declares it, and the timeline says which.
THEOREM NeverSilentlyDispatched == Spec => []DispatchedIsAccountedFor
<1>1. DispatchInv => DispatchedIsAccountedFor
  BY DEF DispatchInv
<1>2. QED
  BY <1>1, DispatchSafe, PTL

\* A sent manifest is complete, however many attempts, crashes and redeliveries it took.
THEOREM SentIsCompleteHolds == Spec => []SentIsComplete
<1>1. DispatchInv => SentIsComplete
  BY DEF DispatchInv
<1>2. QED
  BY <1>1, DispatchSafe, PTL

-----------------------------------------------------------------------------
(* The queue, the audit counter and the manifest's status *)

\* A step that leaves a manifest and its job alone.
LEMMA ManifestAlone ==
    ASSUME NEW m \in ManifestId, InStep(m), faults \in Nat,
           UNCHANGED <<attempts[m], tries[m], job[m], mstatus[m], members[m]>>,
           timeline \subseteq timeline', faults' = faults \/ faults' = faults + 1
    PROVE  InStep(m)'
<1>1. faults' = 0 => faults = 0
  OBVIOUS
<1>2. RetriesRemain(m)' <=> RetriesRemain(m)
  BY DEF RetriesRemain
<1>3. QED
  BY <1>1, <1>2 DEF InStep

\* Declaring a manifest starts its job; the others' are left alone.
LEMMA CreateManifestsInStep ==
    ASSUME TypeOK, DispatchInv, QueueInv, NEW t \in Txn, NEW newCode,
           CreateManifests(t, newCode)
    PROVE  QueueInv'
<1> SUFFICES ASSUME NEW m \in ManifestId
             PROVE  InStep(m)'
  BY DEF QueueInv
<1>1. InStep(m) /\ faults \in Nat
  BY BoundsAssumption DEF QueueInv, TypeOK
<1>2. UNCHANGED <<attempts, tries, faults>>
  BY DEF CreateManifests
<1>3. timeline \subseteq timeline'
  BY CreateManifestsEffect
<1>4. CASE UNCHANGED <<mstatus[m], members[m], job[m]>>
  BY <1>1, <1>2, <1>3, <1>4, ManifestAlone
<1>5. CASE mstatus'[m] = "pending" /\ job'[m] = "todo"
  BY <1>1, <1>2, <1>5 DEF InStep
<1>6. QED
  BY <1>4, <1>5, CreateManifestsEffect

LEMMA WorkerInStep ==
    ASSUME TypeOK, DispatchInv, QueueInv, NEW n \in ManifestId,
           Worker(n) \/ InfrastructureFault(n) \/ WorkerCrash(n) \/ Requeue(n)
    PROVE  QueueInv'
<1> SUFFICES ASSUME NEW m \in ManifestId
             PROVE  InStep(m)'
  BY DEF QueueInv
<1>1. /\ InStep(m) /\ InStep(n) /\ Current(n)
      /\ faults \in Nat
      /\ tries[n] \in 0 .. MaxAttempts /\ MaxAttempts \in Nat
      /\ attempts[n] \in 0 .. MaxAttempts + 1
  BY BoundsAssumption DEF QueueInv, DispatchInv, AttemptIsCurrent, TypeOK
<1>2. CASE m # n
  <2>1. UNCHANGED <<attempts[m], tries[m], job[m], mstatus[m], members[m]>>
    BY <1>2 DEF Worker, StartAttempt, RedeliveredNoop, EmitDocument, CommitSent,
                CommitFailure, FinishJob, InfrastructureFault, WorkerCrash, Requeue,
                TypeOK, requestVars, manifestVars
  <2>2. timeline \subseteq timeline'
    BY DEF Worker, StartAttempt, RedeliveredNoop, EmitDocument, CommitSent,
           CommitFailure, FinishJob, InfrastructureFault, WorkerCrash, Requeue
  <2>3. faults' = faults \/ faults' = faults + 1
    BY DEF Worker, StartAttempt, RedeliveredNoop, EmitDocument, CommitSent,
           CommitFailure, FinishJob, InfrastructureFault, WorkerCrash, Requeue
  <2>4. QED
    BY <1>1, <2>1, <2>2, <2>3, ManifestAlone
<1>3. CASE m = n
  <2>1. CASE StartAttempt(n) \/ EmitDocument(n) \/ WorkerCrash(n) \/ Requeue(n)
    <3>1. /\ UNCHANGED <<attempts, tries, mstatus, members, timeline, faults>>
          /\ job'[n] \in {"doing", "todo", "stalled"}
      BY <2>1 DEF StartAttempt, EmitDocument, WorkerCrash, Requeue, TypeOK,
                  requestVars, manifestVars
    <3>2. QED
      BY <1>1, <1>3, <3>1 DEF InStep
  <2>2. CASE RedeliveredNoop(n)
    <3>1. /\ UNCHANGED <<tries, mstatus, members, timeline, faults>>
          /\ job'[n] = "succeeded" /\ mstatus[n] = "sent"
          /\ attempts'[n] = tries[n] + 1
      BY <2>2 DEF RedeliveredNoop, Audit, TypeOK, requestVars, manifestVars
    <3>2. QED
      BY <1>1, <1>3, <3>1 DEF InStep
  <2>3. CASE CommitSent(n)
    <3>1. /\ UNCHANGED <<tries, members, faults>>
          /\ job'[n] = "succeeded" /\ mstatus'[n] = "sent"
          /\ attempts'[n] = tries[n] + 1
      BY <2>3 DEF CommitSent, Audit, TypeOK
    <3>2. QED
      BY <1>1, <1>3, <3>1 DEF InStep
  <2>4. CASE CommitFailure(n)
    <3>1. /\ UNCHANGED <<tries, members, faults>>
          /\ job'[n] = "raised"
          /\ attempts'[n] = tries[n] + 1
      BY <2>4 DEF CommitFailure, FailureOutcome, Audit, TypeOK, requestVars
    <3>2. CASE FinalAttempt(n)
      <4>1. tries[n] = MaxAttempts
        BY <1>1, <3>2 DEF FinalAttempt
      <4>2. /\ mstatus'[n] = "failed"
            /\ \A c \in members[n] : <<"manifest_failed", c, n>> \in timeline'
        BY <2>4, <3>2 DEF CommitFailure, TypeOK
      <4>3. QED
        BY <1>1, <1>3, <3>1, <4>1, <4>2 DEF InStep
    <3>3. CASE ~ FinalAttempt(n)
      <4>1. tries[n] < MaxAttempts
        BY <1>1, <3>3 DEF FinalAttempt
      <4>2. UNCHANGED <<mstatus, timeline>>
        BY <2>4, <3>3 DEF CommitFailure
      <4>3. mstatus[n] # "failed"
        BY <1>1, <4>1 DEF InStep
      <4>4. RetriesRemain(n)'
        BY <3>1, <4>1 DEF RetriesRemain
      <4>5. QED
        BY <1>1, <1>3, <3>1, <4>2, <4>3, <4>4 DEF InStep
    <3>4. QED
      BY <3>2, <3>3
  <2>5. CASE FinishJob(n)
    <3>1. UNCHANGED <<attempts, mstatus, members, timeline, faults>>
      BY <2>5 DEF FinishJob, requestVars, manifestVars
    <3>2. CASE job[n] = "succeeded" /\ job'[n] = "done" /\ tries' = tries
      BY <1>1, <1>3, <3>1, <3>2 DEF InStep
    <3>3. CASE job'[n] = "todo" /\ RetriesRemain(n) /\ tries'[n] = tries[n] + 1
      BY <1>1, <1>3, <3>1, <3>3 DEF InStep, RetriesRemain
    <3>4. CASE /\ job[n] = "raised" /\ job'[n] = "failed"
               /\ ~ RetriesRemain(n) /\ tries' = tries
      BY <1>1, <1>3, <3>1, <3>4 DEF InStep
    <3>5. QED
      BY <2>5, <3>2, <3>3, <3>4 DEF FinishJob, TypeOK
  <2>6. CASE InfrastructureFault(n)
    <3>1. /\ UNCHANGED <<attempts, tries, mstatus, members, timeline>>
          /\ job'[n] = "raised" /\ faults' = faults + 1
      BY <2>6 DEF InfrastructureFault, TypeOK, requestVars, manifestVars
    <3>2. faults' # 0
      BY <1>1, <3>1
    <3>3. QED
      BY <1>1, <1>3, <3>1, <3>2 DEF InStep
  <2>7. QED
    BY <2>1, <2>2, <2>3, <2>4, <2>5, <2>6 DEF Worker
<1>4. QED
  BY <1>2, <1>3

\* Requests that only read or mark, new consignments and published definitions are
\* none of the queue's business.
LEMMA ElsewhereInStep ==
    ASSUME TypeOK, QueueInv, timeline \subseteq timeline',
           UNCHANGED <<attempts, tries, job, mstatus, members, faults>>
    PROVE  QueueInv'
<1> SUFFICES ASSUME NEW m \in ManifestId
             PROVE  InStep(m)'
  BY DEF QueueInv
<1>1. InStep(m) /\ faults \in Nat
  BY BoundsAssumption DEF QueueInv, TypeOK
<1>2. QED
  BY <1>1, ManifestAlone

LEMMA NextInStep ==
    ASSUME TypeOK, DispatchInv, QueueInv, Next
    PROVE  QueueInv'
<1>1. ASSUME NEW t \in Txn, Request(t) PROVE QueueInv'
  <2>1. CASE ConfirmCommit(t) \/ SweepCommit(t)
    BY <2>1, CreateManifestsInStep DEF ConfirmCommit, SweepCommit
  <2>2. CASE \/ \E orders \in SUBSET Consignment : ConfirmRead(t, orders) \/ MarkRead(t, orders)
             \/ \E g \in Group : SweepRead(t, g)
             \/ MarkWrite(t) \/ Rollback(t)
    <3>1. UNCHANGED <<timeline, attempts, tries, job, mstatus, members, faults>>
      BY <2>2 DEF ConfirmRead, MarkRead, SweepRead, MarkWrite, Rollback, Begin,
                  requestVars, manifestVars
    <3>2. QED
      BY <3>1, ElsewhereInStep
  <2>3. QED
    BY <1>1, <2>1, <2>2 DEF Request
<1>2. ASSUME NEW c \in Consignment, CreateConsignment(c) PROVE QueueInv'
  <2>1. /\ timeline \subseteq timeline'
        /\ UNCHANGED <<attempts, tries, job, mstatus, members, faults>>
    BY <1>2 DEF CreateConsignment, manifestVars
  <2>2. QED
    BY <2>1, ElsewhereInStep
<1>3. ASSUME NEW k \in Carrier, PublishDefinition(k) PROVE QueueInv'
  <2>1. UNCHANGED <<timeline, attempts, tries, job, mstatus, members, faults>>
    BY <1>3 DEF PublishDefinition, manifestVars, workerVars
  <2>2. QED
    BY <2>1, ElsewhereInStep
<1>4. QED
  BY <1>1, <1>2, <1>3, WorkerInStep DEF Next, Environment

\* The audit counter, the queue's count and the manifest's status agree all along.
THEOREM QueueSafe == Spec => []QueueInv
<1>1. Init => QueueInv
  BY BoundsAssumption DEF Init, QueueInv, InStep
<1>2. TypeOK /\ DispatchInv /\ QueueInv /\ [Next]_vars => QueueInv'
  <2>1. ASSUME TypeOK, QueueInv, UNCHANGED vars PROVE QueueInv'
    BY <2>1, ElsewhereInStep DEF vars
  <2>2. QED
    BY <2>1, NextInStep
<1>3. QED
  BY <1>1, <1>2, TypeCorrect, DispatchSafe, PTL DEF Spec

\* The audit counter never runs ahead of the queue, however often a job is redelivered,
\* and agrees with it once the send succeeded.
THEOREM AuditTracksQueueHolds == Spec => []AuditTracksQueue
<1>1. QueueInv => AuditTracksQueue
  BY DEF QueueInv, InStep, AuditTracksQueue
<1>2. QED
  BY <1>1, QueueSafe, PTL

\* A manifest is failed only after the last attempt the queue grants.
THEOREM FailedIsExhaustedHolds == Spec => []FailedIsExhausted
<1>1. QueueInv => FailedIsExhausted
  BY DEF QueueInv, InStep, FailedIsExhausted
<1>2. QED
  BY <1>1, QueueSafe, PTL

\* As long as every error is one that send_manifest catches, no manifest is pending
\* when its job is over.
THEOREM OverIsNotPendingHolds == Spec => [](faults = 0 => OverIsNotPending)
<1>1. QueueInv => (faults = 0 => OverIsNotPending)
  BY DEF QueueInv, InStep, OverIsNotPending
<1>2. QED
  BY <1>1, QueueSafe, PTL

-----------------------------------------------------------------------------
(* Where a consignment is *)

\* What create_manifests leaves on_manifest is a member of a manifest it has made.
LEMMA CreateManifestsDeclares ==
    ASSUME TypeOK, NEW t \in Txn, NEW newCode, CreateManifests(t, newCode),
           NEW c \in txn[t].work, status'[c] = "on_manifest"
    PROVE  \E m \in ManifestId : /\ c \in members'[m]
                                 /\ mstatus'[m] = "pending" /\ job'[m] = "todo"
<1> DEFINE work      == txn[t].work
           declaring == {g \in {GroupOf[d] : d \in work} : declares[CarrierOf[g]]}
<1>1. PICK id \in [declaring -> {m \in ManifestId : mstatus[m] = "none"}] :
        LET new     == {id[g] : g \in declaring}
            groupOf == [m \in new |-> CHOOSE g \in declaring : id[g] = m]
            declared(d) == GroupOf[d] \in declaring
        IN  /\ \A g, h \in declaring : id[g] = id[h] => g = h
            /\ status' = [d \in Consignment |->
                            IF d \in work THEN StageOf(declared(d)) ELSE status[d]]
            /\ mstatus' = [m \in ManifestId |-> IF m \in new THEN "pending" ELSE mstatus[m]]
            /\ members' = [m \in ManifestId |->
                             IF m \in new THEN {d \in work : GroupOf[d] = groupOf[m]}
                                          ELSE members[m]]
            /\ job' = [m \in ManifestId |-> IF m \in new THEN "todo" ELSE job[m]]
  BY DEF CreateManifests
<1> DEFINE new     == {id[g] : g \in declaring}
           groupOf == [m \in new |-> CHOOSE g \in declaring : id[g] = m]
           m == id[GroupOf[c]]
<1>2. c \in Consignment
  BY DEF TypeOK
<1>3. GroupOf[c] \in declaring
  BY <1>1, <1>2 DEF StageOf
<1>4. m \in new /\ m \in ManifestId
  BY <1>1, <1>3
<1>5. groupOf[m] \in declaring /\ id[groupOf[m]] = m
  BY <1>4
<1>6. groupOf[m] = GroupOf[c]
  BY <1>1, <1>3, <1>5
<1>7. c \in members'[m] /\ mstatus'[m] = "pending" /\ job'[m] = "todo"
  BY <1>1, <1>4, <1>6
<1>8. QED
  BY <1>4, <1>7

\* A consignment whose row did not move still waits where it waited, if its manifest's
\* job starts no attempt and does not succeed.
LEMMA StillWaits ==
    ASSUME TypeOK, OnManifestWaits,
           \A c \in Consignment : status'[c] = "on_manifest" => status[c] = "on_manifest",
           \A m \in ManifestId :
              /\ members'[m] = members[m] \/ mstatus[m] = "none"
              /\ mstatus'[m] = mstatus[m] \/ mstatus'[m] \in {"pending", "failed"}
              /\ job'[m] = "doing" => job[m] = "doing" /\ attempt'[m].unsent = attempt[m].unsent
    PROVE  OnManifestWaits'
<1> SUFFICES ASSUME NEW c \in Consignment, status'[c] = "on_manifest"
             PROVE  \E m \in ManifestId : WaitsOn(c, m)'
  BY DEF OnManifestWaits
<1>1. PICK m \in ManifestId : WaitsOn(c, m)
  BY DEF OnManifestWaits
<1>2. WaitsOn(c, m)'
  BY <1>1 DEF WaitsOn
<1>3. QED
  BY <1>2

LEMMA CreateManifestsWaits ==
    ASSUME TypeOK, OnManifestWaits, NEW t \in Txn, NEW newCode, CreateManifests(t, newCode)
    PROVE  OnManifestWaits'
<1> SUFFICES ASSUME NEW c \in Consignment, status'[c] = "on_manifest"
             PROVE  \E m \in ManifestId : WaitsOn(c, m)'
  BY DEF OnManifestWaits
<1>1. CASE c \in txn[t].work
  <2>1. PICK m \in ManifestId : /\ c \in members'[m]
                                /\ mstatus'[m] = "pending" /\ job'[m] = "todo"
    BY <1>1, CreateManifestsDeclares
  <2>2. QED
    BY <2>1 DEF WaitsOn
<1>2. CASE c \notin txn[t].work
  <2>1. status[c] = "on_manifest"
    BY <1>2, CreateManifestsEffect
  <2>2. PICK m \in ManifestId : WaitsOn(c, m)
    BY <2>1 DEF OnManifestWaits
  <2>3. UNCHANGED <<mstatus[m], members[m], job[m]>> /\ UNCHANGED attempt
    BY <2>2, CreateManifestsEffect DEF WaitsOn
  <2>4. WaitsOn(c, m)'
    BY <2>2, <2>3 DEF WaitsOn
  <2>5. QED
    BY <2>4
<1>3. QED
  BY <1>1, <1>2

\* The attempt that starts has read its undispatched members; the one that commits
\* dispatches them.
LEMMA WorkerWaits ==
    ASSUME TypeOK, OnManifestWaits, NEW n \in ManifestId, Worker(n)
    PROVE  OnManifestWaits'
<1>1. CASE StartAttempt(n)
  <2> SUFFICES ASSUME NEW c \in Consignment, status'[c] = "on_manifest"
               PROVE  \E m \in ManifestId : WaitsOn(c, m)'
    BY DEF OnManifestWaits
  <2>1. /\ UNCHANGED <<status, mstatus, members>>
        /\ attempt'[n].unsent = {d \in members[n] : status[d] # "dispatched"}
        /\ \A m \in ManifestId \ {n} : job'[m] = job[m] /\ attempt'[m] = attempt[m]
    BY <1>1 DEF StartAttempt, TypeOK, requestVars, manifestVars
  <2>2. PICK m \in ManifestId : WaitsOn(c, m)
    BY <2>1 DEF OnManifestWaits
  <2>3. WaitsOn(c, m)'
    BY <2>1, <2>2 DEF WaitsOn
  <2>4. QED
    BY <2>3
<1>2. CASE CommitSent(n)
  <2> SUFFICES ASSUME NEW c \in Consignment, status'[c] = "on_manifest"
               PROVE  \E m \in ManifestId : WaitsOn(c, m)'
    BY DEF OnManifestWaits
  <2>1. /\ job[n] = "doing"
        /\ status' = [d \in Consignment |->
                        IF d \in attempt[n].unsent THEN "dispatched" ELSE status[d]]
        /\ members' = members
        /\ \A m \in ManifestId \ {n} : /\ job'[m] = job[m] /\ attempt'[m] = attempt[m]
                                       /\ mstatus'[m] = mstatus[m]
    BY <1>2 DEF CommitSent, TypeOK
  <2>2. status[c] = "on_manifest" /\ c \notin attempt[n].unsent
    BY <2>1
  <2>3. PICK m \in ManifestId : WaitsOn(c, m)
    BY <2>2 DEF OnManifestWaits
  <2>4. m # n
    BY <2>1, <2>2, <2>3 DEF WaitsOn
  <2>5. WaitsOn(c, m)'
    BY <2>1, <2>3, <2>4 DEF WaitsOn
  <2>6. QED
    BY <2>5
<1>3. CASE RedeliveredNoop(n) \/ EmitDocument(n) \/ CommitFailure(n) \/ FinishJob(n)
  <2>1. UNCHANGED <<status, members>>
    BY <1>3 DEF RedeliveredNoop, EmitDocument, CommitFailure, FinishJob,
                requestVars, manifestVars
  <2>2. \A m \in ManifestId : mstatus'[m] = mstatus[m] \/ mstatus'[m] = "failed"
    BY <1>3 DEF RedeliveredNoop, EmitDocument, CommitFailure, FinishJob,
                TypeOK, manifestVars
  <2>3. \A m \in ManifestId :
          job'[m] = "doing" => job[m] = "doing" /\ attempt'[m].unsent = attempt[m].unsent
    BY <1>3 DEF RedeliveredNoop, EmitDocument, CommitFailure, FinishJob, FailureOutcome,
                TypeOK
  <2>4. QED
    BY <2>1, <2>2, <2>3, StillWaits
<1>4. QED
  BY <1>1, <1>2, <1>3 DEF Worker

LEMMA NextWaits ==
    ASSUME TypeOK, OnManifestWaits, Next
    PROVE  OnManifestWaits'
<1>1. ASSUME NEW t \in Txn, Request(t) PROVE OnManifestWaits'
  <2>1. CASE ConfirmCommit(t) \/ SweepCommit(t)
    BY <2>1, CreateManifestsWaits DEF ConfirmCommit, SweepCommit
  <2>2. CASE MarkWrite(t)
    <3>1. /\ \A c \in Consignment :
               status'[c] = "on_manifest" => status[c] = "on_manifest"
          /\ UNCHANGED <<mstatus, members, job, attempt>>
      BY <2>2 DEF MarkWrite, manifestVars
    <3>2. QED
      BY <3>1, StillWaits
  <2>3. CASE \/ \E orders \in SUBSET Consignment : ConfirmRead(t, orders) \/ MarkRead(t, orders)
             \/ \E g \in Group : SweepRead(t, g)
             \/ Rollback(t)
    <3>1. UNCHANGED <<status, mstatus, members, job, attempt>>
      BY <2>3 DEF ConfirmRead, MarkRead, SweepRead, Rollback, Begin, manifestVars
    <3>2. QED
      BY <3>1, StillWaits
  <2>4. QED
    BY <1>1, <2>1, <2>2, <2>3 DEF Request
<1>2. ASSUME NEW c \in Consignment, CreateConsignment(c) PROVE OnManifestWaits'
  <2>1. /\ \A d \in Consignment :
             status'[d] = "on_manifest" => status[d] = "on_manifest"
        /\ UNCHANGED <<mstatus, members, job, attempt>>
    BY <1>2, FailureAssumption DEF CreateConsignment, TypeOK, manifestVars
  <2>2. QED
    BY <2>1, StillWaits
<1>3. ASSUME NEW k \in Carrier, PublishDefinition(k) PROVE OnManifestWaits'
  <2>1. UNCHANGED <<status, mstatus, members, job, attempt>>
    BY <1>3 DEF PublishDefinition, manifestVars, workerVars
  <2>2. QED
    BY <2>1, StillWaits
<1>4. ASSUME NEW m \in ManifestId, InfrastructureFault(m) \/ WorkerCrash(m) \/ Requeue(m)
      PROVE  OnManifestWaits'
  <2>1. /\ UNCHANGED <<status, mstatus, members>>
        /\ \A n \in ManifestId :
             job'[n] = "doing" => job[n] = "doing" /\ attempt'[n].unsent = attempt[n].unsent
    BY <1>4 DEF InfrastructureFault, WorkerCrash, Requeue, TypeOK, requestVars, manifestVars
  <2>2. QED
    BY <2>1, StillWaits
<1>5. QED
  BY <1>1, <1>2, <1>3, <1>4, WorkerWaits DEF Next, Environment

\* Nobody is shown as on_manifest without a manifest that is still to be sent or has
\* visibly failed, not even a consignment that a mark-ready pulled back and a sweep
\* declared again.
THEOREM OnManifestIsUnsentHolds == Spec => []OnManifestIsUnsent
<1>1. Init => OnManifestWaits
  BY DEF Init, OnManifestWaits
<1>2. TypeOK /\ OnManifestWaits /\ [Next]_vars => OnManifestWaits'
  <2>1. ASSUME TypeOK, OnManifestWaits, UNCHANGED vars PROVE OnManifestWaits'
    BY <2>1, StillWaits DEF vars
  <2>2. QED
    BY <2>1, NextWaits
<1>3. OnManifestWaits => OnManifestIsUnsent
  BY DEF OnManifestWaits, WaitsOn, OnManifestIsUnsent
<1>4. QED
  BY <1>1, <1>2, <1>3, TypeCorrect, PTL DEF Spec

-----------------------------------------------------------------------------
(* The lifecycle *)

LEMMA StepsForward ==
    ASSUME TypeOK, DispatchInv, Next, NEW c \in Consignment, c \notin clobbered',
           status'[c] # status[c]
    PROVE  <<status[c], status'[c]>> \in Lifecycle
<1>1. ASSUME NEW t \in Txn, Request(t) PROVE <<status[c], status'[c]>> \in Lifecycle
  <2>1. CASE ConfirmCommit(t) \/ SweepCommit(t)
    <3>1. PICK newCode : CreateManifests(t, newCode)
      BY <2>1 DEF ConfirmCommit, SweepCommit
    <3>2. c \in txn[t].work /\ status'[c] \in {"on_manifest", "dispatched"}
      BY <3>1, CreateManifestsEffect
    <3>3. status[c] \in {"allocated", "ready_to_manifest"}
      BY <2>1, <3>2 DEF ConfirmCommit, SweepCommit, DispatchInv, LocksHold
    <3>4. QED
      BY <3>2, <3>3 DEF Lifecycle
  <2>2. CASE MarkWrite(t)
    <3>1. /\ status'[c] = "ready_to_manifest"
          /\ status[c] \in {"allocated", "ready_to_manifest"}
      BY <2>2 DEF MarkWrite
    <3>2. QED
      BY <3>1 DEF Lifecycle
  <2>3. CASE \/ \E orders \in SUBSET Consignment : ConfirmRead(t, orders) \/ MarkRead(t, orders)
             \/ \E g \in Group : SweepRead(t, g)
             \/ Rollback(t)
    BY <2>3 DEF ConfirmRead, MarkRead, SweepRead, Rollback, Begin
  <2>4. QED
    BY <1>1, <2>1, <2>2, <2>3 DEF Request
<1>2. ASSUME NEW d \in Consignment, CreateConsignment(d)
      PROVE  <<status[c], status'[c]>> \in Lifecycle
  <2>1. /\ status[c] = "absent"
        /\ status'[c] \in {"allocated", "dispatched"} \union FailureStatus
    BY <1>2 DEF CreateConsignment, TypeOK
  <2>2. status'[c] \in Status \ {"absent", "ready_to_manifest", "on_manifest"}
    BY <2>1, FailureAssumption DEF Status
  <2>3. QED
    BY <2>1, <2>2 DEF Lifecycle
<1>3. ASSUME NEW m \in ManifestId, CommitSent(m)
      PROVE  <<status[c], status'[c]>> \in Lifecycle
  <2>1. /\ job[m] = "doing" /\ c \in attempt[m].unsent
        /\ status'[c] = "dispatched" /\ clobbered' = clobbered
    BY <1>3 DEF CommitSent
  <2>2. c \in members[m]
    BY <2>1 DEF DispatchInv, AttemptIsCurrent, Current
  <2>3. status[c] = "on_manifest"
    BY <2>1, <2>2 DEF DispatchInv, DeclaredHasMovedOn
  <2>4. QED
    BY <2>1, <2>3 DEF Lifecycle
<1>4. CASE UNCHANGED status
  BY <1>4
<1>5. QED
  BY <1>1, <1>2, <1>3, <1>4 DEF Next, Worker, Environment, StartAttempt, RedeliveredNoop,
     EmitDocument, CommitFailure, FinishJob, PublishDefinition, InfrastructureFault,
     WorkerCrash, Requeue, requestVars

\* No consignment moves backwards along the lifecycle of ADR 0013, whatever overlaps,
\* unless a mark-ready overwrote its row.
THEOREM ForwardHolds == Spec => ForwardUnlessClobbered
<1>1. TypeOK /\ DispatchInv /\ [Next]_vars =>
        [\A c \in Consignment \ clobbered' :
           status'[c] # status[c] => <<status[c], status'[c]>> \in Lifecycle]_vars
  BY StepsForward
<1>2. QED
  BY <1>1, TypeCorrect, DispatchSafe, PTL DEF Spec, ForwardUnlessClobbered

-----------------------------------------------------------------------------
(* Dispatch implements DispatchPromise, as long as no two requests are open  *)
(* at once.                                                                  *)

\* At most one request is open.
OneByOne == \A t, u \in Txn : t = u

LEMMA Phases ==
    /\ PhaseAt("absent") = "unknown"
    /\ PhaseAt("allocated") = "held" /\ PhaseAt("ready_to_manifest") = "held"
    /\ PhaseAt("on_manifest") = "declared" /\ PhaseAt("dispatched") = "gone"
    /\ \A s \in FailureStatus : PhaseAt(s) = "refused"
BY FailureAssumption DEF PhaseAt

-----------------------------------------------------------------------------
(* What one request at a time adds to the invariant *)

\* A new manifest declares at least the consignment whose group it was made for.
LEMMA NewManifestNotEmpty ==
    ASSUME TypeOK, NEW t \in Txn, NEW newCode, CreateManifests(t, newCode),
           NEW m \in ManifestId, mstatus'[m] # mstatus[m]
    PROVE  members'[m] # {}
<1> DEFINE work      == txn[t].work
           declaring == {g \in {GroupOf[c] : c \in work} : declares[CarrierOf[g]]}
<1>1. PICK id \in [declaring -> {n \in ManifestId : mstatus[n] = "none"}] :
        LET new     == {id[g] : g \in declaring}
            groupOf == [n \in new |-> CHOOSE g \in declaring : id[g] = n]
        IN  /\ mstatus' = [n \in ManifestId |-> IF n \in new THEN "pending" ELSE mstatus[n]]
            /\ members' = [n \in ManifestId |->
                             IF n \in new THEN {c \in work : GroupOf[c] = groupOf[n]}
                                          ELSE members[n]]
  BY DEF CreateManifests
<1> DEFINE new     == {id[g] : g \in declaring}
           groupOf == [n \in new |-> CHOOSE g \in declaring : id[g] = n]
<1>2. m \in new
  BY <1>1
<1>3. groupOf[m] \in declaring
  BY <1>2
<1>4. PICK c \in work : GroupOf[c] = groupOf[m]
  BY <1>3
<1>5. members'[m] = {d \in work : GroupOf[d] = groupOf[m]}
  BY <1>1, <1>2
<1>6. QED
  BY <1>4, <1>5

LEMMA CreateManifestsSolo ==
    ASSUME OneByOne, TypeOK, SoloInv, NEW t \in Txn, NEW newCode, CreateManifests(t, newCode)
    PROVE  SoloInv'
<1>1. /\ txn' = [txn EXCEPT ![t] = Idle] /\ clobbered' = clobbered
  BY CreateManifestsEffect
<1>2. \A u \in Txn : txn'[u] = Idle
  BY <1>1 DEF OneByOne, TypeOK
<1>3. ASSUME NEW m \in ManifestId, mstatus'[m] # "none" PROVE members'[m] # {}
  <2>1. CASE UNCHANGED <<mstatus[m], members[m]>>
    BY <1>3, <2>1 DEF SoloInv
  <2>2. CASE mstatus'[m] # mstatus[m]
    BY <2>2, NewManifestNotEmpty
  <2>3. QED
    BY <2>1, <2>2, CreateManifestsEffect
<1>4. QED
  BY <1>1, <1>2, <1>3 DEF SoloInv, Idle

LEMMA RequestSolo ==
    ASSUME OneByOne, TypeOK, SoloInv, NEW t \in Txn, Request(t)
    PROVE  SoloInv'
<1>1. CASE ConfirmCommit(t) \/ SweepCommit(t)
  BY <1>1, CreateManifestsSolo DEF ConfirmCommit, SweepCommit
<1>2. ASSUME NEW orders \in SUBSET Consignment, MarkRead(t, orders)
      PROVE  SoloInv'
  <2>1. /\ txn'[t].work = {c \in orders : status[c] \notin {"ready_to_manifest", "dispatched"}}
        /\ UNCHANGED <<status, clobbered, mstatus, members>>
    BY <1>2 DEF MarkRead, Begin, TypeOK, manifestVars
  <2>2. \A c \in txn'[t].work : status'[c] = "allocated"
    BY <1>2, <2>1 DEF MarkRead, MarkReadable
  <2>3. \A u \in Txn : u = t
    BY DEF OneByOne
  <2>4. QED
    BY <2>1, <2>2, <2>3 DEF SoloInv
<1>3. CASE \/ \E orders \in SUBSET Consignment : ConfirmRead(t, orders)
           \/ \E g \in Group : SweepRead(t, g)
  <2>1. \E kind \in {"confirm", "sweep"} : \E held, work : Begin(t, kind, held, work)
    BY <1>3 DEF ConfirmRead, SweepRead
  <2>2. /\ txn'[t].kind \in {"confirm", "sweep"}
        /\ UNCHANGED <<status, clobbered, mstatus, members>>
    BY <2>1 DEF Begin, TypeOK, manifestVars
  <2>3. \A u \in Txn : u = t
    BY DEF OneByOne
  <2>4. QED
    BY <2>2, <2>3 DEF SoloInv
<1>4. CASE MarkWrite(t)
  <2>1. /\ txn'[t] = Idle /\ UNCHANGED <<mstatus, members>>
        /\ clobbered' = clobbered \union
             {c \in txn[t].work : status[c] \notin {"allocated", "ready_to_manifest"}}
        /\ txn[t].kind = "mark"
    BY <1>4 DEF MarkWrite, TypeOK, manifestVars
  <2>2. clobbered' = {}
    BY <2>1 DEF SoloInv
  <2>3. \A u \in Txn : u = t
    BY DEF OneByOne
  <2>4. QED
    BY <2>1, <2>2, <2>3 DEF SoloInv, Idle
<1>5. CASE Rollback(t)
  <2>1. txn'[t] = Idle /\ UNCHANGED <<status, clobbered, mstatus, members>>
    BY <1>5 DEF Rollback, TypeOK, manifestVars
  <2>2. \A u \in Txn : u = t
    BY DEF OneByOne
  <2>3. QED
    BY <2>1, <2>2 DEF SoloInv, Idle
<1>6. QED
  BY <1>1, <1>2, <1>3, <1>4, <1>5 DEF Request

\* The worker and the environment write no row that an open mark-ready has read.
LEMMA ElsewhereSolo ==
    ASSUME TypeOK, DispatchInv, SoloInv,
           (\E m \in ManifestId : Worker(m)) \/ Environment
    PROVE  SoloInv'
<1>1. UNCHANGED <<txn, members, clobbered>>
  BY DEF Worker, Environment, StartAttempt, RedeliveredNoop, EmitDocument, CommitSent,
         CommitFailure, FinishJob, CreateConsignment, PublishDefinition,
         InfrastructureFault, WorkerCrash, Requeue, requestVars, manifestVars
<1>2. \A c \in Consignment : status[c] = "allocated" => status'[c] = "allocated"
  <2>1. ASSUME NEW m \in ManifestId, CommitSent(m), NEW c \in Consignment,
               status[c] = "allocated"
        PROVE  status'[c] = "allocated"
    <3>1. job[m] = "doing"
      BY <2>1 DEF CommitSent
    <3>2. c \notin attempt[m].unsent
      BY <2>1, <3>1 DEF DispatchInv, AttemptIsCurrent, Current, DeclaredHasMovedOn, SoloInv
    <3>3. QED
      BY <2>1, <3>2 DEF CommitSent
  <2>2. ASSUME NEW d \in Consignment, CreateConsignment(d), NEW c \in Consignment,
               status[c] = "allocated"
        PROVE  status'[c] = "allocated"
    BY <2>2 DEF CreateConsignment, TypeOK
  <2>3. CASE UNCHANGED status
    BY <2>3
  <2>4. QED
    BY <2>1, <2>2, <2>3 DEF Worker, Environment, StartAttempt, RedeliveredNoop,
       EmitDocument, CommitFailure, FinishJob, PublishDefinition, InfrastructureFault,
       WorkerCrash, Requeue, requestVars
<1>3. \A m \in ManifestId : mstatus[m] = "none" => mstatus'[m] = "none"
  <2>1. ASSUME NEW m \in ManifestId, CommitSent(m) \/ CommitFailure(m),
               NEW n \in ManifestId, mstatus[n] = "none"
        PROVE  mstatus'[n] = "none"
    <3>1. job[m] = "doing" /\ job[n] = "none"
      BY <2>1 DEF CommitSent, CommitFailure, DispatchInv, AttemptIsCurrent, Current
    <3>2. QED
      BY <2>1, <3>1 DEF CommitSent, CommitFailure, TypeOK
  <2>2. CASE UNCHANGED mstatus
    BY <2>2
  <2>3. QED
    BY <2>1, <2>2 DEF Worker, Environment, StartAttempt, RedeliveredNoop,
       EmitDocument, FinishJob, CreateConsignment, PublishDefinition,
       InfrastructureFault, WorkerCrash, Requeue, manifestVars
<1>4. \A t \in Txn : txn[t].work \subseteq Consignment
  BY DEF TypeOK
<1>5. QED
  BY <1>1, <1>2, <1>3, <1>4 DEF SoloInv

-----------------------------------------------------------------------------
(* Every step is a step of the promise, or none *)

LEMMA InitKeepsPromise == Init => Promise!Init
BY Phases DEF Init, Promise!Init, Phase, Away

\* Paperwork: the order enters.
LEMMA EnterStep ==
    ASSUME TypeOK, NEW c \in Consignment, CreateConsignment(c)
    PROVE  Promise!Enter(c)
<1>1. PICK s \in {"allocated", "dispatched"} \union FailureStatus :
        status' = [status EXCEPT ![c] = s]
  BY DEF CreateConsignment
<1>2. status[c] = "absent" /\ UNCHANGED <<mstatus, members>>
  BY DEF CreateConsignment, manifestVars
<1>3. Phase[c] = "unknown"
  BY <1>2, Phases DEF Phase
<1>4. PhaseAt(s) \in {"held", "gone", "refused"}
  BY Phases
<1>5. Phase' = [Phase EXCEPT ![c] = PhaseAt(s)]
  <2>1. \A d \in Consignment : status'[d] = IF d = c THEN s ELSE status[d]
    BY <1>1 DEF TypeOK
  <2>2. QED
    BY <2>1 DEF Phase
<1>6. Away' = Away
  BY <1>2 DEF Away
<1>7. QED
  BY <1>2, <1>3, <1>4, <1>5, <1>6 DEF Promise!Enter

\* A confirmation's or a sweep's commit: the held ones are declared, or leave directly.
LEMMA DeclareStep ==
    ASSUME TypeOK, DispatchInv, NEW t \in Txn, NEW newCode, CreateManifests(t, newCode),
           txn[t].kind \in {"confirm", "sweep"}
    PROVE  Promise!Declare \/ UNCHANGED <<Phase, members, Away>>
<1> DEFINE work      == txn[t].work
           declaring == {g \in {GroupOf[c] : c \in work} : declares[CarrierOf[g]]}
<1>1. PICK id \in [declaring -> {m \in ManifestId : mstatus[m] = "none"}] :
        LET new     == {id[g] : g \in declaring}
            groupOf == [m \in new |-> CHOOSE g \in declaring : id[g] = m]
            declared(c) == GroupOf[c] \in declaring
        IN  /\ \A g, h \in declaring : id[g] = id[h] => g = h
            /\ status' = [c \in Consignment |->
                            IF c \in work THEN StageOf(declared(c)) ELSE status[c]]
            /\ mstatus' = [m \in ManifestId |-> IF m \in new THEN "pending" ELSE mstatus[m]]
            /\ members' = [m \in ManifestId |->
                             IF m \in new THEN {c \in work : GroupOf[c] = groupOf[m]}
                                          ELSE members[m]]
  BY DEF CreateManifests
<1> DEFINE new     == {id[g] : g \in declaring}
           groupOf == [m \in new |-> CHOOSE g \in declaring : id[g] = m]
           place   == [c \in work |->
                         IF GroupOf[c] \in declaring THEN id[GroupOf[c]] ELSE NoManifest]
<1>2. work \subseteq Consignment
  BY DEF TypeOK
<1>3. Away' = Away
  <2>1. \A m \in ManifestId : mstatus'[m] = "sent" <=> mstatus[m] = "sent"
    BY CreateManifestsEffect
  <2>2. QED
    BY <2>1 DEF Away
<1>4. CASE work = {}
  <2>1. declaring = {} /\ new = {}
    BY <1>4
  <2>2. \A c \in Consignment : status'[c] = status[c]
    BY <1>1, <1>4
  <2>3. members' = members
    BY <1>1, <2>1 DEF TypeOK
  <2>4. Phase' = Phase
    BY <2>2 DEF Phase
  <2>5. QED
    BY <1>3, <2>3, <2>4
<1>5. CASE work # {}
  <2>1. \A m \in ManifestId : mstatus[m] = "none" => members[m] = {}
    BY DEF DispatchInv, AttemptIsCurrent, Current
  <2>2. place \in [work -> {b \in ManifestId : members[b] = {}} \union {NoManifest}]
    BY <1>1, <2>1
  <2>3. work \in SUBSET Promise!Held
    <3>1. \A c \in work : status[c] \in {"allocated", "ready_to_manifest"}
      BY DEF DispatchInv, LocksHold
    <3>2. \A c \in work : Phase[c] = "held"
      BY <1>2, <3>1, Phases DEF Phase
    <3>3. QED
      BY <1>2, <3>2 DEF Promise!Held
  <2>4. Phase' = [c \in Consignment |->
                    IF c \notin work THEN Phase[c]
                    ELSE IF place[c] = NoManifest THEN "gone" ELSE "declared"]
    <3>1. \A c \in work : GroupOf[c] \in declaring => place[c] \in ManifestId
      BY <1>1
    <3>2. \A c \in work :
            status'[c] = IF place[c] = NoManifest THEN "dispatched" ELSE "on_manifest"
      <4>1. \A c \in work : place[c] = NoManifest <=> GroupOf[c] \notin declaring
        BY <3>1, NoManifestAssumption
      <4>2. \A c \in work : status'[c] = StageOf(GroupOf[c] \in declaring)
        BY <1>1, <1>2
      <4>3. StageOf(TRUE) = "on_manifest" /\ StageOf(FALSE) = "dispatched"
        BY DEF StageOf
      <4>4. QED
        BY <4>1, <4>2, <4>3 DEF StageOf
    <3>3. \A c \in Consignment : c \notin work => status'[c] = status[c]
      BY <1>1
    <3> HIDE DEF place, work
    <3>4. QED
      BY <3>2, <3>3, Phases DEF Phase
  <2>5. members' = [b \in ManifestId |->
                      IF members[b] = {} THEN {c \in work : place[c] = b} ELSE members[b]]
    <3>1. \A m \in new : groupOf[m] \in declaring /\ id[groupOf[m]] = m
      OBVIOUS
    <3>2. \A m \in new : \A c \in work : GroupOf[c] = groupOf[m] <=> place[c] = m
      <4> SUFFICES ASSUME NEW m \in new, NEW c \in work
                   PROVE  GroupOf[c] = groupOf[m] <=> place[c] = m
        OBVIOUS
      <4>1. CASE GroupOf[c] \in declaring
        BY <1>1, <3>1, <4>1
      <4>2. CASE GroupOf[c] \notin declaring
        <5>1. m \in ManifestId
          BY <1>1
        <5>2. place[c] = NoManifest
          BY <4>2
        <5>3. QED
          BY <3>1, <4>2, <5>1, <5>2, NoManifestAssumption
      <4>3. QED
        BY <4>1, <4>2
    <3>3. \A b \in ManifestId \ new : \A c \in work : place[c] # b
      BY NoManifestAssumption
    <3>4. \A m \in new : m \in ManifestId /\ members[m] = {}
      BY <1>1, <2>1
    <3>5. \A b \in ManifestId :
            members'[b] = IF members[b] = {} THEN {c \in work : place[c] = b} ELSE members[b]
      <4> SUFFICES ASSUME NEW b \in ManifestId
                   PROVE  members'[b] = IF members[b] = {} THEN {c \in work : place[c] = b}
                                                           ELSE members[b]
        OBVIOUS
      <4>1. CASE b \in new
        <5>1. members'[b] = {c \in work : GroupOf[c] = groupOf[b]}
          BY <1>1, <4>1
        <5>2. members[b] = {}
          BY <3>4, <4>1
        <5> HIDE DEF place, groupOf
        <5>3. QED
          BY <3>2, <4>1, <5>1, <5>2
      <4>2. CASE b \notin new
        <5>1. members'[b] = members[b]
          BY <1>1, <4>2
        <5>2. {c \in work : place[c] = b} = {}
          BY <3>3, <4>2
        <5>3. QED
          BY <5>1, <5>2
      <4>3. QED
        BY <4>1, <4>2
    <3>6. members' = [b \in ManifestId |-> members'[b]]
      BY <1>1
    <3> HIDE DEF place, work
    <3>7. QED
      BY <3>5, <3>6
  <2> HIDE DEF place, work
  <2>6. QED
    BY <1>3, <1>5, <2>2, <2>3, <2>4, <2>5 DEF Promise!Declare
<1>6. QED
  BY <1>4, <1>5

\* The send commits: the batch departs, every consignment of it at once.
LEMMA DepartStep ==
    ASSUME TypeOK, DispatchInv, SoloInv, NEW m \in ManifestId, CommitSent(m)
    PROVE  Promise!Depart(m)
<1>1. /\ job[m] = "doing"
      /\ mstatus' = [mstatus EXCEPT ![m] = "sent"]
      /\ status' = [c \in Consignment |->
                      IF c \in attempt[m].unsent THEN "dispatched" ELSE status[c]]
      /\ members' = members
  BY DEF CommitSent
<1>2. /\ mstatus[m] \notin {"none", "sent"}
      /\ attempt[m].unsent \subseteq members[m]
      /\ \A c \in members[m] \ attempt[m].unsent : status[c] = "dispatched"
      /\ members[m] \subseteq Consignment
  BY <1>1 DEF DispatchInv, AttemptIsCurrent, Current, SoloInv, TypeOK
<1>3. m \notin Away /\ members[m] # {}
  BY <1>2 DEF Away, SoloInv
<1>4. Away' = Away \union {m}
  <2>1. \A n \in ManifestId : mstatus'[n] = IF n = m THEN "sent" ELSE mstatus[n]
    BY <1>1 DEF TypeOK
  <2>2. QED
    BY <2>1 DEF Away
<1>5. Phase' = [c \in Consignment |-> IF c \in members[m] THEN "gone" ELSE Phase[c]]
  <2>1. \A c \in Consignment :
          status'[c] = IF c \in members[m] THEN "dispatched" ELSE status[c]
    BY <1>1, <1>2
  <2>2. QED
    BY <2>1, Phases DEF Phase
<1>6. QED
  BY <1>1, <1>3, <1>4, <1>5 DEF Promise!Depart

\* A mark-ready moves consignments that are held.
LEMMA MarkStep ==
    ASSUME TypeOK, SoloInv, NEW t \in Txn, MarkWrite(t)
    PROVE  UNCHANGED <<Phase, members, Away>>
<1>1. /\ \A c \in Consignment :
           \/ status'[c] = status[c]
           \/ status'[c] = "ready_to_manifest" /\ status[c] = "allocated"
      /\ UNCHANGED <<mstatus, members>>
  BY DEF MarkWrite, SoloInv, manifestVars
<1>2. \A c \in Consignment : PhaseAt(status'[c]) = PhaseAt(status[c])
  BY <1>1, Phases
<1>3. Phase' = Phase
  BY <1>2 DEF Phase
<1>4. QED
  BY <1>1, <1>3 DEF Away

\* A failed attempt sends nothing.
LEMMA FailureStep ==
    ASSUME TypeOK, DispatchInv, NEW m \in ManifestId, CommitFailure(m)
    PROVE  UNCHANGED <<Phase, members, Away>>
<1>1. mstatus[m] # "sent" /\ UNCHANGED <<status, members>>
  BY DEF CommitFailure, DispatchInv, AttemptIsCurrent, Current, requestVars
<1>2. \A n \in ManifestId : mstatus'[n] = "sent" <=> mstatus[n] = "sent"
  BY <1>1 DEF CommitFailure, TypeOK
<1>3. QED
  BY <1>1, <1>2 DEF Phase, Away

LEMMA StepKeepsPromise ==
    ASSUME TypeOK, DispatchInv, SoloInv, [Next]_vars
    PROVE  [Promise!Next]_(Promise!promiseVars)
<1> SUFFICES Promise!Next \/ UNCHANGED <<Phase, members, Away>>
  BY DEF Promise!promiseVars
<1>1. ASSUME NEW t \in Txn, Request(t)
      PROVE  Promise!Next \/ UNCHANGED <<Phase, members, Away>>
  <2>1. CASE ConfirmCommit(t) \/ SweepCommit(t)
    BY <2>1, DeclareStep DEF ConfirmCommit, SweepCommit, Promise!Next
  <2>2. CASE MarkWrite(t)
    BY <2>2, MarkStep
  <2>3. CASE \/ \E orders \in SUBSET Consignment : ConfirmRead(t, orders) \/ MarkRead(t, orders)
             \/ \E g \in Group : SweepRead(t, g)
             \/ Rollback(t)
    <3>1. UNCHANGED <<status, mstatus, members>>
      BY <2>3 DEF ConfirmRead, MarkRead, SweepRead, Rollback, Begin, manifestVars
    <3>2. QED
      BY <3>1 DEF Phase, Away
  <2>4. QED
    BY <1>1, <2>1, <2>2, <2>3 DEF Request
<1>2. ASSUME NEW c \in Consignment, CreateConsignment(c) PROVE Promise!Next
  BY <1>2, EnterStep DEF Promise!Next
<1>3. ASSUME NEW m \in ManifestId, CommitSent(m) PROVE Promise!Next
  BY <1>3, DepartStep DEF Promise!Next
<1>4. ASSUME NEW m \in ManifestId, CommitFailure(m)
      PROVE  UNCHANGED <<Phase, members, Away>>
  BY <1>4, FailureStep
<1>5. CASE UNCHANGED <<status, mstatus, members>>
  BY <1>5 DEF Phase, Away
<1>6. QED
  BY <1>1, <1>2, <1>3, <1>4, <1>5 DEF vars, Next, Worker, Environment, StartAttempt,
     RedeliveredNoop, EmitDocument, FinishJob, PublishDefinition, InfrastructureFault,
     WorkerCrash, Requeue, requestVars, manifestVars

\* With one request open at a time, the manifest path keeps ADR 0013's promise,
\* whatever its worker retries, repeats or loses: a consignment is declared in at most
\* one batch, departs once and with its whole batch, and nothing comes back.
THEOREM PromiseKept ==
    ASSUME OneByOne PROVE Spec => KeepsPromise
<1>1. Init => SoloInv
  BY DEF Init, SoloInv, Idle
<1>2. TypeOK /\ DispatchInv /\ SoloInv /\ [Next]_vars => SoloInv'
  <2>1. ASSUME SoloInv, UNCHANGED vars PROVE SoloInv'
    BY <2>1 DEF SoloInv, vars
  <2>2. QED
    BY <2>1, RequestSolo, ElsewhereSolo DEF Next
<1>3. TypeOK /\ DispatchInv /\ SoloInv /\ [Next]_vars
        => [Promise!Next]_(Promise!promiseVars)
  BY StepKeepsPromise
<1>4. QED
  BY <1>1, <1>2, <1>3, InitKeepsPromise, TypeCorrect, DispatchSafe, PTL
     DEF Spec, KeepsPromise, Promise!Spec

=============================================================================
