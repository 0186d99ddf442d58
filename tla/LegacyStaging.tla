---------------------------- MODULE LegacyStaging ----------------------------
(***************************************************************************)
(* The staging rows of the Legacy Interface: create, amend, allocate and   *)
(* deallocate write them under one advisory lock, each call a transaction  *)
(* over a batch; paperwork reads one row without the lock, books, and      *)
(* inserts the consignment.  A call that faults is rolled back whole.      *)
(*                                                                         *)
(* A row is found by its order number, which no constraint keeps unique,   *)
(* or by its code, which is its id.                                        *)
(***************************************************************************)
EXTENDS Integers, FiniteSets, Functions

CONSTANTS
    Call,        \* SOAP calls in flight
    Order,       \* order numbers
    Group,       \* service groups a call may name
    Known,       \* those of the catalogue
    MaxRow,      \* bound on the row ids drawn
    MaxCalls     \* bound on the calls that commit

NoGroup == "no group"
ASSUME StagingAssumption ==
    /\ Known \subseteq Group /\ NoGroup \notin Group /\ IsFiniteSet(Order)
    /\ MaxRow \in Nat /\ MaxCalls \in Nat

NoCall == "no call"
ASSUME NoCallAssumption == NoCall \notin Call

\* What paperwork makes of the created data: its parcels and its own service group.
Data == [parcels : 0 .. 1, group : Group \union {NoGroup}]
Unallocated == {NoGroup}        \* a null allocation_data
StagedRow == [order : Order, created : Data, allocation : (SUBSET Group) \union {Unallocated}]

VARIABLES
    rows,         \* the committed staging rows, by id
    lastRow,      \* the last id drawn
    consignment,  \* the committed consignment of each order that has one
    stagingLock,  \* holder of advisory lock 815_008
    callStep,     \* where each call is
    writes,       \* the rows it will commit
    intends,      \* what its answer will say is staged, by order
    reads,        \* the row a paperwork call works from
    acked,        \* history: what the committed calls' answers said, by order
    overtaken,    \* history: paperwork calls whose row changed after they read it
    calls,        \* history: calls committed
    printed       \* orders with a printed event

stagingVars == <<rows, lastRow, consignment, stagingLock, callStep, writes, intends, reads,
                 acked, overtaken, calls, printed>>

Nobody == <<>>
Id == 1 .. MaxRow
StagingTypeOK ==
    /\ DOMAIN rows \subseteq 1 .. lastRow /\ \A i \in DOMAIN rows : rows[i] \in StagedRow
    /\ lastRow \in 0 .. MaxRow
    /\ DOMAIN consignment \subseteq Order
    /\ stagingLock \in Call \union {NoCall}
    /\ callStep \in [Call -> {"idle", "staged", "booking"}]
    /\ overtaken \subseteq Call
    /\ printed \subseteq {o \in DOMAIN consignment : consignment[o].labelled}

StagingInit ==
    /\ rows = Nobody /\ lastRow = 0
    /\ consignment = Nobody
    /\ stagingLock = NoCall
    /\ callStep = [c \in Call |-> "idle"]
    /\ writes = [c \in Call |-> Nobody]
    /\ intends = [c \in Call |-> Nobody]
    /\ reads = [c \in Call |-> Nobody]
    /\ acked = Nobody
    /\ overtaken = {} /\ calls = 0 /\ printed = {}

-----------------------------------------------------------------------------
CallGoto(c, where) == callStep' = [callStep EXCEPT ![c] = where]
RowsOf(o) == {i \in DOMAIN rows : rows[i].order = o}
Papered(o) == o \in DOMAIN consignment
Shipment(row) == [created |-> row.created, allocation |-> row.allocation]
Over(new, old) == [x \in DOMAIN new \union DOMAIN old |->
                     IF x \in DOMAIN new THEN new[x] ELSE old[x]]

TakeStaging_variant(c) == UNCHANGED stagingLock
TakeStaging(c) == stagingLock = NoCall /\ stagingLock' = c

\* A write call: under the lock it looks its rows up, replaces them and answers.
Stages(c, new, told) ==
    /\ callStep[c] = "idle" /\ calls < MaxCalls
    /\ TakeStaging(c)
    /\ writes' = [writes EXCEPT ![c] = new]
    /\ intends' = [intends EXCEPT ![c] = told]
    /\ CallGoto(c, "staged")
    /\ UNCHANGED <<rows, consignment, reads, acked, overtaken, calls, printed>>

\* createConsignments: a re-sent order keeps its row, its code and its allocation.
Resent(i, data) == [rows[i] EXCEPT !.created = data]
CreateConsignments(c) == \E batch \in (SUBSET Order) \ {{}}, data \in Data :
    LET old == UNION {RowsOf(o) : o \in batch}
        new == {o \in batch : RowsOf(o) = {}}
    IN  /\ lastRow + Cardinality(new) =< MaxRow
        /\ lastRow' = lastRow + Cardinality(new)
        /\ \E code \in Bijection(new, lastRow + 1 .. lastRow') :
              Stages(c,
                Over([i \in old |-> Resent(i, data)],
                     [i \in Range(code) |-> [order |-> CHOOSE o \in new : code[o] = i,
                                             created |-> data, allocation |-> Unallocated]]),
                [o \in batch |-> [created |-> data,
                                  allocation |-> IF o \in DOMAIN acked THEN acked[o].allocation
                                                 ELSE Unallocated]])

\* updateConsignments, by order: once there is a consignment it changes nothing, and
\* answers with what is stored.
AmendConsignments(c) == \E batch \in (SUBSET Order) \ {{}}, data \in Data :
    /\ \A o \in batch : RowsOf(o) # {}
    /\ UNCHANGED lastRow
    /\ Stages(c,
         [i \in UNION {RowsOf(o) : o \in {p \in batch : ~Papered(p)}} |->
             [rows[i] EXCEPT !.created = data]],
         [o \in batch |-> IF Papered(o) THEN acked[o] ELSE [acked[o] EXCEPT !.created = data]])

\* allocateConsignments and deallocate, by code; only the second asks for a consignment.
AllocateConsignments(c) == \E batch \in (SUBSET DOMAIN rows) \ {{}}, groups \in SUBSET Group :
    /\ UNCHANGED lastRow
    /\ Stages(c, [i \in batch |-> [rows[i] EXCEPT !.allocation = groups]],
                 [o \in {rows[i].order : i \in batch} |-> [acked[o] EXCEPT !.allocation = groups]])
Clears(o) == ~Papered(o)
Deallocate(c) == \E batch \in (SUBSET DOMAIN rows) \ {{}} :
    LET cleared == {i \in batch : Clears(rows[i].order)} IN
    /\ UNCHANGED lastRow
    /\ Stages(c, [i \in cleared |-> [rows[i] EXCEPT !.allocation = Unallocated]],
                 [o \in {rows[i].order : i \in cleared} |->
                     [acked[o] EXCEPT !.allocation = Unallocated]])

EndCall(c) ==
    /\ CallGoto(c, "idle")
    /\ stagingLock' = IF stagingLock = c THEN NoCall ELSE stagingLock
    /\ writes' = [writes EXCEPT ![c] = Nobody]
    /\ intends' = [intends EXCEPT ![c] = Nobody]
    /\ reads' = [reads EXCEPT ![c] = Nobody]

\* The answered call commits; a paperwork call that read one of its rows is overtaken.
CommitStaged(c) ==
    /\ callStep[c] = "staged"
    /\ rows' = Over(writes[c], rows)
    /\ acked' = Over(intends[c], acked)
    /\ overtaken' = overtaken \union
          {p \in Call : callStep[p] = "booking" /\ reads[p].order \in DOMAIN intends[c]}
    /\ calls' = calls + 1
    /\ EndCall(c)
    /\ UNCHANGED <<lastRow, consignment, printed>>

\* A SoapFault further down the batch, or a death: nothing was staged, the ids are spent.
FaultCall(c) ==
    /\ callStep[c] # "idle"
    /\ EndCall(c)
    /\ overtaken' = overtaken \ {c}
    /\ UNCHANGED <<rows, lastRow, consignment, acked, calls, printed>>

\* The accepted groups: the order's own with the allocate call's; at least one, all known.
Accepted(row) == ({row.created.group} \union row.allocation) \ {NoGroup}
AllocatedFirst_variant(row) == TRUE
AllocatedFirst(row) == row.allocation # Unallocated

\* createPaperworkForConsignments, one code per call, up to the booking; an order that has
\* a consignment is refused.
StartPaperwork(c) ==
    /\ callStep[c] = "idle" /\ calls < MaxCalls
    /\ \E i \in DOMAIN rows :
          /\ AllocatedFirst(rows[i])
          /\ Accepted(rows[i]) # {} /\ Accepted(rows[i]) \subseteq Known
          /\ ~Papered(rows[i].order)
          /\ reads' = [reads EXCEPT ![c] = rows[i]]
    /\ CallGoto(c, "booking")
    /\ UNCHANGED <<rows, lastRow, consignment, stagingLock, writes, intends, acked, overtaken,
                   calls, printed>>

\* The booking ends: a consignment with a label or a failed one is inserted and commits
\* unless another call's is there; a rejection is rolled back (FaultCall).
InsertConsignment(c) ==
    /\ callStep[c] = "booking"
    /\ ~Papered(reads[c].order)
    /\ \E labelled \in BOOLEAN :
          consignment' = Over([o \in {reads[c].order} |->
                                  [from |-> Shipment(reads[c]), told |-> acked[o],
                                   raced |-> c \in overtaken, labelled |-> labelled]],
                              consignment)
    /\ calls' = calls + 1
    /\ overtaken' = overtaken \ {c}
    /\ EndCall(c)
    /\ UNCHANGED <<rows, lastRow, acked, printed>>

\* markConsignmentsAsPrinted: every code has a labelled consignment, or none is marked.
Printable_variant(o) == Papered(o)
Printable(o) == Papered(o) /\ consignment[o].labelled
MarkPrinted ==
    /\ \E batch \in (SUBSET DOMAIN rows) \ {{}} :
          /\ \A i \in batch : Printable(rows[i].order)
          /\ printed' = printed \union {rows[i].order : i \in batch}
    /\ UNCHANGED <<rows, lastRow, consignment, stagingLock, callStep, writes, intends, reads,
                   acked, overtaken, calls>>

StagingNext ==
    \/ MarkPrinted
    \/ \E c \in Call :
          \/ CreateConsignments(c)
          \/ AmendConsignments(c)
          \/ AllocateConsignments(c)
          \/ Deallocate(c)
          \/ CommitStaged(c)
          \/ FaultCall(c)
          \/ StartPaperwork(c)
          \/ InsertConsignment(c)

StagingSpec == StagingInit /\ [][StagingNext]_stagingVars

-----------------------------------------------------------------------------
(* Safety. *)

\* An order has one staging row, whoever resends its create, and what the row holds is what
\* the answers said, in the order they committed: no second code for one shipment, no
\* call's write lost to another's, no allocation lost to a resent create.
AcknowledgedIsStaged == \A o \in Order : \A i, j \in RowsOf(o) :
    /\ i = j
    /\ rows[i].created = acked[o].created
    /\ rows[i].allocation = acked[o].allocation

\* Paperwork ships an allocated order, and ships the data the WMS was last told is staged,
\* unless a call that overlapped it changed the row after it was read.
ShipsWhatWasTold == \A o \in DOMAIN consignment :
    /\ consignment[o].from.allocation # Unallocated
    /\ consignment[o].from = consignment[o].told \/ consignment[o].raced

(* The inductive invariants behind the theorems of LegacyStaging_proofs. *)

\* Each order that was answered for has one row, which holds what it was told.
Agreed(staged, said) ==
    /\ \A i \in DOMAIN staged : /\ staged[i] \in StagedRow
                                /\ staged[i].order \in DOMAIN said
                                /\ said[staged[i].order] = Shipment(staged[i])
    /\ \A i, j \in DOMAIN staged : staged[i].order = staged[j].order => i = j
    /\ \A o \in DOMAIN said : \E i \in DOMAIN staged : staged[i].order = o

\* The holder of the lock, and nobody else, is about to commit rows that agree with its
\* answer, given those that are committed now.
StagingInv ==
    /\ lastRow \in Nat /\ DOMAIN rows \subseteq 1 .. lastRow
    /\ callStep \in [Call -> {"idle", "staged", "booking"}]
    /\ DOMAIN writes = Call /\ DOMAIN intends = Call /\ DOMAIN reads = Call
    /\ Agreed(rows, acked)
    /\ \A c \in Call :
          /\ callStep[c] = "staged" <=> stagingLock = c
          /\ callStep[c] = "staged" => /\ Agreed(Over(writes[c], rows), Over(intends[c], acked))
                                       /\ DOMAIN writes[c] \subseteq 1 .. lastRow

\* A booking works from an allocated row, which still holds what was last said of the
\* order, unless a call that committed since has changed it.
PaperworkInv ==
    /\ \A c \in Call : callStep[c] = "booking" =>
          /\ reads[c] \in StagedRow /\ reads[c].allocation # Unallocated
          /\ reads[c].order \in DOMAIN acked
          /\ acked[reads[c].order] = Shipment(reads[c]) \/ c \in overtaken
    /\ ShipsWhatWasTold
=============================================================================
