------------------------ MODULE LegacyStaging_proofs ------------------------
(* Theorems about LegacyStaging for any number of calls in flight, orders,  *)
(* groups and rows.                                                         *)
EXTENDS LegacyStaging, FiniteSetTheorems, TLAPS

-----------------------------------------------------------------------------
(* Rows and answers *)

\* What a write call needs for its rows and its answer to agree, once both are merged
\* with the committed ones: its new rows are of new orders, the ones it replaces keep
\* theirs, and it says nothing of a row it does not write.
LEMMA ReplacementAgrees ==
    ASSUME Agreed(rows, acked), NEW new, NEW told,
           \A i \in DOMAIN new : /\ new[i] \in StagedRow
                                 /\ new[i].order \in DOMAIN told
                                 /\ told[new[i].order] = Shipment(new[i]),
           \A i \in DOMAIN new \cap DOMAIN rows : new[i].order = rows[i].order,
           \A i \in DOMAIN new \ DOMAIN rows : \A j \in DOMAIN rows :
              rows[j].order # new[i].order,
           \A i, j \in DOMAIN new \ DOMAIN rows : new[i].order = new[j].order => i = j,
           \A o \in DOMAIN told : \A i \in DOMAIN rows :
              rows[i].order = o => i \in DOMAIN new \/ (o \in DOMAIN acked /\ told[o] = acked[o]),
           \A o \in DOMAIN told : \/ \E i \in DOMAIN rows : rows[i].order = o
                                  \/ \E i \in DOMAIN new : new[i].order = o
    PROVE  Agreed(Over(new, rows), Over(told, acked))
<1> DEFINE staged == Over(new, rows)
           said   == Over(told, acked)
<1>1. /\ DOMAIN staged = DOMAIN new \union DOMAIN rows
      /\ \A i \in DOMAIN new : staged[i] = new[i]
      /\ \A i \in DOMAIN rows \ DOMAIN new : staged[i] = rows[i]
  BY DEF Over
<1>2. /\ DOMAIN said = DOMAIN told \union DOMAIN acked
      /\ \A o \in DOMAIN told : said[o] = told[o]
      /\ \A o \in DOMAIN acked \ DOMAIN told : said[o] = acked[o]
  BY DEF Over
<1>3. \A i \in DOMAIN rows : /\ rows[i] \in StagedRow
                             /\ rows[i].order \in DOMAIN acked
                             /\ acked[rows[i].order] = Shipment(rows[i])
  BY DEF Agreed
<1>4. \A i, j \in DOMAIN rows : rows[i].order = rows[j].order => i = j
  BY DEF Agreed
<1>5. \A o \in DOMAIN acked : \E i \in DOMAIN rows : rows[i].order = o
  BY DEF Agreed
<1>6. \A i \in DOMAIN rows : staged[i].order = rows[i].order
  BY <1>1
<1> HIDE DEF staged, said
<1>7. ASSUME NEW i \in DOMAIN staged
      PROVE  /\ staged[i] \in StagedRow
             /\ staged[i].order \in DOMAIN said
             /\ said[staged[i].order] = Shipment(staged[i])
  <2>1. CASE i \in DOMAIN new
    BY <1>1, <1>2, <2>1
  <2>2. CASE i \notin DOMAIN new
    <3>1. i \in DOMAIN rows /\ staged[i] = rows[i]
      BY <1>1, <1>7, <2>2
    <3>2. rows[i].order \in DOMAIN told => told[rows[i].order] = acked[rows[i].order]
      BY <2>2, <3>1
    <3>3. said[rows[i].order] = acked[rows[i].order]
      BY <1>2, <1>3, <3>1, <3>2
    <3>4. QED
      BY <1>2, <1>3, <3>1, <3>3
  <2>3. QED
    BY <2>1, <2>2
<1>8. ASSUME NEW i \in DOMAIN staged, NEW j \in DOMAIN staged,
             staged[i].order = staged[j].order
      PROVE  i = j
  <2>1. CASE i \in DOMAIN rows /\ j \in DOMAIN rows
    BY <1>4, <1>6, <1>8, <2>1
  <2>2. CASE i \notin DOMAIN rows /\ j \notin DOMAIN rows
    BY <1>1, <1>8, <2>2
  <2>3. CASE i \in DOMAIN rows /\ j \notin DOMAIN rows
    BY <1>1, <1>6, <1>8, <2>3
  <2>4. CASE i \notin DOMAIN rows /\ j \in DOMAIN rows
    BY <1>1, <1>6, <1>8, <2>4
  <2>5. QED
    BY <2>1, <2>2, <2>3, <2>4
<1>9. ASSUME NEW o \in DOMAIN said
      PROVE  \E i \in DOMAIN staged : staged[i].order = o
  BY <1>1, <1>2, <1>5, <1>6
<1>10. QED
  BY <1>7, <1>8, <1>9 DEF Agreed, staged, said

-----------------------------------------------------------------------------
(* The write calls *)

LEMMA StagesKeepsInv ==
    ASSUME StagingInv, NEW c \in Call, NEW new, NEW told, Stages(c, new, told),
           lastRow' \in Nat, lastRow =< lastRow', DOMAIN new \subseteq 1 .. lastRow',
           Agreed(Over(new, rows), Over(told, acked))
    PROVE  StagingInv'
<1>1. /\ callStep[c] = "idle"
      /\ stagingLock = NoCall /\ stagingLock' = c
      /\ writes' = [writes EXCEPT ![c] = new]
      /\ intends' = [intends EXCEPT ![c] = told]
      /\ callStep' = [callStep EXCEPT ![c] = "staged"]
      /\ UNCHANGED <<rows, reads, acked>>
  BY DEF Stages, TakeStaging, CallGoto
<1>2. \A d \in Call : callStep[d] # "staged"
  BY <1>1, NoCallAssumption DEF StagingInv
<1>3. DOMAIN rows \subseteq 1 .. lastRow'
  BY DEF StagingInv
<1>4. /\ callStep'[c] = "staged" /\ \A d \in Call \ {c} : callStep'[d] = callStep[d]
      /\ callStep' \in [Call -> {"idle", "staged", "booking"}]
  BY <1>1 DEF StagingInv
<1>5. writes'[c] = new /\ intends'[c] = told
  BY <1>1 DEF StagingInv
<1>6. DOMAIN writes' = Call /\ DOMAIN intends' = Call /\ DOMAIN reads' = Call
  BY <1>1 DEF StagingInv
<1>7. Agreed(rows, acked)'
  BY <1>1 DEF StagingInv
<1>8. ASSUME NEW d \in Call
      PROVE  /\ callStep'[d] = "staged" <=> stagingLock' = d
             /\ callStep'[d] = "staged" =>
                   /\ Agreed(Over(writes'[d], rows'), Over(intends'[d], acked'))
                   /\ DOMAIN writes'[d] \subseteq 1 .. lastRow'
  BY <1>1, <1>2, <1>4, <1>5
<1>9. QED
  BY <1>1, <1>3, <1>4, <1>6, <1>7, <1>8 DEF StagingInv

LEMMA CreateKeepsInv ==
    ASSUME StagingInv, NEW c \in Call, CreateConsignments(c)
    PROVE  StagingInv'
<1>1. PICK batch \in SUBSET Order, data \in Data :
        LET old == UNION {RowsOf(o) : o \in batch}
            new == {o \in batch : RowsOf(o) = {}}
        IN  /\ lastRow' = lastRow + Cardinality(new)
            /\ \E code \in Bijection(new, lastRow + 1 .. lastRow') :
                  Stages(c,
                    Over([i \in old |-> Resent(i, data)],
                         [i \in Range(code) |-> [order |-> CHOOSE o \in new : code[o] = i,
                                                 created |-> data, allocation |-> Unallocated]]),
                    [o \in batch |-> [created |-> data,
                                      allocation |-> IF o \in DOMAIN acked
                                                     THEN acked[o].allocation
                                                     ELSE Unallocated]])
  BY DEF CreateConsignments
<1> DEFINE old   == UNION {RowsOf(o) : o \in batch}
           fresh == {o \in batch : RowsOf(o) = {}}
           told  == [o \in batch |-> [created |-> data,
                                      allocation |-> IF o \in DOMAIN acked
                                                     THEN acked[o].allocation
                                                     ELSE Unallocated]]
<1>2. PICK code \in Bijection(fresh, lastRow + 1 .. lastRow') :
        Stages(c, Over([i \in old |-> Resent(i, data)],
                       [i \in Range(code) |-> [order |-> CHOOSE o \in fresh : code[o] = i,
                                               created |-> data, allocation |-> Unallocated]]),
               told)
  BY <1>1
<1> DEFINE kept  == [i \in old |-> Resent(i, data)]
           added == [i \in Range(code) |-> [order |-> CHOOSE o \in fresh : code[o] = i,
                                            created |-> data, allocation |-> Unallocated]]
           new   == Over(kept, added)
<1>3. /\ lastRow \in Nat /\ DOMAIN rows \subseteq 1 .. lastRow
      /\ Agreed(rows, acked)
  BY DEF StagingInv
<1>4. lastRow' \in Nat /\ lastRow =< lastRow'
  <2>1. IsFiniteSet(fresh)
    BY StagingAssumption, FS_Subset
  <2>2. Cardinality(fresh) \in Nat
    BY <2>1, FS_CardinalityType
  <2>3. lastRow' = lastRow + Cardinality(fresh)
    BY <1>1
  <2> HIDE DEF fresh
  <2>4. QED
    BY <1>3, <2>2, <2>3
<1>5. /\ code \in [fresh -> lastRow + 1 .. lastRow']
      /\ \A o, p \in fresh : code[o] = code[p] => o = p
      /\ Range(code) = {code[o] : o \in fresh}
  BY DEF Bijection, Injection, IsInjective, Range
<1>6. \A i \in Range(code) : i \in lastRow + 1 .. lastRow' /\ i \notin DOMAIN rows
  <2>1. \A i \in Range(code) : i \in lastRow + 1 .. lastRow'
    BY <1>5
  <2>2. \A i \in lastRow + 1 .. lastRow' : i \notin 1 .. lastRow
    BY <1>3, <1>4
  <2>3. QED
    BY <1>3, <2>1, <2>2
<1>7. /\ old \subseteq DOMAIN rows /\ \A i \in old : rows[i].order \in batch
      /\ \A i \in DOMAIN rows : rows[i].order \in batch => i \in old
  BY DEF RowsOf
<1>8. /\ DOMAIN new = old \union Range(code)
      /\ \A i \in old : new[i] = Resent(i, data)
      /\ \A i \in Range(code) : new[i] = added[i]
  <2>1. DOMAIN kept = old /\ DOMAIN added = Range(code)
    OBVIOUS
  <2>2. old \cap Range(code) = {}
    BY <1>6, <1>7
  <2>3. /\ \A i \in old : kept[i] = Resent(i, data)
    OBVIOUS
  <2> HIDE DEF kept, added, old
  <2>4. QED
    BY <2>1, <2>2, <2>3 DEF Over
<1>9. \A i \in Range(code) :
         /\ added[i].order \in fresh /\ code[added[i].order] = i
         /\ added[i].created = data /\ added[i].allocation = Unallocated
         /\ added[i] \in StagedRow
  <2> SUFFICES ASSUME NEW i \in Range(code)
               PROVE  /\ added[i].order \in fresh /\ code[added[i].order] = i
                      /\ added[i].created = data /\ added[i].allocation = Unallocated
                      /\ added[i] \in StagedRow
    OBVIOUS
  <2>1. \E o \in fresh : code[o] = i
    BY <1>5
  <2>2. added[i] = [order |-> CHOOSE o \in fresh : code[o] = i,
                    created |-> data, allocation |-> Unallocated]
    OBVIOUS
  <2>3. QED
    BY <2>1, <2>2 DEF StagedRow
<1>10. \A i \in old : /\ Resent(i, data) \in StagedRow
                      /\ Resent(i, data).order = rows[i].order
                      /\ Shipment(Resent(i, data))
                           = [created |-> data, allocation |-> rows[i].allocation]
  <2>1. \A i \in old : rows[i] \in StagedRow
    BY <1>3, <1>7 DEF Agreed
  <2>2. Unallocated \in (SUBSET Group) \union {Unallocated}
    OBVIOUS
  <2> HIDE DEF old
  <2>3. QED
    BY <2>1, <2>2 DEF Resent, StagedRow, Shipment
<1>11. \A i \in DOMAIN new : /\ new[i] \in StagedRow
                             /\ new[i].order \in DOMAIN told
                             /\ told[new[i].order] = Shipment(new[i])
  <2>1. ASSUME NEW i \in old
        PROVE  /\ new[i] \in StagedRow
               /\ new[i].order \in DOMAIN told
               /\ told[new[i].order] = Shipment(new[i])
    <3>1. rows[i].order \in batch /\ rows[i].order \in DOMAIN acked
      BY <1>3, <1>7 DEF Agreed
    <3>2. acked[rows[i].order].allocation = rows[i].allocation
      <4>1. i \in DOMAIN rows
        BY <1>7
      <4>2. acked[rows[i].order] = Shipment(rows[i])
        BY <1>3, <4>1 DEF Agreed
      <4>3. QED
        BY <4>2 DEF Shipment
    <3>3. told[rows[i].order] = [created |-> data, allocation |-> rows[i].allocation]
      BY <3>1, <3>2
    <3> HIDE DEF old, new, told
    <3>4. QED
      BY <1>8, <1>10, <3>1, <3>3 DEF told
  <2>2. ASSUME NEW i \in Range(code)
        PROVE  /\ new[i] \in StagedRow
               /\ new[i].order \in DOMAIN told
               /\ told[new[i].order] = Shipment(new[i])
    <3>1. added[i].order \in batch /\ RowsOf(added[i].order) = {}
      BY <1>9
    <3>2. added[i].order \notin DOMAIN acked
      BY <1>3, <3>1 DEF Agreed, RowsOf
    <3>3. told[added[i].order] = [created |-> data, allocation |-> Unallocated]
      BY <3>1, <3>2
    <3>4. Shipment(added[i]) = [created |-> data, allocation |-> Unallocated]
      BY <1>9 DEF Shipment
    <3>5. new[i] = added[i]
      BY <1>8
    <3> HIDE DEF new, added
    <3>6. QED
      BY <1>9, <3>1, <3>3, <3>4, <3>5
  <2> HIDE DEF old, new, told
  <2>3. QED
    BY <1>8, <2>1, <2>2
<1>12. \A i \in DOMAIN new \cap DOMAIN rows : new[i].order = rows[i].order
  <2> HIDE DEF old, new
  <2>1. QED
    BY <1>6, <1>8, <1>10
<1>13. \A i \in DOMAIN new \ DOMAIN rows : i \in Range(code) /\ new[i] = added[i]
  <2> HIDE DEF old, new, added
  <2>1. QED
    BY <1>7, <1>8
<1>14. \A i \in DOMAIN new \ DOMAIN rows : \A j \in DOMAIN rows : rows[j].order # new[i].order
  <2>1. \A o \in fresh : \A j \in DOMAIN rows : rows[j].order # o
    BY DEF RowsOf
  <2> HIDE DEF fresh, new, added
  <2>2. QED
    BY <1>9, <1>13, <2>1
<1>15. \A i, j \in DOMAIN new \ DOMAIN rows : new[i].order = new[j].order => i = j
  <2> HIDE DEF fresh, new, added
  <2>1. QED
    BY <1>9, <1>13
<1>16. \A o \in DOMAIN told : \A i \in DOMAIN rows :
          rows[i].order = o => i \in DOMAIN new \/ (o \in DOMAIN acked /\ told[o] = acked[o])
  <2>1. DOMAIN told = batch
    OBVIOUS
  <2> HIDE DEF old, new, told
  <2>2. QED
    BY <1>7, <1>8, <2>1
<1>17. \A o \in DOMAIN told : \/ \E i \in DOMAIN rows : rows[i].order = o
                              \/ \E i \in DOMAIN new : new[i].order = o
  <2> SUFFICES ASSUME NEW o \in batch, RowsOf(o) = {}
               PROVE  \E i \in DOMAIN new : new[i].order = o
    BY DEF RowsOf
  <2>1. o \in fresh
    OBVIOUS
  <2>2. code[o] \in Range(code)
    BY <1>5, <2>1
  <2>3. added[code[o]].order = o
    BY <1>5, <1>9, <2>1, <2>2
  <2> HIDE DEF fresh, new, added
  <2>4. QED
    BY <1>8, <2>2, <2>3
<1>18. Agreed(Over(new, rows), Over(told, acked))
  <2> HIDE DEF new, told
  <2>1. QED
    BY <1>3, <1>11, <1>12, <1>14, <1>15, <1>16, <1>17, ReplacementAgrees
<1>19. DOMAIN new \subseteq 1 .. lastRow'
  <2>1. \A i \in lastRow + 1 .. lastRow' : i \in 1 .. lastRow'
    BY <1>3, <1>4
  <2>2. \A i \in 1 .. lastRow : i \in 1 .. lastRow'
    BY <1>3, <1>4
  <2> HIDE DEF new, old
  <2>3. QED
    BY <1>3, <1>6, <1>7, <1>8, <2>1, <2>2
<1>20. Stages(c, new, told)
  BY <1>2
<1> HIDE DEF new, told
<1>21. QED
  BY <1>4, <1>18, <1>19, <1>20, StagesKeepsInv

\* A call that changes rows in place, and says of each order what its row now holds.
LEMMA InPlaceKeepsInv ==
    ASSUME StagingInv, NEW c \in Call, NEW new, NEW told, Stages(c, new, told),
           UNCHANGED lastRow,
           DOMAIN new \subseteq DOMAIN rows,
           \A i \in DOMAIN new : /\ new[i] \in StagedRow
                                 /\ new[i].order = rows[i].order
                                 /\ rows[i].order \in DOMAIN told
                                 /\ told[rows[i].order] = Shipment(new[i]),
           \A o \in DOMAIN told : \A i \in DOMAIN rows :
              rows[i].order = o => i \in DOMAIN new \/ told[o] = acked[o],
           \A o \in DOMAIN told : \E i \in DOMAIN rows : rows[i].order = o
    PROVE  StagingInv'
<1>1. /\ lastRow \in Nat /\ DOMAIN rows \subseteq 1 .. lastRow
      /\ Agreed(rows, acked)
  BY DEF StagingInv
<1>2. \A i \in DOMAIN rows : rows[i].order \in DOMAIN acked
  BY <1>1 DEF Agreed
<1>3. Agreed(Over(new, rows), Over(told, acked))
  BY <1>1, <1>2, ReplacementAgrees
<1>4. DOMAIN new \subseteq 1 .. lastRow' /\ lastRow' \in Nat /\ lastRow =< lastRow'
  BY <1>1
<1>5. QED
  BY <1>3, <1>4, StagesKeepsInv

LEMMA AmendKeepsInv ==
    ASSUME StagingInv, NEW c \in Call, AmendConsignments(c)
    PROVE  StagingInv'
<1>1. PICK batch \in SUBSET Order, data \in Data :
        /\ \A o \in batch : RowsOf(o) # {}
        /\ UNCHANGED lastRow
        /\ Stages(c,
             [i \in UNION {RowsOf(o) : o \in {p \in batch : ~Papered(p)}} |->
                 [rows[i] EXCEPT !.created = data]],
             [o \in batch |-> IF Papered(o) THEN acked[o]
                              ELSE [acked[o] EXCEPT !.created = data]])
  BY DEF AmendConsignments
<1> DEFINE changed == UNION {RowsOf(o) : o \in {p \in batch : ~Papered(p)}}
           new  == [i \in changed |-> [rows[i] EXCEPT !.created = data]]
           told == [o \in batch |-> IF Papered(o) THEN acked[o]
                                    ELSE [acked[o] EXCEPT !.created = data]]
<1>2. /\ changed \subseteq DOMAIN rows
      /\ \A i \in changed : rows[i].order \in batch /\ ~Papered(rows[i].order)
      /\ \A i \in DOMAIN rows :
            rows[i].order \in batch /\ ~Papered(rows[i].order) => i \in changed
  BY DEF RowsOf
<1>3. \A i \in DOMAIN rows : rows[i] \in StagedRow /\ acked[rows[i].order] = Shipment(rows[i])
  BY DEF StagingInv, Agreed
<1>4. DOMAIN new = changed /\ DOMAIN told = batch
  OBVIOUS
<1>5. ASSUME NEW i \in changed
      PROVE  /\ new[i] \in StagedRow
             /\ new[i].order = rows[i].order
             /\ told[rows[i].order] = Shipment(new[i])
  <2>1. new[i] = [rows[i] EXCEPT !.created = data]
    OBVIOUS
  <2>2. told[rows[i].order] = [acked[rows[i].order] EXCEPT !.created = data]
    BY <1>2
  <2>3. i \in DOMAIN rows
    BY <1>2
  <2> HIDE DEF new, told, changed
  <2>4. rows[i] \in StagedRow /\ acked[rows[i].order] = Shipment(rows[i])
    BY <1>3, <2>3
  <2>5. QED
    BY <2>1, <2>2, <2>4 DEF StagedRow, Shipment
<1>6. \A o \in DOMAIN told : \A i \in DOMAIN rows :
         rows[i].order = o => i \in DOMAIN new \/ told[o] = acked[o]
  BY <1>2
<1>7. \A o \in DOMAIN told : \E i \in DOMAIN rows : rows[i].order = o
  BY <1>1 DEF RowsOf
<1>8. Stages(c, new, told) /\ UNCHANGED lastRow
  BY <1>1
<1> HIDE DEF new, told, changed
<1>9. QED
  BY <1>2, <1>4, <1>5, <1>6, <1>7, <1>8, InPlaceKeepsInv

\* allocate and deallocate: the allocation of some rows is replaced.
LEMMA ReallocateKeepsInv ==
    ASSUME StagingInv, NEW c \in Call, NEW changed \in SUBSET DOMAIN rows,
           NEW allocation \in (SUBSET Group) \union {Unallocated},
           UNCHANGED lastRow,
           Stages(c, [i \in changed |-> [rows[i] EXCEPT !.allocation = allocation]],
                     [o \in {rows[i].order : i \in changed} |->
                         [acked[o] EXCEPT !.allocation = allocation]])
    PROVE  StagingInv'
<1> DEFINE new  == [i \in changed |-> [rows[i] EXCEPT !.allocation = allocation]]
           told == [o \in {rows[i].order : i \in changed} |->
                      [acked[o] EXCEPT !.allocation = allocation]]
<1>1. \A i \in DOMAIN rows : rows[i] \in StagedRow /\ acked[rows[i].order] = Shipment(rows[i])
  BY DEF StagingInv, Agreed
<1>2. \A i, j \in DOMAIN rows : rows[i].order = rows[j].order => i = j
  BY DEF StagingInv, Agreed
<1>3. DOMAIN new = changed /\ DOMAIN told = {rows[i].order : i \in changed}
  OBVIOUS
<1>4. ASSUME NEW i \in changed
      PROVE  /\ new[i] \in StagedRow
             /\ new[i].order = rows[i].order
             /\ rows[i].order \in DOMAIN told
             /\ told[rows[i].order] = Shipment(new[i])
  <2>1. new[i] = [rows[i] EXCEPT !.allocation = allocation]
    OBVIOUS
  <2>2. /\ rows[i].order \in DOMAIN told
        /\ told[rows[i].order] = [acked[rows[i].order] EXCEPT !.allocation = allocation]
    OBVIOUS
  <2>3. rows[i] \in StagedRow /\ acked[rows[i].order] = Shipment(rows[i])
    BY <1>1
  <2> HIDE DEF new, told
  <2>4. QED
    BY <2>1, <2>2, <2>3 DEF StagedRow, Shipment
<1>5. \A o \in DOMAIN told : \A i \in DOMAIN rows :
         rows[i].order = o => i \in DOMAIN new \/ told[o] = acked[o]
  BY <1>2
<1>6. \A o \in DOMAIN told : \E i \in DOMAIN rows : rows[i].order = o
  BY <1>3
<1>7. Stages(c, new, told)
  OBVIOUS
<1> HIDE DEF new, told
<1>8. QED
  BY <1>3, <1>4, <1>5, <1>6, <1>7, InPlaceKeepsInv

LEMMA AllocateKeepsInv ==
    ASSUME StagingInv, NEW c \in Call, AllocateConsignments(c)
    PROVE  StagingInv'
<1>1. PICK batch \in SUBSET DOMAIN rows, groups \in SUBSET Group :
        /\ UNCHANGED lastRow
        /\ Stages(c, [i \in batch |-> [rows[i] EXCEPT !.allocation = groups]],
                     [o \in {rows[i].order : i \in batch} |->
                         [acked[o] EXCEPT !.allocation = groups]])
  BY DEF AllocateConsignments
<1>2. QED
  BY <1>1, ReallocateKeepsInv

LEMMA DeallocateKeepsInv ==
    ASSUME StagingInv, NEW c \in Call, Deallocate(c)
    PROVE  StagingInv'
<1>1. PICK batch \in SUBSET DOMAIN rows :
        LET cleared == {i \in batch : Clears(rows[i].order)} IN
        /\ UNCHANGED lastRow
        /\ Stages(c, [i \in cleared |-> [rows[i] EXCEPT !.allocation = Unallocated]],
                     [o \in {rows[i].order : i \in cleared} |->
                         [acked[o] EXCEPT !.allocation = Unallocated]])
  BY DEF Deallocate
<1> DEFINE cleared == {i \in batch : Clears(rows[i].order)}
<1>2. cleared \in SUBSET DOMAIN rows
  OBVIOUS
<1>3. Unallocated \in (SUBSET Group) \union {Unallocated}
  OBVIOUS
<1> HIDE DEF cleared
<1>4. QED
  BY <1>1, <1>2, <1>3, ReallocateKeepsInv DEF cleared

-----------------------------------------------------------------------------
(* The ends of calls *)

\* A call that ends gives up its lock and forgets what it would have written.
LEMMA EndKeepsInv ==
    ASSUME StagingInv, NEW c \in Call, EndCall(c), UNCHANGED <<rows, acked, lastRow>>
    PROVE  StagingInv'
<1>1. /\ callStep' = [callStep EXCEPT ![c] = "idle"]
      /\ stagingLock' = IF stagingLock = c THEN NoCall ELSE stagingLock
      /\ DOMAIN writes' = Call /\ DOMAIN intends' = Call /\ DOMAIN reads' = Call
      /\ \A d \in Call \ {c} : writes'[d] = writes[d] /\ intends'[d] = intends[d]
  BY DEF EndCall, CallGoto, StagingInv
<1>2. /\ callStep'[c] = "idle" /\ \A d \in Call \ {c} : callStep'[d] = callStep[d]
      /\ callStep' \in [Call -> {"idle", "staged", "booking"}]
  BY <1>1 DEF StagingInv
<1>3. \A d \in Call : callStep'[d] = "staged" <=> stagingLock' = d
  BY <1>1, <1>2, NoCallAssumption DEF StagingInv
<1>4. QED
  BY <1>1, <1>2, <1>3 DEF StagingInv

LEMMA CommitKeepsInv ==
    ASSUME StagingInv, NEW c \in Call, CommitStaged(c)
    PROVE  StagingInv'
<1>1. /\ callStep[c] = "staged" /\ EndCall(c)
      /\ rows' = Over(writes[c], rows) /\ acked' = Over(intends[c], acked)
      /\ UNCHANGED lastRow
  BY DEF CommitStaged
<1>2. /\ Agreed(rows', acked')
      /\ DOMAIN writes[c] \subseteq 1 .. lastRow
      /\ DOMAIN rows \subseteq 1 .. lastRow /\ lastRow \in Nat
  BY <1>1 DEF StagingInv
<1>3. DOMAIN rows' \subseteq 1 .. lastRow'
  BY <1>1, <1>2 DEF Over
<1>4. /\ callStep' = [callStep EXCEPT ![c] = "idle"]
      /\ stagingLock' = IF stagingLock = c THEN NoCall ELSE stagingLock
      /\ DOMAIN writes' = Call /\ DOMAIN intends' = Call /\ DOMAIN reads' = Call
  BY <1>1 DEF EndCall, CallGoto, StagingInv
<1>5. stagingLock = c
  BY <1>1 DEF StagingInv
<1>6. \A d \in Call : callStep'[d] # "staged"
  BY <1>4, <1>5 DEF StagingInv
<1>7. callStep' \in [Call -> {"idle", "staged", "booking"}]
  BY <1>4 DEF StagingInv
<1>8. \A d \in Call : stagingLock' # d
  BY <1>4, <1>5, NoCallAssumption
<1>9. QED
  BY <1>1, <1>2, <1>3, <1>4, <1>6, <1>7, <1>8 DEF StagingInv

LEMMA StartKeepsInv ==
    ASSUME StagingInv, NEW c \in Call, StartPaperwork(c)
    PROVE  StagingInv'
<1>1. /\ callStep[c] = "idle" /\ callStep' = [callStep EXCEPT ![c] = "booking"]
      /\ \E i \in DOMAIN rows : reads' = [reads EXCEPT ![c] = rows[i]]
      /\ UNCHANGED <<rows, lastRow, stagingLock, writes, intends, acked>>
  BY DEF StartPaperwork, CallGoto
<1>2. /\ callStep'[c] = "booking" /\ \A d \in Call \ {c} : callStep'[d] = callStep[d]
      /\ callStep' \in [Call -> {"idle", "staged", "booking"}]
      /\ DOMAIN reads' = Call
  BY <1>1 DEF StagingInv
<1>3. \A d \in Call : callStep'[d] = "staged" <=> callStep[d] = "staged"
  BY <1>1, <1>2
<1>4. QED
  BY <1>1, <1>2, <1>3 DEF StagingInv

LEMMA NextKeepsInv ==
    ASSUME StagingInv, [StagingNext]_stagingVars
    PROVE  StagingInv'
<1>1. CASE MarkPrinted \/ UNCHANGED stagingVars
  <2>1. UNCHANGED <<rows, lastRow, stagingLock, callStep, writes, intends, reads, acked>>
    BY <1>1 DEF MarkPrinted, stagingVars
  <2>2. QED
    BY <2>1 DEF StagingInv
<1>2. ASSUME NEW c \in Call, FaultCall(c) \/ InsertConsignment(c)
      PROVE  StagingInv'
  BY <1>2, EndKeepsInv DEF FaultCall, InsertConsignment
<1>3. QED
  BY <1>1, <1>2, CreateKeepsInv, AmendKeepsInv, AllocateKeepsInv, DeallocateKeepsInv,
     CommitKeepsInv, StartKeepsInv DEF StagingNext

\* The lock holder, and only it, is about to commit rows that agree with its answer.
THEOREM StagingSafe == StagingSpec => []StagingInv
<1>1. StagingInit => StagingInv
  BY NoCallAssumption DEF StagingInit, StagingInv, Agreed, Nobody
<1>2. QED
  BY <1>1, NextKeepsInv, PTL DEF StagingSpec

\* One row per order, holding what the answers said, whatever is resent, amended,
\* allocated and cleared at the same time.
THEOREM AcknowledgedIsStagedHolds == StagingSpec => []AcknowledgedIsStaged
<1>1. StagingInv => AcknowledgedIsStaged
  <2> SUFFICES ASSUME StagingInv, NEW o \in Order, NEW i \in RowsOf(o), NEW j \in RowsOf(o)
               PROVE  /\ i = j
                      /\ rows[i].created = acked[o].created
                      /\ rows[i].allocation = acked[o].allocation
    BY DEF AcknowledgedIsStaged
  <2>1. /\ i \in DOMAIN rows /\ rows[i].order = o
        /\ j \in DOMAIN rows /\ rows[j].order = o
    BY DEF RowsOf
  <2>2. i = j /\ acked[o] = Shipment(rows[i])
    BY <2>1 DEF StagingInv, Agreed
  <2>3. QED
    BY <2>2 DEF Shipment
<1>2. QED
  BY <1>1, StagingSafe, PTL

-----------------------------------------------------------------------------
(* Paperwork *)

\* A call that is not booking, and the rows and answers it leaves alone.
LEMMA BookingsAlone ==
    ASSUME PaperworkInv, overtaken \subseteq overtaken',
           UNCHANGED <<acked, consignment, reads>>,
           \A d \in Call : callStep'[d] = "booking" => callStep[d] = "booking"
    PROVE  PaperworkInv'
BY DEF PaperworkInv, ShipsWhatWasTold

LEMMA StartPaperworkHolds ==
    ASSUME StagingInv, PaperworkInv, NEW c \in Call, StartPaperwork(c)
    PROVE  PaperworkInv'
<1>1. PICK i \in DOMAIN rows :
        /\ rows[i].allocation # Unallocated
        /\ reads' = [reads EXCEPT ![c] = rows[i]]
  BY DEF StartPaperwork, AllocatedFirst
<1>2. /\ rows[i] \in StagedRow /\ rows[i].order \in DOMAIN acked
      /\ acked[rows[i].order] = Shipment(rows[i])
  BY DEF StagingInv, Agreed
<1>3. reads'[c] = rows[i] /\ \A d \in Call \ {c} : reads'[d] = reads[d]
  BY <1>1 DEF StagingInv
<1>4. /\ \A d \in Call \ {c} : callStep'[d] = callStep[d]
      /\ UNCHANGED <<acked, consignment, overtaken>>
  BY DEF StartPaperwork, CallGoto, StagingInv
<1>5. QED
  BY <1>1, <1>2, <1>3, <1>4 DEF PaperworkInv, ShipsWhatWasTold

LEMMA EndPaperworkHolds ==
    ASSUME StagingInv, PaperworkInv, NEW c \in Call, EndCall(c),
           overtaken' = overtaken \ {c}, UNCHANGED acked, ShipsWhatWasTold'
    PROVE  PaperworkInv'
<1>1. /\ callStep'[c] = "idle"
      /\ \A d \in Call \ {c} : callStep'[d] = callStep[d] /\ reads'[d] = reads[d]
  BY DEF EndCall, CallGoto, StagingInv
<1>2. QED
  BY <1>1 DEF PaperworkInv

LEMMA InsertHolds ==
    ASSUME StagingInv, PaperworkInv, NEW c \in Call, InsertConsignment(c)
    PROVE  PaperworkInv'
<1>1. callStep[c] = "booking"
  BY DEF InsertConsignment
<1> DEFINE o == reads[c].order
<1>2. PICK labelled \in BOOLEAN :
        consignment' = Over([p \in {o} |->
                               [from |-> Shipment(reads[c]), told |-> acked[p],
                                raced |-> c \in overtaken, labelled |-> labelled]],
                            consignment)
  BY DEF InsertConsignment
<1> DEFINE made == [from |-> Shipment(reads[c]), told |-> acked[o], raced |-> c \in overtaken,
                    labelled |-> labelled]
<1>3. /\ DOMAIN consignment' = {o} \union DOMAIN consignment
      /\ consignment'[o] = made
      /\ \A p \in DOMAIN consignment \ {o} : consignment'[p] = consignment[p]
  <2> DEFINE one == [p \in {o} |->
                       [from |-> Shipment(reads[c]), told |-> acked[p],
                        raced |-> c \in overtaken, labelled |-> labelled]]
  <2>1. DOMAIN one = {o} /\ one[o] = made
    OBVIOUS
  <2>2. consignment' = Over(one, consignment)
    BY <1>2
  <2> HIDE DEF made, o, one
  <2>3. QED
    BY <2>1, <2>2 DEF Over
<1>4. /\ made.from.allocation # Unallocated
      /\ made.from = made.told \/ made.raced
  <2>1. /\ reads[c].allocation # Unallocated
        /\ acked[o] = Shipment(reads[c]) \/ c \in overtaken
    BY <1>1 DEF PaperworkInv
  <2>2. QED
    BY <2>1 DEF Shipment
<1>5. ShipsWhatWasTold'
  <2> HIDE DEF made, o
  <2>1. QED
    BY <1>3, <1>4 DEF ShipsWhatWasTold, PaperworkInv
<1>6. /\ EndCall(c) /\ overtaken' = overtaken \ {c} /\ UNCHANGED acked
  BY DEF InsertConsignment
<1>7. QED
  BY <1>5, <1>6, EndPaperworkHolds

LEMMA CommitHolds ==
    ASSUME StagingInv, PaperworkInv, NEW c \in Call, CommitStaged(c)
    PROVE  PaperworkInv'
<1>1. /\ callStep[c] = "staged" /\ EndCall(c)
      /\ acked' = Over(intends[c], acked)
      /\ overtaken' = overtaken \union
           {p \in Call : callStep[p] = "booking" /\ reads[p].order \in DOMAIN intends[c]}
      /\ UNCHANGED consignment
  BY DEF CommitStaged
<1>2. /\ callStep'[c] = "idle"
      /\ \A d \in Call \ {c} : callStep'[d] = callStep[d] /\ reads'[d] = reads[d]
  BY <1>1 DEF EndCall, CallGoto, StagingInv
<1>3. ASSUME NEW d \in Call, callStep'[d] = "booking"
      PROVE  /\ reads'[d] \in StagedRow /\ reads'[d].allocation # Unallocated
             /\ reads'[d].order \in DOMAIN acked'
             /\ acked'[reads'[d].order] = Shipment(reads'[d]) \/ d \in overtaken'
  <2>1. callStep[d] = "booking" /\ reads'[d] = reads[d]
    BY <1>2, <1>3
  <2>2. /\ reads[d] \in StagedRow /\ reads[d].allocation # Unallocated
        /\ reads[d].order \in DOMAIN acked
        /\ acked[reads[d].order] = Shipment(reads[d]) \/ d \in overtaken
    BY <2>1 DEF PaperworkInv
  <2>3. reads[d].order \in DOMAIN acked'
    BY <1>1, <2>2 DEF Over
  <2>4. CASE reads[d].order \in DOMAIN intends[c]
    BY <1>1, <2>1, <2>2, <2>3, <2>4
  <2>5. CASE reads[d].order \notin DOMAIN intends[c]
    <3>1. acked'[reads[d].order] = acked[reads[d].order]
      BY <1>1, <2>2, <2>5 DEF Over
    <3>2. QED
      BY <1>1, <2>1, <2>2, <2>3, <3>1
  <2>6. QED
    BY <2>4, <2>5
<1>4. ShipsWhatWasTold'
  BY <1>1 DEF PaperworkInv, ShipsWhatWasTold
<1>5. QED
  BY <1>3, <1>4 DEF PaperworkInv

\* What a booking works from, and what it made, at every step.
THEOREM PaperworkSafe == StagingSpec => []PaperworkInv
<1>1. StagingInit => PaperworkInv
  BY DEF StagingInit, PaperworkInv, ShipsWhatWasTold, Nobody
<1>2. StagingInv /\ PaperworkInv /\ [StagingNext]_stagingVars => PaperworkInv'
  <2> SUFFICES ASSUME StagingInv, PaperworkInv, [StagingNext]_stagingVars
               PROVE  PaperworkInv'
    OBVIOUS
  <2>1. CASE MarkPrinted \/ UNCHANGED stagingVars
    <3>1. UNCHANGED <<acked, consignment, reads, callStep, overtaken>>
      BY <2>1 DEF MarkPrinted, stagingVars
    <3>2. QED
      BY <3>1, BookingsAlone
  <2>2. ASSUME NEW c \in Call, NEW new, NEW told, Stages(c, new, told) PROVE PaperworkInv'
    <3>1. /\ \A d \in Call : callStep'[d] = "booking" => callStep[d] = "booking"
          /\ UNCHANGED <<acked, consignment, reads, overtaken>>
      BY <2>2 DEF Stages, CallGoto, StagingInv
    <3>2. QED
      BY <3>1, BookingsAlone
  <2>3. ASSUME NEW c \in Call, FaultCall(c) PROVE PaperworkInv'
    <3>1. /\ EndCall(c) /\ overtaken' = overtaken \ {c} /\ UNCHANGED acked
          /\ ShipsWhatWasTold'
      BY <2>3 DEF FaultCall, PaperworkInv, ShipsWhatWasTold
    <3>2. QED
      BY <3>1, EndPaperworkHolds
  <2>4. ASSUME NEW c \in Call,
               \/ CreateConsignments(c) \/ AmendConsignments(c)
               \/ AllocateConsignments(c) \/ Deallocate(c)
        PROVE  PaperworkInv'
    <3>1. \E new, told : Stages(c, new, told)
      BY <2>4 DEF CreateConsignments, AmendConsignments, AllocateConsignments, Deallocate
    <3>2. QED
      BY <2>2, <3>1
  <2>5. QED
    BY <2>1, <2>3, <2>4, StartPaperworkHolds, InsertHolds, CommitHolds DEF StagingNext
<1>3. QED
  BY <1>1, <1>2, StagingSafe, PTL DEF StagingSpec

\* Paperwork ships an allocated order as the WMS was last told it is staged, unless a
\* call that overlapped it changed the row after it was read.
THEOREM ShipsWhatWasToldHolds == StagingSpec => []ShipsWhatWasTold
<1>1. PaperworkInv => ShipsWhatWasTold
  BY DEF PaperworkInv
<1>2. QED
  BY <1>1, PaperworkSafe, PTL

-----------------------------------------------------------------------------
(* Types *)

\* What the bounds and the types of the committed data say beyond the two invariants.
Typed ==
    /\ lastRow =< MaxRow
    /\ DOMAIN consignment \subseteq Order
    /\ stagingLock \in Call \union {NoCall}
    /\ overtaken \subseteq Call
    /\ printed \subseteq {o \in DOMAIN consignment : consignment[o].labelled}

\* A write call draws its ids within the bound and takes the lock for itself.
LEMMA StagesTyped ==
    ASSUME Typed, NEW c \in Call, NEW new, NEW told, Stages(c, new, told), lastRow' =< MaxRow
    PROVE  Typed'
BY DEF Typed, Stages, TakeStaging

LEMMA InsertTyped ==
    ASSUME Typed, PaperworkInv, NEW c \in Call, InsertConsignment(c)
    PROVE  Typed'
<1> DEFINE o == reads[c].order
<1>1. callStep[c] = "booking" /\ o \notin DOMAIN consignment
  BY DEF InsertConsignment, Papered
<1>2. o \in Order
  BY <1>1 DEF PaperworkInv, StagedRow
<1>3. PICK labelled \in BOOLEAN :
        consignment' = Over([p \in {o} |->
                               [from |-> Shipment(reads[c]), told |-> acked[p],
                                raced |-> c \in overtaken, labelled |-> labelled]],
                            consignment)
  BY DEF InsertConsignment
<1>4. /\ DOMAIN consignment' = {o} \union DOMAIN consignment
      /\ \A p \in DOMAIN consignment : consignment'[p] = consignment[p]
  <2> DEFINE one == [p \in {o} |->
                       [from |-> Shipment(reads[c]), told |-> acked[p],
                        raced |-> c \in overtaken, labelled |-> labelled]]
  <2>1. DOMAIN one = {o} /\ consignment' = Over(one, consignment)
    BY <1>3
  <2> HIDE DEF o, one
  <2>2. QED
    BY <1>1, <2>1 DEF Over
<1>5. printed' \subseteq {p \in DOMAIN consignment' : consignment'[p].labelled}
  BY <1>4 DEF Typed, InsertConsignment
<1>6. UNCHANGED lastRow /\ overtaken' \subseteq Call /\ stagingLock' \in Call \union {NoCall}
  BY DEF Typed, InsertConsignment, EndCall
<1>7. QED
  BY <1>2, <1>4, <1>5, <1>6 DEF Typed

\* The staging tables and calls keep their types, the ids within their bound, and only
\* labelled orders are printed, whatever calls overlap or fault.
THEOREM StagingTypes == StagingSpec => []StagingTypeOK
<1>1. StagingInit => Typed
  BY StagingAssumption DEF StagingInit, Typed, Nobody
<1>2. StagingInv /\ PaperworkInv /\ Typed /\ [StagingNext]_stagingVars => Typed'
  <2> SUFFICES ASSUME StagingInv, PaperworkInv, Typed, [StagingNext]_stagingVars
               PROVE  Typed'
    OBVIOUS
  <2>1. CASE UNCHANGED stagingVars
    BY <2>1 DEF Typed, stagingVars
  <2>2. CASE MarkPrinted
    BY <2>2 DEF Typed, MarkPrinted, Printable, Papered
  <2>3. ASSUME NEW c \in Call, CreateConsignments(c) PROVE Typed'
    <3>1. lastRow' =< MaxRow /\ \E new, told : Stages(c, new, told)
      BY <2>3 DEF CreateConsignments
    <3>2. QED
      BY <3>1, StagesTyped
  <2>4. ASSUME NEW c \in Call,
               AmendConsignments(c) \/ AllocateConsignments(c) \/ Deallocate(c)
        PROVE  Typed'
    <3>1. UNCHANGED lastRow /\ \E new, told : Stages(c, new, told)
      BY <2>4 DEF AmendConsignments, AllocateConsignments, Deallocate
    <3>2. lastRow' =< MaxRow
      BY <3>1 DEF Typed
    <3>3. QED
      BY <3>1, <3>2, StagesTyped
  <2>5. ASSUME NEW c \in Call, CommitStaged(c) \/ FaultCall(c) \/ StartPaperwork(c)
        PROVE  Typed'
    BY <2>5 DEF Typed, CommitStaged, FaultCall, StartPaperwork, EndCall
  <2>6. QED
    BY <2>1, <2>2, <2>3, <2>4, <2>5, InsertTyped DEF StagingNext
<1>3. StagingInv /\ Typed => StagingTypeOK
  BY StagingAssumption DEF StagingInv, Typed, StagingTypeOK, Agreed
<1>4. QED
  BY <1>1, <1>2, <1>3, StagingSafe, PaperworkSafe, PTL DEF StagingSpec

=============================================================================
