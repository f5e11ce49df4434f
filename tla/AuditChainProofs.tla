-------------------------- MODULE AuditChainProofs --------------------------
(***************************************************************************)
(* Theorems about AuditChain, for any sessions, tenants, events and limit. *)
(***************************************************************************)
EXTENDS AuditChain, FiniteSetTheorems, TLAPS

(* Rows that a table can hold: finitely many, with ids of their own.        *)
Sound(rows) ==
  /\ IsFiniteSet(rows)
  /\ \A r \in rows : r.id \in Nat
  /\ \A r, q \in rows : r.id = q.id => r = q

(* A part of them is of the same kind.                                      *)
LEMMA SoundPart ==
  ASSUME NEW rows, Sound(rows), NEW part \in SUBSET rows
  PROVE  Sound(part)
BY FS_Subset DEF Sound

(* The place of a row is one of its rows' numbers, and grows with the ids.  *)
LEMMA PlaceType ==
  ASSUME NEW rows, Sound(rows), NEW r \in rows
  PROVE  Place(rows, r) \in 1 .. Cardinality(rows)
<1> DEFINE upTo == {q \in rows : q.id =< r.id}
<1>1. upTo \subseteq rows /\ r \in upTo /\ IsFiniteSet(rows)
  BY DEF Sound
<1>2. /\ Cardinality(upTo) \in Nat /\ Cardinality(rows) \in Nat
      /\ Cardinality(upTo) =< Cardinality(rows) /\ Cardinality(upTo) # 0
  BY <1>1, FS_Subset, FS_CardinalityType, FS_EmptySet
<1>3. Place(rows, r) = Cardinality(upTo)
  BY DEF Place
<1> HIDE DEF upTo
<1>4. QED
  BY <1>2, <1>3

LEMMA PlaceGrows ==
  ASSUME NEW rows, Sound(rows), NEW r \in rows, NEW q \in rows, r.id < q.id
  PROVE  Place(rows, r) < Place(rows, q)
<1> DEFINE upTo(x) == {y \in rows : y.id =< x.id}
<1>1. /\ upTo(r) \subseteq upTo(q) /\ q \in upTo(q) /\ q \notin upTo(r)
      /\ upTo(q) \subseteq rows /\ IsFiniteSet(rows)
  BY DEF Sound
<1>2. /\ Cardinality(upTo(r)) \in Nat /\ Cardinality(upTo(q)) \in Nat
      /\ Cardinality(upTo(r)) =< Cardinality(upTo(q))
      /\ Cardinality(upTo(r)) # Cardinality(upTo(q))
  BY <1>1, FS_Subset, FS_CardinalityType
<1>3. Place(rows, r) = Cardinality(upTo(r)) /\ Place(rows, q) = Cardinality(upTo(q))
  BY DEF Place
<1> HIDE DEF upTo
<1>4. QED
  BY <1>2, <1>3

(* Two rows have two places, and every place has its row.                   *)
LEMMA PlaceIsOwn ==
  ASSUME NEW rows, Sound(rows), NEW r \in rows, NEW q \in rows,
         Place(rows, r) = Place(rows, q)
  PROVE  r = q
<1>1. r.id \in Nat /\ q.id \in Nat /\ (r.id = q.id => r = q)
  BY DEF Sound
<1>2. Place(rows, r) \in Nat /\ Place(rows, q) \in Nat
  BY PlaceType
<1>3. QED
  BY <1>1, <1>2, PlaceGrows

LEMMA PlacesAreTaken ==
  ASSUME NEW rows, Sound(rows), NEW n \in 1 .. Cardinality(rows)
  PROVE  \E r \in rows : Place(rows, r) = n
<1> DEFINE f == [r \in rows |-> Place(rows, r)]
           T == 1 .. Cardinality(rows)
<1>1. IsFiniteSet(rows) /\ Cardinality(rows) \in Nat
  BY FS_CardinalityType DEF Sound
<1>2. IsFiniteSet(T) /\ Cardinality(T) = Cardinality(rows)
  BY <1>1, FS_Interval
<1>3. f \in Injection(rows, T)
  BY PlaceType, PlaceIsOwn DEF Injection, IsInjective
<1>4. f \in Surjection(rows, T)
  BY <1>1, <1>2, <1>3, FS_Injection
<1>5. QED
  BY <1>4 DEF Surjection

(* ORDER BY id gives each place to the row that has it.                     *)
LEMMA OrderedRows ==
  ASSUME NEW rows, Sound(rows)
  PROVE  /\ InOrder(rows) \in Seq(rows)
         /\ Len(InOrder(rows)) = Cardinality(rows) /\ Cardinality(rows) \in Nat
         /\ \A n \in 1 .. Cardinality(rows) :
              InOrder(rows)[n] \in rows /\ Place(rows, InOrder(rows)[n]) = n
         /\ \A r \in rows : InOrder(rows)[Place(rows, r)] = r
<1>1. Cardinality(rows) \in Nat
  BY FS_CardinalityType DEF Sound
<1>2. ASSUME NEW n \in 1 .. Cardinality(rows)
      PROVE  InOrder(rows)[n] \in rows /\ Place(rows, InOrder(rows)[n]) = n
  <2>1. InOrder(rows)[n] = CHOOSE r \in rows : Place(rows, r) = n
    BY DEF InOrder
  <2>2. QED
    BY <2>1, PlacesAreTaken
<1>3. InOrder(rows) \in [1 .. Cardinality(rows) -> rows]
  BY <1>2 DEF InOrder
<1>4. InOrder(rows) \in Seq(rows) /\ Len(InOrder(rows)) = Cardinality(rows)
  BY <1>1, <1>3
<1>5. ASSUME NEW r \in rows PROVE InOrder(rows)[Place(rows, r)] = r
  <2>1. Place(rows, r) \in 1 .. Cardinality(rows)
    BY PlaceType
  <2>2. QED
    BY <1>2, <2>1, PlaceIsOwn
<1>6. QED
  BY <1>1, <1>2, <1>4, <1>5

(* A row with a greater id than all comes last, and moves no other row.     *)
LEMMA OrderedAppend ==
  ASSUME NEW rows, Sound(rows), NEW r, r.id \in Nat, \A q \in rows : q.id < r.id
  PROVE  InOrder(rows \cup {r}) = Append(InOrder(rows), r)
<1> DEFINE more == rows \cup {r}
           n == Cardinality(rows)
<1>1. r \notin rows /\ IsFiniteSet(rows) /\ \A q \in rows : q.id \in Nat
  BY DEF Sound
<1>2. Sound(more)
  BY <1>1, FS_AddElement DEF Sound
<1>3. Cardinality(more) = n + 1 /\ n \in Nat
  BY <1>1, FS_AddElement, FS_CardinalityType
<1>4. \A q \in rows : Place(more, q) = Place(rows, q)
  <2>1. \A q \in rows : {x \in more : x.id =< q.id} = {x \in rows : x.id =< q.id}
    BY <1>1
  <2>2. QED
    BY <2>1 DEF Place
<1>5. Place(more, r) = n + 1
  <2>1. {x \in more : x.id =< r.id} = more
    BY <1>1
  <2>2. QED
    BY <1>3, <2>1 DEF Place
<1>6. InOrder(rows) \in Seq(rows) /\ Len(InOrder(rows)) = n
  BY OrderedRows
<1>7. InOrder(more) \in Seq(more) /\ Len(InOrder(more)) = n + 1
  BY <1>2, <1>3, OrderedRows
<1>8. InOrder(more)[n + 1] = r
  BY <1>2, <1>5, OrderedRows
<1>9. ASSUME NEW m \in 1 .. n PROVE InOrder(more)[m] = InOrder(rows)[m]
  <2>1. InOrder(rows)[m] \in rows /\ Place(rows, InOrder(rows)[m]) = m
    BY OrderedRows
  <2>2. Place(more, InOrder(rows)[m]) = m /\ InOrder(rows)[m] \in more
    BY <1>4, <2>1
  <2>3. QED
    BY <1>2, <2>2, OrderedRows
<1> HIDE DEF more, n
<1>10. QED
  <2>1. InOrder(rows) \in Seq(more)
    BY <1>6 DEF more
  <2>2. r \in more
    BY DEF more
  <2>3. /\ Append(InOrder(rows), r) \in Seq(more) /\ Len(Append(InOrder(rows), r)) = n + 1
        /\ \A m \in 1 .. n : Append(InOrder(rows), r)[m] = InOrder(rows)[m]
        /\ Append(InOrder(rows), r)[n + 1] = r
    BY <1>3, <1>6, <2>1, <2>2
  <2>4. \A m \in 1 .. n + 1 : InOrder(more)[m] = Append(InOrder(rows), r)[m]
    BY <1>3, <1>8, <1>9, <2>3
  <2>5. InOrder(more) = Append(InOrder(rows), r)
    BY <1>3, <1>7, <2>3, <2>4
  <2>6. QED
    BY <2>5 DEF more

-----------------------------------------------------------------------------
(* The inductive invariant of the table.                                    *)

(* The committed rows and those of the open sessions.                       *)
AllRows == table \cup UNION {pending[s] : s \in Session}

(* Their ids come from the sequence, and no two have the same; a row is in  *)
(* one place only.                                                          *)
IdsAreUnique ==
  /\ IsFiniteSet(table)
  /\ \A s \in Session : IsFiniteSet(pending[s])
  /\ \A r \in AllRows : r.id < nextId
  /\ \A r, q \in AllRows : r.id = q.id => r = q
  /\ \A s \in Session : table \cap pending[s] = {}
  /\ \A s, u \in Session : s # u => pending[s] \cap pending[u] = {}

(* The rows of open sessions and those committed, as they were recorded.    *)
Written == recorded \cup UNION {pending[s] : s \in Session}

(* The last of what a row's hash was made of is the row itself, as it was   *)
(* recorded; no event is recorded twice, by one session or by two.          *)
HashesTell ==
  /\ \A r \in Written : /\ r.chain_hash # <<>>
                        /\ Last(r.chain_hash) = event_data(r.data)
                        /\ r.data.event \in drawn
  /\ \A r, q \in Written : r.data.event = q.data.event => r = q
  /\ \A s \in Session : pc[s] = "recording" =>
       event[s].event \in drawn /\ \A r \in Written : r.data.event # event[s].event
  /\ \A s, u \in Session :
       s # u /\ pc[s] = "recording" /\ pc[u] = "recording" => event[s].event # event[u].event

(* Whatever became of a committed row, it has the id and the hash of one    *)
(* that was recorded.                                                       *)
HashesStay == \A r \in table : \E q \in recorded : q.id = r.id /\ q.chain_hash = r.chain_hash

IInv ==
  /\ TypeOK
  /\ IdsAreUnique
  /\ HashesTell
  /\ HashesStay

(* The invariant makes the rows that anybody sees sound.                    *)
LEMMA RowsSound ==
  ASSUME TypeOK, IdsAreUnique
  PROVE  /\ Sound(table)
         /\ \A s \in Session : Sound(table \cup pending[s])
<1>1. ASSUME NEW s \in Session PROVE Sound(table \cup pending[s])
  <2>1. IsFiniteSet(table \cup pending[s])
    BY FS_Union DEF IdsAreUnique
  <2>2. table \cup pending[s] \subseteq AllRows
    BY DEF AllRows
  <2>3. \A r \in table \cup pending[s] : r.id \in Nat
    BY DEF TypeOK, Row
  <2>4. QED
    BY <2>1, <2>2, <2>3 DEF Sound, IdsAreUnique
<1>2. Sound(table)
  BY DEF Sound, IdsAreUnique, TypeOK, Row, AllRows
<1>3. QED
  BY <1>1, <1>2

(* The previous hash is that of a row the session sees, or none.            *)
LEMMA PreviousHash ==
  ASSUME TypeOK, IdsAreUnique, NEW s \in Session
  PROVE  /\ get_previous_hash(s) \in Seq(Hashed)
         /\ Sound(Visible(table \cup pending[s], tenant[s]))
         /\ LET rows == Seen(table \cup pending[s], tenant[s]) IN
            get_previous_hash(s) = IF Len(rows) = 0 THEN <<>> ELSE rows[Len(rows)].chain_hash
<1> DEFINE V == Visible(table \cup pending[s], tenant[s])
           rows == InOrder(V)
<1>1. V \subseteq table \cup pending[s] /\ Sound(V)
  BY RowsSound, SoundPart DEF Visible
<1>2. rows \in Seq(V) /\ Len(rows) \in Nat
  BY <1>1, OrderedRows
<1>3. rows # <<>> => Len(rows) # 0 /\ rows[Len(rows)] \in V /\ Last(rows) = rows[Len(rows)]
  BY <1>2 DEF Last
<1>4. \A r \in V : r.chain_hash \in Seq(Hashed)
  BY <1>1 DEF TypeOK, Row
<1>5. get_previous_hash(s) = IF rows = <<>> THEN <<>> ELSE Last(rows).chain_hash
  BY DEF get_previous_hash, Seen
<1>6. rows = <<>> <=> Len(rows) = 0
  BY <1>2
<1>7. <<>> \in Seq(Hashed)
  OBVIOUS
<1> HIDE DEF V, rows
<1>8. /\ get_previous_hash(s) \in Seq(Hashed)
      /\ get_previous_hash(s) = IF Len(rows) = 0 THEN <<>> ELSE rows[Len(rows)].chain_hash
  BY <1>3, <1>4, <1>5, <1>6, <1>7
<1>9. QED
  BY <1>1, <1>8 DEF V, rows, Seen

(* The row that an insert adds.                                             *)
NewRow(s) == [id |-> nextId, data |-> event[s], owner |-> owner[s],
              chain_hash |-> compute_hash(previous[s], event[s])]

LEMMA NewRowType ==
  ASSUME TypeOK, NEW s \in Session
  PROVE  /\ NewRow(s) \in Row /\ NewRow(s).id = nextId /\ NewRow(s).owner = owner[s]
         /\ NewRow(s).data = event[s]
         /\ NewRow(s).chain_hash = Append(previous[s], event_data(event[s]))
         /\ NewRow(s).chain_hash # <<>>
         /\ Last(NewRow(s).chain_hash) = event_data(event[s])
         /\ Insert(s) => pending' = [pending EXCEPT ![s] = pending[s] \cup {NewRow(s)}]
<1>1. previous[s] \in Seq(Hashed) /\ event[s] \in Data /\ owner[s] \in RowOwner /\ nextId \in Nat
  BY DEF TypeOK
<1>2. event_data(event[s]) \in Hashed
  BY <1>1 DEF event_data, Data, Hashed
<1>3. /\ Append(previous[s], event_data(event[s])) \in Seq(Hashed)
      /\ Append(previous[s], event_data(event[s])) # <<>>
      /\ Last(Append(previous[s], event_data(event[s]))) = event_data(event[s])
  BY <1>1, <1>2 DEF Last
<1>4. QED
  BY <1>1, <1>3 DEF NewRow, Row, compute_hash, Insert

(* The row that an edit leaves.                                             *)
Changed(r, d, o) == [r EXCEPT !.data = d, !.owner = o]

LEMMA ChangedType ==
  ASSUME NEW r \in Row, NEW d \in Data, NEW o \in RowOwner
  PROVE  /\ Changed(r, d, o) \in Row /\ Changed(r, d, o).id = r.id
         /\ Changed(r, d, o).chain_hash = r.chain_hash
         /\ Edit(r, d, o) => table' = (table \ {r}) \cup {Changed(r, d, o)}
BY DEF Row, Edit, Changed

(* It holds when nothing has been recorded.                                 *)
LEMMA ChainInit == Init => IInv
<1> SUFFICES ASSUME Init PROVE IInv
  OBVIOUS
<1>1. AllRows = {}
  BY DEF Init, AllRows
<1>2. TypeOK
  <2>1. event \in [Session -> Data]
    <3>1. [event : Event, decision : {"ALLOW"}, risk_level : {"LOW"}] \subseteq Data
      BY DEF Data
    <3>2. QED
      BY <3>1 DEF Init
  <2>2. tenant \in [Session -> Tenant] /\ owner \in [Session -> RowOwner]
    BY DEF Init, RowOwner
  <2>3. nextId \in Nat /\ previous \in [Session -> Seq(Hashed)]
    BY DEF Init
  <2>4. QED
    BY <2>1, <2>2, <2>3 DEF Init, TypeOK
<1>3. Written = {}
  BY DEF Init, Written
<1>4. QED
  BY <1>1, <1>2, <1>3, FS_EmptySet DEF Init, IInv, IdsAreUnique, HashesTell, HashesStay

(* Every step keeps the types.                                              *)
LEMMA TypeStep == IInv /\ [Next]_vars => TypeOK'
<1> SUFFICES ASSUME IInv, [Next]_vars PROVE TypeOK'
  OBVIOUS
<1> USE DEF TypeOK, IInv
<1>1. ASSUME NEW s \in Session, NEW t \in Tenant, Begin(s, t) PROVE TypeOK'
  BY <1>1 DEF Begin, Goto, history
<1>2. ASSUME NEW s \in Session, NEW d \in Data, NEW o \in Owners, ReadPrevious(s, d, o)
      PROVE  TypeOK'
  <2>1. get_previous_hash(s) \in Seq(Hashed)
    BY PreviousHash
  <2>2. d.event \in Event
    BY DEF Data
  <2>3. owner' \in [Session -> RowOwner]
    BY <1>2 DEF ReadPrevious, RowOwner
  <2>4. previous' \in [Session -> Seq(Hashed)] /\ event' \in [Session -> Data]
    BY <1>2, <2>1 DEF ReadPrevious
  <2>5. drawn' \subseteq Event /\ pc' \in [Session -> {"closed", "open", "recording"}]
    BY <1>2, <2>2 DEF ReadPrevious, Goto
  <2>6. UNCHANGED <<table, pending, nextId, tenant, recorded, edited>>
    BY <1>2 DEF ReadPrevious
  <2>7. apart' \subseteq Tenant
    BY <1>2 DEF ReadPrevious, NotSeeing
  <2>8. QED
    BY <2>3, <2>4, <2>5, <2>6, <2>7
<1>3. ASSUME NEW s \in Session, Insert(s) PROVE TypeOK'
  <2>1. pending' \in [Session -> SUBSET Row]
    <3>1. NewRow(s) \in Row
      BY NewRowType
    <3>2. pending' = [pending EXCEPT ![s] = pending[s] \cup {NewRow(s)}]
      BY <1>3, NewRowType
    <3>3. pending[s] \cup {NewRow(s)} \in SUBSET Row
      BY <3>1
    <3>4. QED
      BY <3>2, <3>3
  <2>2. QED
    BY <1>3, <2>1 DEF Insert, Goto, history
<1>4. ASSUME NEW s \in Session, Commit(s) PROVE TypeOK'
  BY <1>4 DEF Commit, Goto
<1>5. ASSUME NEW s \in Session, Rollback(s) PROVE TypeOK'
  BY <1>5 DEF Rollback, history
<1>6. ASSUME NEW r \in table, NEW d \in Data, NEW o \in RowOwner, Edit(r, d, o)
      PROVE  TypeOK'
  <2>1. table' \subseteq Row
    BY <1>6, ChangedType
  <2>2. QED
    BY <1>6, <2>1 DEF Edit
<1>7. ASSUME NEW r \in table, Delete(r) PROVE TypeOK'
  BY <1>7 DEF Delete
<1>8. CASE UNCHANGED vars
  BY <1>8 DEF vars, history
<1>9. QED
  BY <1>1, <1>2, <1>3, <1>4, <1>5, <1>6, <1>7, <1>8 DEF Next

(* The rows have their types, and ids that are numbers.                     *)
LEMMA RowIds ==
  ASSUME TypeOK
  PROVE  \A r \in AllRows : r \in Row /\ r.id \in Nat
BY DEF TypeOK, Row, AllRows

(* Every step keeps the ids apart.                                          *)
LEMMA IdsStep == IInv /\ [Next]_vars => IdsAreUnique'
<1> SUFFICES ASSUME IInv, [Next]_vars PROVE IdsAreUnique'
  OBVIOUS
<1>0. /\ IsFiniteSet(table) /\ \A s \in Session : IsFiniteSet(pending[s])
      /\ \A r \in AllRows : r.id < nextId /\ r.id \in Nat
      /\ \A r, q \in AllRows : r.id = q.id => r = q
      /\ \A s \in Session : table \cap pending[s] = {}
      /\ \A s, u \in Session : s # u => pending[s] \cap pending[u] = {}
      /\ nextId \in Nat /\ table \subseteq Row /\ pending \in [Session -> SUBSET Row]
  BY RowIds DEF IInv, IdsAreUnique, TypeOK
<1>1. CASE UNCHANGED <<table, pending, nextId>>
  BY <1>0, <1>1 DEF IdsAreUnique, AllRows
<1>2. ASSUME NEW s \in Session, Insert(s) PROVE IdsAreUnique'
  <2> DEFINE x == NewRow(s)
  <2>1. /\ pending' = [pending EXCEPT ![s] = pending[s] \cup {x}]
        /\ table' = table /\ nextId' = nextId + 1 /\ x.id = nextId
    BY <1>2, NewRowType DEF Insert, IInv
  <2> HIDE DEF x
  <2>2. AllRows' = AllRows \cup {x}
    BY <1>0, <2>1 DEF AllRows
  <2>3. x \notin AllRows
    BY <1>0, <2>1
  <2>4. IsFiniteSet(pending[s] \cup {x})
    BY <1>0, FS_AddElement
  <2>5. \A u \in Session : pending'[u] = IF u = s THEN pending[s] \cup {x} ELSE pending[u]
    BY <1>0, <2>1
  <2>6. \A u \in Session : pending[u] \subseteq AllRows
    BY DEF AllRows
  <2>7. \A r \in AllRows' : r.id < nextId'
    BY <1>0, <2>1, <2>2
  <2>8. \A r, q \in AllRows' : r.id = q.id => r = q
    BY <1>0, <2>1, <2>2
  <2>9. /\ \A u \in Session : table' \cap pending'[u] = {}
        /\ \A u, v \in Session : u # v => pending'[u] \cap pending'[v] = {}
    BY <1>0, <2>1, <2>3, <2>5, <2>6 DEF AllRows
  <2>10. QED
    BY <1>0, <2>1, <2>4, <2>5, <2>7, <2>8, <2>9 DEF IdsAreUnique
<1>3. ASSUME NEW s \in Session, Commit(s) PROVE IdsAreUnique'
  <2>1. /\ table' = table \cup pending[s] /\ nextId' = nextId
        /\ \A u \in Session : pending'[u] = IF u = s THEN {} ELSE pending[u]
    BY <1>0, <1>3 DEF Commit
  <2>2. AllRows' = AllRows
    BY <2>1 DEF AllRows
  <2>3. IsFiniteSet(table') /\ \A u \in Session : IsFiniteSet(pending'[u])
    BY <1>0, <2>1, FS_Union, FS_EmptySet
  <2>4. /\ \A u \in Session : table' \cap pending'[u] = {}
        /\ \A u, v \in Session : u # v => pending'[u] \cap pending'[v] = {}
    BY <1>0, <2>1
  <2>5. QED
    BY <1>0, <2>1, <2>2, <2>3, <2>4 DEF IdsAreUnique
<1>4. ASSUME NEW s \in Session, Rollback(s) PROVE IdsAreUnique'
  <2>1. /\ table' = table /\ nextId' = nextId
        /\ \A u \in Session : pending'[u] = IF u = s THEN {} ELSE pending[u]
    BY <1>0, <1>4 DEF Rollback
  <2>2. AllRows' \subseteq AllRows
    BY <2>1 DEF AllRows
  <2>3. \A u \in Session : IsFiniteSet(pending'[u])
    BY <1>0, <2>1, FS_EmptySet
  <2>4. QED
    BY <1>0, <2>1, <2>2, <2>3 DEF IdsAreUnique
<1>5. ASSUME NEW r \in table, NEW d \in Data, NEW o \in RowOwner, Edit(r, d, o)
      PROVE  IdsAreUnique'
  <2> DEFINE x == Changed(r, d, o)
  <2>1. /\ table' = (table \ {r}) \cup {x} /\ pending' = pending /\ nextId' = nextId
        /\ x.id = r.id /\ r \in AllRows
    <3>1. r \in Row /\ r \in AllRows
      BY <1>0 DEF AllRows
    <3>2. QED
      BY <1>5, <3>1, ChangedType DEF Edit
  <2> HIDE DEF x
  <2>2. \A q \in AllRows' : q = x \/ (q \in AllRows /\ q.id # r.id)
    BY <1>0, <2>1 DEF AllRows
  <2>3. IsFiniteSet(table')
    BY <1>0, <2>1, FS_AddElement, FS_RemoveElement
  <2>4. \A u \in Session : \A q \in pending[u] : q \in AllRows' /\ q # x
    BY <1>0, <2>1 DEF AllRows
  <2>5. \A u \in Session : table' \cap pending'[u] = {}
    BY <1>0, <2>1, <2>4
  <2>6. /\ \A q \in AllRows' : q.id < nextId'
        /\ \A p, q \in AllRows' : p.id = q.id => p = q
    BY <1>0, <2>1, <2>2
  <2>7. QED
    BY <1>0, <2>1, <2>3, <2>5, <2>6 DEF IdsAreUnique
<1>6. ASSUME NEW r \in table, Delete(r) PROVE IdsAreUnique'
  <2>1. table' \subseteq table /\ pending' = pending /\ nextId' = nextId
    BY <1>6 DEF Delete
  <2>2. AllRows' \subseteq AllRows /\ IsFiniteSet(table')
    BY <1>0, <2>1, FS_Subset DEF AllRows
  <2>3. QED
    BY <1>0, <2>1, <2>2 DEF IdsAreUnique
<1>7. QED
  BY <1>1, <1>2, <1>3, <1>4, <1>5, <1>6 DEF Next, vars, Begin, ReadPrevious

(* Every step keeps what the hashes tell.                                   *)
LEMMA HashesStep == IInv /\ [Next]_vars => HashesTell'
<1> SUFFICES ASSUME IInv, [Next]_vars PROVE HashesTell'
  OBVIOUS
<1>0. /\ \A r \in Written : /\ r.chain_hash # <<>>
                            /\ Last(r.chain_hash) = event_data(r.data)
                            /\ r.data.event \in drawn
      /\ \A r, q \in Written : r.data.event = q.data.event => r = q
      /\ \A s \in Session : pc[s] = "recording" =>
           event[s].event \in drawn /\ \A r \in Written : r.data.event # event[s].event
      /\ \A s, u \in Session :
           s # u /\ pc[s] = "recording" /\ pc[u] = "recording"
             => event[s].event # event[u].event
      /\ pending \in [Session -> SUBSET Row] /\ event \in [Session -> Data]
      /\ pc \in [Session -> {"closed", "open", "recording"}]
  BY DEF IInv, HashesTell, TypeOK
<1>1. CASE UNCHANGED <<pending, recorded, drawn, pc, event>>
  BY <1>0, <1>1 DEF HashesTell, Written
<1>2. ASSUME NEW s \in Session, NEW t \in Tenant, Begin(s, t) PROVE HashesTell'
  BY <1>0, <1>2 DEF HashesTell, Written, Begin, Goto, history
<1>3. ASSUME NEW s \in Session, NEW d \in Data, NEW o \in Owners, ReadPrevious(s, d, o)
      PROVE  HashesTell'
  <2>1. /\ d.event \notin drawn /\ drawn' = drawn \cup {d.event}
        /\ \A u \in Session : event'[u] = IF u = s THEN d ELSE event[u]
        /\ \A u \in Session : pc'[u] = IF u = s THEN "recording" ELSE pc[u]
        /\ UNCHANGED <<pending, recorded>>
    BY <1>0, <1>3 DEF ReadPrevious, Goto
  <2>2. Written' = Written
    BY <2>1 DEF Written
  <2>3. QED
    BY <1>0, <2>1, <2>2 DEF HashesTell
<1>4. ASSUME NEW s \in Session, Insert(s) PROVE HashesTell'
  <2> DEFINE x == NewRow(s)
  <2>1. /\ pending' = [pending EXCEPT ![s] = pending[s] \cup {x}]
        /\ x.chain_hash # <<>> /\ x.data = event[s]
        /\ Last(x.chain_hash) = event_data(event[s])
        /\ UNCHANGED <<recorded, drawn, event>>
        /\ pc[s] = "recording" /\ \A u \in Session : pc'[u] = IF u = s THEN "open" ELSE pc[u]
    BY <1>0, <1>4, NewRowType DEF Insert, Goto, IInv, history
  <2> HIDE DEF x
  <2>2. Written' = Written \cup {x}
    BY <1>0, <2>1 DEF Written
  <2>3. \A r, q \in Written' : r.data.event = q.data.event => r = q
    BY <1>0, <2>1, <2>2
  <2>4. \A r \in Written' : /\ r.chain_hash # <<>>
                            /\ Last(r.chain_hash) = event_data(r.data)
                            /\ r.data.event \in drawn
    BY <1>0, <2>1, <2>2
  <2>5. \A u \in Session : pc'[u] = "recording" =>
          u # s /\ event[u].event \in drawn /\ \A r \in Written' : r.data.event # event[u].event
    BY <1>0, <2>1, <2>2
  <2>6. \A u, v \in Session :
          u # v /\ pc'[u] = "recording" /\ pc'[v] = "recording"
            => event[u].event # event[v].event
    BY <1>0, <2>1
  <2>7. QED
    BY <2>1, <2>3, <2>4, <2>5, <2>6 DEF HashesTell
<1>5. ASSUME NEW s \in Session, Commit(s) \/ Rollback(s) PROVE HashesTell'
  <2>1. /\ recorded' \subseteq recorded \cup pending[s] /\ UNCHANGED <<drawn, event>>
        /\ \A u \in Session : pending'[u] \subseteq pending[u]
        /\ \A u \in Session : pc'[u] = "recording" => pc[u] = "recording"
    BY <1>0, <1>5 DEF Commit, Rollback, Goto, history
  <2>2. Written' \subseteq Written
    BY <2>1 DEF Written
  <2>3. QED
    BY <1>0, <2>1, <2>2 DEF HashesTell
<1>6. ASSUME NEW r \in table, Delete(r) \/ \E d \in Data, o \in RowOwner : Edit(r, d, o)
      PROVE  HashesTell'
  BY <1>1, <1>6 DEF Edit, Delete
<1>7. QED
  BY <1>1, <1>2, <1>3, <1>4, <1>5, <1>6 DEF Next, vars, history

LEMMA HashesStayStep == IInv /\ [Next]_vars => HashesStay'
<1> SUFFICES ASSUME IInv, [Next]_vars PROVE HashesStay'
  OBVIOUS
<1>0. /\ \A r \in table : \E q \in recorded : q.id = r.id /\ q.chain_hash = r.chain_hash
      /\ table \subseteq Row
  BY DEF IInv, HashesStay, TypeOK
<1>1. CASE UNCHANGED <<table, recorded>>
  BY <1>0, <1>1 DEF HashesStay
<1>2. ASSUME NEW s \in Session, Commit(s) PROVE HashesStay'
  BY <1>0, <1>2 DEF Commit, HashesStay
<1>3. ASSUME NEW r \in table, NEW d \in Data, NEW o \in RowOwner, Edit(r, d, o)
      PROVE  HashesStay'
  <2> DEFINE x == Changed(r, d, o)
  <2>1. /\ table' = (table \ {r}) \cup {x} /\ recorded' = recorded
        /\ x.id = r.id /\ x.chain_hash = r.chain_hash
    BY <1>0, <1>3, ChangedType DEF Edit
  <2> HIDE DEF x
  <2>2. QED
    BY <1>0, <2>1 DEF HashesStay
<1>4. ASSUME NEW r \in table, Delete(r) PROVE HashesStay'
  BY <1>0, <1>4 DEF Delete, HashesStay
<1>5. QED
  BY <1>1, <1>2, <1>3, <1>4
     DEF Next, vars, history, Begin, ReadPrevious, Insert, Rollback

(* The inductive invariant always holds.                                    *)
THEOREM Invariant == Spec => []IInv
<1>1. IInv /\ [Next]_vars => IInv'
  BY TypeStep, IdsStep, HashesStep, HashesStayStep DEF IInv
<1>2. QED
  BY ChainInit, <1>1, PTL DEF Spec

(* Every variable always has its type.                                      *)
THEOREM TypeCorrect == Spec => []TypeOK
BY Invariant, PTL DEF IInv

(* What list_all returns: the first rows, in order, that the tenant sees.   *)
LEMMA ListedRows ==
  ASSUME IInv, NEW t
  PROVE  LET rows == Seen(table, t) IN
         /\ Sound(Visible(table, t)) /\ rows \in Seq(Visible(table, t))
         /\ list_all(t) \in Seq(Visible(table, t))
         /\ Len(list_all(t)) \in Nat /\ Len(list_all(t)) =< Len(rows)
         /\ \A n \in 1 .. Len(list_all(t)) : list_all(t)[n] = rows[n] /\ rows[n] \in table
<1> DEFINE V == Visible(table, t)
           rows == Seen(table, t)
           k == IF Len(rows) < Limit THEN Len(rows) ELSE Limit
<1>1. V \subseteq table /\ Sound(V)
  BY RowsSound, SoundPart DEF Visible, IInv
<1>2. rows \in Seq(V)
  BY <1>1, OrderedRows DEF Seen
<1>3. list_all(t) = SubSeq(rows, 1, k)
  BY DEF list_all
<1> HIDE DEF V, rows
<1>4. k \in 0 .. Len(rows) /\ Len(rows) \in Nat
  BY <1>2, LimitAssumption
<1> HIDE DEF k
<1>5. /\ SubSeq(rows, 1, k) \in Seq(V) /\ Len(SubSeq(rows, 1, k)) = k
      /\ \A n \in 1 .. k : SubSeq(rows, 1, k)[n] = rows[n] /\ rows[n] \in V
  BY <1>2, <1>4
<1>6. QED
  BY <1>1, <1>2, <1>3, <1>4, <1>5 DEF V, rows

(* The hashed columns of the rows up to a place, as one hash.               *)
HashedUpTo(rows, n) == [m \in 1 .. n |-> event_data(rows[m].data)]

LEMMA HashedUpToType ==
  ASSUME NEW rows, NEW n \in Nat, \A m \in 1 .. n : rows[m].data \in Data
  PROVE  HashedUpTo(rows, n) \in Seq(Hashed) /\ Len(HashedUpTo(rows, n)) = n
<1>1. \A m \in 1 .. n : event_data(rows[m].data) \in Hashed
  BY DEF event_data, Data, Hashed
<1>2. HashedUpTo(rows, n) \in [1 .. n -> Hashed]
  BY <1>1 DEF HashedUpTo
<1>3. QED
  BY <1>2

LEMMA HashedUpToNext ==
  ASSUME NEW rows, NEW n \in Nat, n # 0, \A m \in 1 .. n : rows[m].data \in Data
  PROVE  HashedUpTo(rows, n) = compute_hash(HashedUpTo(rows, n - 1), rows[n].data)
<1> DEFINE before == HashedUpTo(rows, n - 1)
           h == event_data(rows[n].data)
<1>1. n - 1 \in Nat /\ \A m \in 1 .. n - 1 : rows[m].data \in Data
  OBVIOUS
<1>2. before \in Seq(Hashed) /\ Len(before) = n - 1
  BY <1>1, HashedUpToType
<1>3. h \in Hashed
  <2>1. rows[n].data \in Data
    OBVIOUS
  <2>2. QED
    BY <2>1 DEF event_data, Data, Hashed
<1>4. \A m \in 1 .. n - 1 : before[m] = event_data(rows[m].data)
  BY DEF HashedUpTo
<1> HIDE DEF before, h
<1>5. Append(before, h) = [m \in 1 .. n |-> IF m = n THEN h ELSE before[m]]
  <2> DEFINE more == Append(before, h)
  <2>1. more \in Seq(Hashed) /\ Len(more) = n
    BY <1>2, <1>3
  <2>2. \A m \in 1 .. n : more[m] = IF m = n THEN h ELSE before[m]
    BY <1>2, <1>3
  <2> HIDE DEF more
  <2>3. more = [m \in 1 .. n |-> more[m]]
    BY <2>1
  <2>4. more = [m \in 1 .. n |-> IF m = n THEN h ELSE before[m]]
    BY <2>2, <2>3
  <2>5. QED
    BY <2>4 DEF more
<1>6. \A m \in 1 .. n : event_data(rows[m].data) = IF m = n THEN h ELSE before[m]
  BY <1>4 DEF h
<1>7. QED
  BY <1>5, <1>6 DEF HashedUpTo, compute_hash, before, h

(* What verification means for a list: every hash is that of the rows up to *)
(* its own.                                                                 *)
Chained(rows) == \A n \in 1 .. Len(rows) : rows[n].chain_hash = HashedUpTo(rows, n)

LEMMA VerifiesMeansChained ==
  ASSUME NEW S, NEW rows \in Seq(S), \A r \in S : r.data \in Data
  PROVE  verify_chain_integrity(rows) <=> Chained(rows)
<1>1. /\ Len(rows) \in Nat /\ DOMAIN rows = 1 .. Len(rows)
      /\ \A n \in 1 .. Len(rows) : rows[n].data \in Data
  OBVIOUS
<1>2. ASSUME NEW n \in 1 .. Len(rows)
      PROVE  compute_hash([k \in 0 .. Len(rows) |-> HashedUpTo(rows, k)][n - 1], rows[n].data)
               = HashedUpTo(rows, n)
  <2>1. n \in Nat /\ n # 0 /\ n - 1 \in 0 .. Len(rows) /\ \A m \in 1 .. n : rows[m].data \in Data
    BY <1>1
  <2>2. HashedUpTo(rows, n) = compute_hash(HashedUpTo(rows, n - 1), rows[n].data)
    BY <2>1, HashedUpToNext
  <2>3. QED
    BY <2>1, <2>2
<1>3. verify_chain_integrity(rows)
        <=> \A n \in DOMAIN rows :
              rows[n].chain_hash
                = compute_hash([k \in 0 .. Len(rows) |-> HashedUpTo(rows, k)][n - 1], rows[n].data)
  BY DEF verify_chain_integrity, HashedUpTo
<1>4. QED
  BY <1>1, <1>2, <1>3 DEF Chained

(* If a list verifies, the events that its hashes were built on are in it   *)
(* as they were recorded, whatever was recorded, rolled back, changed or    *)
(* deleted, in any order and by any number of sessions.                     *)
THEOREM TamperingShows == Spec => []TamperingIsDetected
<1>1. IInv => TamperingIsDetected
  <2> SUFFICES ASSUME IInv, NEW t \in Tenant, verify_chain_integrity(list_all(t)),
                      NEW n \in DOMAIN list_all(t), NEW r \in recorded,
                      IsPrefix(r.chain_hash, list_all(t)[n].chain_hash)
               PROVE  \E m \in 1 .. n :
                        /\ list_all(t)[m].id = r.id
                        /\ event_data(list_all(t)[m].data) = event_data(r.data)
    BY DEF TamperingIsDetected
  <2> DEFINE rows == list_all(t)
             k == Len(r.chain_hash)
  <2>1. /\ rows \in Seq(Visible(table, t)) /\ Len(rows) \in Nat /\ n \in 1 .. Len(rows)
        /\ \A m \in 1 .. Len(rows) : rows[m] \in table
    BY ListedRows
  <2>2. \A q \in Visible(table, t) : q.data \in Data
    BY DEF Visible, IInv, TypeOK, Row
  <2>3. \A m \in 1 .. Len(rows) : rows[m].data \in Data
    BY <2>1, <2>2
  <2> HIDE DEF rows
  <2>4. \A m \in 1 .. Len(rows) : rows[m].chain_hash = HashedUpTo(rows, m)
    BY <2>1, <2>2, VerifiesMeansChained DEF Chained, rows
  <2>5. r \in Written /\ r.chain_hash \in Seq(Hashed) /\ r.chain_hash # <<>> /\ k \in Nat /\ k # 0
    BY DEF IInv, TypeOK, HashesTell, Row, Written
  <2>6. rows[n].chain_hash \in Seq(Hashed) /\ Len(rows[n].chain_hash) = n
    BY <2>1, <2>3, <2>4, HashedUpToType
  <2>7. k \in 1 .. n /\ k \in 1 .. Len(rows)
        /\ SubSeq(r.chain_hash, 1, k) = SubSeq(rows[n].chain_hash, 1, k)
    BY <2>1, <2>5, <2>6 DEF IsPrefix, rows
  <2>8. r.chain_hash = rows[k].chain_hash
    <3>1. \A m \in 1 .. k : r.chain_hash[m] = rows[n].chain_hash[m]
      BY <2>5, <2>6, <2>7
    <3>2. \A m \in 1 .. k : /\ rows[n].chain_hash[m] = event_data(rows[m].data)
                            /\ rows[k].chain_hash[m] = event_data(rows[m].data)
      <4>1. /\ rows[n].chain_hash = HashedUpTo(rows, n)
            /\ rows[k].chain_hash = HashedUpTo(rows, k)
        BY <2>1, <2>4, <2>7
      <4>2. \A m \in 1 .. k : /\ HashedUpTo(rows, n)[m] = event_data(rows[m].data)
                              /\ HashedUpTo(rows, k)[m] = event_data(rows[m].data)
        BY <2>1, <2>7 DEF HashedUpTo
      <4>3. QED
        BY <4>1, <4>2
    <3>3. rows[k].chain_hash \in Seq(Hashed) /\ Len(rows[k].chain_hash) = k
      BY <2>1, <2>3, <2>4, <2>7, HashedUpToType
    <3>4. QED
      BY <2>5, <3>1, <3>2, <3>3
  <2>9. event_data(rows[k].data) = Last(r.chain_hash)
    <3>1. r.chain_hash = HashedUpTo(rows, k)
      BY <2>4, <2>7, <2>8
    <3>2. HashedUpTo(rows, k)[k] = event_data(rows[k].data)
      BY <2>7 DEF HashedUpTo
    <3>3. QED
      BY <3>1, <3>2 DEF Last
  <2>10. PICK q \in recorded : q.id = rows[k].id /\ q.chain_hash = rows[k].chain_hash
    BY <2>1, <2>7 DEF IInv, HashesStay
  <2>11. q = r /\ Last(r.chain_hash) = event_data(r.data)
    <3>1. q \in Written /\ event_data(q.data) = event_data(r.data)
      BY <2>5, <2>8, <2>10 DEF IInv, HashesTell, Written
    <3>2. q.data.event = r.data.event
      BY <3>1 DEF event_data
    <3>3. QED
      BY <2>5, <3>1, <3>2 DEF IInv, HashesTell
  <2>12. QED
    BY <2>7, <2>9, <2>10, <2>11 DEF rows
<1>2. QED
  BY <1>1, Invariant, PTL

-----------------------------------------------------------------------------
(* The chains, when sessions take turns.                                    *)

(* A session that has no shared event in hand.                              *)
OwnEventsOnly(s) ==
  /\ \A r \in pending[s] : r.owner # Shared
  /\ pc[s] = "recording" => owner[s] # Shared

(* Sessions that are open at the same time are of different tenants, and    *)
(* have no shared events in hand: who records one is alone.                 *)
TakeTurns ==
  \A s, u \in Session :
    s # u /\ pc[s] # "closed" /\ pc[u] # "closed" =>
      tenant[s] # tenant[u] /\ OwnEventsOnly(s)

(* Whose the rows are: the tenant's that inserted them, or everybody's.     *)
OwnersFit ==
  \A s \in Session :
    /\ \A r \in pending[s] : r.owner \in {tenant[s], Shared}
    /\ pc[s] = "recording" => owner[s] \in {tenant[s], Shared}
    /\ pc[s] = "closed" => pending[s] = {}

(* What tenant t sees of the committed rows and of those of session s.      *)
Sight(s, t) == Visible(table \cup pending[s], t)

(* The chains of tenants that are not apart: those of the committed rows,   *)
(* and what they would be if a session committed now.  The hash a session   *)
(* has read is still the last, and if it is for a shared event, it is the   *)
(* last for all of these tenants.                                           *)
ChainsHold ==
  ~edited =>
    /\ \A t \in Tenant \ apart : Chained(Seen(table, t))
    /\ \A s \in Session, t \in Tenant \ apart : Chained(InOrder(Sight(s, t)))
    /\ \A s \in Session : pc[s] = "recording" => previous[s] = get_previous_hash(s)
    /\ \A s \in Session : pc[s] = "recording" /\ owner[s] = Shared =>
         \A t \in Tenant \ apart : Sight(s, t) = Sight(s, tenant[s])

(* Chained rows stay chained with one more, hashed onto the last of them.   *)
LEMMA ChainedAppend ==
  ASSUME NEW S, NEW rows \in Seq(S), Chained(rows), NEW r,
         \A q \in S : q.data \in Data, r.data \in Data,
         r.chain_hash = compute_hash(IF Len(rows) = 0 THEN <<>> ELSE rows[Len(rows)].chain_hash,
                                     r.data)
  PROVE  Chained(Append(rows, r))
<1> DEFINE n == Len(rows)
           more == Append(rows, r)
<1>1. /\ n \in Nat /\ Len(more) = n + 1 /\ more[n + 1] = r
      /\ \A m \in 1 .. n : more[m] = rows[m] /\ rows[m].data \in Data
  <2>1. rows \in Seq(S \cup {r}) /\ r \in S \cup {r}
    OBVIOUS
  <2>2. QED
    BY <2>1
<1> HIDE DEF n, more
<1>2. \A k \in 0 .. n : HashedUpTo(more, k) = HashedUpTo(rows, k)
  BY <1>1 DEF HashedUpTo
<1>3. \A m \in 1 .. n + 1 : more[m].data \in Data
  BY <1>1
<1>4. (IF n = 0 THEN <<>> ELSE rows[n].chain_hash) = HashedUpTo(more, n)
  <2>1. CASE n = 0
    <3>1. HashedUpTo(more, n) \in Seq(Hashed) /\ Len(HashedUpTo(more, n)) = 0
      BY <1>1, <1>3, <2>1, HashedUpToType
    <3>2. QED
      BY <2>1, <3>1
  <2>2. CASE n # 0
    BY <1>1, <1>2, <2>2 DEF Chained, n
  <2>3. QED
    BY <2>1, <2>2
<1>5. more[n + 1].chain_hash = HashedUpTo(more, n + 1)
  <2>1. n + 1 \in Nat /\ n + 1 # 0 /\ (n + 1) - 1 = n
    BY <1>1
  <2>2. HashedUpTo(more, n + 1) = compute_hash(HashedUpTo(more, (n + 1) - 1), more[n + 1].data)
    BY <1>3, <2>1, HashedUpToNext
  <2>3. r.chain_hash = compute_hash(IF n = 0 THEN <<>> ELSE rows[n].chain_hash, r.data)
    BY DEF n
  <2>4. QED
    BY <1>1, <1>4, <2>1, <2>2, <2>3
<1>6. \A m \in 1 .. n : more[m].chain_hash = HashedUpTo(more, m)
  BY <1>1, <1>2 DEF Chained, n
<1>7. QED
  BY <1>1, <1>5, <1>6 DEF Chained, more

(* The hash a session would read depends on what it sees, nothing else.     *)
LEMMA SameSight ==
  ASSUME NEW u \in Session, Sight(u, tenant[u])' = Sight(u, tenant[u])
  PROVE  get_previous_hash(u)' = get_previous_hash(u)
<1>1. Seen(table \cup pending[u], tenant[u])' = Seen(table \cup pending[u], tenant[u])
  BY DEF Seen, Sight
<1>2. QED
  BY <1>1 DEF get_previous_hash

(* Every step keeps the rows with their tenants.                            *)
LEMMA OwnersStep ==
  ASSUME IInv, OwnersFit, [Next]_vars
  PROVE  OwnersFit'
<1>0. /\ \A s \in Session : /\ \A r \in pending[s] : r.owner \in {tenant[s], Shared}
                            /\ pc[s] = "recording" => owner[s] \in {tenant[s], Shared}
                            /\ pc[s] = "closed" => pending[s] = {}
      /\ pending \in [Session -> SUBSET Row]
      /\ pc \in [Session -> {"closed", "open", "recording"}]
      /\ tenant \in [Session -> Tenant] /\ owner \in [Session -> RowOwner]
  BY DEF OwnersFit, IInv, TypeOK
<1>1. ASSUME NEW s \in Session, NEW t \in Tenant, Begin(s, t) PROVE OwnersFit'
  BY <1>0, <1>1 DEF Begin, Goto, OwnersFit
<1>2. ASSUME NEW s \in Session, NEW d \in Data, NEW o \in Owners, ReadPrevious(s, d, o)
      PROVE  OwnersFit'
  BY <1>0, <1>2 DEF ReadPrevious, Goto, OwnersFit
<1>3. ASSUME NEW s \in Session, Insert(s) PROVE OwnersFit'
  <2>1. /\ pending' = [pending EXCEPT ![s] = pending[s] \cup {NewRow(s)}]
        /\ NewRow(s).owner = owner[s]
    BY <1>3, NewRowType DEF IInv
  <2>2. pc[s] = "recording" /\ pc' = [pc EXCEPT ![s] = "open"] /\ UNCHANGED <<tenant, owner>>
    BY <1>3 DEF Insert, Goto
  <2>3. QED
    BY <1>0, <2>1, <2>2 DEF OwnersFit
<1>4. ASSUME NEW s \in Session, Commit(s) PROVE OwnersFit'
  BY <1>0, <1>4 DEF Commit, Goto, OwnersFit
<1>5. ASSUME NEW s \in Session, Rollback(s) PROVE OwnersFit'
  BY <1>0, <1>5 DEF Rollback, OwnersFit
<1>6. CASE UNCHANGED <<pending, pc, tenant, owner>>
  BY <1>0, <1>6 DEF OwnersFit
<1>7. QED
  BY <1>1, <1>2, <1>3, <1>4, <1>5, <1>6 DEF Next, vars, Edit, Delete

(* When sessions take turns, every step keeps the chains.                   *)
LEMMA ChainsStep ==
  ASSUME IInv, OwnersFit, ChainsHold, TakeTurns, [Next]_vars
  PROVE  ChainsHold'
<1> SUFFICES ASSUME ~edited', ~edited
             PROVE  /\ \A t \in Tenant \ apart' : Chained(Seen(table, t)')
                    /\ \A s \in Session, t \in Tenant \ apart' : Chained(InOrder(Sight(s, t)'))
                    /\ \A s \in Session : pc'[s] = "recording" =>
                         previous'[s] = get_previous_hash(s)'
                    /\ \A s \in Session : pc'[s] = "recording" /\ owner'[s] = Shared =>
                         \A t \in Tenant \ apart' : Sight(s, t)' = Sight(s, tenant[s])'
  <2>1. edited => edited'
    BY DEF Next, vars, history, Begin, ReadPrevious, Insert, Commit, Rollback, Edit, Delete
  <2>2. QED
    BY <2>1 DEF ChainsHold, Chained, HashedUpTo
<1>0. /\ \A t \in Tenant \ apart : Chained(Seen(table, t))
      /\ \A s \in Session, t \in Tenant \ apart : Chained(InOrder(Sight(s, t)))
      /\ \A s \in Session : pc[s] = "recording" => previous[s] = get_previous_hash(s)
      /\ \A s \in Session : pc[s] = "recording" /\ owner[s] = Shared =>
           \A t \in Tenant \ apart : Sight(s, t) = Sight(s, tenant[s])
      /\ pending \in [Session -> SUBSET Row] /\ tenant \in [Session -> Tenant]
      /\ pc \in [Session -> {"closed", "open", "recording"}]
      /\ previous \in [Session -> Seq(Hashed)] /\ owner \in [Session -> RowOwner]
  BY DEF ChainsHold, IInv, TypeOK
<1> DEFINE Kept == /\ \A t \in Tenant \ apart' : Chained(Seen(table, t)')
                   /\ \A s \in Session, t \in Tenant \ apart' : Chained(InOrder(Sight(s, t)'))
                   /\ \A s \in Session : pc'[s] = "recording" =>
                        previous'[s] = get_previous_hash(s)'
                   /\ \A s \in Session : pc'[s] = "recording" /\ owner'[s] = Shared =>
                        \A t \in Tenant \ apart' : Sight(s, t)' = Sight(s, tenant[s])'
<1>1. ASSUME NEW s \in Session, NEW t \in Tenant, Begin(s, t) PROVE Kept
  <2>1. /\ UNCHANGED <<table, pending, previous, owner, apart>>
        /\ pc[s] = "closed" /\ pc' = [pc EXCEPT ![s] = "open"]
        /\ \A u \in Session : u # s => tenant'[u] = tenant[u]
    BY <1>0, <1>1 DEF Begin, Goto, history
  <2>2. \A u \in Session, v \in Tenant : Sight(u, v)' = Sight(u, v)
    BY <2>1 DEF Sight
  <2>3. \A u \in Session : u # s => Sight(u, tenant[u])' = Sight(u, tenant[u])
    BY <2>1 DEF Sight
  <2>4. \A u \in Session : u # s => get_previous_hash(u)' = get_previous_hash(u)
    BY <2>3, SameSight
  <2>5. \A v \in Tenant : Seen(table, v)' = Seen(table, v)
    BY <2>1
  <2>6. \A u \in Session : pc'[u] = "recording" => u # s /\ pc[u] = "recording"
    BY <1>0, <2>1
  <2>7. QED
    BY <1>0, <2>1, <2>2, <2>3, <2>4, <2>5, <2>6
<1>2. ASSUME NEW s \in Session, NEW d \in Data, NEW o \in Owners, ReadPrevious(s, d, o)
      PROVE  Kept
  <2>1. /\ UNCHANGED <<table, pending, tenant>> /\ apart \subseteq apart'
        /\ previous' = [previous EXCEPT ![s] = get_previous_hash(s)]
        /\ pc[s] = "open" /\ pc' = [pc EXCEPT ![s] = "recording"]
        /\ owner' = [owner EXCEPT ![s] = IF o = "shared" THEN Shared ELSE tenant[s]]
        /\ o = "shared" => apart' = apart \cup NotSeeing(s)
    BY <1>2 DEF ReadPrevious, Goto
  <2>2. \A u \in Session, v \in Tenant : Sight(u, v)' = Sight(u, v)
    BY <2>1 DEF Sight
  <2>3. \A u \in Session : Sight(u, tenant[u])' = Sight(u, tenant[u])
    BY <2>1 DEF Sight
  <2>4. \A u \in Session : get_previous_hash(u)' = get_previous_hash(u)
    BY <2>3, SameSight
  <2>5. \A v \in Tenant : Seen(table, v)' = Seen(table, v)
    BY <2>1
  <2>6. owner'[s] = Shared => \A t \in Tenant \ apart' : Sight(s, t) = Sight(s, tenant[s])
    <3>1. owner'[s] = Shared => o = "shared"
      BY <1>0, <2>1, TenantAssumption
    <3>2. QED
      BY <2>1, <3>1 DEF NotSeeing, Sight
  <2>7. QED
    BY <1>0, <2>1, <2>2, <2>3, <2>4, <2>5, <2>6
<1>3. ASSUME NEW s \in Session, Insert(s) PROVE Kept
  <2> DEFINE x == NewRow(s)
  <2>1. /\ UNCHANGED <<table, tenant, previous, owner, apart>>
        /\ pending' = [pending EXCEPT ![s] = pending[s] \cup {x}]
        /\ pc[s] = "recording" /\ pc' = [pc EXCEPT ![s] = "open"]
    BY <1>3, NewRowType DEF Insert, Goto, IInv, history
  <2>2. /\ x.owner = owner[s] /\ x.id = nextId /\ x.id \in Nat /\ x.data \in Data
        /\ x.chain_hash = compute_hash(get_previous_hash(s), x.data)
    <3>1. TypeOK /\ event[s] \in Data /\ previous[s] = get_previous_hash(s) /\ nextId \in Nat
      BY <1>0, <2>1 DEF IInv, TypeOK
    <3>2. QED
      BY <3>1, NewRowType DEF compute_hash
  <2> HIDE DEF x
  <2>3. \A u \in Session, v \in Tenant : u # s => Sight(u, v)' = Sight(u, v)
    BY <1>0, <2>1 DEF Sight
  <2>4. \A u \in Session : u # s => Sight(u, tenant[u])' = Sight(u, tenant[u])
    BY <1>0, <2>1 DEF Sight
  <2>5. \A u \in Session : u # s => get_previous_hash(u)' = get_previous_hash(u)
    BY <2>4, SameSight
  <2>6. \A v \in Tenant : Seen(table, v)' = Seen(table, v)
    BY <2>1
  <2>7. ASSUME NEW t \in Tenant \ apart PROVE Chained(InOrder(Sight(s, t)'))
    <3> DEFINE V == Sight(s, t)
    <3>1. Sight(s, t)' = IF x.owner \in {t, Shared} THEN V \cup {x} ELSE V
      <4>1. (table \cup pending[s])' = (table \cup pending[s]) \cup {x}
        BY <1>0, <2>1
      <4>2. Sight(s, t)' = Visible((table \cup pending[s]) \cup {x}, t)
        BY <4>1 DEF Sight, Visible
      <4>3. QED
        BY <4>2 DEF Sight, Visible
    <3>2. CASE x.owner \notin {t, Shared}
      BY <1>0, <2>7, <3>1, <3>2
    <3>3. CASE x.owner \in {t, Shared}
      <4>1. V = Sight(s, tenant[s])
        <5>1. owner[s] \in {tenant[s], Shared}
          BY <2>1 DEF OwnersFit
        <5>2. CASE owner[s] = Shared
          BY <1>0, <2>1, <2>7, <5>2
        <5>3. CASE owner[s] # Shared
          BY <2>2, <3>3, <5>1, <5>3
        <5>4. QED
          BY <5>2, <5>3
      <4>2. /\ Sound(V) /\ InOrder(V) \in Seq(V)
            /\ get_previous_hash(s)
                 = IF Len(InOrder(V)) = 0 THEN <<>> ELSE InOrder(V)[Len(InOrder(V))].chain_hash
        BY <4>1, PreviousHash, OrderedRows DEF IInv, Seen, Sight
      <4>3. \A q \in V : q.id < x.id /\ q.data \in Data
        <5>1. V \subseteq AllRows
          BY DEF Sight, Visible, AllRows
        <5>2. \A q \in AllRows : q.id < nextId /\ q.data \in Data
          BY RowIds DEF IInv, IdsAreUnique, Row
        <5> HIDE DEF V
        <5>3. QED
          BY <2>2, <5>1, <5>2
      <4>4. Chained(InOrder(V))
        BY <1>0, <2>7
      <4> HIDE DEF V
      <4>5. InOrder(V \cup {x}) = Append(InOrder(V), x)
        BY <2>2, <4>2, <4>3, OrderedAppend
      <4>6. Chained(Append(InOrder(V), x))
        BY <2>2, <4>2, <4>3, <4>4, ChainedAppend
      <4>7. QED
        BY <3>1, <3>3, <4>5, <4>6
    <3>4. QED
      BY <3>2, <3>3
  <2>8. \A u \in Session : pc'[u] = "recording" => u # s /\ pc[u] = "recording"
    BY <1>0, <2>1
  <2>9. QED
    BY <1>0, <2>1, <2>3, <2>4, <2>5, <2>6, <2>7, <2>8
<1>4. ASSUME NEW s \in Session, Commit(s) PROVE Kept
  <2>1. /\ UNCHANGED <<tenant, previous, owner, apart>> /\ table' = table \cup pending[s]
        /\ pending' = [pending EXCEPT ![s] = {}]
        /\ pc[s] = "open" /\ pc' = [pc EXCEPT ![s] = "closed"]
    BY <1>4 DEF Commit, Goto
  <2>2. \A t \in Tenant : Seen(table, t)' = InOrder(Sight(s, t))
    BY <2>1 DEF Seen, Sight
  <2>3. ASSUME NEW u \in Session, u # s, pc[u] # "closed"
        PROVE  /\ \A r \in pending[s] : r.owner = tenant[s]
               /\ \A r \in pending[u] : r.owner = tenant[u]
               /\ tenant[u] # tenant[s] /\ tenant[u] # Shared /\ tenant[s] # Shared
               /\ pc[u] = "recording" => owner[u] # Shared
    <3>1. tenant[u] # tenant[s] /\ OwnEventsOnly(u) /\ OwnEventsOnly(s)
      BY <2>1, <2>3 DEF TakeTurns
    <3>2. QED
      BY <1>0, <2>1, <3>1, TenantAssumption DEF OwnersFit, OwnEventsOnly
  <2>4. ASSUME NEW u \in Session, u # s, pc[u] # "closed", NEW t \in Tenant
        PROVE  Sight(u, t)' = IF t = tenant[u] THEN Sight(u, t) ELSE Sight(s, t)
    <3>1. (table \cup pending[u])' = table \cup pending[s] \cup pending[u]
      BY <1>0, <2>1, <2>4
    <3>2. Sight(u, t)' = Visible(table \cup pending[s] \cup pending[u], t)
      BY <3>1 DEF Sight, Visible
    <3>3. /\ \A r \in pending[s] : r.owner = tenant[s]
          /\ \A r \in pending[u] : r.owner = tenant[u]
          /\ tenant[u] # tenant[s] /\ tenant[u] # Shared /\ tenant[s] # Shared
      BY <2>3, <2>4
    <3>4. QED
      BY <3>2, <3>3 DEF Sight, Visible
  <2>5. ASSUME NEW u \in Session, u = s \/ pc[u] = "closed", NEW t \in Tenant
        PROVE  Sight(u, t)' = Sight(s, t)
    <3>1. (table \cup pending[u])' = table \cup pending[s]
      BY <1>0, <2>1, <2>5 DEF OwnersFit
    <3>2. QED
      BY <3>1 DEF Sight, Visible
  <2>6. \A u \in Session, t \in Tenant \ apart' : Chained(InOrder(Sight(u, t)'))
    BY <1>0, <2>1, <2>4, <2>5
  <2>7. ASSUME NEW u \in Session, pc'[u] = "recording"
        PROVE  previous'[u] = get_previous_hash(u)' /\ owner'[u] # Shared
    <3>1. u # s /\ pc[u] = "recording"
      BY <1>0, <2>1, <2>7
    <3>2. Sight(u, tenant[u])' = Sight(u, tenant[u])
      BY <1>0, <2>1, <2>4, <3>1 DEF Sight
    <3>3. get_previous_hash(u)' = get_previous_hash(u)
      BY <3>2, SameSight
    <3>4. QED
      BY <1>0, <2>1, <2>3, <3>1, <3>3
  <2>8. QED
    BY <1>0, <2>1, <2>2, <2>6, <2>7
<1>5. ASSUME NEW s \in Session, Rollback(s) PROVE Kept
  <2>1. /\ UNCHANGED <<table, tenant, previous, owner, apart>>
        /\ pending' = [pending EXCEPT ![s] = {}] /\ pc' = [pc EXCEPT ![s] = "closed"]
    BY <1>5 DEF Rollback, history
  <2>2. \A u \in Session, v \in Tenant : u # s => Sight(u, v)' = Sight(u, v)
    BY <1>0, <2>1 DEF Sight
  <2>3. \A v \in Tenant : InOrder(Sight(s, v)') = Seen(table, v)
    <3>1. (table \cup pending[s])' = table
      BY <1>0, <2>1
    <3>2. \A v \in Tenant : Sight(s, v)' = Visible(table, v)
      BY <3>1 DEF Sight, Visible
    <3>3. QED
      BY <3>2 DEF Seen
  <2>4. \A u \in Session : u # s => Sight(u, tenant[u])' = Sight(u, tenant[u])
    BY <1>0, <2>1 DEF Sight
  <2>5. \A u \in Session : u # s => get_previous_hash(u)' = get_previous_hash(u)
    BY <2>4, SameSight
  <2>6. \A v \in Tenant : Seen(table, v)' = Seen(table, v)
    BY <2>1
  <2>7. \A u \in Session : pc'[u] = "recording" => u # s /\ pc[u] = "recording"
    BY <1>0, <2>1
  <2>8. QED
    BY <1>0, <2>1, <2>2, <2>3, <2>4, <2>5, <2>6, <2>7
<1>6. CASE \E r \in table : Delete(r) \/ \E d \in Data, o \in RowOwner : Edit(r, d, o)
  BY <1>6 DEF Edit, Delete
<1>7. ASSUME UNCHANGED vars PROVE Kept
  <2>1. UNCHANGED <<table, pending, tenant, previous, pc, owner, apart>>
    BY <1>7 DEF vars, history
  <2>2. \A u \in Session, v \in Tenant : Sight(u, v)' = Sight(u, v)
    BY <2>1 DEF Sight
  <2>3. \A u \in Session : Sight(u, tenant[u])' = Sight(u, tenant[u])
    BY <2>1 DEF Sight
  <2>4. \A u \in Session : get_previous_hash(u)' = get_previous_hash(u)
    BY <2>3, SameSight
  <2>5. \A v \in Tenant : Seen(table, v)' = Seen(table, v)
    BY <2>1
  <2>6. QED
    BY <1>0, <2>1, <2>2, <2>3, <2>4, <2>5
<1>8. QED
  BY <1>1, <1>2, <1>3, <1>4, <1>5, <1>6, <1>7 DEF Next

(* A chained list verifies, and so does the part of it that list_all gives. *)
LEMMA ChainedVerifies ==
  ASSUME IInv, ChainsHold
  PROVE  ChainVerifies
<1> SUFFICES ASSUME NEW t \in Tenant, Chained(Seen(table, t))
             PROVE  verify_chain_integrity(list_all(t))
  BY DEF ChainVerifies, ChainsHold
<1> DEFINE rows == list_all(t)
           all  == Seen(table, t)
<1>1. /\ all \in Seq(Visible(table, t)) /\ Len(rows) \in Nat /\ Len(rows) =< Len(all)
      /\ \A n \in 1 .. Len(rows) : rows[n] = all[n]
      /\ rows \in Seq(Visible(table, t))
  BY ListedRows
<1>2. \A r \in Visible(table, t) : r.data \in Data
  BY DEF Visible, IInv, TypeOK, Row
<1> HIDE DEF rows, all
<1>3. Chained(rows)
  <2>1. \A n \in 1 .. Len(rows) : HashedUpTo(rows, n) = HashedUpTo(all, n)
    BY <1>1 DEF HashedUpTo
  <2>2. QED
    BY <1>1, <2>1 DEF Chained, all
<1>4. QED
  BY <1>1, <1>2, <1>3, VerifiesMeansChained DEF rows

(* Whatever sessions do one after the other, for each tenant and for shared *)
(* events, with several events in a transaction, with rollbacks and with    *)
(* other tenants' sessions in between, what list_all returns verifies for   *)
(* every tenant that is not apart, until somebody edits the table.          *)
THEOREM ChainsVerify == Spec /\ []TakeTurns => []ChainVerifies
<1>1. Init => OwnersFit /\ ChainsHold
  <2> SUFFICES ASSUME Init PROVE OwnersFit /\ ChainsHold
    OBVIOUS
  <2>1. OwnersFit
    BY DEF Init, OwnersFit
  <2>2. Chained(InOrder({}))
    <3>1. Sound({})
      BY FS_EmptySet DEF Sound
    <3>2. Len(InOrder({})) = 0
      BY <3>1, FS_EmptySet, OrderedRows
    <3>3. QED
      BY <3>2 DEF Chained
  <2>3. /\ \A t \in Tenant : Visible(table, t) = {}
        /\ \A s \in Session, t \in Tenant : Sight(s, t) = {}
        /\ \A s \in Session : pc[s] = "closed"
    BY DEF Init, Visible, Sight
  <2>4. QED
    BY <2>1, <2>2, <2>3 DEF ChainsHold, Seen
<1>2. IInv /\ OwnersFit /\ ChainsHold /\ TakeTurns /\ [Next]_vars => (OwnersFit /\ ChainsHold)'
  BY OwnersStep, ChainsStep
<1>3. IInv /\ ChainsHold => ChainVerifies
  BY ChainedVerifies
<1>4. QED
  BY <1>1, <1>2, <1>3, Invariant, PTL DEF Spec

(* In particular when there is one session.                                 *)
COROLLARY OneSessionVerifies ==
  ASSUME \A s, u \in Session : s = u
  PROVE  Spec => []ChainVerifies
<1>1. TakeTurns
  BY DEF TakeTurns
<1>2. QED
  BY <1>1, ChainsVerify, PTL
=============================================================================
