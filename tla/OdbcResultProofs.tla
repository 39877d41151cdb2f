-------------------------- MODULE OdbcResultProofs --------------------------
(***************************************************************************)
(* Proofs about OdbcResult, for every set of queries and of NULL cells,    *)
(* every length of texts, every buffer and every bound.                    *)
(***************************************************************************)
EXTENDS OdbcResult, WellFoundedInduction, TLAPS

-----------------------------------------------------------------------------
(* The inductive invariant.                                                *)

Cells == {Null} \cup (Nat \X Nat)
Owners == {None} \cup (Nat \X Nat)
ColumnOf(n) == [bound : BOOLEAN, data : [1 .. n -> Cells], null : [1 .. n -> BOOLEAN]]
ResultOf(n, m) ==
  [id : Nat, size : {n}, rowCount : Nat, position : {p \in Int : p < n}, buffers : Nat,
   cols : [1 .. m -> ColumnOf(n)]]

HandleInv ==
  /\ stmt = "prepared" => query \in Queries
  /\ made \in Nat /\ set \in Nat
  /\ binding \in [Columns -> [owner : Owners, data : BOOLEAN]]

\* There is a result and it has a set of rows to be moved over.
Live == newest # None /\ set > 0
Width == Len(KindsOf(set))

\* The driver writes into the result's buffers, and each column is as the driver has it.
LiveInv ==
  Live =>
    /\ query \in Queries /\ set \in 1 .. Len(query.sets) /\ start \in 0 .. N + 1
    /\ arraySize \in Nat \ {0} /\ newest \in ResultOf(arraySize, Width)
    /\ fetchedPtr = newest.id /\ newest.buffers = set
    /\ \A c \in 1 .. Width : /\ binding[c].owner = <<newest.id, set>>
                             /\ binding[c].data = newest.cols[c].bound

\* The buffers hold the rows from start on; of an unbound column at most the NULL that
\* its read found in the only row.
BuffersHold ==
  \A c \in 1 .. Width : \A i \in 1 .. newest.rowCount :
    LET col == newest.cols[c]
        null == IsNull(set, start + i - 1, c)
    IN  /\ col.bound => /\ col.null[i] <=> null
                        /\ ~null => col.data[i] = Value(set, start + i - 1, c)
        /\ ~col.bound /\ arraySize = 1 /\ col.null[i] => null

Capped(row) == IF row > N THEN N + 1 ELSE row

\* Where the client knows its row, cursor, rowset and position agree with it.
Before == start = 0 /\ expected = 0 /\ ~answer /\ (newest.rowCount = 0 \/ arraySize = 1)
After  == start = N + 1 /\ expected = N + 1 /\ ~answer /\ newest.rowCount = 0
On ==
  /\ start \in 1 .. N
  /\ newest.rowCount = IF N - start + 1 < arraySize THEN N - start + 1 ELSE arraySize
  /\ expected = Capped(start + newest.position)
  /\ answer <=> newest.position < newest.rowCount
  /\ BuffersHold
CursorInv ==
  Live /\ Width > 0 /\ known => newest.position >= 0 /\ (Before \/ After \/ On)

\* What was read last is of that row.
ReadInv ==
  Live /\ Width > 0 /\ known /\ answer /\ read # None =>
    \/ read.value = Value(set, expected, read.col)
    \/ ~read.bound /\ arraySize > 1
    \/ /\ ~read.bound /\ read.value = Empty
       /\ read.again \/ (~read.fallback /\ IsNull(set, expected, read.col))

\* A batch with its indicators.
Params ==
  [values : Batches, ind : UNION {[1 .. n -> {"length", Null}] : n \in BatchSizes},
   isString : BOOLEAN, bySentry : BOOLEAN, passed : BOOLEAN, freed : BOOLEAN]
ParamInv ==
  param # None =>
    /\ param \in Params
    /\ \A i \in DOMAIN param.values :
         param.ind[i] = Null <=> param.values[i] = Null /\ (param.isString \/ ~param.bySentry)
    /\ param.passed <=> ~param.isString \/ Len(param.values) > 1

IInv == HandleInv /\ LiveInv /\ CursorInv /\ ReadInv /\ ParamInv

-----------------------------------------------------------------------------
(* The data.                                                               *)

\* A set of naturals has a least element.
LEMMA LeastElement ==
  ASSUME NEW T \in SUBSET Nat, T # {}
  PROVE  \E x \in T : \A y \in T : x <= y
<1> DEFINE R == OpToRel(<, Nat)
<1>1. IsWellFoundedOn(R, Nat)
  BY NatLessThanWellFounded
<1>2. \A x, y \in Nat : <<x, y>> \in R <=> x < y
  BY DEF OpToRel
<1> HIDE DEF R
<1>3. \E x \in T : \A y \in T : ~ (<<y, x>> \in R)
  BY <1>1, WFMin
<1>4. \A x, y \in Nat : ~ (<<y, x>> \in R) => x <= y
  BY <1>2
<1> QED
  BY <1>3, <1>4

\* f is the loop over the rest of a text of that length.
IsLoop(f, length, noTotal) ==
  f = [left \in 0 .. length |->
         IF left <= BufferSize - 1
           THEN Appended(left, FALSE)
           ELSE Appended(left, noTotal) + f[left - (BufferSize - 1)]]

\* The loop over SQLGetData collects a whole text, whatever the size of the buffer and
\* whether the driver tells the length of the rest (get_ref_impl).
LEMMA WholeText ==
  ASSUME NEW length \in Nat, NEW noTotal \in BOOLEAN
  PROVE  Collected(length, noTotal) = length
<1> DEFINE id == [left \in 0 .. length |-> left]
           f == CHOOSE g : IsLoop(g, length, noTotal)
           bad == {left \in 0 .. length : f[left] # left}
<1>1. BufferSize \in Nat /\ BufferSize > 1
  BY OdbcAssumption
<1>2. \A left \in 0 .. length :
        /\ left <= BufferSize - 1 => Appended(left, FALSE) = left
        /\ ~ (left <= BufferSize - 1) =>
             /\ Appended(left, noTotal) = BufferSize - 1
             /\ left - (BufferSize - 1) \in 0 .. length /\ left - (BufferSize - 1) < left
  BY <1>1 DEF Appended
<1>3. IsLoop(id, length, noTotal)
  <2>1. \A left \in 0 .. length :
          left = IF left <= BufferSize - 1 THEN Appended(left, FALSE)
                 ELSE Appended(left, noTotal) + id[left - (BufferSize - 1)]
    <3> TAKE left \in 0 .. length
    <3>1. CASE left <= BufferSize - 1
      BY <1>2, <3>1
    <3>2. CASE ~ (left <= BufferSize - 1)
      <4>1. /\ Appended(left, noTotal) = BufferSize - 1
            /\ id[left - (BufferSize - 1)] = left - (BufferSize - 1)
        BY <1>2, <3>2
      <4> HIDE DEF id
      <4> QED
        BY <1>1, <3>2, <4>1
    <3> QED
      BY <3>1, <3>2
  <2> QED
    BY <2>1 DEF IsLoop
<1>4. IsLoop(f, length, noTotal)
  BY <1>3
<1>5. Collected(length, noTotal) = f[length]
  BY DEF Collected, IsLoop
<1> HIDE DEF f
<1>6. \A left \in 0 .. length :
        f[left] = IF left <= BufferSize - 1 THEN Appended(left, FALSE)
                  ELSE Appended(left, noTotal) + f[left - (BufferSize - 1)]
  BY <1>4 DEF IsLoop
<1>7. bad = {}
  <2>1. SUFFICES ASSUME bad # {} PROVE FALSE
    OBVIOUS
  <2>2. bad \in SUBSET Nat
    OBVIOUS
  <2>3. PICK left \in bad : \A k \in bad : left <= k
    <3> HIDE DEF bad
    <3> QED
      BY <2>1, <2>2, LeastElement
  <2>4. ~ (left <= BufferSize - 1)
    BY <1>2, <1>6, <2>3
  <2> DEFINE rest == left - (BufferSize - 1)
  <2>5. /\ rest \in 0 .. length /\ rest < left /\ left \in 0 .. length
        /\ Appended(left, noTotal) = BufferSize - 1
    BY <1>2, <2>3, <2>4
  <2>6. f[rest] = rest
    <3> HIDE DEF rest
    <3> QED
      BY <1>1, <2>3, <2>5
  <2>7. f[left] = (BufferSize - 1) + f[rest]
    BY <1>6, <2>4, <2>5
  <2>8. f[left] = left
    BY <1>1, <2>5, <2>6, <2>7
  <2> QED
    BY <2>3, <2>8
<1> QED
  BY <1>5, <1>7

\* The result sets of a query.
LEMMA SetType ==
  ASSUME NEW q \in Queries
  PROVE  /\ q.param \in BOOLEAN /\ Len(q.sets) \in Nat \ {0}
         /\ DOMAIN q.sets = 1 .. Len(q.sets)
         /\ \A s \in 1 .. Len(q.sets) :
              /\ q.sets[s].cols \in Seq(Kinds) /\ Len(q.sets[s].cols) \in 0 .. MaxColumns
              /\ DOMAIN q.sets[s].cols = 1 .. Len(q.sets[s].cols)
              /\ q.sets[s].rows \in Nat
              /\ \A r \in 1 .. q.sets[s].rows : LongLength[r] \in Nat
<1>1. /\ q.sets \in Seq([cols : Seq(Kinds), rows : Nat]) /\ q.sets # <<>> /\ MaxColumns \in Nat
      /\ q.param \in BOOLEAN
      /\ \A s \in DOMAIN q.sets : /\ Len(q.sets[s].cols) <= MaxColumns
                                  /\ \A r \in 1 .. q.sets[s].rows : LongLength[r] \in Nat
  BY OdbcAssumption
<1>2. Len(q.sets) \in Nat \ {0} /\ DOMAIN q.sets = 1 .. Len(q.sets)
  BY <1>1
<1>3. \A s \in 1 .. Len(q.sets) : q.sets[s] \in [cols : Seq(Kinds), rows : Nat]
  <2> DEFINE S == [cols : Seq(Kinds), rows : Nat]
  <2>1. q.sets \in Seq(S)
    BY <1>1
  <2> HIDE DEF S
  <2>2. \A s \in 1 .. Len(q.sets) : q.sets[s] \in S
    BY <2>1
  <2> QED
    BY <2>2 DEF S
<1>4. ASSUME NEW s \in 1 .. Len(q.sets)
      PROVE  /\ q.sets[s].cols \in Seq(Kinds) /\ Len(q.sets[s].cols) \in 0 .. MaxColumns
             /\ DOMAIN q.sets[s].cols = 1 .. Len(q.sets[s].cols)
             /\ q.sets[s].rows \in Nat
  <2>1. q.sets[s].cols \in Seq(Kinds) /\ q.sets[s].rows \in Nat
    BY <1>3
  <2>2. Len(q.sets[s].cols) <= MaxColumns
    BY <1>1, <1>2
  <2> QED
    BY <1>1, <2>1, <2>2
<1> QED
  BY <1>1, <1>2, <1>4

\* What the driver has in a cell.
LEMMA ValueType ==
  ASSUME query \in Queries, set \in 1 .. Len(query.sets),
         NEW r \in 1 .. N, NEW c \in 1 .. Width
  PROVE  /\ LengthOf(set, r, c) \in Nat /\ Value(set, r, c) \in Cells
         /\ IsNull(set, r, c) \in BOOLEAN
         /\ IsNull(set, r, c) => Value(set, r, c) = Null
         /\ ~IsNull(set, r, c) => Value(set, r, c) = <<r, LengthOf(set, r, c)>>
<1>1. LongLength[r] \in Nat /\ r \in Nat
  <2>1. \A i \in 1 .. query.sets[set].rows : LongLength[i] \in Nat
    BY SetType
  <2>2. N = query.sets[set].rows /\ N \in Nat
    BY SetType DEF RowsIn, N
  <2> QED
    BY <2>1, <2>2
<1>2. LengthOf(set, r, c) \in Nat
  BY <1>1 DEF LengthOf
<1> QED
  BY <1>1, <1>2 DEF Value, IsNull, Cells

-----------------------------------------------------------------------------
(* Fetching.                                                               *)

\* The facts of a result and its set that the steps rest on.
LEMMA LiveFacts ==
  ASSUME LiveInv, Live
  PROVE  /\ query \in Queries /\ set \in 1 .. Len(query.sets) /\ set \in Nat
         /\ N \in Nat /\ Width \in 0 .. MaxColumns /\ Width \in Nat /\ start \in 0 .. N + 1
         /\ KindsOf(set) \in Seq(Kinds) /\ DOMAIN KindsOf(set) = 1 .. Width
         /\ (KindsOf(set) # <<>> <=> Width > 0)
         /\ arraySize \in Nat \ {0} /\ newest \in ResultOf(arraySize, Width)
         /\ newest.size = arraySize /\ DOMAIN newest.cols = 1 .. Width
         /\ newest.rowCount \in Nat /\ newest.position \in Int /\ newest.position < arraySize
<1>1. /\ query \in Queries /\ set \in 1 .. Len(query.sets) /\ start \in 0 .. N + 1
      /\ arraySize \in Nat \ {0} /\ newest \in ResultOf(arraySize, Width)
  BY DEF LiveInv
<1>2. /\ Len(query.sets) \in Nat /\ KindsOf(set) \in Seq(Kinds) /\ Width \in 0 .. MaxColumns
      /\ DOMAIN KindsOf(set) = 1 .. Width /\ N \in Nat
  BY <1>1, SetType DEF KindsOf, RowsIn, N, Width
<1>3. Width \in Nat /\ set \in Nat /\ (KindsOf(set) # <<>> <=> Width > 0)
  BY <1>1, <1>2, OdbcAssumption DEF Width
<1>4. /\ newest.size = arraySize /\ DOMAIN newest.cols = 1 .. Width
      /\ newest.rowCount \in Nat /\ newest.position \in Int /\ newest.position < arraySize
  BY <1>1 DEF ResultOf
<1> QED
  BY <1>1, <1>2, <1>3, <1>4

\* A column holds the cells of a number of rows from r on.
HoldsRows(col, c, r, count) ==
  \A i \in 1 .. count :
    /\ col.bound => /\ col.null[i] <=> IsNull(set, r + i - 1, c)
                    /\ ~IsNull(set, r + i - 1, c) => col.data[i] = Value(set, r + i - 1, c)
    /\ ~col.bound /\ col.null[i] => IsNull(set, r + i - 1, c)

\* What a fetch leaves in a column.
LEMMA FilledColumn ==
  ASSUME LiveInv, Live, NEW c \in 1 .. Width, NEW r \in Nat, NEW count \in 0 .. arraySize,
         \A i \in 1 .. count : r + i - 1 \in 1 .. N, NEW writes \in BOOLEAN,
         NEW col, col = Filled(c, r, count, writes)
  PROVE  /\ col \in ColumnOf(arraySize) /\ col.bound = newest.cols[c].bound
         /\ HoldsRows(col, c, r, count)
<1> DEFINE old == newest.cols[c]
           size == arraySize
           d == [i \in 1 .. size |-> IF binding[c].data /\ i <= count /\ ~IsNull(set, r + i - 1, c)
                                       THEN Value(set, r + i - 1, c) ELSE old.data[i]]
           u == [i \in 1 .. size |-> IF i <= count /\ (binding[c].data \/ writes)
                                       THEN IsNull(set, r + i - 1, c) ELSE FALSE]
<1>1. /\ old \in ColumnOf(size) /\ size \in Nat
      /\ binding[c].owner = <<newest.id, set>> /\ binding[c].data = old.bound
  <2>1. newest \in ResultOf(arraySize, Width)
    BY LiveFacts
  <2> QED
    BY <2>1, LiveFacts DEF LiveInv, ResultOf
<1>2. /\ old.bound \in BOOLEAN /\ old.data \in [1 .. size -> Cells]
      /\ old.null \in [1 .. size -> BOOLEAN]
  BY <1>1 DEF ColumnOf
<1>3. col = [bound |-> old.bound, data |-> d, null |-> u]
  <2>1. DOMAIN old.data = 1 .. size /\ DOMAIN old.null = 1 .. size
    BY <1>2
  <2>2. old = [bound |-> old.bound, data |-> old.data, null |-> old.null]
    BY <1>1 DEF ColumnOf
  <2> QED
    BY <1>1, <2>1, <2>2 DEF Filled, before_move
<1>4. \A i \in 1 .. count : /\ i \in 1 .. size
                            /\ Value(set, r + i - 1, c) \in Cells
                            /\ IsNull(set, r + i - 1, c) \in BOOLEAN
  BY <1>1, LiveFacts, ValueType
<1>5. d \in [1 .. size -> Cells] /\ u \in [1 .. size -> BOOLEAN]
  <2>1. \A i \in 1 .. size : i <= count => i \in 1 .. count
    BY <1>1
  <2>2. \A i \in 1 .. size : old.data[i] \in Cells
    BY <1>2
  <2> QED
    BY <1>4, <2>1, <2>2
<1>6. \A i \in 1 .. count :
        /\ binding[c].data => (u[i] <=> IsNull(set, r + i - 1, c))
        /\ binding[c].data /\ ~IsNull(set, r + i - 1, c) => d[i] = Value(set, r + i - 1, c)
        /\ u[i] => IsNull(set, r + i - 1, c)
  BY <1>1, <1>4
<1> HIDE DEF d, u
<1>7. col.bound = old.bound /\ col.data = d /\ col.null = u /\ col \in ColumnOf(size)
  BY <1>2, <1>3, <1>5 DEF ColumnOf
<1> QED
  BY <1>1, <1>6, <1>7 DEF HoldsRows

\* The rowset that starts at row r.
RowsetSize(r) == IF r \notin 1 .. N THEN 0 ELSE IF N - r + 1 < arraySize THEN N - r + 1 ELSE arraySize

Fetched(r) ==
  /\ start' = r /\ (answer' <=> r \in 1 .. N)
  /\ newest' \in ResultOf(arraySize, Width)
  /\ newest'.id = newest.id /\ newest'.buffers = newest.buffers
  /\ newest'.position = 0 /\ newest'.rowCount = RowsetSize(r)
  /\ \A c \in 1 .. Width : newest'.cols[c].bound = newest.cols[c].bound
  /\ \A c \in 1 .. Width : HoldsRows(newest'.cols[c], c, r, newest'.rowCount)

\* A fetch leaves its rowset in the result's buffers.
LEMMA FetchFacts ==
  ASSUME LiveInv, Moves, NEW orientation, NEW k, fetch(orientation, k),
         Scrolled(orientation, k) \in 0 .. N + 1
  PROVE  Fetched(Scrolled(orientation, k))
<1> DEFINE r == Scrolled(orientation, k)
           count == RowsetSize(r)
<1>1. Live
  BY DEF Moves, Fetchable, Live
<1>2. /\ N \in Nat /\ arraySize \in Nat \ {0} /\ newest \in ResultOf(arraySize, Width)
      /\ DOMAIN newest.cols = 1 .. Width /\ fetchedPtr = newest.id
  BY <1>1, LiveFacts DEF LiveInv
<1>3. start' = r /\ (answer' <=> r \in 1 .. N)
  BY DEF fetch
<1>4. PICK writes \in BOOLEAN :
        newest' = [newest EXCEPT !.rowCount = count, !.position = 0,
                                 !.cols = [c \in DOMAIN @ |-> Filled(c, r, count, writes)]]
  <2>1. PICK writes \in BOOLEAN :
          newest' = [newest EXCEPT
             !.rowCount = IF fetchedPtr = newest.id THEN
                            (IF ~(r \in 1 .. N) THEN 0
                             ELSE IF N - r + 1 < arraySize THEN N - r + 1 ELSE arraySize) ELSE @,
             !.position = 0,
             !.cols = [c \in DOMAIN @ |->
                         Filled(c, r, IF ~(r \in 1 .. N) THEN 0
                                      ELSE IF N - r + 1 < arraySize THEN N - r + 1 ELSE arraySize,
                                writes)]]
    BY DEF fetch
  <2> HIDE DEF r
  <2> QED
    BY <1>2, <2>1 DEF RowsetSize
<1> DEFINE cols == [c \in 1 .. Width |-> Filled(c, r, count, writes)]
<1>5. newest' = [id |-> newest.id, size |-> newest.size, rowCount |-> count, position |-> 0,
                 buffers |-> newest.buffers, cols |-> cols]
  <2> HIDE DEF r, count
  <2> QED
    BY <1>2, <1>4 DEF ResultOf
<1>6. r \in Nat /\ count \in 0 .. arraySize /\ \A i \in 1 .. count : r + i - 1 \in 1 .. N
  <2> HIDE DEF r
  <2> QED
    BY <1>2 DEF r, RowsetSize
<1> HIDE DEF r, count
<1>7. ASSUME NEW c \in 1 .. Width, NEW col, col = cols[c]
      PROVE
        /\ col \in ColumnOf(arraySize) /\ col.bound = newest.cols[c].bound
        /\ HoldsRows(col, c, r, count)
  <2>1. col = Filled(c, r, count, writes)
    BY <1>7
  <2> HIDE DEF cols
  <2> QED
    BY <1>1, <1>6, <1>7, <2>1, FilledColumn
<1>8. cols \in [1 .. Width -> ColumnOf(arraySize)]
  BY <1>7
<1> HIDE DEF cols
<1>9. newest' \in ResultOf(arraySize, Width)
  BY <1>2, <1>5, <1>6, <1>8 DEF ResultOf
<1>10. newest'.rowCount = count /\ newest'.cols = cols /\ newest'.position = 0
       /\ newest'.id = newest.id /\ newest'.buffers = newest.buffers
  BY <1>5
<1> QED
  BY <1>3, <1>7, <1>9, <1>10 DEF Fetched, r, count

\* A call on the rows of a set leaves the data of the driver alone.
LEMMA SameSet ==
  ASSUME UNCHANGED <<query, set>>
  PROVE  /\ N' = N /\ Width' = Width /\ KindsOf(set)' = KindsOf(set)
         /\ \A r, c : IsNull(set, r, c)' = IsNull(set, r, c) /\ Value(set, r, c)' = Value(set, r, c)
<1>1. query' = query /\ set' = set
  OBVIOUS
<1>2. N' = N /\ Width' = Width /\ KindsOf(set)' = KindsOf(set)
  BY <1>1 DEF N, Width, KindsOf, RowsIn
<1> QED
  BY <1>1, <1>2 DEF IsNull, Value, LengthOf, KindsOf

LEMMA LiveAfterFetch ==
  ASSUME HandleInv, LiveInv, Moves, MoveFrame, NEW r \in 0 .. N + 1, Fetched(r)
  PROVE  HandleInv' /\ LiveInv'
<1>1. Live
  BY DEF Moves, Fetchable, Live
<1>2. UNCHANGED <<stmt, query, set, arraySize, fetchedPtr, binding, made>>
  BY DEF MoveFrame
<1>3. HandleInv'
  BY <1>2 DEF HandleInv
<1>4. N' = N /\ Width' = Width
  BY <1>2, SameSet
<1>5. /\ start' \in 0 .. N + 1 /\ newest' \in ResultOf(arraySize, Width)
      /\ newest'.id = newest.id /\ newest'.buffers = newest.buffers
      /\ \A c \in 1 .. Width : newest'.cols[c].bound = newest.cols[c].bound
  BY DEF Fetched
<1>6. LiveInv'
  BY <1>1, <1>2, <1>4, <1>5 DEF LiveInv
<1> QED
  BY <1>3, <1>6

LEMMA LiveAfterStay ==
  ASSUME HandleInv, LiveInv, Moves, MoveFrame, NEW p \in Int, p < arraySize, Stays(p)
  PROVE  HandleInv' /\ LiveInv' /\ newest' = [newest EXCEPT !.position = p]
<1>1. Live
  BY DEF Moves, Fetchable, Live
<1>2. UNCHANGED <<stmt, query, set, arraySize, fetchedPtr, binding, made, start>>
  BY DEF MoveFrame, Stays
<1>3. HandleInv'
  BY <1>2 DEF HandleInv
<1>4. N' = N /\ Width' = Width
  BY <1>2, SameSet
<1>5. /\ newest' = [newest EXCEPT !.position = p] /\ newest \in ResultOf(arraySize, Width)
  BY <1>1, LiveFacts DEF Stays
<1>6. newest' \in ResultOf(arraySize, Width) /\ newest'.id = newest.id
      /\ newest'.buffers = newest.buffers /\ newest'.cols = newest.cols
  BY <1>5 DEF ResultOf
<1>7. LiveInv'
  BY <1>1, <1>2, <1>4, <1>6 DEF LiveInv
<1> QED
  BY <1>3, <1>5, <1>7

\* A fetch puts the client on the first row of its rowset.
LEMMA CursorAfterFetch ==
  ASSUME HandleInv, LiveInv, Moves, MoveFrame, NEW r \in 0 .. N + 1, Fetched(r),
         known' => expected' = r
  PROVE  CursorInv'
<1>1. Live
  BY DEF Moves, Fetchable, Live
<1>2. UNCHANGED <<query, set, arraySize>>
  BY DEF MoveFrame
<1>3. /\ N' = N /\ Width' = Width /\ N \in Nat /\ arraySize \in Nat \ {0}
      /\ \A s, c : IsNull(set, s, c)' = IsNull(set, s, c) /\ Value(set, s, c)' = Value(set, s, c)
  BY <1>1, <1>2, SameSet, LiveFacts
<1>4. /\ start' = r /\ (answer' <=> r \in 1 .. N)
      /\ newest'.position = 0 /\ newest'.rowCount = RowsetSize(r)
      /\ \A c \in 1 .. Width : HoldsRows(newest'.cols[c], c, r, newest'.rowCount)
  BY DEF Fetched
<1>5. SUFFICES ASSUME expected' = r PROVE Before' \/ After' \/ On'
  BY <1>4 DEF CursorInv
<1>6. CASE r = 0
  <2>1. newest'.rowCount = 0 /\ ~answer'
    BY <1>3, <1>4, <1>6 DEF RowsetSize
  <2> QED
    BY <1>4, <1>5, <1>6, <2>1 DEF Before
<1>7. CASE r = N + 1
  <2>1. newest'.rowCount = 0 /\ ~answer'
    BY <1>3, <1>4, <1>7 DEF RowsetSize
  <2> QED
    BY <1>3, <1>4, <1>5, <1>7, <2>1 DEF After
<1>8. CASE r \in 1 .. N
  <2>1. newest'.rowCount = IF N - r + 1 < arraySize THEN N - r + 1 ELSE arraySize
    BY <1>4, <1>8 DEF RowsetSize
  <2>2. newest'.rowCount > 0 /\ answer'
    BY <1>3, <1>4, <1>8, <2>1
  <2>3. BuffersHold'
    <3>1. \A c \in 1 .. Width : \A i \in 1 .. newest'.rowCount :
            /\ newest'.cols[c].bound =>
                 /\ newest'.cols[c].null[i] <=> IsNull(set, r + i - 1, c)
                 /\ ~IsNull(set, r + i - 1, c) =>
                      newest'.cols[c].data[i] = Value(set, r + i - 1, c)
            /\ ~newest'.cols[c].bound /\ newest'.cols[c].null[i] => IsNull(set, r + i - 1, c)
      BY <1>4 DEF HoldsRows
    <3>2. \A s, c : IsNull(set', s, c) = IsNull(set, s, c)
      BY <1>2
    <3> QED
      BY <1>2, <1>3, <1>4, <3>1 DEF BuffersHold
  <2>4. Capped(start + newest.position)' = r
    BY <1>3, <1>4, <1>8 DEF Capped
  <2>5. On'
    BY <1>2, <1>3, <1>4, <1>5, <1>8, <2>1, <2>2, <2>3, <2>4 DEF On
  <2> QED
    BY <2>5
<1>9. r = 0 \/ r = N + 1 \/ r \in 1 .. N
  BY <1>3
<1> QED
  BY <1>6, <1>7, <1>8, <1>9

-----------------------------------------------------------------------------
(* Moving.                                                                 *)

AtLeastZero(row) == IF row < 0 THEN 0 ELSE row

\* Where the driver's cursor goes.
LEMMA ScrolledRows ==
  ASSUME LiveInv, Live
  PROVE  /\ Scrolled("first", 0) \in 0 .. N + 1 /\ Scrolled("first", 0) = Capped(1)
         /\ Scrolled("last", 0) \in 0 .. N + 1
         /\ arraySize = 1 => Scrolled("last", 0) = IF N = 0 THEN 1 ELSE N
         /\ Scrolled("next", 0) \in 0 .. N + 1
         /\ Scrolled("next", 0) = Capped(IF start = 0 THEN 1 ELSE start + arraySize)
         /\ Scrolled("prior", 0) \in 0 .. N + 1
         /\ arraySize = 1 => Scrolled("prior", 0) = IF start = 0 THEN 0 ELSE start - 1
         /\ \A k \in -2 .. N + 1 :
              /\ Scrolled("absolute", k) \in 0 .. N + 1
              /\ k >= 0 => Scrolled("absolute", k) = k
              /\ k < 0 /\ arraySize = 1 => Scrolled("absolute", k) = AtLeastZero(N + 1 + k)
         /\ \A k \in -2 .. 2 :
              /\ Scrolled("relative", k) \in 0 .. N + 1
              /\ arraySize = 1 => Scrolled("relative", k) = Capped(AtLeastZero(start + k))
<1>1. N = RowsIn(set) /\ N \in Nat /\ arraySize \in Nat \ {0} /\ start \in 0 .. N + 1
  BY LiveFacts DEF N
<1>2. Scrolled("first", 0) \in 0 .. N + 1 /\ Scrolled("first", 0) = Capped(1)
  BY <1>1 DEF Scrolled, Capped
<1>3. /\ Scrolled("last", 0) \in 0 .. N + 1
      /\ arraySize = 1 => Scrolled("last", 0) = IF N = 0 THEN 1 ELSE N
  <2>1. Scrolled("last", 0) = IF N = 0 THEN 1 ELSE LastStart(N)
    BY <1>1 DEF Scrolled
  <2> QED
    BY <1>1, <2>1 DEF LastStart
<1>4. /\ Scrolled("next", 0) \in 0 .. N + 1
      /\ Scrolled("next", 0) = Capped(IF start = 0 THEN 1 ELSE start + arraySize)
  <2>1. Scrolled("next", 0) = Capped(IF start = 0 THEN 1 ELSE start + arraySize)
    BY <1>1 DEF Scrolled, Capped
  <2> QED
    BY <1>1, <2>1 DEF Capped
<1>5. /\ Scrolled("prior", 0) \in 0 .. N + 1
      /\ arraySize = 1 => Scrolled("prior", 0) = IF start = 0 THEN 0 ELSE start - 1
  <2>1. Scrolled("prior", 0) = IF start = N + 1 THEN IF N = 0 THEN 0 ELSE LastStart(N)
                               ELSE IF start <= 1 THEN 0
                               ELSE IF start <= arraySize THEN 1
                               ELSE start - arraySize
    BY <1>1 DEF Scrolled
  <2> QED
    BY <1>1, <2>1 DEF LastStart
<1>6. ASSUME NEW k \in -2 .. N + 1
      PROVE  /\ Scrolled("absolute", k) \in 0 .. N + 1
             /\ k >= 0 => Scrolled("absolute", k) = k
             /\ k < 0 /\ arraySize = 1 => Scrolled("absolute", k) = AtLeastZero(N + 1 + k)
  <2>1. Scrolled("absolute", k) = IF k >= 0 THEN IF k > N THEN N + 1 ELSE k
                                  ELSE IF -k <= N THEN N + 1 + k
                                  ELSE IF N > 0 /\ -k <= arraySize THEN 1 ELSE 0
    BY <1>1 DEF Scrolled
  <2>2. CASE k >= 0
    BY <1>1, <2>1, <2>2
  <2>3. CASE k = -1
    BY <1>1, <2>1, <2>3 DEF AtLeastZero
  <2>4. CASE k = -2
    BY <1>1, <2>1, <2>4 DEF AtLeastZero
  <2>5. k >= 0 \/ k = -1 \/ k = -2
    BY <1>1
  <2> QED
    BY <2>2, <2>3, <2>4, <2>5
<1>7. ASSUME NEW k \in -2 .. 2
      PROVE  /\ Scrolled("relative", k) \in 0 .. N + 1
             /\ arraySize = 1 => Scrolled("relative", k) = Capped(AtLeastZero(start + k))
  <2>1. Scrolled("relative", k) = IF start + k >= 1
                                    THEN IF start + k > N THEN N + 1 ELSE start + k
                                  ELSE IF start > 1 THEN IF N > 0 /\ -k <= arraySize THEN 1 ELSE 0
                                  ELSE 0
    BY <1>1 DEF Scrolled
  <2>2. CASE start + k >= 1
    BY <1>1, <2>1, <2>2 DEF Capped, AtLeastZero
  <2>3. CASE ~(start + k >= 1)
    <3>1. Capped(AtLeastZero(start + k)) = 0
      BY <1>1, <2>3 DEF Capped, AtLeastZero
    <3>2. arraySize = 1 => ~(start > 1 /\ -k <= arraySize)
      BY <1>1, <2>3
    <3>3. Scrolled("relative", k) \in {0, 1} /\ (Scrolled("relative", k) = 1 => N > 0)
      BY <2>1, <2>3
    <3>4. arraySize = 1 => Scrolled("relative", k) = 0
      BY <2>1, <2>3, <3>2
    <3> QED
      BY <1>1, <3>1, <3>3, <3>4
  <2> QED
    BY <2>2, <2>3
<1> QED
  BY <1>2, <1>3, <1>4, <1>5, <1>6, <1>7

\* A fetch that puts the client where it expects to be.
LEMMA FetchStep ==
  ASSUME HandleInv, LiveInv, Moves, MoveFrame, NEW orientation, NEW k, fetch(orientation, k),
         Scrolled(orientation, k) \in 0 .. N + 1,
         known' => expected' = Scrolled(orientation, k)
  PROVE  HandleInv' /\ LiveInv' /\ CursorInv'
<1>1. Fetched(Scrolled(orientation, k))
  BY FetchFacts
<1> QED
  BY <1>1, LiveAfterFetch, CursorAfterFetch

\* The cursor's facts as the moves use them.
LEMMA CursorFacts ==
  ASSUME LiveInv, CursorInv, Moves
  PROVE  /\ Live /\ Width > 0 /\ N \in Nat /\ arraySize \in Nat \ {0} /\ start \in 0 .. N + 1
         /\ newest.size = arraySize /\ newest.rowCount \in Nat
         /\ newest.position \in Int /\ newest.position < arraySize
         /\ known => newest.position \in 0 .. arraySize - 1 /\ (Before \/ After \/ On)
<1>1. Live
  BY DEF Moves, Fetchable, Live
<1>2. Width > 0
  BY <1>1, LiveFacts DEF Moves, Fetchable
<1> QED
  BY <1>1, <1>2, LiveFacts DEF CursorInv

LEMMA FirstLastMove ==
  ASSUME HandleInv, LiveInv, CursorInv, first \/ last \/ \E k \in -2 .. N + 1 : move(k)
  PROVE  HandleInv' /\ LiveInv' /\ CursorInv'
<1>1. Moves /\ MoveFrame
  BY DEF first, last, move
<1>2. Live /\ N \in Nat /\ newest.size = arraySize
  BY <1>1, CursorFacts
<1>3. CASE first
  <2>1. fetch("first", 0) /\ expected' = Capped(1)
    BY <1>2, <1>3 DEF first, Expects, Capped
  <2> QED
    BY <1>1, <1>2, <2>1, ScrolledRows, FetchStep
<1>4. CASE last
  <2>1. /\ fetch("last", 0) /\ expected' = (IF N = 0 THEN 1 ELSE N)
        /\ known' => arraySize = 1
    <3>1. fetch("last", 0) /\ Expects(IF N = 0 THEN 1 ELSE N, newest.size = 1)
      BY <1>4 DEF last
    <3>2. known' => newest.size = 1
      BY <3>1, Zenon DEF Expects
    <3>3. expected' = (IF N = 0 THEN 1 ELSE N)
      BY <1>2, <3>1 DEF Expects
    <3> QED
      BY <1>2, <3>1, <3>2, <3>3
  <2> QED
    BY <1>1, <1>2, <2>1, ScrolledRows, FetchStep
<1>5. ASSUME NEW k \in -2 .. N + 1, move(k) PROVE HandleInv' /\ LiveInv' /\ CursorInv'
  <2>1. fetch("absolute", k) /\ Expects(IF k < 0 THEN N + 1 + k ELSE k, k >= 0 \/ newest.size = 1)
    BY <1>5 DEF move
  <2>2. known' => k >= 0 \/ arraySize = 1
    <3>1. known' => k >= 0 \/ newest.size = 1
      BY <2>1, Zenon DEF Expects
    <3> QED
      BY <1>2, <3>1
  <2>3. /\ k >= 0 => expected' = k
        /\ k < 0 => expected' = AtLeastZero(N + 1 + k)
    BY <1>2, <2>1 DEF Expects, AtLeastZero
  <2>4. /\ Scrolled("absolute", k) \in 0 .. N + 1
        /\ k >= 0 => Scrolled("absolute", k) = k
        /\ k < 0 /\ arraySize = 1 => Scrolled("absolute", k) = AtLeastZero(N + 1 + k)
    BY <1>2, ScrolledRows
  <2>5. known' => expected' = Scrolled("absolute", k)
    BY <1>2, <2>2, <2>3, <2>4
  <2> QED
    BY <1>1, <2>1, <2>4, <2>5, FetchStep
<1> QED
  BY <1>3, <1>4, <1>5

\* A step inside the rowset, after which the row of the client is known only if it moved
\* by one.
LEMMA StayStep ==
  ASSUME HandleInv, LiveInv, CursorInv, Moves, MoveFrame,
         NEW p \in Int, p < arraySize, Stays(p),
         known' => /\ known /\ p = newest.position + 1 /\ newest.rowCount > 0 /\ arraySize > 1
                   /\ expected' = Capped(expected + 1)
                   /\ answer' <=> p < newest.rowCount
  PROVE  HandleInv' /\ LiveInv' /\ CursorInv'
<1>1. HandleInv' /\ LiveInv' /\ newest' = [newest EXCEPT !.position = p]
  BY LiveAfterStay
<1>2. SUFFICES ASSUME known' PROVE newest'.position >= 0 /\ On'
  BY <1>1 DEF CursorInv
<1>3. UNCHANGED <<query, set, arraySize, start>>
  BY DEF MoveFrame, Stays
<1>4. /\ Live /\ N \in Nat /\ arraySize \in Nat \ {0} /\ start \in 0 .. N + 1
      /\ newest.rowCount \in Nat /\ newest.position \in Int /\ newest.position < arraySize
      /\ known => newest.position \in 0 .. arraySize - 1 /\ (Before \/ After \/ On)
  BY CursorFacts
<1>5. On
  BY <1>2, <1>4 DEF Before, After
<1>6. newest'.position = p /\ newest'.rowCount = newest.rowCount /\ newest'.cols = newest.cols
  BY <1>1, <1>4, LiveFacts DEF ResultOf
<1>7. /\ N' = N /\ Width' = Width
      /\ \A s, c : IsNull(set, s, c)' = IsNull(set, s, c) /\ Value(set, s, c)' = Value(set, s, c)
  BY <1>3, SameSet
<1>8. BuffersHold'
  <2>1. BuffersHold
    BY <1>5 DEF On
  <2>2. \A s, c : IsNull(set', s, c) = IsNull(set, s, c)
    BY <1>3
  <2> QED
    BY <1>3, <1>6, <1>7, <2>1, <2>2 DEF BuffersHold
<1>9. expected' = Capped(start + p)
  <2>1. expected = Capped(start + newest.position) /\ start \in 1 .. N
    BY <1>5 DEF On
  <2> QED
    BY <1>2, <1>4, <2>1 DEF Capped
<1>10. Capped(start + newest.position)' = Capped(start + p)
  BY <1>3, <1>6, <1>7 DEF Capped
<1>11. /\ start \in 1 .. N
       /\ newest.rowCount = IF N - start + 1 < arraySize THEN N - start + 1 ELSE arraySize
  BY <1>5 DEF On
<1> QED
  BY <1>2, <1>3, <1>4, <1>6, <1>7, <1>8, <1>9, <1>10, <1>11 DEF On

LEMMA NextStep ==
  ASSUME HandleInv, LiveInv, CursorInv, next
  PROVE  HandleInv' /\ LiveInv' /\ CursorInv'
<1>1. /\ Moves /\ MoveFrame /\ known' = known
      /\ expected' = IF expected + 1 > N THEN N + 1 ELSE IF expected + 1 < 0 THEN 0 ELSE expected + 1
  BY DEF next, Expects
<1>2. /\ Live /\ N \in Nat /\ arraySize \in Nat \ {0} /\ start \in 0 .. N + 1
      /\ newest.size = arraySize /\ newest.rowCount \in Nat
      /\ newest.position \in Int /\ newest.position < arraySize
      /\ known => newest.position \in 0 .. arraySize - 1 /\ (Before \/ After \/ On)
  BY <1>1, CursorFacts
<1>3. known => expected \in 0 .. N + 1
  BY <1>2 DEF Before, After, On, Capped
<1>4. known' => expected' = Capped(expected + 1)
  BY <1>1, <1>2, <1>3 DEF Capped
<1>5. CASE newest.rowCount > 0 /\ newest.position + 1 < newest.size
  <2>1. /\ Stays(newest.position + 1) /\ (answer' <=> newest.position + 1 < newest.rowCount)
        /\ newest.position + 1 \in Int /\ newest.position + 1 < arraySize
        /\ known => arraySize > 1
    <3>1. Stays(newest.position + 1)
      BY <1>5 DEF next
    <3>2. answer' <=> newest.position + 1 < newest.rowCount
      BY <1>5, Zenon DEF next
    <3> QED
      BY <1>2, <1>5, <3>1, <3>2
  <2> QED
    BY <1>1, <1>4, <1>5, <2>1, StayStep
<1>6. CASE ~(newest.rowCount > 0 /\ newest.position + 1 < newest.size)
  <2>1. fetch("next", 0)
    BY <1>6 DEF next
  <2>2. known => Capped(expected + 1) = Capped(IF start = 0 THEN 1 ELSE start + arraySize)
    <3>1. CASE Before
      BY <3>1 DEF Before
    <3>2. CASE After
      BY <1>2, <3>2 DEF After, Capped
    <3>3. CASE On
      <4>1. /\ start \in 1 .. N /\ newest.rowCount > 0
            /\ expected = Capped(start + newest.position)
        BY <1>2, <3>3 DEF On
      <4>2. newest.position = arraySize - 1
        BY <1>2, <1>6, <4>1
      <4> QED
        BY <1>2, <4>1, <4>2 DEF Capped
    <3> QED
      BY <1>2, <3>1, <3>2, <3>3
  <2> QED
    BY <1>1, <1>2, <1>4, <2>1, <2>2, ScrolledRows, FetchStep
<1> QED
  BY <1>5, <1>6

LEMMA PriorStep ==
  ASSUME HandleInv, LiveInv, CursorInv, prior
  PROVE  HandleInv' /\ LiveInv' /\ CursorInv'
<1>1. /\ Moves /\ MoveFrame /\ (known' <=> known /\ newest.size = 1)
      /\ expected' = IF expected - 1 > N THEN N + 1 ELSE IF expected - 1 < 0 THEN 0 ELSE expected - 1
  BY DEF prior, Expects
<1>2. /\ Live /\ N \in Nat /\ arraySize \in Nat \ {0} /\ start \in 0 .. N + 1
      /\ newest.size = arraySize /\ newest.rowCount \in Nat
      /\ newest.position \in Int /\ newest.position < arraySize
      /\ known => newest.position \in 0 .. arraySize - 1 /\ (Before \/ After \/ On)
  BY <1>1, CursorFacts
<1>3. CASE newest.rowCount > 0 /\ newest.position > 0
  <2>1. /\ Stays(newest.position - 1) /\ newest.position - 1 \in Int
        /\ newest.position - 1 < arraySize /\ arraySize # 1
    BY <1>2, <1>3 DEF prior
  <2> QED
    BY <1>1, <1>2, <2>1, StayStep
<1>4. CASE ~(newest.rowCount > 0 /\ newest.position > 0)
  <2>1. fetch("prior", 0)
    BY <1>4 DEF prior
  <2>2. known' => expected' = IF start = 0 THEN 0 ELSE start - 1
    <3>1. SUFFICES ASSUME known, arraySize = 1
                   PROVE  expected' = IF start = 0 THEN 0 ELSE start - 1
      BY <1>1, <1>2
    <3>2. CASE Before
      BY <1>1, <1>2, <3>2 DEF Before
    <3>3. CASE After
      BY <1>1, <1>2, <3>3 DEF After
    <3>4. CASE On
      BY <1>1, <1>2, <3>1, <3>4 DEF On, Capped
    <3> QED
      BY <1>2, <3>1, <3>2, <3>3, <3>4
  <2> QED
    BY <1>1, <1>2, <2>1, <2>2, ScrolledRows, FetchStep
<1> QED
  BY <1>3, <1>4

LEMMA SkipStep ==
  ASSUME HandleInv, LiveInv, CursorInv, NEW k \in -2 .. 2, skip(k)
  PROVE  HandleInv' /\ LiveInv' /\ CursorInv'
<1> DEFINE inside == newest.rowCount > 0 /\ newest.position + k < newest.size
<1>1. /\ Moves /\ MoveFrame /\ (known' <=> known /\ newest.size = 1 /\ ~inside)
      /\ expected' = IF expected + k > N THEN N + 1 ELSE IF expected + k < 0 THEN 0 ELSE expected + k
  BY DEF skip, Expects
<1>2. /\ Live /\ N \in Nat /\ arraySize \in Nat \ {0} /\ start \in 0 .. N + 1
      /\ newest.size = arraySize /\ newest.rowCount \in Nat
      /\ newest.position \in Int /\ newest.position < arraySize
      /\ known => newest.position \in 0 .. arraySize - 1 /\ (Before \/ After \/ On)
  BY <1>1, CursorFacts
<1>3. CASE inside
  <2>1. /\ Stays(newest.position + k) /\ newest.position + k \in Int
        /\ newest.position + k < arraySize /\ ~known'
    BY <1>1, <1>2, <1>3 DEF skip
  <2> QED
    BY <1>1, <2>1, StayStep
<1>4. CASE ~inside
  <2>1. fetch("relative", k)
    BY <1>4 DEF skip
  <2>2. known' => arraySize = 1 /\ expected' = Capped(AtLeastZero(start + k))
    <3>1. SUFFICES ASSUME known, arraySize = 1
                   PROVE  expected' = Capped(AtLeastZero(start + k))
      BY <1>1, <1>2
    <3>2. expected = start
      <4>1. CASE Before
        BY <4>1 DEF Before
      <4>2. CASE After
        BY <4>2 DEF After
      <4>3. CASE On
        BY <1>2, <3>1, <4>3 DEF On, Capped
      <4> QED
        BY <1>2, <3>1, <4>1, <4>2, <4>3
    <3> QED
      BY <1>1, <1>2, <3>2 DEF Capped, AtLeastZero
  <2> QED
    BY <1>1, <1>2, <2>1, <2>2, ScrolledRows, FetchStep
<1> QED
  BY <1>3, <1>4

-----------------------------------------------------------------------------
(* Execution.                                                              *)

Bindings == [Columns -> [owner : Owners, data : BOOLEAN]]

LEMMA BindingType ==
  ASSUME binding \in Bindings, NEW o \in Nat, NEW s \in Nat, NEW upto
  PROVE  auto_bind_columns(o, s, upto) \in Bindings
<1>1. <<o, s>> \in Owners
  BY DEF Owners
<1>2. \A c \in Columns : /\ binding[c] \in [owner : Owners, data : BOOLEAN]
                         /\ [owner |-> <<o, s>>, data |-> KindsOf(s)[c] # "long"]
                              \in [owner : Owners, data : BOOLEAN]
  <2>1. \A c \in Columns : binding[c] \in [owner : Owners, data : BOOLEAN]
    BY DEF Bindings
  <2>2. \A c : (KindsOf(s)[c] # "long") \in BOOLEAN
    BY Zenon
  <2>3. \A b \in BOOLEAN : [owner |-> <<o, s>>, data |-> b] \in [owner : Owners, data : BOOLEAN]
    BY <1>1, Zenon
  <2> QED
    BY <2>1, <2>2, <2>3, Zenon
<1> DEFINE T == [owner : Owners, data : BOOLEAN]
           here(c) == [owner |-> <<o, s>>, data |-> KindsOf(s)[c] # "long"]
<1>3. \A c \in Columns : binding[c] \in T /\ here(c) \in T
  BY <1>2
<1>4. auto_bind_columns(o, s, upto) =
        [c \in Columns |-> IF c \in DOMAIN KindsOf(s) /\ c <= upto THEN here(c) ELSE binding[c]]
  BY DEF auto_bind_columns
<1> HIDE DEF here, T
<1>5. auto_bind_columns(o, s, upto) \in [Columns -> T]
  BY <1>3, <1>4
<1> QED
  BY <1>5 DEF T, Bindings

\* The columns of a new result are as the driver has them.
LEMMA NewColumns ==
  ASSUME query \in Queries, NEW s \in 1 .. Len(query.sets), NEW n \in Nat \ {0}, NEW o \in Nat
  PROVE  /\ NewResult(o, s, n) \in ResultOf(n, Len(KindsOf(s)))
         /\ \A c \in 1 .. Len(KindsOf(s)) :
              /\ auto_bind_columns(o, s, MaxColumns)[c].owner = <<o, s>>
              /\ auto_bind_columns(o, s, MaxColumns)[c].data = NewResult(o, s, n).cols[c].bound
<1>1. /\ KindsOf(s) \in Seq(Kinds) /\ Len(KindsOf(s)) \in 0 .. MaxColumns
      /\ DOMAIN KindsOf(s) = 1 .. Len(KindsOf(s)) /\ MaxColumns \in Nat /\ s \in Nat
  <2>1. /\ query.sets[s].cols \in Seq(Kinds) /\ Len(query.sets[s].cols) \in 0 .. MaxColumns
        /\ DOMAIN query.sets[s].cols = 1 .. Len(query.sets[s].cols)
    BY SetType
  <2>2. MaxColumns \in Nat /\ Len(query.sets) \in Nat
    BY SetType, OdbcAssumption
  <2> QED
    BY <2>1, <2>2 DEF KindsOf
<1>2. \A k : Column(k, n) \in ColumnOf(n)
  <2>1. Empty \in Cells
    BY DEF Empty, Cells
  <2>2. /\ [i \in 1 .. n |-> Empty] \in [1 .. n -> Cells]
        /\ [i \in 1 .. n |-> FALSE] \in [1 .. n -> BOOLEAN]
    BY <2>1
  <2>3. \A k : (k # "long") \in BOOLEAN
    BY Zenon
  <2> QED
    BY <2>2, <2>3, Zenon DEF Column, ColumnOf
<1> DEFINE cols == [c \in 1 .. Len(KindsOf(s)) |-> Column(KindsOf(s)[c], n)]
<1>3. NewResult(o, s, n) = [id |-> o, size |-> n, rowCount |-> 0, position |-> 0,
                            buffers |-> s, cols |-> cols]
  BY <1>1 DEF NewResult
<1>4. cols \in [1 .. Len(KindsOf(s)) -> ColumnOf(n)]
  BY <1>2
<1>5. NewResult(o, s, n) \in ResultOf(n, Len(KindsOf(s)))
  <2> HIDE DEF cols
  <2> QED
    BY <1>1, <1>3, <1>4 DEF ResultOf
<1>6. ASSUME NEW c \in 1 .. Len(KindsOf(s))
      PROVE  /\ auto_bind_columns(o, s, MaxColumns)[c].owner = <<o, s>>
             /\ auto_bind_columns(o, s, MaxColumns)[c].data = NewResult(o, s, n).cols[c].bound
  <2>1. c \in Columns /\ c \in DOMAIN KindsOf(s) /\ c <= MaxColumns
    BY <1>1 DEF Columns
  <2>2. PICK b \in BOOLEAN : b = (KindsOf(s)[c] # "long")
    BY Zenon
  <2>3. auto_bind_columns(o, s, MaxColumns)[c] = [owner |-> <<o, s>>, data |-> b]
    BY <2>1, <2>2, Zenon DEF auto_bind_columns
  <2>4. NewResult(o, s, n).cols[c] = Column(KindsOf(s)[c], n)
    BY <1>3
  <2>5. Column(KindsOf(s)[c], n) = [bound |-> b, data |-> [i \in 1 .. n |-> Empty],
                                    null |-> [i \in 1 .. n |-> FALSE]]
    BY <2>2, Zenon DEF Column
  <2> QED
    BY <2>3, <2>4, <2>5
<1> QED
  BY <1>5, <1>6

LEMMA ExecuteStep ==
  ASSUME IInv, NEW size \in BatchSizes, execute(size)
  PROVE  IInv'
<1> DEFINE o == made + 1
<1>1. /\ stmt = "prepared" /\ query \in Queries /\ made \in Nat /\ binding \in Bindings
  BY DEF IInv, HandleInv, execute, Bindings
<1>2. /\ set' = 1 /\ start' = 0 /\ made' = o /\ arraySize' = size /\ fetchedPtr' = o
      /\ binding' = auto_bind_columns(o, 1, MaxColumns) /\ newest' = NewResult(o, 1, size)
      /\ expected' = 0 /\ answer' = FALSE /\ read' = None
      /\ stmt' = stmt /\ query' = query /\ param' = param
  BY DEF execute, Constructs
<1>3. size \in Nat \ {0} /\ o \in Nat /\ 1 \in 1 .. Len(query.sets) /\ 1 \in Nat
  BY <1>1, SetType DEF BatchSizes
<1> HIDE DEF o
<1>4. HandleInv'
  BY <1>1, <1>2, <1>3, BindingType DEF HandleInv, Bindings
<1>5. Width' = Len(KindsOf(1)) /\ N' \in Nat
  <2>1. query.sets[1].rows \in Nat
    BY <1>1, <1>3, SetType
  <2> QED
    BY <1>2, <2>1 DEF Width, KindsOf, N, RowsIn
<1>6. /\ newest' \in ResultOf(size, Len(KindsOf(1)))
      /\ \A c \in 1 .. Len(KindsOf(1)) : /\ binding'[c].owner = <<o, 1>>
                                         /\ binding'[c].data = newest'.cols[c].bound
  BY <1>1, <1>2, <1>3, NewColumns
<1>7. newest'.id = o /\ newest'.buffers = 1 /\ newest'.rowCount = 0 /\ newest'.position = 0
  BY <1>2 DEF NewResult
<1>8. LiveInv'
  <2>1. /\ query' \in Queries /\ set' \in 1 .. Len(query'.sets) /\ start' \in 0 .. N' + 1
        /\ arraySize' \in Nat \ {0} /\ newest' \in ResultOf(arraySize', Width')
        /\ fetchedPtr' = newest'.id /\ newest'.buffers = set'
    <3>1. query' \in Queries /\ set' \in 1 .. Len(query'.sets) /\ arraySize' \in Nat \ {0}
      BY <1>1, <1>2, <1>3
    <3>2. start' \in 0 .. N' + 1
      <4>1. \A m \in Nat : 0 \in 0 .. m + 1
        OBVIOUS
      <4>2. 0 \in 0 .. N' + 1
        BY <1>5, <4>1
      <4> QED
        BY <1>2, <4>2
    <3>3. newest' \in ResultOf(arraySize', Width')
      BY <1>2, <1>5, <1>6
    <3>4. fetchedPtr' = newest'.id /\ newest'.buffers = set'
      BY <1>2, <1>7
    <3> QED
      BY <3>1, <3>2, <3>3, <3>4
  <2>2. ASSUME NEW c \in 1 .. Width'
        PROVE  /\ binding'[c].owner = <<newest'.id, set'>>
               /\ binding'[c].data = newest'.cols[c].bound
    BY <1>2, <1>5, <1>6, <1>7
  <2> QED
    BY <2>1, <2>2 DEF LiveInv
<1>9. CursorInv'
  BY <1>2, <1>7 DEF CursorInv, Before
<1> QED
  BY <1>2, <1>4, <1>8, <1>9 DEF IInv, ReadInv, ParamInv

LEMMA NextResultStep ==
  ASSUME IInv, next_result
  PROVE  IInv'
<1>1. Live /\ newest # None /\ set > 0
  BY DEF next_result, Live
<1>2. /\ query \in Queries /\ set \in 1 .. Len(query.sets) /\ set \in Nat
      /\ arraySize \in Nat \ {0} /\ newest \in ResultOf(arraySize, Width)
      /\ newest.size = arraySize /\ newest.rowCount \in Nat
      /\ newest.position \in Int /\ newest.position < arraySize
      /\ fetchedPtr = newest.id /\ newest.id \in Nat
  BY <1>1, LiveFacts DEF IInv, LiveInv, ResultOf
<1>3. binding \in Bindings /\ made \in Nat
  BY DEF IInv, HandleInv, Bindings
<1>4. /\ start' = 0 /\ answer' = FALSE /\ expected' = 0 /\ read' = None
      /\ UNCHANGED <<stmt, query, param, arraySize, fetchedPtr, made>>
  BY DEF next_result
<1>5. known' => arraySize = 1 /\ newest.position = 0
  <2>1. known' => newest.size = 1 /\ newest.position = 0
    BY Zenon DEF next_result
  <2> QED
    BY <1>2, <2>1
<1>6. CASE ~(set < Len(query.sets))
  <2>1. set' = 0 /\ UNCHANGED <<binding, newest>>
    BY <1>6 DEF next_result
  <2>2. HandleInv'
    BY <1>4, <2>1 DEF IInv, HandleInv
  <2>3. ~Live'
    BY <2>1 DEF Live
  <2> QED
    BY <1>4, <2>2, <2>3 DEF IInv, LiveInv, CursorInv, ReadInv, ParamInv
<1>7. CASE set < Len(query.sets)
  <2> DEFINE s == set + 1
             fresh == NewResult(newest.id, s, newest.size)
  <2>1. /\ set' = s /\ binding' = auto_bind_columns(newest.id, s, MaxColumns)
        /\ newest' = [newest EXCEPT !.cols = fresh.cols, !.buffers = s]
    BY <1>7 DEF next_result
  <2>2. s \in 1 .. Len(query.sets) /\ s \in Nat
    BY <1>2, <1>7, SetType
  <2> HIDE DEF s
  <2>3. HandleInv'
    BY <1>2, <1>3, <1>4, <2>1, <2>2, BindingType DEF IInv, HandleInv, Bindings
  <2>4. Width' = Len(KindsOf(s)) /\ N' \in Nat
    <3>1. query.sets[s].rows \in Nat
      BY <1>2, <2>2, SetType
    <3> QED
      BY <1>4, <2>1, <3>1 DEF Width, KindsOf, N, RowsIn
  <2>5. /\ fresh \in ResultOf(arraySize, Len(KindsOf(s)))
        /\ \A c \in 1 .. Len(KindsOf(s)) : /\ binding'[c].owner = <<newest.id, s>>
                                           /\ binding'[c].data = fresh.cols[c].bound
    BY <1>2, <2>1, <2>2, NewColumns
  <2> HIDE DEF fresh
  <2>6. fresh.cols \in [1 .. Len(KindsOf(s)) -> ColumnOf(arraySize)]
    BY <2>5 DEF ResultOf
  <2>7. newest' = [id |-> newest.id, size |-> arraySize, rowCount |-> newest.rowCount,
                   position |-> newest.position, buffers |-> s, cols |-> fresh.cols]
    BY <1>2, <2>1 DEF ResultOf
  <2>8. newest' \in ResultOf(arraySize, Len(KindsOf(s)))
    BY <1>2, <2>2, <2>6, <2>7 DEF ResultOf
  <2>9. /\ newest'.id = newest.id /\ newest'.buffers = s /\ newest'.cols = fresh.cols
        /\ newest'.position = newest.position
    BY <2>7
  <2>10. LiveInv'
    BY <1>2, <1>4, <2>1, <2>2, <2>4, <2>5, <2>8, <2>9 DEF LiveInv
  <2>11. CursorInv'
    BY <1>4, <1>5, <2>9 DEF CursorInv, Before
  <2> QED
    BY <1>4, <2>3, <2>10, <2>11 DEF IInv, ReadInv, ParamInv
<1> QED
  BY <1>6, <1>7

-----------------------------------------------------------------------------
(* The end of a result.                                                    *)

\* Without a result there is nothing to be said but of the handle.
LEMMA NoResult ==
  ASSUME HandleInv', newest' = None, ParamInv, param' \in {None, param}
  PROVE  IInv'
<1>1. ~Live'
  BY DEF Live
<1>2. ParamInv'
  BY DEF ParamInv
<1> QED
  BY <1>1, <1>2 DEF IInv, LiveInv, CursorInv, ReadInv

\* An exception that changes nothing but the end of the result.
LEMMA ThrowsStep ==
  ASSUME IInv, Throws
  PROVE  IInv'
<1>1. /\ newest' = None /\ UNCHANGED <<stmt, query, param, set, binding, made>>
  BY DEF Throws, Unwinds, driverVars
<1>2. HandleInv'
  BY <1>1 DEF IInv, HandleInv
<1> QED
  BY <1>1, <1>2, NoResult DEF IInv

LEMMA EndStep ==
  ASSUME IInv,
         \/ close \/ closeFails \/ prepareFails \/ bindFails
         \/ next_resultFails \/ destroy \/ fetchFails \/ getOutOfRange
         \/ \E q \in Queries : prepare(q)
         \/ \E n \in BatchSizes : executeFails(n)
         \/ \E c \in DOMAIN KindsOf(set) : getUnboundFails(c)
  PROVE  IInv'
<1>1. /\ HandleInv /\ ParamInv /\ binding \in Bindings /\ made \in Nat /\ set \in Nat
      /\ stmt = "prepared" => query \in Queries
  BY DEF IInv, HandleInv, Bindings
<1>2. ASSUME NewHandle, newest' = None, made' = made, stmt' = "prepared" => query' \in Queries
      PROVE  IInv'
  <2>1. set' = 0 /\ binding' = [c \in Columns |-> Unbound] /\ param' = None
    BY <1>2 DEF NewHandle
  <2>2. binding' \in [Columns -> [owner : Owners, data : BOOLEAN]]
    BY <2>1 DEF Unbound, Owners
  <2>3. HandleInv'
    BY <1>1, <1>2, <2>1, <2>2 DEF HandleInv
  <2> QED
    BY <1>1, <1>2, <2>1, <2>3, NoResult
<1>3. CASE close
  BY <1>2, <1>3 DEF close, Forgets
<1>4. ASSUME NEW q \in Queries, prepare(q) PROVE IInv'
  BY <1>2, <1>4 DEF prepare, Forgets
<1>5. CASE prepareFails
  BY <1>2, <1>5 DEF prepareFails, Unwinds
<1>6. CASE closeFails \/ fetchFails \/ getOutOfRange
  BY <1>6, ThrowsStep DEF closeFails, fetchFails, getOutOfRange
<1>7. CASE \E c \in DOMAIN KindsOf(set) : getUnboundFails(c)
  BY <1>7, ThrowsStep DEF getUnboundFails
<1>8. CASE destroy
  <2>1. newest' = None /\ UNCHANGED <<stmt, query, param, set, binding, made>>
    BY <1>8 DEF destroy, driverVars
  <2>2. HandleInv'
    BY <1>1, <2>1 DEF HandleInv
  <2> QED
    BY <1>1, <2>1, <2>2, NoResult
<1>9. CASE next_resultFails
  <2>1. newest.id \in Nat
    BY <1>9, LiveFacts DEF next_resultFails, Live, IInv, ResultOf
  <2>2. /\ set' = set + 1 /\ newest' = None /\ UNCHANGED <<stmt, query, param, made>>
        /\ \E upto : binding' = auto_bind_columns(newest.id, set + 1, upto)
    BY <1>9 DEF next_resultFails, Unwinds
  <2>3. set + 1 \in Nat
    BY <1>1
  <2>4. binding' \in Bindings
    BY <1>1, <2>1, <2>2, <2>3, BindingType
  <2>5. HandleInv'
    BY <1>1, <2>2, <2>3, <2>4 DEF HandleInv, Bindings
  <2> QED
    BY <1>1, <2>2, <2>5, NoResult
<1>10. ASSUME NEW n \in BatchSizes, executeFails(n) PROVE IInv'
  <2>1. newest' = None /\ UNCHANGED <<stmt, query, param, made>>
    BY <1>10 DEF executeFails, Unwinds
  <2>2. \/ set' = 0 /\ binding' = binding
        \/ set' = 1 /\ \E upto : binding' = auto_bind_columns(made + 1, 1, upto)
    BY <1>10 DEF executeFails
  <2>3. made + 1 \in Nat /\ 1 \in Nat /\ 0 \in Nat
    BY <1>1
  <2>4. binding' \in Bindings /\ set' \in Nat
    BY <1>1, <2>2, <2>3, BindingType
  <2>5. HandleInv'
    BY <1>1, <2>1, <2>4 DEF HandleInv, Bindings
  <2> QED
    BY <1>1, <2>1, <2>5, NoResult
<1>11. CASE bindFails
  <2>1. newest' = None /\ UNCHANGED <<stmt, query, set, binding, made>>
    BY <1>11 DEF bindFails, Unwinds, driverVars
  <2>2. HandleInv'
    BY <1>1, <2>1 DEF HandleInv
  <2>3. CASE param' = param
    BY <1>1, <2>1, <2>2, <2>3, NoResult
  <2>4. CASE param # None /\ param' = [param EXCEPT !.freed = TRUE]
    <3>1. param \in Params
      BY <1>1, <2>4 DEF ParamInv
    <3>2. /\ param' \in Params /\ param'.values = param.values /\ param'.ind = param.ind
          /\ param'.isString = param.isString /\ param'.bySentry = param.bySentry
          /\ param'.passed = param.passed
      BY <2>4, <3>1 DEF Params
    <3>3. ParamInv'
      BY <1>1, <2>4, <3>2 DEF ParamInv
    <3> QED
      BY <2>1, <2>2, <3>3 DEF IInv, LiveInv, CursorInv, ReadInv, Live
  <2> QED
    BY <1>11, <2>3, <2>4 DEF bindFails
<1> QED
  BY <1>3, <1>4, <1>5, <1>6, <1>7, <1>8, <1>9, <1>10, <1>11

-----------------------------------------------------------------------------
(* Reading.                                                                *)

\* A read within the rowset, where the client knows its row, is of that row.
LEMMA RowOfRead ==
  ASSUME LiveInv, CursorInv, Moves, InRowset
  PROVE  /\ newest.position + 1 \in 1 .. newest.rowCount
         /\ newest.position + 1 \in 1 .. arraySize
         /\ known /\ answer =>
              /\ On /\ expected = start + newest.position /\ expected \in 1 .. N
              /\ start + (newest.position + 1) - 1 = expected
<1>1. /\ Live /\ Width > 0 /\ N \in Nat /\ arraySize \in Nat \ {0} /\ start \in 0 .. N + 1
      /\ newest.size = arraySize /\ newest.rowCount \in Nat
      /\ newest.position \in Int /\ newest.position < arraySize
      /\ known => newest.position \in 0 .. arraySize - 1 /\ (Before \/ After \/ On)
  BY CursorFacts
<1>2. newest.position >= 0 /\ newest.position < newest.rowCount
  BY <1>1 DEF InRowset
<1>3. newest.position + 1 \in 1 .. newest.rowCount /\ newest.position + 1 \in 1 .. arraySize
  BY <1>1, <1>2
<1>4. ASSUME known, answer
      PROVE  /\ On /\ expected = start + newest.position /\ expected \in 1 .. N
             /\ start + (newest.position + 1) - 1 = expected
  <2>1. On
    BY <1>1, <1>4 DEF Before, After
  <2>2. /\ start \in 1 .. N /\ expected = Capped(start + newest.position)
        /\ newest.rowCount = IF N - start + 1 < arraySize THEN N - start + 1 ELSE arraySize
    BY <2>1 DEF On
  <2>3. start + newest.position <= N
    BY <1>1, <1>2, <2>2
  <2>4. expected = start + newest.position
    BY <1>1, <2>2, <2>3 DEF Capped
  <2>5. expected \in 1 .. N /\ start + (newest.position + 1) - 1 = expected
    <3>1. newest.position \in Nat /\ start \in 1 .. N /\ N \in Nat
      BY <1>1, <1>2, <2>2
    <3> QED
      BY <2>3, <2>4, <3>1
  <2> QED
    BY <2>1, <2>4, <2>5
<1> QED
  BY <1>3, <1>4

\* A read that changes the record of the last read only.
LEMMA ReadStep ==
  ASSUME IInv, Moves, NEW c \in 1 .. Width, NEW v, NEW again, NEW fallback,
         Reads(c, v, again, fallback), newest' = newest, ReadFrame,
         known /\ answer => \/ v = Value(set, expected, c)
                            \/ ~newest.cols[c].bound /\ arraySize > 1
  PROVE  IInv'
<1>1. /\ newest' = newest
      /\ UNCHANGED <<stmt, query, param, set, start, arraySize, fetchedPtr, binding, made>>
      /\ UNCHANGED <<expected, known, answer>>
  BY DEF ReadFrame
<1>2. /\ N' = N /\ Width' = Width
      /\ \A s, k : IsNull(set, s, k)' = IsNull(set, s, k) /\ Value(set, s, k)' = Value(set, s, k)
  BY <1>1, SameSet
<1>3. HandleInv' /\ LiveInv' /\ ParamInv'
  BY <1>1, <1>2 DEF IInv, HandleInv, LiveInv, Live, ParamInv
<1>4. (BuffersHold)' <=> BuffersHold
  <2>1. \A r, k : IsNull(set', r, k) = IsNull(set, r, k)
    BY <1>1
  <2> QED
    BY <1>1, <1>2, <2>1 DEF BuffersHold
<1>5. CursorInv'
  BY <1>1, <1>2, <1>4 DEF IInv, CursorInv, Live, Before, After, On, Capped
<1>6. ReadInv'
  <2>1. read' = [col |-> c, value |-> v, bound |-> newest.cols[c].bound, again |-> again,
                 fallback |-> fallback]
    BY DEF Reads
  <2>2. read'.value = v /\ read'.col = c /\ read'.bound = newest.cols[c].bound
    BY <2>1
  <2>3. known /\ answer => \/ read'.value = Value(set, expected, read'.col)
                           \/ ~read'.bound /\ arraySize > 1
    BY <2>2
  <2> QED
    BY <1>1, <1>2, <2>3 DEF ReadInv, Live
<1> QED
  BY <1>3, <1>5, <1>6 DEF IInv

LEMMA NullAndBoundReads ==
  ASSUME IInv, Moves, NEW c \in 1 .. Width, NEW fallback \in BOOLEAN,
         getNull(c, fallback) \/ getBound(c, fallback)
  PROVE  IInv'
<1>1. LiveInv /\ CursorInv /\ InRowset
  BY DEF IInv, getNull, getBound
<1>2. /\ newest.position + 1 \in 1 .. newest.rowCount /\ newest.position + 1 \in 1 .. arraySize
      /\ known /\ answer =>
              /\ On /\ expected = start + newest.position /\ expected \in 1 .. N
              /\ start + (newest.position + 1) - 1 = expected
  BY <1>1, RowOfRead
<1>3. /\ Live /\ query \in Queries /\ set \in 1 .. Len(query.sets) /\ N \in Nat
      /\ arraySize \in Nat \ {0} /\ newest \in ResultOf(arraySize, Width)
  BY <1>1, LiveFacts DEF Moves, Fetchable, Live
<1> DEFINE i == newest.position + 1
           col == newest.cols[c]
<1>4. col \in ColumnOf(arraySize) /\ col.bound \in BOOLEAN /\ col.null[i] \in BOOLEAN
  <2>1. col \in ColumnOf(arraySize)
    BY <1>3 DEF ResultOf
  <2> HIDE DEF col, i
  <2> QED
    BY <1>2, <2>1 DEF ColumnOf, i
<1>5. known /\ answer =>
        /\ expected \in 1 .. N
        /\ col.bound => /\ col.null[i] <=> IsNull(set, expected, c)
                        /\ ~IsNull(set, expected, c) => col.data[i] = Value(set, expected, c)
        /\ ~col.bound /\ arraySize = 1 /\ col.null[i] => IsNull(set, expected, c)
  <2>1. SUFFICES ASSUME known, answer
                 PROVE  /\ expected \in 1 .. N
                        /\ col.bound =>
                             /\ col.null[i] <=> IsNull(set, expected, c)
                             /\ ~IsNull(set, expected, c) => col.data[i] = Value(set, expected, c)
                        /\ ~col.bound /\ arraySize = 1 /\ col.null[i] => IsNull(set, expected, c)
    OBVIOUS
  <2>2. BuffersHold /\ i \in 1 .. newest.rowCount /\ start + i - 1 = expected /\ expected \in 1 .. N
    BY <1>2, <2>1 DEF On
  <2> HIDE DEF i
  <2> QED
    BY <2>2 DEF BuffersHold
<1>6. \A r \in 1 .. N : IsNull(set, r, c) => Value(set, r, c) = Null
  BY <1>3, ValueType
<1>7. CASE getNull(c, fallback) /\ fallback
  <2>1. Reads(c, Null, FALSE, fallback) /\ UNCHANGED <<newest, dataRead>> /\ ReadFrame /\ col.null[i]
    BY <1>7 DEF getNull
  <2>2. known /\ answer => \/ Null = Value(set, expected, c)
                           \/ ~col.bound /\ arraySize > 1
    <3> HIDE DEF col, i
    <3> QED
      BY <1>3, <1>4, <1>5, <1>6, <2>1
  <2> QED
    BY <2>1, <2>2, ReadStep
<1>8. CASE getNull(c, fallback) /\ ~fallback
  BY <1>8, ThrowsStep DEF getNull
<1>9. CASE getBound(c, fallback)
  <2>1. /\ Reads(c, col.data[i], FALSE, fallback) /\ UNCHANGED <<newest, dataRead>> /\ ReadFrame
        /\ ~col.null[i] /\ col.bound
    BY <1>9 DEF getBound
  <2>2. known /\ answer => col.data[i] = Value(set, expected, c)
    BY <1>5, <2>1
  <2> QED
    BY <2>1, <2>2, ReadStep
<1> QED
  BY <1>7, <1>8, <1>9

\* A read before the rowset is of a row that the client does not know.
LEMMA ReadBeforeBuffers ==
  ASSUME IInv, Moves, NEW c \in 1 .. Width, NEW fallback \in BOOLEAN,
         getBeforeBuffers(c, fallback)
  PROVE  IInv'
<1>1. CASE Throws
  BY <1>1, ThrowsStep
<1>2. ASSUME NEW value, Reads(c, value, FALSE, fallback), newest' = newest, ReadFrame PROVE IInv'
  <2>1. ~known
    BY CursorFacts DEF IInv, getBeforeBuffers
  <2> QED
    BY <1>2, <2>1, ReadStep
<1> QED
  BY <1>1, <1>2 DEF getBeforeBuffers

\* A change of one column of the result and of its binding that keeps them together.
LEMMA ColumnChange ==
  ASSUME LiveInv, Moves, NEW c \in 1 .. Width, NEW col \in ColumnOf(arraySize), NEW b \in BOOLEAN,
         newest' = [newest EXCEPT !.cols[c] = col], binding' = [binding EXCEPT ![c].data = b],
         b = col.bound, binding \in Bindings,
         UNCHANGED <<query, set, start, arraySize, fetchedPtr>>
  PROVE  /\ LiveInv' /\ binding' \in Bindings /\ newest'.cols = [newest.cols EXCEPT ![c] = col]
         /\ newest'.rowCount = newest.rowCount /\ newest'.position = newest.position
<1>1. /\ Live /\ newest \in ResultOf(arraySize, Width) /\ Width \in 0 .. MaxColumns
  BY LiveFacts DEF Moves, Fetchable, Live
<1>2. N' = N /\ Width' = Width
  BY SameSet
<1>3. newest.cols \in [1 .. Width -> ColumnOf(arraySize)]
  BY <1>1 DEF ResultOf
<1> DEFINE cols == [newest.cols EXCEPT ![c] = col]
<1>4. cols \in [1 .. Width -> ColumnOf(arraySize)] /\ cols[c] = col
      /\ \A d \in 1 .. Width : d # c => cols[d] = newest.cols[d]
  BY <1>3
<1>5. newest' = [newest EXCEPT !.cols = cols]
  OBVIOUS
<1> HIDE DEF cols
<1>6. /\ newest' \in ResultOf(arraySize, Width) /\ newest'.id = newest.id /\ newest'.cols = cols
      /\ newest'.buffers = newest.buffers
      /\ newest'.rowCount = newest.rowCount /\ newest'.position = newest.position
  BY <1>1, <1>4, <1>5 DEF ResultOf
<1>7. c \in Columns /\ 1 .. Width \subseteq Columns
  <2>1. MaxColumns \in Nat
    BY OdbcAssumption
  <2> QED
    BY <1>1, <2>1 DEF Columns
<1>8. /\ binding' \in Bindings /\ binding'[c].owner = binding[c].owner /\ binding'[c].data = b
      /\ \A d \in 1 .. Width : d # c => binding'[d] = binding[d]
  <2>1. binding[c] \in [owner : Owners, data : BOOLEAN]
    BY <1>7 DEF Bindings
  <2>2. [binding[c] EXCEPT !.data = b] = [owner |-> binding[c].owner, data |-> b]
    BY <2>1
  <2>3. binding' = [binding EXCEPT ![c] = [owner |-> binding[c].owner, data |-> b]]
    BY <2>2
  <2>4. [owner |-> binding[c].owner, data |-> b] \in [owner : Owners, data : BOOLEAN]
    BY <2>1
  <2> QED
    BY <1>7, <2>3, <2>4 DEF Bindings
<1>9. ASSUME NEW d \in 1 .. Width
      PROVE  binding'[d].owner = <<newest'.id, set>> /\ binding'[d].data = newest'.cols[d].bound
  <2>1. binding[d].owner = <<newest.id, set>> /\ binding[d].data = newest.cols[d].bound
    BY <1>1 DEF LiveInv
  <2>2. CASE d = c
    BY <1>4, <1>6, <1>8, <2>1, <2>2
  <2>3. CASE d # c
    BY <1>4, <1>6, <1>8, <2>1, <2>3
  <2> QED
    BY <2>2, <2>3
<1>10. LiveInv'
  BY <1>1, <1>2, <1>6, <1>9 DEF LiveInv
<1> QED
  BY <1>6, <1>8, <1>10 DEF cols

\* The cursor's invariant survives it if the rows of the other columns stay and those of
\* this one are still held.
LEMMA ColumnKeepsCursor ==
  ASSUME LiveInv, CursorInv, Moves, NEW c \in 1 .. Width, NEW col \in ColumnOf(arraySize),
         newest'.cols = [newest.cols EXCEPT ![c] = col],
         newest'.rowCount = newest.rowCount, newest'.position = newest.position,
         UNCHANGED <<query, set, start, arraySize, expected, known, answer>>,
         ~col.bound,
         known /\ arraySize = 1 /\ On =>
           \A i \in 1 .. newest.rowCount : col.null[i] => IsNull(set, start + i - 1, c)
  PROVE  CursorInv'
<1>1. /\ Live /\ Width > 0 /\ N \in Nat /\ arraySize \in Nat \ {0}
      /\ known => newest.position >= 0 /\ (Before \/ After \/ On)
  BY CursorFacts
<1>2. /\ N' = N /\ Width' = Width
      /\ \A s, k : IsNull(set, s, k)' = IsNull(set, s, k) /\ Value(set, s, k)' = Value(set, s, k)
  BY SameSet
<1>3. newest.cols \in [1 .. Width -> ColumnOf(arraySize)]
  BY <1>1, LiveFacts DEF ResultOf
<1>4. newest'.cols[c] = col /\ \A d \in 1 .. Width : d # c => newest'.cols[d] = newest.cols[d]
  BY <1>3
<1>5. SUFFICES ASSUME known PROVE Before' \/ After' \/ On'
  BY <1>1 DEF CursorInv
<1>6. CASE Before
  BY <1>6 DEF Before
<1>7. CASE After
  BY <1>2, <1>7 DEF After
<1>8. CASE On
  <2>1. BuffersHold'
    <3>1. \A s, k : IsNull(set', s, k) = IsNull(set, s, k)
      OBVIOUS
    <3>2. SUFFICES ASSUME NEW d \in 1 .. Width, NEW i \in 1 .. newest.rowCount
                   PROVE  LET new == newest'.cols[d]
                              null == IsNull(set, start + i - 1, d)
                          IN  /\ new.bound => /\ new.null[i] <=> null
                                              /\ ~null => new.data[i] = Value(set, start + i - 1, d)
                              /\ ~new.bound /\ arraySize = 1 /\ new.null[i] => null
      BY <1>2, <3>1 DEF BuffersHold
    <3>3. CASE d = c
      BY <1>4, <1>5, <1>8, <3>3
    <3>4. CASE d # c
      BY <1>4, <1>8, <3>4 DEF On, BuffersHold
    <3> QED
      BY <3>3, <3>4
  <2> QED
    BY <1>2, <1>8, <2>1 DEF On, Capped
<1> QED
  BY <1>1, <1>5, <1>6, <1>7, <1>8

LEMMA UnboundRead ==
  ASSUME IInv, Moves, NEW c \in 1 .. Width, NEW fallback \in BOOLEAN, getUnbound(c, fallback)
  PROVE  IInv'
<1>1. LiveInv /\ CursorInv /\ InRowset /\ HandleInv /\ ParamInv
  BY DEF IInv, getUnbound
<1> DEFINE i == newest.position + 1
           again == dataRead = c
           null == ~again /\ IsNull(set, start, c)
           old == newest.cols[c]
           col == [old EXCEPT !.null[i] = null]
<1>2. /\ i \in 1 .. newest.rowCount /\ i \in 1 .. arraySize
      /\ known /\ answer => /\ On /\ expected = start + newest.position /\ expected \in 1 .. N
  BY <1>1, RowOfRead
<1>3. /\ Live /\ query \in Queries /\ set \in 1 .. Len(query.sets) /\ N \in Nat
      /\ arraySize \in Nat \ {0} /\ newest \in ResultOf(arraySize, Width)
      /\ newest.position \in Int /\ newest.position < arraySize /\ newest.rowCount \in Nat
      /\ Width \in 0 .. MaxColumns
  BY <1>1, LiveFacts DEF Moves, Fetchable, Live
<1>4. ~old.bound /\ old \in ColumnOf(arraySize)
  BY <1>3 DEF getUnbound, ResultOf
<1>5. CASE start \notin 1 .. N \/ (again /\ KindsOf(set)[c] = "number")
  BY <1>5, ThrowsStep DEF getUnbound
<1>6. CASE ~(start \notin 1 .. N \/ (again /\ KindsOf(set)[c] = "number"))
  <2>1. /\ start \in 1 .. N /\ ReadFrame
        /\ newest' = [newest EXCEPT !.cols[c].null[i] = null]
        /\ \E noTotal \in BOOLEAN :
             Reads(c, IF null THEN IF fallback THEN Null ELSE Empty
                      ELSE IF again THEN Empty
                      ELSE <<start, Collected(LengthOf(set, start, c), noTotal)>>,
                   again, fallback)
    BY <1>6 DEF getUnbound
  <2>2. newest' = [newest EXCEPT !.cols[c] = col]
    BY <1>3, <2>1 DEF ResultOf
  <2>3. null \in BOOLEAN /\ again \in BOOLEAN
    BY <1>3, <2>1, ValueType, Zenon
  <2>4. col \in ColumnOf(arraySize) /\ ~col.bound /\ col.null[i] = null
        /\ \A j \in 1 .. arraySize : j # i => col.null[j] = old.null[j]
    <3> HIDE DEF null, i, old
    <3> QED
      BY <1>2, <1>4, <2>3 DEF ColumnOf
  <2>5. /\ binding \in Bindings /\ c \in Columns
        /\ UNCHANGED <<stmt, query, param, set, start, arraySize, fetchedPtr, binding, made>>
        /\ UNCHANGED <<expected, known, answer>>
    <3>1. MaxColumns \in Nat
      BY OdbcAssumption
    <3> QED
      BY <1>1, <1>3, <2>1, <3>1 DEF HandleInv, Bindings, ReadFrame, Columns
  <2> DEFINE b == old.bound
  <2>6. binding[c].data = b /\ b \in BOOLEAN /\ b = col.bound
    <3>1. binding[c].data = old.bound
      BY <1>1, <1>3 DEF LiveInv
    <3>2. old.bound \in BOOLEAN /\ col.bound = old.bound
      BY <1>4 DEF ColumnOf
    <3> QED
      BY <3>1, <3>2
  <2>7. binding' = [binding EXCEPT ![c].data = b]
    <3>1. binding[c] \in [owner : Owners, data : BOOLEAN]
      BY <2>5 DEF Bindings
    <3>2. [binding[c] EXCEPT !.data = b] = binding[c]
      BY <2>6, <3>1
    <3> QED
      BY <2>5, <3>2 DEF Bindings
  <2>8. /\ LiveInv' /\ newest'.cols = [newest.cols EXCEPT ![c] = col]
        /\ newest'.rowCount = newest.rowCount /\ newest'.position = newest.position
    <3>1. col \in ColumnOf(arraySize) /\ b \in BOOLEAN /\ b = col.bound
      BY <2>4, <2>6
    <3>2. UNCHANGED <<query, set, start, arraySize, fetchedPtr>> /\ binding \in Bindings
      BY <2>5
    <3> HIDE DEF b, col
    <3> QED
      BY <1>1, <2>2, <2>7, <3>1, <3>2, ColumnChange
  <2>9. ASSUME arraySize = 1, On PROVE \A j \in 1 .. newest.rowCount : col.null[j] => IsNull(set, start + j - 1, c)
    <3>1. newest.rowCount = 1 /\ i = 1 /\ start \in Nat
      BY <1>2, <1>3, <2>1, <2>9 DEF On
    <3>2. col.null[1] => IsNull(set, start, c)
      BY <2>4, <3>1
    <3>3. start + 1 - 1 = start
      BY <3>1
    <3>4. \A j \in 1 .. 1 : j = 1
      OBVIOUS
    <3> HIDE DEF col, i
    <3> QED
      BY <3>1, <3>2, <3>3, <3>4
  <2>10. CursorInv'
    <3> HIDE DEF col
    <3> QED
      BY <1>1, <2>4, <2>5, <2>8, <2>9, ColumnKeepsCursor
  <2>11. HandleInv' /\ ParamInv'
    BY <1>1, <2>5 DEF HandleInv, ParamInv
  <2>12. ReadInv'
    <3>1. PICK noTotal \in BOOLEAN :
            Reads(c, IF null THEN IF fallback THEN Null ELSE Empty
                     ELSE IF again THEN Empty
                     ELSE <<start, Collected(LengthOf(set, start, c), noTotal)>>,
                  again, fallback)
      BY <2>1
    <3>2. LengthOf(set, start, c) \in Nat
      BY <1>3, <2>1, ValueType
    <3>3. Collected(LengthOf(set, start, c), noTotal) = LengthOf(set, start, c)
      BY <3>2, WholeText
    <3>4. /\ IsNull(set, start, c) => Value(set, start, c) = Null
          /\ ~IsNull(set, start, c) => Value(set, start, c) = <<start, LengthOf(set, start, c)>>
      BY <1>3, <2>1, ValueType
    <3>5. /\ read'.value = IF null THEN IF fallback THEN Null ELSE Empty
                           ELSE IF again THEN Empty
                           ELSE <<start, LengthOf(set, start, c)>>
          /\ read'.col = c /\ (read'.again <=> again) /\ (read'.fallback <=> fallback)
          /\ ~read'.bound
      <4> DEFINE v == IF null THEN IF fallback THEN Null ELSE Empty
                      ELSE IF again THEN Empty
                      ELSE <<start, Collected(LengthOf(set, start, c), noTotal)>>
      <4>1. PICK a \in BOOLEAN : a <=> again
        OBVIOUS
      <4>2. read' = [col |-> c, value |-> v, bound |-> old.bound, again |-> a, fallback |-> fallback]
        BY <3>1, <4>1, Zenon DEF Reads
      <4>3. v = IF null THEN IF fallback THEN Null ELSE Empty
                ELSE IF again THEN Empty
                ELSE <<start, LengthOf(set, start, c)>>
        BY <3>3
      <4> HIDE DEF v, null, again
      <4> QED
        BY <1>4, <4>1, <4>2, <4>3
    <3>6. /\ N' = N /\ Width' = Width
          /\ \A s, k : IsNull(set, s, k)' = IsNull(set, s, k) /\ Value(set, s, k)' = Value(set, s, k)
      BY <2>5, SameSet
    <3>7. SUFFICES ASSUME known, answer, arraySize = 1
                   PROVE  \/ read'.value = Value(set, expected, c)
                          \/ /\ read'.value = Empty
                             /\ read'.again \/ (~read'.fallback /\ IsNull(set, expected, c))
      BY <1>3, <2>5, <3>5, <3>6 DEF ReadInv
    <3>8. expected = start
      BY <1>2, <1>3, <2>1, <3>7
    <3> QED
      BY <3>4, <3>5, <3>8
  <2> QED
    BY <2>8, <2>10, <2>11, <2>12 DEF IInv
<1> QED
  BY <1>5, <1>6

LEMMA UnbindStep ==
  ASSUME IInv, NEW c \in 1 .. Width, unbind(c)
  PROVE  IInv'
<1>1. LiveInv /\ CursorInv /\ HandleInv /\ ParamInv /\ Moves
  BY DEF IInv, unbind
<1> DEFINE old == newest.cols[c]
           col == [old EXCEPT !.bound = FALSE]
<1>2. /\ Live /\ newest \in ResultOf(arraySize, Width) /\ Width \in 0 .. MaxColumns
  BY <1>1, LiveFacts DEF Moves, Fetchable, Live
<1>3. old \in ColumnOf(arraySize) /\ old.bound
  BY <1>2 DEF unbind, ResultOf
<1>4. col \in ColumnOf(arraySize) /\ ~col.bound /\ col.bound = FALSE /\ col.null = old.null
  <2> HIDE DEF old
  <2> QED
    BY <1>3 DEF ColumnOf
<1>5. /\ newest' = [newest EXCEPT !.cols[c].bound = FALSE]
      /\ binding' = [binding EXCEPT ![c].data = FALSE] /\ read' = None
      /\ UNCHANGED <<stmt, query, param, set, start, arraySize, fetchedPtr, made>>
      /\ UNCHANGED <<expected, known, answer>>
  BY DEF unbind
<1>6. newest' = [newest EXCEPT !.cols[c] = col]
  BY <1>2, <1>5 DEF ResultOf
<1>7. binding \in Bindings
  BY <1>1 DEF HandleInv, Bindings
<1>8. /\ LiveInv' /\ binding' \in Bindings /\ newest'.cols = [newest.cols EXCEPT ![c] = col]
      /\ newest'.rowCount = newest.rowCount /\ newest'.position = newest.position
  <2> HIDE DEF col
  <2> QED
    BY <1>1, <1>4, <1>5, <1>6, <1>7, ColumnChange
<1>9. ASSUME On PROVE \A i \in 1 .. newest.rowCount : col.null[i] => IsNull(set, start + i - 1, c)
  BY <1>3, <1>4, <1>9 DEF On, BuffersHold
<1>10. CursorInv'
  <2> HIDE DEF col
  <2> QED
    BY <1>1, <1>4, <1>5, <1>8, <1>9, ColumnKeepsCursor
<1>11. HandleInv' /\ ParamInv'
  BY <1>1, <1>5, <1>8 DEF HandleInv, ParamInv, Bindings
<1> QED
  BY <1>5, <1>8, <1>10, <1>11 DEF IInv, ReadInv

-----------------------------------------------------------------------------
(* Parameters.                                                             *)

LEMMA BindStep ==
  ASSUME IInv, NEW values \in Batches, NEW isString \in BOOLEAN, NEW bySentry \in BOOLEAN,
         bind(values, isString, bySentry)
  PROVE  IInv'
<1> DEFINE ind == [i \in DOMAIN values |->
                     IF values[i] = Null /\ (isString \/ ~bySentry)
                       THEN prepare_bind(Len(values))[i] ELSE "length"]
           passed == ~isString \/ Len(values) > 1
<1>1. PICK n \in BatchSizes : values \in [1 .. n -> {"value", Null}]
  BY DEF Batches
<1>2. n \in Nat /\ DOMAIN values = 1 .. n /\ Len(values) = n
  BY <1>1 DEF BatchSizes
<1>3. /\ \A i \in 1 .. n : ind[i] = Null <=> values[i] = Null /\ (isString \/ ~bySentry)
      /\ ind \in [1 .. n -> {"length", Null}]
  BY <1>2, OdbcAssumption DEF prepare_bind
<1>4. PICK p \in BOOLEAN : p <=> passed
  OBVIOUS
<1>5. /\ param' = [values |-> values, isString |-> isString, bySentry |-> bySentry,
                   ind |-> ind, passed |-> p, freed |-> FALSE]
      /\ UNCHANGED <<stmt, query, set, start, arraySize, fetchedPtr, binding, newest, made>>
      /\ UNCHANGED <<expected, known, answer, read>>
  BY <1>4, Zenon DEF bind, driverVars, clientVars
<1> HIDE DEF ind
<1>6. ParamInv'
  <2>1. /\ param'.values = values /\ param'.isString = isString /\ param'.ind = ind
        /\ param'.bySentry = bySentry /\ (param'.passed <=> ~isString \/ Len(values) > 1)
    BY <1>4, <1>5
  <2>2. ind \in UNION {[1 .. m -> {"length", Null}] : m \in BatchSizes}
    BY <1>3
  <2>3. param' \in Params
    BY <1>4, <1>5, <2>2 DEF Params
  <2> QED
    BY <1>2, <1>3, <2>1, <2>3 DEF ParamInv
<1>7. /\ N' = N /\ Width' = Width
      /\ \A s, k : IsNull(set, s, k)' = IsNull(set, s, k) /\ Value(set, s, k)' = Value(set, s, k)
  BY <1>5, SameSet
<1>8. HandleInv' /\ LiveInv' /\ ReadInv'
  BY <1>5, <1>7 DEF IInv, HandleInv, LiveInv, Live, ReadInv
<1>9. BuffersHold' <=> BuffersHold
  <2>1. \A s, k : IsNull(set', s, k) = IsNull(set, s, k)
    BY <1>5
  <2> QED
    BY <1>5, <1>7, <2>1 DEF BuffersHold
<1>10. CursorInv'
  BY <1>5, <1>7, <1>9 DEF IInv, CursorInv, Live, Before, After, On, Capped
<1> QED
  BY <1>6, <1>8, <1>10 DEF IInv

\* What an execution sends is the batch, except that some kinds of it are never NULL.
LEMMA SentBatch ==
  ASSUME ParamInv, param # None
  PROVE  Sent = [i \in DOMAIN param.values |-> IF NoneIsNull THEN "value" ELSE param.values[i]]
<1>1. param \in Params
  BY DEF ParamInv
<1>2. PICK n \in BatchSizes : param.values \in [1 .. n -> {"value", Null}]
  BY <1>1 DEF Params, Batches
<1>3. n \in Nat /\ n >= 1 /\ DOMAIN param.values = 1 .. n /\ Len(param.values) = n
  BY <1>2 DEF BatchSizes
<1>4. /\ param.isString \in BOOLEAN /\ param.bySentry \in BOOLEAN
      /\ param.passed <=> ~param.isString \/ n > 1
      /\ \A i \in 1 .. n :
           param.ind[i] = Null <=> param.values[i] = Null /\ (param.isString \/ ~param.bySentry)
  BY <1>1, <1>3 DEF Params, ParamInv
<1>5. NoneIsNull <=> IF param.isString THEN n = 1 ELSE param.bySentry
  BY <1>3 DEF NoneIsNull
<1>6. ASSUME NEW i \in 1 .. n
      PROVE  (IF param.passed /\ param.ind[i] = Null THEN Null ELSE "value") =
                (IF NoneIsNull THEN "value" ELSE param.values[i])
  <2>1. param.values[i] \in {"value", Null}
    BY <1>2
  <2>2. CASE NoneIsNull
    <3>1. ~(param.passed /\ param.ind[i] = Null)
      BY <1>3, <1>4, <1>5, <2>2
    <3> QED
      BY <2>2, <3>1
  <2>3. CASE ~NoneIsNull
    <3>1. param.passed /\ (param.ind[i] = Null <=> param.values[i] = Null)
      BY <1>3, <1>4, <1>5, <2>3
    <3> QED
      BY <2>1, <2>3, <3>1
  <2> QED
    BY <2>2, <2>3
<1> QED
  BY <1>3, <1>6 DEF Sent

-----------------------------------------------------------------------------
(* The theorems.                                                           *)

LEMMA InitHolds == Init => IInv
<1> SUFFICES ASSUME Init PROVE IInv
  OBVIOUS
<1>1. stmt = "closed" /\ newest = None /\ param = None /\ made = 0 /\ set = 0
      /\ binding = [c \in Columns |-> Unbound]
  BY DEF Init
<1>2. HandleInv
  BY <1>1 DEF HandleInv, Unbound, Owners
<1> QED
  BY <1>1, <1>2 DEF IInv, LiveInv, CursorInv, ReadInv, ParamInv, Live

LEMMA MoveHolds ==
  ASSUME IInv,
         \/ next \/ prior \/ first \/ last
         \/ \E k \in -2 .. N + 1 : move(k)
         \/ \E k \in -2 .. 2 : skip(k)
  PROVE  IInv'
<1>1. read' = None /\ param' = param
  BY DEF next, prior, first, last, move, skip, Expects, MoveFrame
<1>2. HandleInv' /\ LiveInv' /\ CursorInv'
  BY FirstLastMove, NextStep, PriorStep, SkipStep DEF IInv
<1> QED
  BY <1>1, <1>2 DEF IInv, ReadInv, ParamInv

LEMMA ReadHolds ==
  ASSUME IInv, newest # None, Fetchable,
         \E c \in DOMAIN KindsOf(set) :
           \/ \E fallback \in BOOLEAN :
                \/ getNull(c, fallback) \/ getBound(c, fallback) \/ getUnbound(c, fallback)
                \/ getBeforeBuffers(c, fallback)
           \/ getUnboundFails(c)
           \/ unbind(c)
  PROVE  IInv'
<1>1. Moves /\ DOMAIN KindsOf(set) = 1 .. Width
  BY LiveFacts DEF Moves, Fetchable, Live, IInv
<1>2. ASSUME NEW c \in 1 .. Width, NEW fallback \in BOOLEAN,
             \/ getNull(c, fallback) \/ getBound(c, fallback) \/ getUnbound(c, fallback)
             \/ getBeforeBuffers(c, fallback)
      PROVE  IInv'
  BY <1>1, <1>2, NullAndBoundReads, UnboundRead, ReadBeforeBuffers
<1>3. ASSUME NEW c \in 1 .. Width, unbind(c) PROVE IInv'
  BY <1>3, UnbindStep
<1>4. ASSUME NEW c \in DOMAIN KindsOf(set), getUnboundFails(c) PROVE IInv'
  BY <1>4, EndStep
<1> QED
  BY <1>1, <1>2, <1>3, <1>4

LEMMA StepHolds == IInv /\ [Next]_vars => IInv'
<1> SUFFICES ASSUME IInv, [Next]_vars PROVE IInv'
  OBVIOUS
<1>1. CASE StatementStep
  <2>1. ASSUME NEW n \in BatchSizes, execute(n) PROVE IInv'
    BY <2>1, ExecuteStep
  <2>2. ASSUME NEW values \in Batches, NEW isString \in BOOLEAN, NEW bySentry \in BOOLEAN,
               bind(values, isString, bySentry)
        PROVE  IInv'
    BY <2>2, BindStep
  <2>3. ASSUME \/ close \/ closeFails \/ prepareFails \/ bindFails
               \/ \E q \in Queries : prepare(q)
               \/ \E n \in BatchSizes : executeFails(n)
        PROVE  IInv'
    BY <2>3, EndStep
  <2> QED
    BY <1>1, <2>1, <2>2, <2>3 DEF StatementStep
<1>2. CASE ResultStep
  BY <1>2, NextResultStep, EndStep, MoveHolds, ReadHolds DEF ResultStep
<1>3. CASE UNCHANGED vars
  <2>1. /\ UNCHANGED <<stmt, query, param, made, newest>>
        /\ UNCHANGED <<set, start, arraySize, fetchedPtr, binding>>
        /\ UNCHANGED <<expected, known, answer, read>>
    BY <1>3 DEF vars, driverVars, clientVars
  <2>2. /\ N' = N /\ Width' = Width
        /\ \A s, k : IsNull(set, s, k)' = IsNull(set, s, k) /\ Value(set, s, k)' = Value(set, s, k)
    BY <2>1, SameSet
  <2>3. HandleInv' /\ LiveInv' /\ ParamInv'
    BY <2>1, <2>2 DEF IInv, HandleInv, LiveInv, Live, ParamInv
  <2>4. \A s, k : IsNull(set', s, k) = IsNull(set, s, k)
    BY <2>1
  <2>5. BuffersHold' <=> BuffersHold
    BY <2>1, <2>2, <2>4 DEF BuffersHold
  <2>6. CursorInv'
    BY <2>1, <2>2, <2>5 DEF IInv, CursorInv, Live, Before, After, On, Capped
  <2>7. ReadInv'
    BY <2>1, <2>2, <2>4 DEF IInv, ReadInv, Live
  <2> QED
    BY <2>3, <2>6, <2>7 DEF IInv
<1> QED
  BY <1>1, <1>2, <1>3 DEF Next

\* The invariant on which the others rest: the driver's bindings, cursor and rowset, the
\* buffers of the newest result and what the client was told agree.
THEOREM Invariance == Spec => []IInv
<1> QED
  BY InitHolds, StepHolds, PTL DEF Spec

\* A fetch writes into the buffers the newest result owns, whatever was executed, bound,
\* unbound, destroyed or failed before, for every query (auto_bind_columns, unbind_column).
THEOREM BuffersAlwaysLive == Spec => []BuffersAreLive
<1>1. IInv => BuffersAreLive
  <2> SUFFICES ASSUME IInv, newest # None, Fetchable PROVE BuffersAreLive
    BY DEF BuffersAreLive
  <2>1. Live /\ LiveInv
    BY DEF Fetchable, Live, IInv
  <2>2. newest.size = arraySize /\ DOMAIN KindsOf(set) = 1 .. Width
    BY <2>1, LiveFacts
  <2>3. /\ fetchedPtr = newest.id /\ newest.buffers = set
        /\ \A c \in 1 .. Width : /\ binding[c].owner = <<newest.id, set>>
                                 /\ binding[c].data = newest.cols[c].bound
    BY <2>1 DEF LiveInv
  <2> QED
    BY <2>2, <2>3 DEF BuffersAreLive
<1> QED
  BY <1>1, Invariance, PTL

\* Where the client knows its row, every answer of a move and every value read is of the row
\* its calls promise, for every sequence of moves, reads, unbindings, executions and
\* failures and for texts and buffers of any length; the row is not known after the moves
\* ReadsExact names, a skip that fetches nothing among them (result_impl::next .. skip,
\* get_ref).
THEOREM ReadsAlwaysExact == Spec => []ReadsExact
<1>1. IInv => ReadsExact
  <2> SUFFICES ASSUME IInv, newest # None, Fetchable, known PROVE ReadsExact
    BY DEF ReadsExact
  <2>1. Moves /\ LiveInv /\ CursorInv /\ ReadInv
    BY DEF Moves, IInv
  <2>2. /\ Live /\ Width > 0 /\ N \in Nat /\ arraySize \in Nat \ {0} /\ start \in 0 .. N + 1
        /\ newest.size = arraySize /\ newest.rowCount \in Nat
        /\ newest.position \in 0 .. arraySize - 1
        /\ Before \/ After \/ On
    BY <2>1, CursorFacts
  <2>3. answer => expected \in 1 .. N /\ start + newest.position = expected
    <3>1. SUFFICES ASSUME answer PROVE expected \in 1 .. N /\ start + newest.position = expected
      OBVIOUS
    <3>2. On
      BY <2>2, <3>1 DEF Before, After
    <3>3. InRowset
      BY <2>2, <3>1, <3>2 DEF On, InRowset
    <3> QED
      BY <2>1, <3>1, <3>3, RowOfRead
  <2>4. ~answer => expected \notin 1 .. N
    <3>1. SUFFICES ASSUME ~answer PROVE expected \notin 1 .. N
      OBVIOUS
    <3>2. CASE Before
      BY <3>2 DEF Before
    <3>3. CASE After
      BY <2>2, <3>3 DEF After
    <3>4. CASE On
      BY <2>2, <3>1, <3>4 DEF On, Capped
    <3> QED
      BY <2>2, <3>2, <3>3, <3>4
  <2>5. answer /\ read # None =>
          \/ read.value = Value(set, expected, read.col)
          \/ ~read.bound /\ newest.size > 1
          \/ /\ ~read.bound /\ read.value = Empty
             /\ read.again \/ (~read.fallback /\ IsNull(set, expected, read.col))
    BY <2>1, <2>2 DEF ReadInv
  <2> QED
    BY <2>3, <2>4, <2>5 DEF ReadsExact
<1> QED
  BY <1>1, Invariance, PTL

\* An execution reads the last batch that was bound, with its NULLs, whatever batches of
\* whatever lengths were bound before, if the last call of bind did not fail; a single
\* string and numbers with a sentry are never NULL (bind, bind_strings, bind_parameter).
THEOREM ParametersAlwaysArrive == Spec => ParametersArrive
<1> DEFINE Arrives == made' # made /\ query.param /\ ~param.freed =>
                        received' = [i \in DOMAIN param.values |->
                                       IF NoneIsNull THEN "value" ELSE param.values[i]]
<1>1. IInv /\ [Next]_vars => [Arrives]_vars
  <2> SUFFICES ASSUME IInv, Next, made' # made, query.param, ~param.freed PROVE Arrives
    OBVIOUS
  <2>1. PICK n \in BatchSizes : execute(n)
    BY DEF Next, StatementStep, ResultStep, close, closeFails, prepare, prepareFails, Forgets,
           Throws, bind, bindFails, executeFails, next_result, next_resultFails, destroy,
           fetchFails, next, prior, first, last, move, skip, MoveFrame, getOutOfRange, getNull,
           getBound, getUnbound, getUnboundFails, getBeforeBuffers, unbind, ReadFrame
  <2>2. received' = Sent
    BY <2>1 DEF execute, MaySend
  <2>3. param # None
    BY <2>1 DEF execute, Given
  <2> QED
    BY <2>2, <2>3, SentBatch DEF IInv
<1> QED
  BY <1>1, Invariance, PTL DEF Spec, ParametersArrive
=============================================================================
