----------------------------- MODULE OdbcResult -----------------------------
(***************************************************************************)
(* A nanodbc statement, the parameters bound to it and the results of its  *)
(* executions, of which the newest is read: bind a batch, execute it, walk *)
(* the rows, read columns.                                                 *)
(*                                                                         *)
(* A result owns the buffers that the driver fills through the bindings of *)
(* the statement's handle.  An exception leaves the block of the caller    *)
(* and destroys its results; the statement stays.  The driver does as ODBC *)
(* says: a column keeps its binding until it is bound again or the handle  *)
(* is freed, a fetch fills the bindings of the columns of the result set.  *)
(***************************************************************************)
EXTENDS Integers, Sequences, FiniteSets

CONSTANTS
  Queries,    \* [sets |-> sequence of result sets, param |-> has it a parameter]; a
              \* result set is [cols |-> sequence of kinds, rows |-> number]
  NullCells,  \* <<set, row, column>> of every cell that is NULL
  LongLength, \* the length of a long text, as a function of its row
  BufferSize, \* of the buffer SQLGetData fills, the terminator included
  MaxColumns, \* columns of the widest result set
  Results,    \* the result objects, 1 .. n in order of creation
  MaxFaults,  \* bound on the calls that fail
  MaxBack,    \* bound of the model on how far skip leaves a rowset backwards
  Null, None

\* "number" and "text" columns are bound, "long" ones read with SQLGetData.
Kinds == {"number", "text", "long"}

ASSUME OdbcAssumption ==
  /\ \A q \in Queries :
       /\ q.param \in BOOLEAN
       /\ q.sets \in Seq([cols : Seq(Kinds), rows : Nat]) /\ q.sets # <<>>
       /\ \A s \in DOMAIN q.sets : /\ Len(q.sets[s].cols) <= MaxColumns
                                  /\ \A r \in 1 .. q.sets[s].rows : LongLength[r] \in Nat
  /\ BufferSize \in Nat \ {0, 1} /\ MaxColumns \in Nat /\ MaxFaults \in Nat
  /\ MaxBack \in Nat
  /\ IsFiniteSet(Results) /\ Results = 1 .. Cardinality(Results)
  /\ Null \notin {"value", "length"}

VARIABLES
  stmt,     \* statement_impl: "closed", "open" or "prepared"
  query,    \* the text the handle was prepared with
  param,    \* the array bound to the parameter, and whether it was freed, or None
  received, \* what the last SQLExecute read of it
  set, start, \* the driver's cursor: the result set, the first row of the rowset
  arraySize, fetchedPtr, \* SQL_ATTR_ROW_ARRAY_SIZE, SQL_ATTR_ROWS_FETCHED_PTR
  binding,  \* of each column at the driver: whose buffer, and whether data are written
  dataRead, \* the column SQLGetData has exhausted in this row, or 0
  newest,   \* the result_impl of the newest result, or None
  made,     \* how many results were constructed
  expected, \* the row the client is on by the documentation of its calls
  known,    \* FALSE after a call whose row depends on the rowset
  answer,   \* what the last call that moves to a row returned
  read,     \* the last value read
  faults

driverVars == <<set, start, arraySize, fetchedPtr, binding, dataRead>>
clientVars == <<expected, known, answer, read>>
vars == <<stmt, query, param, received, driverVars, newest, made, clientVars, faults>>

Columns == 1 .. MaxColumns
Unbound == [owner |-> None, data |-> FALSE]

Init ==
  /\ stmt = "closed" /\ query = None /\ param = None /\ received = None
  /\ set = 0 /\ start = 0 /\ arraySize = 1 /\ fetchedPtr = None
  /\ binding = [c \in Columns |-> Unbound] /\ dataRead = 0
  /\ newest = None /\ made = 0
  /\ expected = 0 /\ known = TRUE /\ answer = FALSE /\ read = None
  /\ faults = 0

-----------------------------------------------------------------------------
(* The data.  A value is the row it comes from and, of a long text, its    *)
(* length; an empty one is <<0, 0>>.                                       *)

Empty == <<0, 0>>
Garbage == <<0, 1>> \* of no row: memory outside of the buffers
KindsOf(s)   == query.sets[s].cols
RowsIn(s)    == query.sets[s].rows
IsNull(s, r, c) == <<s, r, c>> \in NullCells
LengthOf(s, r, c) == IF KindsOf(s)[c] = "long" THEN LongLength[r] ELSE 0
Value(s, r, c) == IF IsNull(s, r, c) THEN Null ELSE <<r, LengthOf(s, r, c)>>

\* What one call of SQLGetData adds of the rest of a text: the driver tells the length
\* of the rest or SQL_NO_TOTAL, and fills the buffer up to its terminator.
Appended(left, noTotal) ==
  IF noTotal \/ left > BufferSize - 1 THEN BufferSize - 1 ELSE left

\* The loop while SQL_SUCCESS_WITH_INFO, which the driver returns until the rest fits;
\* the last call knows its length.
Collected(length, noTotal) ==
  LET collect[left \in 0 .. length] ==
        IF left <= BufferSize - 1
          THEN Appended(left, FALSE)
          ELSE Appended(left, noTotal) + collect[left - (BufferSize - 1)]
  IN  collect[length]

-----------------------------------------------------------------------------
(* The driver's cursor.                                                    *)

LastStart(n) == IF n > arraySize THEN n - arraySize + 1 ELSE 1

\* SQLFetchScroll: the first row of the new rowset; 0 is before the first row and
\* n + 1 after the last one, where there are no data.  Less than a rowset before the first
\* row it takes the first one.
Scrolled(orientation, k) ==
  LET n == RowsIn(set)
      Within(r) == IF r > n THEN n + 1 ELSE r
      BeforeFirst == IF n > 0 /\ -k <= arraySize THEN 1 ELSE 0
  IN  CASE orientation = "first"    -> Within(1)
        [] orientation = "last"     -> IF n = 0 THEN 1 ELSE LastStart(n)
        [] orientation = "next"     -> Within(IF start = 0 THEN 1 ELSE start + arraySize)
        [] orientation = "prior"    -> IF start = n + 1 THEN IF n = 0 THEN 0 ELSE LastStart(n)
                                       ELSE IF start <= 1 THEN 0
                                       ELSE IF start <= arraySize THEN 1
                                       ELSE start - arraySize
        [] orientation = "absolute" -> IF k >= 0 THEN Within(k)
                                       ELSE IF -k <= n THEN n + 1 + k ELSE BeforeFirst
        [] orientation = "relative" -> IF start + k >= 1 THEN Within(start + k)
                                       ELSE IF start > 1 THEN BeforeFirst ELSE 0

-----------------------------------------------------------------------------
(* Failure: the exception unwinds the route.                               *)

Fails == faults < MaxFaults /\ faults' = faults + 1

Unwinds ==
  /\ newest' = None /\ read' = None

Throws ==
  /\ Unwinds
  /\ UNCHANGED <<stmt, query, param, received, driverVars, made, expected, known, answer>>

-----------------------------------------------------------------------------
(* The statement.                                                          *)

\* open(conn): the old handle is freed and with it what the driver knew of it.
NewHandle ==
  /\ set' = 0 /\ start' = 0 /\ arraySize' = 1 /\ fetchedPtr' = None
  /\ binding' = [c \in Columns |-> Unbound] /\ dataRead' = 0
  /\ param' = None /\ received' = None

\* The results of a freed handle are not read any more.
Forgets ==
  /\ newest' = None /\ read' = None
  /\ UNCHANGED <<made, expected, known, answer, faults>>

close ==
  /\ stmt # "closed"
  /\ stmt' = "closed" /\ query' = None
  /\ NewHandle /\ Forgets

\* SQLCancel fails: the statement stays as it is.
closeFails == stmt # "closed" /\ Fails /\ Throws

prepare(q) ==
  /\ stmt' = "prepared" /\ query' = q
  /\ NewHandle /\ Forgets

\* The handle cannot be allocated, or SQLPrepare refuses the text.
prepareFails ==
  /\ Fails
  /\ stmt' \in {"closed", "open"} /\ query' = None
  /\ NewHandle /\ Unwinds
  /\ UNCHANGED <<made, expected, known, answer>>

-----------------------------------------------------------------------------
(* Parameters: a batch of values of which some are NULL.                   *)

\* mutant: the indicators of the last batch are left
prepare_bindKept(n) ==
  [i \in 1 .. n |-> IF param # None /\ i \in DOMAIN param.ind THEN param.ind[i] ELSE Null]

\* Every indicator is SQL_NULL_DATA before the values that are there are marked.
prepare_bind(n) == [i \in 1 .. n |-> Null]

\* nulls flags or a sentry tell which are NULL; with a sentry, bind takes no number for
\* NULL.  A single string passes no indicators.
bind(values, isString, bySentry) ==
  /\ stmt = "prepared" /\ query.param
  /\ param' = [values   |-> values,
               isString |-> isString,
               bySentry |-> bySentry,
               ind      |-> [i \in DOMAIN values |->
                               IF values[i] = Null /\ (isString \/ ~bySentry)
                                 THEN prepare_bind(Len(values))[i] ELSE "length"],
               passed   |-> ~isString \/ Len(values) > 1,
               freed    |-> FALSE]
  /\ UNCHANGED <<stmt, query, received, driverVars, newest, made, clientVars, faults>>

\* SQLDescribeParam fails before anything is changed; or it fails the second time in
\* bind_strings, or SQLBindParameter does, when the indicators and the strings of the last
\* batch, which the driver still has the addresses of, are freed.
bindFails ==
  /\ stmt = "prepared" /\ query.param /\ Fails
  /\ \/ UNCHANGED param
     \/ param # None /\ param' = [param EXCEPT !.freed = TRUE]
  /\ Unwinds
  /\ UNCHANGED <<stmt, query, received, driverVars, made, expected, known, answer>>

\* The driver takes the array without indicators for values that are there.
Sent == [i \in DOMAIN param.values |->
           IF param.passed /\ param.ind[i] = Null THEN Null ELSE "value"]

\* What it finds where the batch was is not defined.
MaySend == IF param.freed THEN [DOMAIN param.values -> {"value", Null, "garbage"}] ELSE {Sent}

-----------------------------------------------------------------------------
(* Result objects.                                                         *)

Column(kind, n) ==
  [bound |-> kind # "long", data |-> [i \in 1 .. n |-> Empty], null |-> [i \in 1 .. n |-> FALSE]]

NewResult(o, s, n) ==
  [id |-> o, size |-> n, rowCount |-> 0, position |-> 0, buffers |-> s,
   cols |-> [c \in DOMAIN KindsOf(s) |-> Column(KindsOf(s)[c], n)]]

\* mutant: a long column is not unbound
auto_bind_columnsBoundOnly(o, s, upto) ==
  [c \in Columns |-> IF c \in DOMAIN KindsOf(s) /\ c <= upto /\ KindsOf(s)[c] # "long"
                       THEN [owner |-> <<o, s>>, data |-> TRUE] ELSE binding[c]]

\* auto_bind_columns, up to a column: SQLBindCol with the column's buffers, or with
\* its indicators alone.
auto_bind_columns(o, s, upto) ==
  [c \in Columns |-> IF c \in DOMAIN KindsOf(s) /\ c <= upto
                       THEN [owner |-> <<o, s>>, data |-> KindsOf(s)[c] # "long"]
                       ELSE binding[c]]

\* The construction of a result from the set under the cursor.
Constructs(n) ==
  LET o == made + 1
  IN  /\ o \in Results /\ made' = o
      /\ arraySize' = n /\ fetchedPtr' = o
      /\ newest' = NewResult(o, 1, n)
      /\ expected' = 0 /\ known' = TRUE /\ answer' = FALSE /\ read' = None

\* The parameter has its batch.
Given(n) == query.param => param # None /\ n = Len(param.values)

\* SQLFreeStmt closes the cursor, SQLExecute runs with the whole batch, and the
\* result is made with the batch's size as the size of its rowsets.
execute(n) ==
  /\ stmt = "prepared" /\ Given(n)
  /\ received' \in IF query.param THEN MaySend ELSE {None}
  /\ set' = 1 /\ start' = 0 /\ dataRead' = 0
  /\ binding' = auto_bind_columns(made + 1, 1, MaxColumns)
  /\ Constructs(n)
  /\ UNCHANGED <<stmt, query, param, faults>>

\* SQLExecute fails, as it does without the parameter and may do on freed memory, or the
\* binding of some column; what was bound stays bound.
executeFails(n) ==
  /\ stmt = "prepared"
  /\ \/ Given(n) /\ Fails
     \/ query.param /\ (IF param = None THEN TRUE ELSE param.freed) /\ UNCHANGED faults
  /\ \/ set' = 0 /\ UNCHANGED <<arraySize, fetchedPtr, binding>>
     \/ /\ set' = 1 /\ arraySize' = n /\ fetchedPtr' = None
        /\ \E upto \in 0 .. Len(KindsOf(1)) - 1 : binding' = auto_bind_columns(made + 1, 1, upto)
  /\ start' = 0 /\ dataRead' = 0
  /\ Unwinds
  /\ UNCHANGED <<stmt, query, param, received, made, expected, known, answer>>

\* SQLMoreResults, then the columns of the next set in place of those of the last.
\* The count and the position of the last rowset stay, so with rowsets of several rows, or
\* a position before the rowset, next() may step inside a rowset that was never fetched.
next_result ==
  /\ newest # None /\ set > 0
  /\ start' = 0 /\ dataRead' = 0
  /\ IF set < Len(query.sets)
       THEN /\ set' = set + 1
            /\ binding' = auto_bind_columns(newest.id, set + 1, MaxColumns)
            /\ newest' = [newest EXCEPT !.cols = NewResult(newest.id, set + 1, newest.size).cols,
                                        !.buffers = set + 1]
       ELSE set' = 0 /\ UNCHANGED <<binding, newest>>
  /\ answer' = FALSE /\ expected' = 0 /\ known' = (newest.size = 1 /\ newest.position = 0)
  /\ read' = None
  /\ UNCHANGED <<stmt, query, param, received, arraySize, fetchedPtr, made, faults>>

next_resultFails ==
  /\ newest # None /\ set > 0 /\ set < Len(query.sets) /\ Fails
  /\ set' = set + 1 /\ start' = 0 /\ dataRead' = 0
  /\ \E upto \in 0 .. Len(KindsOf(set + 1)) - 1 :
       binding' = auto_bind_columns(newest.id, set + 1, upto)
  /\ Unwinds
  /\ UNCHANGED <<stmt, query, param, received, arraySize, fetchedPtr, made,
                 expected, known, answer>>

\* The destructor frees the buffers; the driver is not told.  An older result is not
\* read any more, and its destructor changes nothing of the newest.
destroy ==
  /\ newest # None
  /\ newest' = None /\ read' = None
  /\ UNCHANGED <<stmt, query, param, received, driverVars, made, expected, known, answer, faults>>

-----------------------------------------------------------------------------
(* Moving: within the rowset, or to another one.                           *)

N == RowsIn(set)

\* SQLFetchScroll fails without a cursor, on a set without columns, or by a fault.
Fetchable == set > 0 /\ KindsOf(set) # <<>>

fetchFails ==
  /\ newest # None
  /\ IF Fetchable THEN Fails ELSE UNCHANGED faults
  /\ Throws

\* The indicators of the last rowset are cleared.
before_move(col) == [i \in DOMAIN col.null |-> FALSE]

\* The driver fills the buffers it is bound to with rows r, r + 1, ... of the set.  Some
\* drivers write the indicators of a column whose data are not bound, some do not.
Filled(c, r, count, writesIndicators) ==
  LET col == newest.cols[c]
      mine == binding[c].owner = <<newest.id, set>>
      Row(i) == r + i - 1
  IN  [col EXCEPT
        !.data = [i \in DOMAIN @ |-> IF mine /\ binding[c].data /\ i <= count
                                       /\ ~IsNull(set, Row(i), c)
                                       THEN Value(set, Row(i), c) ELSE @[i]],
        !.null = [i \in DOMAIN @ |-> IF mine /\ i <= count /\ (binding[c].data \/ writesIndicators)
                                       THEN IsNull(set, Row(i), c) ELSE before_move(col)[i]]]

fetch(orientation, k) ==
  LET r     == Scrolled(orientation, k)
      found == r \in 1 .. N
      count == IF ~found THEN 0 ELSE IF N - r + 1 < arraySize THEN N - r + 1 ELSE arraySize
  IN  /\ start' = r /\ dataRead' = 0
      /\ \E writesIndicators \in BOOLEAN :
           newest' = [newest EXCEPT
             !.rowCount = IF fetchedPtr = newest.id THEN count ELSE @,
             !.position = 0,
             !.cols = [c \in DOMAIN @ |-> Filled(c, r, count, writesIndicators)]]
      /\ answer' = found

Stays(position) ==
  /\ newest' = [newest EXCEPT !.position = position]
  /\ UNCHANGED <<start, dataRead>>

\* By the documentation the call puts the client on that row.
Expects(row, surely) ==
  /\ expected' = IF row > N THEN N + 1 ELSE IF row < 0 THEN 0 ELSE row
  /\ known' = surely
  /\ read' = None

Moves == newest # None /\ Fetchable
MoveFrame == UNCHANGED <<stmt, query, param, received, set, arraySize, fetchedPtr, binding,
                         made, faults>>

\* mutant: the position is compared with the rows fetched only
nextPastRowset ==
  /\ Moves
  /\ IF newest.rowCount > 0 /\ newest.position + 1 < newest.rowCount + 1
       THEN Stays(newest.position + 1) /\ answer' = (newest.position + 1 < newest.rowCount)
       ELSE fetch("next", 0)
  /\ Expects(expected + 1, known)
  /\ MoveFrame

next ==
  /\ Moves
  /\ IF newest.rowCount > 0 /\ newest.position + 1 < newest.size
       THEN Stays(newest.position + 1) /\ answer' = (newest.position + 1 < newest.rowCount)
       ELSE fetch("next", 0)
  /\ Expects(expected + 1, known)
  /\ MoveFrame

\* Over the edge of a rowset of several rows prior() lands on the first row of the
\* rowset before.
prior ==
  /\ Moves
  /\ IF newest.rowCount > 0 /\ newest.position > 0
       THEN Stays(newest.position - 1) /\ answer' = TRUE
       ELSE fetch("prior", 0)
  /\ Expects(expected - 1, known /\ newest.size = 1)
  /\ MoveFrame

first ==
  /\ Moves
  /\ fetch("first", 0)
  /\ Expects(1, TRUE)
  /\ MoveFrame

\* The first row of the last rowset.
last ==
  /\ Moves
  /\ fetch("last", 0)
  /\ Expects(IF N = 0 THEN 1 ELSE N, newest.size = 1)
  /\ MoveFrame

\* A number below zero counts from the end.
move(k) ==
  /\ Moves
  /\ fetch("absolute", k)
  /\ Expects(IF k < 0 THEN N + 1 + k ELSE k, k >= 0 \/ newest.size = 1)
  /\ MoveFrame

\* Forwards over the edge the rows are counted from the first of the rowset.  The edge at
\* its beginning is not tested: a count below zero leaves the rowset without a fetch.
skip(k) ==
  LET inside == newest.rowCount > 0 /\ newest.position + k < newest.size
  IN  /\ Moves /\ newest.position + k >= -MaxBack
      /\ IF inside
           THEN Stays(newest.position + k) /\ answer' = (newest.position + k < newest.rowCount)
           ELSE fetch("relative", k)
      /\ Expects(expected + k, known /\ newest.size = 1 /\ ~inside)
      /\ MoveFrame

-----------------------------------------------------------------------------
(* Reading a column of the row.                                            *)

ReadFrame == UNCHANGED <<stmt, query, param, received, set, start, arraySize, fetchedPtr, binding,
                         made, expected, known, answer, faults>>

Reads(c, value, again, fallback) ==
  read' = [col |-> c, value |-> value, bound |-> newest.cols[c].bound,
           again |-> again, fallback |-> fallback]

InRowset == newest.position \in 0 .. newest.rowCount - 1

\* is_null tests the end of the rowset first.
getOutOfRange ==
  /\ Moves /\ newest.position >= newest.rowCount
  /\ Throws /\ UNCHANGED faults

\* Nothing tests its beginning: what lies before the buffers is read.
getBeforeBuffers(c, fallback) ==
  /\ Moves /\ newest.position < 0
  /\ \/ Throws /\ UNCHANGED faults
     \/ /\ \E value \in {Null, Garbage} : Reads(c, value, FALSE, fallback)
        /\ dataRead' \in IF newest.cols[c].bound THEN {dataRead} ELSE {dataRead, c}
        /\ UNCHANGED newest /\ ReadFrame

\* A NULL known before the read: the fallback, or null_access_error.
getNull(c, fallback) ==
  /\ Moves /\ InRowset
  /\ newest.cols[c].null[newest.position + 1]
  /\ IF fallback
       THEN Reads(c, Null, FALSE, fallback) /\ UNCHANGED <<newest, dataRead>> /\ ReadFrame
       ELSE Throws /\ UNCHANGED faults

getBound(c, fallback) ==
  /\ Moves /\ InRowset
  /\ ~newest.cols[c].null[newest.position + 1] /\ newest.cols[c].bound
  /\ Reads(c, newest.cols[c].data[newest.position + 1], FALSE, fallback)
  /\ UNCHANGED <<newest, dataRead>> /\ ReadFrame

\* SQLGetData reads the first row of the rowset; it has no data when the column was just
\* read, and fails when the cursor is on no row.  A NULL is found by the read, and
\* reported if there is a fallback.
getUnbound(c, fallback) ==
  LET again == dataRead = c
      null  == ~again /\ IsNull(set, start, c)
  IN  /\ Moves /\ InRowset
      /\ ~newest.cols[c].null[newest.position + 1] /\ ~newest.cols[c].bound
      /\ IF start \notin 1 .. N \/ (again /\ KindsOf(set)[c] = "number")
           THEN Throws /\ UNCHANGED faults
           ELSE /\ dataRead' = c
                /\ newest' = [newest EXCEPT !.cols[c].null[newest.position + 1] = null]
                /\ \E noTotal \in BOOLEAN :
                     Reads(c, IF null THEN IF fallback THEN Null ELSE Empty
                              ELSE IF again THEN Empty
                              ELSE <<start, Collected(LengthOf(set, start, c), noTotal)>>,
                           again, fallback)
                /\ ReadFrame

\* SQLGetData fails on the first call or a later one.
getUnboundFails(c) ==
  /\ Moves /\ InRowset /\ ~newest.cols[c].bound
  /\ Fails /\ Throws

\* The data are unbound and freed, the indicators stay bound.
unbind(c) ==
  /\ Moves /\ newest.cols[c].bound
  /\ binding' = [binding EXCEPT ![c].data = FALSE]
  /\ newest' = [newest EXCEPT !.cols[c].bound = FALSE]
  /\ read' = None
  /\ UNCHANGED <<stmt, query, param, received, set, start, arraySize, fetchedPtr, dataRead,
                 made, expected, known, answer, faults>>

-----------------------------------------------------------------------------
BatchSizes == {1, 2}
Batches == UNION {[1 .. n -> {"value", Null}] : n \in BatchSizes}

StatementStep ==
  \/ close \/ closeFails
  \/ \E q \in Queries : prepare(q)
  \/ prepareFails
  \/ \E values \in Batches, isString, bySentry \in BOOLEAN : bind(values, isString, bySentry)
  \/ bindFails
  \/ \E n \in BatchSizes : execute(n) \/ executeFails(n)

ResultStep ==
  \/ next_result \/ next_resultFails
  \/ destroy
  \/ fetchFails \/ next \/ prior \/ first \/ last
  \/ newest # None /\ Fetchable /\ \E k \in -2 .. N + 1 : move(k)
  \/ \E k \in -2 .. 2 : skip(k)
  \/ getOutOfRange
  \/ newest # None /\ Fetchable /\
       \E c \in DOMAIN KindsOf(set) :
         \/ \E fallback \in BOOLEAN :
              \/ getNull(c, fallback) \/ getBound(c, fallback) \/ getUnbound(c, fallback)
              \/ getBeforeBuffers(c, fallback)
         \/ getUnboundFails(c)
         \/ unbind(c)

Next == StatementStep \/ ResultStep

Spec == Init /\ [][Next]_vars

-----------------------------------------------------------------------------
\* What the newest result is moved to and read is the row its calls promise: each answer
\* tells whether there is such a row, and a column of it is read with its own value, its
\* own NULL and its whole text (result_impl::next .. skip, get_ref).  The row is not known
\* from a skip that fetched nothing, or from prior, skip, last or a move from the end with
\* rowsets of several rows, until first, last or move.  An unbound column is read so with
\* rowsets of one row, once, and as an empty value instead of an exception when it is NULL
\* and no fallback is given.
ReadsExact ==
  newest # None /\ Fetchable /\ known =>
    /\ answer => /\ expected \in 1 .. N
                 /\ start + newest.position = expected
    /\ ~answer => expected \notin 1 .. N
    /\ answer /\ read # None =>
         \/ read.value = Value(set, expected, read.col)
         \/ ~read.bound /\ newest.size > 1
         \/ /\ ~read.bound /\ read.value = Empty
            /\ read.again \/ (~read.fallback /\ IsNull(set, expected, read.col))

\* Whatever was executed, unbound, destroyed or failed before, a fetch of the newest
\* result writes into the buffers that result owns now, and a column that is read with
\* SQLGetData has none at the driver (auto_bind_columns, bind_column, unbind_column).
BuffersAreLive ==
  newest # None /\ Fetchable =>
    /\ fetchedPtr = newest.id /\ arraySize = newest.size
    /\ newest.buffers = set
    /\ \A c \in DOMAIN KindsOf(set) :
         /\ binding[c].owner = <<newest.id, set>>
         /\ binding[c].data = newest.cols[c].bound

NoneIsNull == IF param.isString THEN Len(param.values) = 1 ELSE param.bySentry

\* An execution reads the values and the NULLs of the last batch bound, whatever was
\* bound before; but none is NULL of a single string and of numbers with a sentry, and
\* anything may be sent after a bind that failed, until one succeeds (bind, bind_strings,
\* bind_parameter).
ParametersArrive ==
  [][made' # made /\ query.param /\ ~param.freed =>
       received' = [i \in DOMAIN param.values |->
                      IF NoneIsNull THEN "value" ELSE param.values[i]]]_vars
=============================================================================
