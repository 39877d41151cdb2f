---------------------------- MODULE OdbcSession ----------------------------
(***************************************************************************)
(* The routes of CandleRoutes.h over one nanodbc connection: the statement *)
(* and the transaction objects, the calls they make, and the server's side *)
(* of the session.  Every call may fail, and the link may be lost.         *)
(*                                                                         *)
(* The server answers as ODBC says: statements take effect at once in      *)
(* autocommit mode, a transaction is open otherwise, switching autocommit  *)
(* on commits it, and a lost link rolls it back.                           *)
(***************************************************************************)
EXTENDS Integers, Sequences, FiniteSets

CONSTANTS
  OptionBatches, ResultBatches, \* what the transactions post
  Times, Bars,                  \* what single statements post
  Size,                         \* how many rows each has
  None,
  MaxFaults                     \* bound on the calls that fail

Batches == OptionBatches \cup ResultBatches
Singles == Times \cup Bars
Posts   == Batches \cup Singles

ASSUME SessionAssumption ==
  /\ Size \in [Posts -> Nat \ {0}]
  /\ OptionBatches \cap ResultBatches = {} /\ Times \cap Bars = {}
  /\ Batches \cap Singles = {}
  /\ None \notin Posts /\ MaxFaults \in Nat

RowsOf(p) == {<<p, i>> : i \in 1 .. Size[p]}
Rows == UNION {RowsOf(p) : p \in Posts}

VARIABLES
  link, autocommit,  \* of the session, at the server
  durable, pending,  \* rows committed, rows of the open transaction
  idOf, nextId,      \* the identity column
  tempId,            \* the ids in tempId
  connected_, transactions_, rollback_, \* connection_impl
  committed_,        \* transaction_impl
  pc, post,          \* where the insertion thread is, and in the post of what
  thrown,            \* an exception passes the transaction's destructor
  sqlId,             \* the ids the candles were given
  result,            \* of each post: what it reported
  faults,
  botched, autocommitLost \* batches whose rollback failed in a live session, and whether autocommit stayed off

serverVars == <<link, autocommit, durable, pending, idOf, nextId, tempId>>
connVars   == <<connected_, transactions_, rollback_, committed_>>
threadVars == <<pc, post, thrown, sqlId, result>>
faultVars  == <<faults, botched, autocommitLost>>
vars == <<serverVars, connVars, threadVars, faultVars>>

Init ==
  /\ link \in BOOLEAN /\ connected_ = link
  /\ autocommit = TRUE /\ durable = {} /\ pending = {}
  /\ idOf = [r \in Rows |-> 0] /\ nextId = 1 /\ tempId = <<>>
  /\ transactions_ = 0 /\ rollback_ = FALSE /\ committed_ = FALSE
  /\ pc = "idle" /\ post = None /\ thrown = FALSE
  /\ sqlId = [r \in Rows |-> 0] /\ result = [p \in Posts |-> "none"]
  /\ faults = 0 /\ botched = {} /\ autocommitLost = FALSE

-----------------------------------------------------------------------------
\* A call succeeds, or fails with the session going on or gone.
Succeeds == link /\ UNCHANGED faults
Fails ==
  IF link THEN faults < MaxFaults /\ faults' = faults + 1 ELSE UNCHANGED faults

loseLink ==
  /\ link /\ faults < MaxFaults
  /\ link' = FALSE /\ pending' = {} /\ faults' = faults + 1
  /\ UNCHANGED <<autocommit, durable, idOf, nextId, tempId, connVars, threadVars,
                 botched, autocommitLost>>

\* The catch of a route: the error is logged, and the next post goes on as before.
Report(outcome) ==
  /\ result' = [result EXCEPT ![post] = outcome]
  /\ pc' = "idle" /\ post' = None /\ thrown' = FALSE

Throws(at) ==
  /\ pc = at /\ Fails
  /\ Report("failed")
  /\ UNCHANGED <<serverVars, connVars, sqlId, botched, autocommitLost>>

Goes(to) == pc' = to /\ UNCHANGED <<post, thrown, sqlId, result, botched, autocommitLost>>

begin(p) ==
  /\ pc = "idle" /\ result[p] = "none"
  /\ post' = p
  /\ pc' = CASE p \in OptionBatches -> "drop"
             [] p \in ResultBatches -> "prepare"
             [] p \in Singles       -> "insert"
  /\ UNCHANGED <<serverVars, connVars, thrown, sqlId, result, faultVars>>

\* mutant: the table is left as it was
dropTempIdKept ==
  /\ pc = "drop" /\ Succeeds
  /\ Goes("create")
  /\ UNCHANGED <<serverVars, connVars>>

\* execute of a query: a statement of its own, at once.
dropTempId ==
  /\ pc = "drop" /\ Succeeds
  /\ tempId' = <<>>
  /\ Goes("create")
  /\ UNCHANGED <<link, autocommit, durable, pending, idOf, nextId, connVars>>

createTempId ==
  /\ pc = "create" /\ Succeeds
  /\ Goes("prepare")
  /\ UNCHANGED <<serverVars, connVars>>

\* The statement is allocated and prepared, its parameters described and bound.
prepare ==
  /\ pc = "prepare" /\ Succeeds
  /\ Goes("transaction")
  /\ UNCHANGED <<serverVars, connVars>>

-----------------------------------------------------------------------------
\* The constructor of transaction_impl: the first one turns autocommit off.
NeedsCall == transactions_ = 0 /\ connected_
transaction ==
  /\ pc = "transaction"
  /\ IF NeedsCall THEN Succeeds /\ autocommit' = FALSE ELSE UNCHANGED <<faults, autocommit>>
  /\ transactions_' = transactions_ + 1
  /\ committed_' = FALSE
  /\ Goes("execute")
  /\ UNCHANGED <<link, durable, pending, idOf, nextId, tempId, connected_, rollback_>>

\* The first n rows of the batch get in, each with the next identity.
Insert(n) ==
  LET new == {<<post, i>> : i \in 1 .. n}
  IN  /\ IF autocommit THEN durable' = durable \cup new /\ UNCHANGED pending
                       ELSE pending' = pending \cup new /\ UNCHANGED durable
      /\ idOf' = [r \in Rows |-> IF r \in new THEN nextId + r[2] - 1 ELSE idOf[r]]
      /\ nextId' = nextId + n

\* SQLExecute with the whole array of parameters, and the result object made of it.
execute ==
  /\ pc = "execute" /\ Succeeds
  /\ Insert(Size[post])
  /\ tempId' = IF post \in OptionBatches
                 THEN tempId \o [i \in 1 .. Size[post] |-> nextId + i - 1]
                 ELSE tempId
  /\ Goes("commit")
  /\ UNCHANGED <<link, autocommit, connVars>>

\* It fails at a row, or before the first, or after the last.
executeFails ==
  /\ pc = "execute" /\ Fails
  /\ IF link THEN \E n \in 0 .. Size[post] : Insert(n)
             ELSE UNCHANGED <<durable, pending, idOf, nextId>>
  /\ thrown' = TRUE /\ pc' = "destroy"
  /\ UNCHANGED <<link, autocommit, tempId, connVars, post, sqlId, result, botched, autocommitLost>>

Unref == IF transactions_ > 0 THEN transactions_ - 1 ELSE 0

\* mutant: the count is not taken back
commitKeepsCount ==
  /\ pc = "commit"
  /\ committed_' = TRUE
  /\ pc' = "destroy"
  /\ UNCHANGED <<serverVars, connected_, transactions_, rollback_, post, thrown, sqlId, result,
                 faultVars>>

\* commit: the transaction counts as committed before SQLEndTran answers.
commit ==
  /\ pc = "commit"
  /\ committed_' = TRUE /\ transactions_' = Unref
  /\ IF Unref = 0 /\ connected_
       THEN \/ /\ Succeeds
               /\ durable' = durable \cup pending /\ pending' = {}
               /\ UNCHANGED <<link, thrown>>
            \/ /\ Fails
               /\ thrown' = TRUE
               /\ UNCHANGED <<link, durable, pending>>
            \/ /\ link /\ Fails /\ link' = FALSE \* committed, but the answer is lost
               /\ durable' = durable \cup pending /\ pending' = {}
               /\ thrown' = TRUE
       ELSE UNCHANGED <<link, durable, pending, faults, thrown>>
  /\ pc' = "destroy"
  /\ UNCHANGED <<autocommit, idOf, nextId, tempId, connected_, rollback_, post, sqlId,
                 result, botched, autocommitLost>>

\* The destructor, first part: what was not committed is marked for rollback and rolled back
\* by the last transaction.  The answer of SQLEndTran is not looked at.
Destructor(marked) ==
  /\ pc = "destroy"
  /\ transactions_' = IF committed_ THEN transactions_ ELSE Unref
  /\ IF transactions_' = 0 /\ connected_ /\ (marked \/ rollback_)
       THEN /\ \/ Succeeds /\ pending' = {} /\ UNCHANGED botched
               \/ /\ Fails
                  /\ botched' = IF link THEN botched \cup {post} ELSE botched
                  /\ UNCHANGED pending
            /\ rollback_' = FALSE
       ELSE rollback_' = (marked \/ rollback_) /\ UNCHANGED <<pending, faults, botched>>
  /\ pc' = "autocommit"
  /\ UNCHANGED <<link, autocommit, durable, idOf, nextId, tempId, connected_, committed_, post,
                 thrown, sqlId, result, autocommitLost>>

\* mutant: nothing is marked
destroyUnmarked == Destructor(FALSE)

destroy == Destructor(~committed_)

\* The second part: autocommit again, which commits what is still open.
AfterTransaction ==
  IF thrown THEN Report("failed") /\ UNCHANGED sqlId
  ELSE IF post \in OptionBatches
    THEN pc' = "select" /\ UNCHANGED <<post, thrown, sqlId, result>>
    ELSE Report("stored") /\ UNCHANGED sqlId

autocommitOn ==
  /\ pc = "autocommit"
  /\ IF transactions_ = 0 /\ connected_
       THEN \/ /\ Succeeds
               /\ autocommit' = TRUE
               /\ durable' = durable \cup pending /\ pending' = {}
               /\ UNCHANGED autocommitLost
            \/ /\ Fails
               /\ autocommitLost' = TRUE
               /\ UNCHANGED <<autocommit, durable, pending>>
       ELSE UNCHANGED <<autocommit, durable, pending, faults, autocommitLost>>
  /\ AfterTransaction
  /\ UNCHANGED <<link, idOf, nextId, tempId, connVars, botched>>

-----------------------------------------------------------------------------
\* SELECT ID FROM tempId: the i-th id read is the i-th candle's; reading may end early.
SelectIds(n) ==
  sqlId' = [r \in Rows |-> IF r[1] = post /\ r[2] <= n THEN tempId[r[2]] ELSE sqlId[r]]

select ==
  /\ pc = "select" /\ Succeeds
  /\ SelectIds(Size[post])
  /\ Report("stored")
  /\ UNCHANGED <<serverVars, connVars, botched, autocommitLost>>

selectFails ==
  /\ pc = "select" /\ Fails
  /\ \E n \in 0 .. Size[post] - 1 : SelectIds(n)
  /\ Report("failed")
  /\ UNCHANGED <<serverVars, connVars, botched, autocommitLost>>

\* UnixTable::post and UnderlyingTable::post: one row without a transaction.
insert ==
  /\ pc = "insert" /\ Succeeds
  /\ Insert(Size[post])
  /\ IF post \in Times THEN Goes("query")
                       ELSE Report("stored") /\ UNCHANGED <<sqlId, botched, autocommitLost>>
  /\ UNCHANGED <<link, autocommit, tempId, connVars>>

\* UnixTable::post asks for the greatest time and returns it.
query ==
  /\ pc = "query" /\ Succeeds
  /\ Report("stored")
  /\ UNCHANGED <<serverVars, connVars, sqlId, botched, autocommitLost>>

Stop == pc = "idle" /\ (\A p \in Posts : result[p] # "none") /\ UNCHANGED vars

Next ==
  \/ loseLink
  \/ \E p \in Posts : begin(p)
  \/ \E at \in {"drop", "create", "prepare", "insert", "query"} : Throws(at)
  \/ pc = "transaction" /\ NeedsCall /\ Throws("transaction")
  \/ dropTempId \/ createTempId \/ prepare
  \/ transaction \/ execute \/ executeFails \/ commit \/ destroy \/ autocommitOn
  \/ select \/ selectFails \/ insert \/ query
  \/ Stop

Spec == Init /\ [][Next]_vars

-----------------------------------------------------------------------------
(* Properties                                                              *)

PcNames == {"idle", "drop", "create", "prepare", "transaction", "execute", "commit",
            "destroy", "autocommit", "select", "insert", "query"}

\* The type invariant.
TypeOK ==
  /\ link \in BOOLEAN /\ autocommit \in BOOLEAN
  /\ durable \subseteq Rows /\ pending \subseteq Rows
  /\ idOf \in [Rows -> Nat] /\ nextId \in Nat \ {0} /\ tempId \in Seq(Nat)
  /\ connected_ \in BOOLEAN /\ transactions_ \in {0, 1}
  /\ rollback_ \in BOOLEAN /\ committed_ \in BOOLEAN
  /\ pc \in PcNames /\ post \in Posts \cup {None} /\ thrown \in BOOLEAN
  /\ sqlId \in [Rows -> Nat] /\ result \in [Posts -> {"none", "stored", "failed"}]
  /\ faults \in Nat /\ botched \subseteq Batches /\ autocommitLost \in BOOLEAN

InTransaction == pc \in {"execute", "commit", "destroy", "autocommit"}

\* Between two posts no transaction is counted or marked for rollback, whatever failed, and
\* the session is in autocommit mode with nothing open, unless the call that switches it back
\* failed (nanodbc.cpp:1447-1474): what a single INSERT stores is not part of a transaction
\* that a later batch may roll back.
SessionClean ==
  ~InTransaction =>
    /\ transactions_ = 0 /\ ~rollback_
    /\ autocommitLost \/ (autocommit /\ pending = {})

\* A candle's id is that of a row which is stored, its own, and of no other candle; and no
\* more ids are read than there are candles, which are written to without a test
\* (CandleRoutes.h:338-346).
IdsNameRows ==
  /\ \A r \in Rows : sqlId[r] # 0 => r \in durable /\ sqlId[r] = idOf[r]
  /\ \A r, q \in Rows : sqlId[r] = sqlId[q] /\ sqlId[r] # 0 => r = q
  /\ pc = "select" => Len(tempId) = Size[post]

\* The session implements the log of batches: each is stored whole or not at all unless its
\* rollback failed, stays stored, and success means that it is stored (nanodbc.cpp:1421-1508,
\* 4845-4851).  A failed commit or a failed SELECT may report failure of a stored batch.
Log == INSTANCE BatchLog WITH
  stored <- {r \in durable : r[1] \in Batches},
  told <- {b \in Batches : result[b] = "stored"}
BatchesWhole == Log!Spec
=============================================================================
