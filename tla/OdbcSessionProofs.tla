------------------------- MODULE OdbcSessionProofs -------------------------
(***************************************************************************)
(* Proofs about OdbcSession, for every set of posts, every size of a batch *)
(* and every number of faults.                                             *)
(***************************************************************************)
EXTENDS OdbcSession, TLAPS

-----------------------------------------------------------------------------
(* The inductive invariant.                                                *)

\* Who is where, and what has thrown.  Beyond its first call a post is connected.
PlaceInv ==
  /\ pc # "idle" => post \in Posts /\ result[post] = "none"
  /\ pc \in {"drop", "create", "select"} => post \in OptionBatches
  /\ pc \in {"prepare", "transaction"} \/ InTransaction => post \in Batches
  /\ pc \in {"insert", "query"} => post \in Singles
  /\ thrown => pc \in {"destroy", "autocommit"}
  /\ link => connected_
  /\ pc \in {"create", "transaction", "select", "query"} \/ InTransaction => connected_

\* The transaction's count and marks, and the mode of the session.
TxInv ==
  /\ pc \in {"execute", "commit"} =>
       transactions_ = 1 /\ ~committed_ /\ ~rollback_ /\ ~autocommit
  /\ pc = "destroy" =>
       /\ transactions_ = (IF committed_ THEN 0 ELSE 1) /\ ~rollback_ /\ ~autocommit
       /\ ~thrown => committed_
  /\ pc = "autocommit" => transactions_ = 0 /\ ~rollback_ /\ ~autocommit
  /\ autocommit => pending = {}
  /\ pc \in {"destroy", "autocommit"} /\ ~thrown => pending = {}
  /\ ~link => pending = {}
  /\ SessionClean

Whole(rows, b) == RowsOf(b) \subseteq rows \/ RowsOf(b) \cap rows = {}

\* Only the batch that is about to be rolled back may be open in part.
StoreInv ==
  /\ \A b \in Batches \ botched :
       /\ Whole(durable, b)
       /\ Whole(pending, b) \/ (pc = "destroy" /\ ~committed_ /\ b = post)
  /\ \A b \in Batches : result[b] = "stored" => RowsOf(b) \subseteq durable
  /\ pc = "commit" /\ link => RowsOf(post) \subseteq pending
  /\ pc \in {"destroy", "autocommit", "select"} /\ ~thrown => RowsOf(post) \subseteq durable

\* Identities are unique, and tempId holds those of the batch that was inserted.
IdInv ==
  /\ \A r \in Rows : idOf[r] < nextId
  /\ \A r, q \in Rows : idOf[r] = idOf[q] /\ idOf[r] # 0 => r = q
  /\ \A r \in Rows : sqlId[r] # 0 =>
       r \in durable /\ sqlId[r] = idOf[r] /\ result[r[1]] # "none"
  /\ post \in OptionBatches /\ pc \in {"create", "prepare", "transaction", "execute"} =>
       tempId = <<>>
  /\ post \in OptionBatches /\ ~thrown /\ pc \in {"commit", "destroy", "autocommit", "select"} =>
       /\ Len(tempId) = Size[post]
       /\ \A i \in 1 .. Size[post] : tempId[i] = idOf[<<post, i>>]

IInv == TypeOK /\ PlaceInv /\ TxInv /\ StoreInv /\ IdInv

-----------------------------------------------------------------------------
(* Lemmas.                                                                 *)

\* The rows of the posts.
LEMMA RowFacts ==
  ASSUME NEW p \in Posts
  PROVE  /\ Size[p] \in Nat \ {0} /\ RowsOf(p) # {} /\ RowsOf(p) \subseteq Rows
         /\ \A i \in 1 .. Size[p] : <<p, i>> \in RowsOf(p)
         /\ \A r \in Rows : r \in RowsOf(p) <=> r[1] = p
         /\ \A r \in RowsOf(p) : r[2] \in 1 .. Size[p] /\ r = <<p, r[2]>>
<1>1. Size[p] \in Nat \ {0}
  BY SessionAssumption
<1>2. \A i \in 1 .. Size[p] : <<p, i>> \in RowsOf(p)
  BY DEF RowsOf
<1>3. RowsOf(p) # {}
  <2>1. 1 \in 1 .. Size[p]
    BY <1>1
  <2> QED  BY <1>2, <2>1
<1>4. RowsOf(p) \subseteq Rows
  BY DEF Rows
<1>5. \A r \in Rows : r \in RowsOf(p) <=> r[1] = p
  BY DEF Rows, RowsOf
<1>6. \A r \in RowsOf(p) : r[2] \in 1 .. Size[p] /\ r = <<p, r[2]>>
  BY DEF RowsOf
<1> QED  BY <1>1, <1>2, <1>3, <1>4, <1>5, <1>6

\* Every row is its post's.
LEMMA RowPost ==
  ASSUME NEW r \in Rows
  PROVE  r[1] \in Posts /\ r[2] \in 1 .. Size[r[1]] /\ r = <<r[1], r[2]>> /\ r \in RowsOf(r[1])
BY DEF Rows, RowsOf

\* The rows of two posts are disjoint.
LEMMA RowsDisjoint ==
  ASSUME NEW p \in Posts, NEW q \in Posts, p # q
  PROVE  RowsOf(p) \cap RowsOf(q) = {}
BY DEF RowsOf

\* The rows an insertion writes.
NewRows(p, n) == {<<p, i>> : i \in 1 .. n}

LEMMA NewRowFacts ==
  ASSUME NEW p \in Posts, NEW n \in 0 .. Size[p]
  PROVE  /\ NewRows(p, n) \subseteq RowsOf(p)
         /\ NewRows(p, Size[p]) = RowsOf(p)
         /\ \A r \in Rows : r \in NewRows(p, n) => r[1] = p /\ r[2] \in 1 .. n
<1>1. Size[p] \in Nat
  BY SessionAssumption
<1> QED  BY <1>1 DEF NewRows, RowsOf

\* What is whole in two sets of rows is whole in their union.
LEMMA WholeUnion ==
  ASSUME NEW b, NEW S, NEW T, Whole(S, b), Whole(T, b)
  PROVE  Whole(S \cup T, b)
BY DEF Whole

\* Rows of another post leave a batch as whole as it was.
LEMMA WholeBeside ==
  ASSUME NEW b \in Batches, NEW p \in Posts, p # b, NEW n \in 0 .. Size[p],
         NEW S, Whole(S, b)
  PROVE  Whole(S \cup NewRows(p, n), b)
<1>1. NewRows(p, n) \cap RowsOf(b) = {}
  BY NewRowFacts, RowsDisjoint DEF Posts
<1> QED  BY <1>1 DEF Whole

\* Posts of the four kinds are different.
LEMMA Kinds ==
  /\ Batches \subseteq Posts /\ OptionBatches \subseteq Batches /\ Singles \subseteq Posts
  /\ Batches \cap Singles = {} /\ None \notin Posts /\ ResultBatches \cap OptionBatches = {}
  /\ Posts = OptionBatches \cup ResultBatches \cup Singles /\ ResultBatches \subseteq Batches
  /\ Times \subseteq Singles
BY SessionAssumption DEF Posts, Batches, Singles

-----------------------------------------------------------------------------
(* The steps preserve the parts of the invariant.                          *)

\* The initial states.
LEMMA InitInv == Init => IInv
<1> SUFFICES ASSUME Init PROVE IInv
  OBVIOUS
<1>1. TypeOK
  <2>1. idOf \in [Rows -> Nat] /\ sqlId \in [Rows -> Nat] /\ nextId \in Nat \ {0} /\ faults \in Nat
    BY DEF Init
  <2>2. tempId \in Seq(Nat) /\ result \in [Posts -> {"none", "stored", "failed"}]
    BY DEF Init
  <2> QED  BY <2>1, <2>2 DEF Init, TypeOK, PcNames
<1>2. PlaceInv /\ TxInv
  BY DEF Init, PlaceInv, TxInv, InTransaction, SessionClean
<1>3. StoreInv
  BY Kinds DEF Init, StoreInv, Whole
<1>4. IdInv
  BY Kinds DEF Init, IdInv
<1> QED  BY <1>1, <1>2, <1>3, <1>4 DEF IInv

\* An insertion keeps the types of what it writes.
LEMMA InsertType ==
  ASSUME TypeOK, post \in Posts, NEW n \in 0 .. Size[post], Insert(n)
  PROVE  /\ durable' \subseteq Rows /\ pending' \subseteq Rows
         /\ idOf' \in [Rows -> Nat] /\ nextId' \in Nat \ {0}
<1>1. Size[post] \in Nat /\ NewRows(post, n) \subseteq Rows
  BY RowFacts, NewRowFacts
<1>2. durable' \subseteq Rows /\ pending' \subseteq Rows
  BY <1>1 DEF Insert, TypeOK, NewRows
<1>3. \A r \in Rows : r[2] \in Nat \ {0}
  BY RowPost, RowFacts
<1>4. idOf' \in [Rows -> Nat]
  BY <1>3 DEF Insert, TypeOK
<1>5. nextId' \in Nat \ {0}
  BY <1>1 DEF Insert, TypeOK
<1> QED  BY <1>2, <1>4, <1>5

\* The number of faults stays a number.
LEMMA FaultsType ==
  ASSUME faults \in Nat
  PROVE  (Fails => faults' \in Nat) /\ (link /\ Fails => faults' \in Nat)
         /\ (Succeeds => faults' \in Nat) /\ (loseLink => faults' \in Nat)
BY SessionAssumption DEF Fails, Succeeds, loseLink

\* The count goes from 0 to 1 and back.
LEMMA Counts ==
  ASSUME transactions_ \in {0, 1}
  PROVE  Unref = 0 /\ (transactions_ = 0 => transactions_ + 1 = 1)
BY DEF Unref

\* Joined sequences of numbers are one.
LEMMA Joined ==
  ASSUME NEW s \in Seq(Nat), NEW t \in Seq(Nat)
  PROVE  s \o t \in Seq(Nat)
OBVIOUS

\* The identities of a batch are a sequence of numbers.
LEMMA NewIds ==
  ASSUME NEW m \in Nat \ {0}, NEW n \in Nat
  PROVE  [i \in 1 .. n |-> m + i - 1] \in Seq(Nat)
<1>1. \A i \in 1 .. n : m + i - 1 \in Nat
  OBVIOUS
<1> QED  BY <1>1

\* Types, places and the transaction: every step.
LEMMA PlaceStep ==
  ASSUME IInv, [Next]_vars
  PROVE  TypeOK' /\ PlaceInv' /\ TxInv'
<1> USE Kinds DEF IInv, TypeOK, PcNames, PlaceInv, TxInv, InTransaction, SessionClean,
        serverVars, connVars, threadVars, faultVars, Succeeds, Report, Goes
<1>1. CASE loseLink
  <2>1. faults' \in Nat
    BY <1>1, FaultsType
  <2>2. /\ link' = FALSE /\ pending' = {}
        /\ UNCHANGED <<autocommit, durable, idOf, nextId, tempId, connVars, threadVars,
                       botched, autocommitLost>>
    BY <1>1 DEF loseLink
  <2>3. TypeOK'
    BY <2>1, <2>2
  <2>4. PlaceInv'
    BY <2>2
  <2>5. TxInv'
    BY <2>2
  <2> QED  BY <2>3, <2>4, <2>5
<1>2. ASSUME NEW p \in Posts, begin(p) PROVE TypeOK' /\ PlaceInv' /\ TxInv'
  BY <1>2 DEF begin
<1>3. ASSUME NEW at \in {"drop", "create", "prepare", "insert", "query"}, Throws(at)
      PROVE  TypeOK' /\ PlaceInv' /\ TxInv'
  BY <1>3, FaultsType DEF Throws
<1>4. CASE pc = "transaction" /\ NeedsCall /\ Throws("transaction")
  BY <1>4, FaultsType DEF Throws
<1>5. CASE dropTempId
  BY <1>5 DEF dropTempId
<1>6. CASE createTempId
  BY <1>6 DEF createTempId
<1>7. CASE prepare
  BY <1>7 DEF prepare
<1>8. CASE transaction
  BY <1>8, Counts DEF transaction, NeedsCall
<1>9. CASE execute
  <2>1. post \in Posts /\ Size[post] \in 0 .. Size[post]
    BY <1>9, SessionAssumption DEF execute
  <2>2. durable' \subseteq Rows /\ pending' \subseteq Rows
        /\ idOf' \in [Rows -> Nat] /\ nextId' \in Nat \ {0}
    BY <1>9, <2>1, InsertType DEF execute
  <2>3. [i \in 1 .. Size[post] |-> nextId + i - 1] \in Seq(Nat)
    <3>1. Size[post] \in Nat /\ nextId \in Nat \ {0}
      BY <2>1, SessionAssumption
    <3> QED  BY <3>1, NewIds
  <2>4. tempId' \in Seq(Nat)
    <3>1. tempId \in Seq(Nat)
      OBVIOUS
    <3>2. tempId \o [i \in 1 .. Size[post] |-> nextId + i - 1] \in Seq(Nat)
      BY <2>3, <3>1, Joined
    <3> QED  BY <1>9, <3>1, <3>2 DEF execute
  <2> QED  BY <1>9, <2>2, <2>4 DEF execute
<1>10. CASE executeFails
  <2>1. post \in Posts
    BY <1>10 DEF executeFails
  <2>2. durable' \subseteq Rows /\ pending' \subseteq Rows
        /\ idOf' \in [Rows -> Nat] /\ nextId' \in Nat \ {0}
    BY <1>10, <2>1, InsertType DEF executeFails
  <2>3. ~link => pending' = {}
    BY <1>10 DEF executeFails
  <2> QED  BY <1>10, <2>2, <2>3, FaultsType DEF executeFails
<1>11. CASE commit
  BY <1>11, FaultsType, Counts DEF commit
<1>12. CASE destroy
  BY <1>12, FaultsType, Counts DEF destroy, Destructor
<1>13. CASE autocommitOn
  BY <1>13, FaultsType DEF autocommitOn, AfterTransaction
<1>14. CASE select \/ selectFails
  <2>1. \A n \in 0 .. Size[post] : SelectIds(n) => sqlId' \in [Rows -> Nat]
    <3> SUFFICES ASSUME NEW n \in 0 .. Size[post], SelectIds(n) PROVE sqlId' \in [Rows -> Nat]
      OBVIOUS
    <3>1. post \in OptionBatches /\ Len(tempId) = Size[post] /\ Size[post] \in Nat
      BY <1>14, SessionAssumption DEF select, selectFails, IdInv
    <3>2. \A r \in Rows : r[2] <= n => (r[2] \in Nat \ {0} => tempId[r[2]] \in Nat)
      BY <3>1
    <3>3. \A r \in Rows : r[2] \in Nat \ {0}
      BY RowPost, RowFacts
    <3> QED  BY <3>2, <3>3 DEF SelectIds
  <2>2. post \in Posts /\ Size[post] \in Nat \ {0}
    BY <1>14, SessionAssumption DEF select, selectFails
  <2>3. sqlId' \in [Rows -> Nat]
    BY <1>14, <2>1, <2>2 DEF select, selectFails
  <2>4. faults' \in Nat
    BY <1>14, FaultsType DEF select, selectFails
  <2>5. \E outcome \in {"stored", "failed"} : Report(outcome)
    BY <1>14 DEF select, selectFails
  <2>6. /\ pc = "select"
        /\ UNCHANGED <<serverVars, connVars, botched, autocommitLost>>
    BY <1>14 DEF select, selectFails
  <2>7. result' \in [Posts -> {"none", "stored", "failed"}]
    BY <2>5
  <2>8. pc' = "idle" /\ post' = None /\ thrown' = FALSE
    BY <2>5
  <2>9. TypeOK'
    BY <2>3, <2>4, <2>6, <2>7, <2>8
  <2>10. PlaceInv' /\ TxInv'
    BY <2>6, <2>8
  <2> QED  BY <2>9, <2>10
<1>15. CASE insert
  <2>1. post \in Posts /\ Size[post] \in 0 .. Size[post]
    BY <1>15, SessionAssumption DEF insert
  <2>2. durable' \subseteq Rows /\ pending' \subseteq Rows
        /\ idOf' \in [Rows -> Nat] /\ nextId' \in Nat \ {0}
    BY <1>15, <2>1, InsertType DEF insert
  <2>3. (autocommit => pending' = {}) /\ link
    BY <1>15 DEF insert, Insert
  <2> QED  BY <1>15, <2>2, <2>3 DEF insert
<1>16. CASE query
  BY <1>16 DEF query
<1>17. CASE Stop \/ UNCHANGED vars
  BY <1>17 DEF Stop, vars
<1> QED
  BY <1>1, <1>2, <1>3, <1>4, <1>5, <1>6, <1>7, <1>8, <1>9, <1>10, <1>11, <1>12, <1>13, <1>14,
     <1>15, <1>16, <1>17 DEF Next

\* What is stored: every step.
LEMMA StoreStep ==
  ASSUME IInv, [Next]_vars
  PROVE  StoreInv'
<1> USE Kinds DEF IInv, StoreInv
<1>1. CASE loseLink
  BY <1>1 DEF loseLink, threadVars, Whole
<1>2. ASSUME NEW p \in Posts, begin(p) PROVE StoreInv'
  BY <1>2 DEF begin, serverVars, faultVars
<1>3. ASSUME NEW at \in {"drop", "create", "prepare", "insert", "query", "transaction"},
             Throws(at)
      PROVE  StoreInv'
  BY <1>3 DEF Throws, Report, serverVars, TypeOK
<1>4. CASE dropTempId \/ createTempId \/ prepare
  BY <1>4 DEF dropTempId, createTempId, prepare, Goes, serverVars
<1>5. CASE transaction
  BY <1>5 DEF transaction, Goes
<1>6. CASE execute
  <2>1. post \in Batches /\ ~autocommit /\ Size[post] \in 0 .. Size[post]
    BY <1>6, SessionAssumption DEF execute, PlaceInv, TxInv, InTransaction
  <2>2. pending' = pending \cup RowsOf(post) /\ durable' = durable
    BY <1>6, <2>1, NewRowFacts DEF execute, Insert, NewRows
  <2>3. ASSUME NEW b \in Batches, Whole(pending, b) PROVE Whole(pending', b)
    <3>1. CASE b = post
      BY <2>2, <3>1 DEF Whole
    <3>2. CASE b # post
      BY <2>1, <2>2, <2>3, <3>2, RowsDisjoint DEF Whole
    <3> QED  BY <3>1, <3>2
  <2> QED  BY <1>6, <2>2, <2>3 DEF execute, Goes, Whole
<1>7. CASE executeFails
  <2>1. post \in Batches /\ ~autocommit /\ ~committed_
    BY <1>7 DEF executeFails, PlaceInv, TxInv, InTransaction
  <2>2. durable' = durable
        /\ (pending' = pending \/ \E n \in 0 .. Size[post] : pending' = pending \cup NewRows(post, n))
    BY <1>7, <2>1 DEF executeFails, Insert, NewRows
  <2>3. ASSUME NEW b \in Batches, b # post, Whole(pending, b) PROVE Whole(pending', b)
    BY <2>1, <2>2, <2>3, WholeBeside
  <2> QED  BY <1>7, <2>1, <2>2, <2>3 DEF executeFails, connVars, Whole
<1>8. CASE commit
  <2>1. Unref = 0 /\ connected_ /\ ~thrown /\ post \in Batches
    BY <1>8, Counts DEF commit, PlaceInv, InTransaction, TypeOK
  <2>2. pc' = "destroy" /\ committed_' /\ UNCHANGED <<post, result, botched>>
    BY <1>8 DEF commit
  <2>3. CASE durable' = durable \cup pending /\ pending' = {} /\ link
    <3>1. \A b \in Batches \ botched : Whole(durable', b) /\ Whole(pending', b)
      BY <1>8, <2>3, WholeUnion DEF commit, Whole
    <3> QED  BY <1>8, <2>2, <2>3, <3>1 DEF commit
  <2>4. CASE durable' = durable /\ pending' = pending /\ thrown'
    BY <1>8, <2>2, <2>4 DEF commit, Whole
  <2> QED  BY <1>8, <2>1, <2>3, <2>4 DEF commit, Succeeds
<1>9. CASE destroy
  <2>1. connected_ /\ post \in Batches /\ ~rollback_
        /\ transactions_ = (IF committed_ THEN 0 ELSE 1) /\ transactions_' = 0
    BY <1>9, Counts DEF destroy, Destructor, PlaceInv, TxInv, InTransaction, TypeOK
  <2>2. /\ pc = "destroy" /\ pc' = "autocommit" /\ durable' = durable
        /\ UNCHANGED <<post, thrown, result>>
    BY <1>9 DEF destroy, Destructor
  <2>3. botched \subseteq botched' /\ (pending' = pending \/ pending' = {})
    BY <1>9 DEF destroy, Destructor
  <2>4. ASSUME NEW b \in Batches \ botched' PROVE Whole(pending', b)
    <3>1. CASE committed_
      BY <2>2, <2>3, <2>4, <3>1 DEF Whole
    <3>2. CASE ~committed_ /\ b # post
      BY <2>2, <2>3, <2>4, <3>2 DEF Whole
    <3>3. CASE ~committed_ /\ b = post
      <4>1. pending' = {} \/ post \in botched' \/ (~link /\ pending' = pending)
        BY <1>9, <2>1, <3>3 DEF destroy, Destructor
      <4>2. pending' = {}
        BY <2>4, <3>3, <4>1 DEF TxInv
      <4> QED  BY <4>2 DEF Whole
    <3> QED  BY <3>1, <3>2, <3>3
  <2> QED  BY <2>2, <2>3, <2>4 DEF Whole
<1>10. CASE autocommitOn
  <2>1. pc = "autocommit" /\ post \in Posts /\ botched' = botched
    BY <1>10 DEF autocommitOn, PlaceInv
  <2>2. (durable' = durable \cup pending /\ pending' = {}) \/ UNCHANGED <<durable, pending>>
    BY <1>10 DEF autocommitOn
  <2>3. \A b \in Batches \ botched : Whole(durable', b) /\ Whole(pending', b)
    BY <2>1, <2>2, WholeUnion DEF Whole
  <2>4. durable \subseteq durable'
    BY <2>2
  <2>5. AfterTransaction
    BY <1>10 DEF autocommitOn
  <2>6. \A b \in Batches : result'[b] = "stored" => RowsOf(b) \subseteq durable'
    BY <2>1, <2>4, <2>5 DEF AfterTransaction, Report, TypeOK
  <2>7. /\ pc' \in {"idle", "select"}
        /\ pc' = "select" => post' = post /\ ~thrown
    BY <2>5 DEF AfterTransaction, Report
  <2> QED  BY <2>1, <2>3, <2>4, <2>6, <2>7
<1>11. CASE select \/ selectFails
  <2>1. pc = "select" /\ post \in OptionBatches /\ ~thrown
    BY <1>11 DEF select, selectFails, PlaceInv
  <2>2. UNCHANGED <<durable, pending, botched>> /\ \E outcome : Report(outcome)
    BY <1>11 DEF select, selectFails, serverVars
  <2>3. \A b \in Batches : result'[b] = "stored" => RowsOf(b) \subseteq durable'
    BY <2>1, <2>2 DEF Report, TypeOK
  <2>4. pc' = "idle"
    BY <2>2 DEF Report
  <2>5. \A b \in Batches \ botched : Whole(durable', b) /\ Whole(pending', b)
    BY <2>1, <2>2
  <2> QED  BY <2>2, <2>3, <2>4, <2>5
<1>12. CASE insert
  <2>1. post \in Singles /\ post \in Posts /\ Size[post] \in 0 .. Size[post]
    BY <1>12, SessionAssumption DEF insert, PlaceInv
  <2>2. /\ durable' = durable \/ durable' = durable \cup NewRows(post, Size[post])
        /\ pending' = pending \/ pending' = pending \cup NewRows(post, Size[post])
    BY <1>12 DEF insert, Insert, NewRows
  <2>3. \A b \in Batches \ botched : Whole(durable', b) /\ Whole(pending', b)
    BY <1>12, <2>1, <2>2, WholeBeside DEF insert
  <2>4. pc' \in {"idle", "query"} /\ botched' = botched
    BY <1>12 DEF insert, Goes, Report
  <2>5. \A b \in Batches : result'[b] = result[b]
    BY <1>12, <2>1 DEF insert, Goes, Report, TypeOK
  <2> QED  BY <2>2, <2>3, <2>4, <2>5
<1>13. CASE query
  BY <1>13 DEF query, Report, serverVars, PlaceInv, TypeOK
<1>14. CASE Stop \/ UNCHANGED vars
  BY <1>14 DEF Stop, vars, serverVars, connVars, threadVars, faultVars, Whole
<1> QED
  BY <1>1, <1>2, <1>3, <1>4, <1>5, <1>6, <1>7, <1>8, <1>9, <1>10, <1>11, <1>12, <1>13, <1>14
  DEF Next

\* The identities an insertion gives are new.
LEMMA InsertIds ==
  ASSUME TypeOK, IdInv, post \in Posts, NEW n \in 0 .. Size[post], Insert(n),
         \A r \in Rows : r[1] = post => sqlId[r] = 0
  PROVE  /\ \A r \in Rows : idOf'[r] < nextId'
         /\ \A r, q \in Rows : idOf'[r] = idOf'[q] /\ idOf'[r] # 0 => r = q
         /\ \A r \in Rows : sqlId[r] # 0 => r \in durable' /\ sqlId[r] = idOf'[r]
         /\ \A i \in 1 .. n : idOf'[<<post, i>>] = nextId + i - 1
<1> DEFINE new == NewRows(post, n)
<1>1. n \in Nat /\ nextId \in Nat \ {0} /\ nextId' = nextId + n
  BY SessionAssumption DEF Insert, TypeOK
<1>2. \A r \in Rows : idOf'[r] = IF r \in new THEN nextId + r[2] - 1 ELSE idOf[r]
  BY DEF Insert, NewRows
<1>3. \A r \in Rows : r \in new => r = <<post, r[2]>> /\ r[1] = post /\ r[2] \in 1 .. n
  BY NewRowFacts, RowPost
<1>4. \A r \in Rows : idOf[r] \in Nat /\ idOf[r] < nextId
  BY DEF TypeOK, IdInv
<1>5. \A r \in Rows : idOf'[r] < nextId'
  BY <1>1, <1>2, <1>3, <1>4
<1>6. ASSUME NEW r \in Rows, NEW q \in Rows, idOf'[r] = idOf'[q], idOf'[r] # 0 PROVE r = q
  <2>1. CASE r \in new /\ q \in new
    <3>1. r[2] = q[2]
      BY <1>1, <1>2, <1>3, <1>6, <2>1
    <3> QED  BY <1>3, <2>1, <3>1
  <2>2. CASE r \notin new /\ q \notin new
    BY <1>2, <1>6, <2>2 DEF IdInv
  <2>3. CASE r \in new /\ q \notin new
    BY <1>1, <1>2, <1>3, <1>4, <1>6, <2>3
  <2>4. CASE r \notin new /\ q \in new
    BY <1>1, <1>2, <1>3, <1>4, <1>6, <2>4
  <2> QED  BY <2>1, <2>2, <2>3, <2>4
<1>7. durable \subseteq durable'
  BY DEF Insert
<1>8. \A r \in Rows : sqlId[r] # 0 => r \in durable' /\ sqlId[r] = idOf'[r]
  BY <1>2, <1>3, <1>7 DEF IdInv
<1>9. ASSUME NEW i \in 1 .. n PROVE idOf'[<<post, i>>] = nextId + i - 1
  <2>1. <<post, i>> \in new
    BY DEF NewRows
  <2>2. <<post, i>> \in Rows
    BY <2>1, NewRowFacts, RowFacts
  <2>3. <<post, i>>[2] = i
    OBVIOUS
  <2> QED  BY <1>2, <2>1, <2>2, <2>3
<1> QED  BY <1>5, <1>6, <1>8, <1>9

\* A batch that was not reported yet has no ids.
LEMMA NoIdsYet ==
  ASSUME TypeOK, IdInv, PlaceInv, pc # "idle"
  PROVE  \A r \in Rows : r[1] = post => sqlId[r] = 0
BY DEF IdInv, PlaceInv

\* Reading the ids of the batch that was stored.
LEMMA SelectedIds ==
  ASSUME TypeOK, PlaceInv, StoreInv, IdInv, pc = "select", NEW n \in 0 .. Size[post],
         SelectIds(n)
  PROVE  \A r \in Rows : sqlId'[r] # 0 =>
           /\ r \in durable /\ sqlId'[r] = idOf[r]
           /\ r[1] = post \/ result[r[1]] # "none"
<1> SUFFICES ASSUME NEW r \in Rows, sqlId'[r] # 0
             PROVE  /\ r \in durable /\ sqlId'[r] = idOf[r]
                    /\ r[1] = post \/ result[r[1]] # "none"
  OBVIOUS
<1>1. post \in OptionBatches /\ ~thrown /\ post \in Posts
  BY Kinds DEF PlaceInv
<1>2. CASE r[1] = post /\ r[2] <= n
  <2>1. r = <<post, r[2]>> /\ r[2] \in 1 .. Size[post] /\ r \in RowsOf(post)
    BY <1>2, RowPost
  <2>2. tempId[r[2]] = idOf[<<post, r[2]>>]
    BY <1>1, <2>1 DEF IdInv
  <2>3. sqlId'[r] = tempId[r[2]]
    BY <1>2 DEF SelectIds
  <2>4. RowsOf(post) \subseteq durable
    BY <1>1 DEF StoreInv
  <2> QED  BY <1>2, <2>1, <2>2, <2>3, <2>4
<1>3. CASE ~(r[1] = post /\ r[2] <= n)
  <2>1. sqlId'[r] = sqlId[r]
    BY <1>3 DEF SelectIds
  <2> QED  BY <2>1 DEF IdInv
<1> QED  BY <1>2, <1>3

\* What was reported stays reported, whatever the step.
LEMMA ReportedStays ==
  ASSUME TypeOK, PlaceInv, [Next]_vars
  PROVE  \A p \in Posts : result[p] # "none" => result'[p] # "none"
<1> USE DEF Report, Goes, TypeOK, threadVars
<1>1. CASE Next
  <2>1. CASE \E outcome \in {"stored", "failed"} : Report(outcome)
    BY <2>1
  <2>2. CASE result' = result
    BY <2>2
  <2>3. (\E outcome \in {"stored", "failed"} : Report(outcome)) \/ result' = result
    BY <1>1 DEF Next, loseLink, begin, Throws, dropTempId, createTempId, prepare, transaction,
       execute, executeFails, commit, destroy, Destructor, autocommitOn, AfterTransaction,
       select, selectFails, insert, query, Stop, vars
  <2> QED  BY <2>1, <2>2, <2>3
<1>2. CASE UNCHANGED vars
  BY <1>2 DEF vars
<1> QED  BY <1>1, <1>2

\* Identities: every step.
LEMMA IdStep ==
  ASSUME IInv, [Next]_vars
  PROVE  IdInv'
<1> USE Kinds DEF IInv
<1>1. \A r \in Rows : result[r[1]] # "none" => result'[r[1]] # "none"
  BY ReportedStays, RowPost
<1>2. ASSUME UNCHANGED <<idOf, nextId, sqlId>>, durable \subseteq durable'
      PROVE  /\ \A r \in Rows : idOf'[r] < nextId'
             /\ \A r, q \in Rows : idOf'[r] = idOf'[q] /\ idOf'[r] # 0 => r = q
             /\ \A r \in Rows : sqlId'[r] # 0 =>
                  r \in durable' /\ sqlId'[r] = idOf'[r] /\ result'[r[1]] # "none"
  BY <1>1, <1>2 DEF IdInv
<1> DEFINE TempInv ==
      /\ post \in OptionBatches /\ pc \in {"create", "prepare", "transaction", "execute"} =>
           tempId = <<>>
      /\ post \in OptionBatches /\ ~thrown
           /\ pc \in {"commit", "destroy", "autocommit", "select"} =>
           /\ Len(tempId) = Size[post]
           /\ \A i \in 1 .. Size[post] : tempId[i] = idOf[<<post, i>>]
<1>3. TempInv
  BY DEF IdInv
<1>4. ASSUME UNCHANGED <<idOf, nextId, sqlId>>, durable \subseteq durable', TempInv' PROVE IdInv'
  BY <1>2, <1>4 DEF IdInv
<1> HIDE DEF TempInv
<1>5. CASE loseLink
  <2>1. TempInv'
    BY <1>3, <1>5 DEF loseLink, threadVars, TempInv
  <2> QED  BY <1>4, <1>5, <2>1 DEF loseLink, threadVars
<1>6. ASSUME NEW p \in Posts, begin(p) PROVE IdInv'
  <2>1. pc' = "prepare" => post' \in ResultBatches
    BY <1>6 DEF begin
  <2>2. pc' \in {"drop", "prepare", "insert"}
    BY <1>6 DEF begin, Posts, Batches
  <2>3. TempInv'
    BY <2>1, <2>2 DEF TempInv
  <2> QED  BY <1>4, <1>6, <2>3 DEF begin, serverVars
<1>7. ASSUME NEW at \in {"drop", "create", "prepare", "insert", "query", "transaction"},
             Throws(at)
      PROVE  IdInv'
  <2>1. TempInv'
    BY <1>7 DEF Throws, Report, TempInv
  <2> QED  BY <1>4, <1>7, <2>1 DEF Throws, serverVars
<1>8. CASE dropTempId
  <2>1. TempInv'
    BY <1>8 DEF dropTempId, Goes, TempInv
  <2> QED  BY <1>4, <1>8, <2>1 DEF dropTempId, Goes
<1>9. CASE createTempId \/ prepare
  <2>1. TempInv'
    BY <1>3, <1>9 DEF createTempId, prepare, Goes, serverVars, TempInv
  <2> QED  BY <1>4, <1>9, <2>1 DEF createTempId, prepare, Goes, serverVars
<1>10. CASE transaction
  <2>1. TempInv'
    BY <1>3, <1>10 DEF transaction, Goes, TempInv
  <2> QED  BY <1>4, <1>10, <2>1 DEF transaction, Goes
<1>11. CASE execute
  <2>1. post \in Posts /\ pc # "idle" /\ Size[post] \in Nat /\ Size[post] \in 0 .. Size[post]
    BY <1>11, SessionAssumption DEF execute, PlaceInv
  <2>2. Insert(Size[post]) /\ sqlId' = sqlId /\ post' = post /\ pc' = "commit" /\ result' = result
    BY <1>11 DEF execute, Goes
  <2>3. /\ \A r \in Rows : idOf'[r] < nextId'
        /\ \A r, q \in Rows : idOf'[r] = idOf'[q] /\ idOf'[r] # 0 => r = q
        /\ \A r \in Rows : sqlId[r] # 0 => r \in durable' /\ sqlId[r] = idOf'[r]
        /\ \A i \in 1 .. Size[post] : idOf'[<<post, i>>] = nextId + i - 1
    BY <2>1, <2>2, InsertIds, NoIdsYet
  <2>4. ASSUME post \in OptionBatches
        PROVE  /\ Len(tempId') = Size[post]
               /\ \A i \in 1 .. Size[post] : tempId'[i] = nextId + i - 1
    <3>1. tempId = <<>> /\ nextId \in Nat
      BY <1>3, <1>11, <2>4 DEF execute, TempInv, TypeOK
    <3>2. tempId' = <<>> \o [i \in 1 .. Size[post] |-> nextId + i - 1]
      BY <1>11, <2>4, <3>1 DEF execute
    <3> QED  BY <2>1, <3>1, <3>2
  <2>5. TempInv'
    BY <2>2, <2>3, <2>4 DEF TempInv
  <2> QED  BY <2>2, <2>3, <2>5 DEF IdInv, TempInv
<1>12. CASE executeFails
  <2>1. post \in Posts /\ pc # "idle"
    BY <1>12 DEF executeFails, PlaceInv
  <2>2. UNCHANGED <<tempId, post, sqlId, result>> /\ thrown' /\ pc' = "destroy"
    BY <1>12 DEF executeFails
  <2>3. TempInv'
    BY <2>2 DEF TempInv
  <2>4. CASE ~link
    BY <1>4, <1>12, <2>2, <2>3, <2>4 DEF executeFails
  <2>5. CASE link
    <3>1. PICK n \in 0 .. Size[post] : Insert(n)
      BY <1>12, <2>5 DEF executeFails
    <3>2. /\ \A r \in Rows : idOf'[r] < nextId'
          /\ \A r, q \in Rows : idOf'[r] = idOf'[q] /\ idOf'[r] # 0 => r = q
          /\ \A r \in Rows : sqlId[r] # 0 => r \in durable' /\ sqlId[r] = idOf'[r]
      BY <2>1, <3>1, InsertIds, NoIdsYet
    <3> QED  BY <2>2, <2>3, <3>2 DEF IdInv, TempInv
  <2> QED  BY <2>4, <2>5
<1>13. CASE commit
  <2>1. UNCHANGED <<tempId, post, sqlId, result, idOf, nextId>> /\ durable \subseteq durable'
        /\ pc = "commit" /\ pc' = "destroy" /\ (~thrown' => ~thrown)
    BY <1>13 DEF commit, PlaceInv
  <2>2. TempInv'
    BY <1>3, <2>1 DEF TempInv
  <2> QED  BY <1>4, <2>1, <2>2
<1>14. CASE destroy
  <2>1. UNCHANGED <<tempId, post, sqlId, result, idOf, nextId, durable, thrown>>
        /\ pc = "destroy" /\ pc' = "autocommit"
    BY <1>14 DEF destroy, Destructor
  <2>2. TempInv'
    BY <1>3, <2>1 DEF TempInv
  <2> QED  BY <1>4, <2>1, <2>2
<1>15. CASE autocommitOn
  <2>1. UNCHANGED <<tempId, sqlId, idOf, nextId>> /\ durable \subseteq durable'
        /\ pc = "autocommit"
    BY <1>15 DEF autocommitOn, AfterTransaction
  <2>2. pc' = "idle" \/ (pc' = "select" /\ ~thrown /\ UNCHANGED <<post, thrown>>)
    BY <1>15 DEF autocommitOn, AfterTransaction, Report
  <2>3. TempInv'
    BY <1>3, <2>1, <2>2 DEF TempInv
  <2> QED  BY <1>4, <2>1, <2>3
<1>16. CASE select \/ selectFails
  <2>1. /\ pc = "select" /\ pc' = "idle"
        /\ UNCHANGED <<durable, idOf, nextId, tempId>>
        /\ \E n \in 0 .. Size[post] : SelectIds(n)
        /\ result'[post] # "none"
    <3>1. post \in Posts /\ Size[post] \in Nat \ {0}
      BY <1>16, SessionAssumption DEF select, selectFails, PlaceInv
    <3> QED  BY <1>16, <3>1 DEF select, selectFails, Report, serverVars, TypeOK
  <2>2. \A r \in Rows : sqlId'[r] # 0 =>
          /\ r \in durable /\ sqlId'[r] = idOf[r]
          /\ r[1] = post \/ result[r[1]] # "none"
    BY <2>1, SelectedIds
  <2>3. TempInv'
    BY <2>1 DEF TempInv
  <2> QED  BY <1>1, <2>1, <2>2, <2>3 DEF IdInv, TempInv
<1>17. CASE insert
  <2>1. post \in Posts /\ pc # "idle" /\ Size[post] \in 0 .. Size[post]
    BY <1>17, SessionAssumption DEF insert, PlaceInv
  <2>2. Insert(Size[post]) /\ sqlId' = sqlId /\ pc' \in {"idle", "query"}
    BY <1>17 DEF insert, Goes, Report
  <2>3. /\ \A r \in Rows : idOf'[r] < nextId'
        /\ \A r, q \in Rows : idOf'[r] = idOf'[q] /\ idOf'[r] # 0 => r = q
        /\ \A r \in Rows : sqlId[r] # 0 => r \in durable' /\ sqlId[r] = idOf'[r]
    BY <2>1, <2>2, InsertIds, NoIdsYet
  <2>4. \A r \in Rows : sqlId[r] # 0 => result'[r[1]] # "none"
    BY <1>1 DEF IdInv
  <2>5. TempInv'
    BY <2>2 DEF TempInv
  <2> QED  BY <2>2, <2>3, <2>4, <2>5 DEF IdInv, TempInv
<1>18. CASE query
  <2>1. TempInv'
    BY <1>18 DEF query, Report, TempInv
  <2> QED  BY <1>4, <1>18, <2>1 DEF query, serverVars
<1>19. CASE Stop \/ UNCHANGED vars
  BY <1>19 DEF Stop, vars, serverVars, threadVars, IdInv
<1> QED
  BY <1>5, <1>6, <1>7, <1>8, <1>9, <1>10, <1>11, <1>12, <1>13, <1>14, <1>15, <1>16, <1>17,
     <1>18, <1>19 DEF Next

-----------------------------------------------------------------------------
(* The theorems.                                                           *)

\* The invariant holds in every state of the session.
THEOREM Invariance == Spec => []IInv
<1>1. IInv /\ [Next]_vars => IInv'
  <2> SUFFICES ASSUME IInv, [Next]_vars PROVE IInv'
    OBVIOUS
  <2> QED  BY PlaceStep, StoreStep, IdStep DEF IInv
<1> QED  BY InitInv, <1>1, PTL DEF Spec

\* Whatever fails, no transaction is left counted or marked between two posts, and the
\* session is back in autocommit mode unless the call that switches it back failed
\* (nanodbc.cpp:1447-1474).
THEOREM CleanBetweenPosts == Spec => []SessionClean
<1>1. IInv => SessionClean
  BY DEF IInv, TxInv
<1> QED  BY Invariance, <1>1, PTL

\* A candle's id names its own stored row, and reading the ids stays in bounds
\* (CandleRoutes.h:338-346).
THEOREM IdsAreRight == Spec => []IdsNameRows
<1>1. ASSUME IInv PROVE IdsNameRows
  <2> USE <1>1 DEF IInv
  <2>1. \A r \in Rows : sqlId[r] # 0 => r \in durable /\ sqlId[r] = idOf[r]
    BY DEF IdInv
  <2>2. \A r, q \in Rows : sqlId[r] = sqlId[q] /\ sqlId[r] # 0 => r = q
    BY <2>1 DEF IdInv
  <2>3. pc = "select" => Len(tempId) = Size[post]
    BY DEF IdInv, PlaceInv, InTransaction
  <2> QED  BY <2>1, <2>2, <2>3 DEF IdsNameRows
<1> QED  BY Invariance, <1>1, PTL

-----------------------------------------------------------------------------
(* The refinement: every step is a Store, a Tell or a stutter.             *)

OfBatches(rows) == {r \in rows : r[1] \in Batches}
Told == {b \in Batches : result[b] = "stored"}

\* A batch is as whole among the rows of all batches as among all rows.
LEMMA BatchRows ==
  ASSUME NEW D \in SUBSET Rows
  PROVE  /\ OfBatches(D) \subseteq UNION {RowsOf(b) : b \in Batches}
         /\ \A b \in Batches : /\ Whole(D, b) => Whole(OfBatches(D), b)
                               /\ RowsOf(b) \subseteq D => RowsOf(b) \subseteq OfBatches(D)
<1>1. OfBatches(D) \subseteq UNION {RowsOf(b) : b \in Batches}
  BY RowPost DEF OfBatches
<1>2. ASSUME NEW b \in Batches, NEW r \in RowsOf(b), r \in D PROVE r \in OfBatches(D)
  BY <1>2, RowFacts, Kinds DEF OfBatches
<1>3. ASSUME NEW b \in Batches
      PROVE  /\ Whole(D, b) => Whole(OfBatches(D), b)
             /\ RowsOf(b) \subseteq D => RowsOf(b) \subseteq OfBatches(D)
  BY <1>2 DEF Whole, OfBatches
<1> QED  BY <1>1, <1>3

\* A step of a batch's post that stores or botches, and reports no success.
LEMMA StoreMaps ==
  ASSUME IInv', post \in Batches, durable \subseteq durable', Told' = Told,
         botched \subseteq botched', botched' \subseteq botched \cup {post}
  PROVE  Log!Next
<1>1. durable' \in SUBSET Rows
  BY DEF IInv, TypeOK
<1>2. OfBatches(durable') \subseteq UNION {RowsOf(b) : b \in Batches}
  BY <1>1, BatchRows
<1>3. OfBatches(durable') = OfBatches(durable) \cup OfBatches(durable')
  BY DEF OfBatches
<1>4. \A b \in Batches \ botched' : Whole(OfBatches(durable'), b)
  BY <1>1, BatchRows DEF IInv, StoreInv
<1>5. Log!Store(post)
  BY <1>2, <1>3, <1>4 DEF Log!Store, Log!Whole, Whole, OfBatches, Told
<1> QED  BY <1>5 DEF Log!Next, Log!Store

\* A step that reports the success of a stored batch.
LEMMA TellMaps ==
  ASSUME IInv, post \in Batches, RowsOf(post) \subseteq durable, Report("stored"),
         UNCHANGED <<durable, botched>>
  PROVE  Log!Next
<1>1. RowsOf(post) \subseteq OfBatches(durable)
  BY BatchRows DEF IInv, TypeOK
<1>2. Told' = Told \cup {post}
  BY Kinds DEF Told, Report, IInv, TypeOK
<1>3. Log!Tell(post)
  BY <1>1, <1>2 DEF Log!Tell, OfBatches, Told
<1> QED  BY <1>3 DEF Log!Next, Log!Tell

\* A step that neither stores rows of a batch nor reports its success.
LEMMA StutterMaps ==
  ASSUME OfBatches(durable') = OfBatches(durable), Told' = Told, botched' = botched
  PROVE  UNCHANGED Log!logVars
BY DEF Log!logVars, OfBatches, Told

\* A failure, and a report about a single row, tell nothing of a batch.
LEMMA NothingTold ==
  ASSUME IInv
  PROVE  /\ pc # "idle" /\ Report("failed") => Told' = Told
         /\ post \in Singles /\ Report("stored") => Told' = Told
         /\ result' = result => Told' = Told
BY Kinds DEF IInv, TypeOK, PlaceInv, Report, Told

\* Every step of the session is one of the log, or a stutter.
LEMMA LogStep ==
  ASSUME IInv, IInv', [Next]_vars
  PROVE  [Log!Next]_(Log!logVars)
<1> USE Kinds
<1>1. CASE loseLink \/ Stop \/ UNCHANGED vars \/ (\E p \in Posts : begin(p))
           \/ dropTempId \/ createTempId \/ prepare \/ transaction
  <2>1. UNCHANGED <<durable, botched, result>>
    BY <1>1 DEF loseLink, Stop, vars, begin, dropTempId, createTempId, prepare, transaction, Goes,
       serverVars, threadVars, faultVars
  <2> QED  BY <2>1, NothingTold, StutterMaps
<1>2. ASSUME NEW at, at # "idle", Throws(at) PROVE [Log!Next]_(Log!logVars)
  BY <1>2, NothingTold, StutterMaps DEF Throws, serverVars
<1>3. CASE execute \/ executeFails
  <2>1. ~autocommit
    BY <1>3 DEF execute, executeFails, IInv, TxInv
  <2>2. UNCHANGED <<durable, botched, result>>
    BY <1>3, <2>1 DEF execute, executeFails, Insert, Goes
  <2> QED  BY <2>2, NothingTold, StutterMaps
<1>4. CASE commit
  <2>1. post \in Batches /\ UNCHANGED <<botched, result>> /\ durable \subseteq durable'
    BY <1>4 DEF commit, IInv, PlaceInv, InTransaction
  <2> QED  BY <2>1, NothingTold, StoreMaps
<1>5. CASE destroy
  <2>1. post \in Batches /\ UNCHANGED <<durable, result>>
    BY <1>5 DEF destroy, Destructor, IInv, PlaceInv, InTransaction
  <2>2. botched \subseteq botched' /\ botched' \subseteq botched \cup {post}
    BY <1>5 DEF destroy, Destructor
  <2> QED  BY <2>1, <2>2, NothingTold, StoreMaps
<1>6. CASE autocommitOn
  <2>1. /\ pc = "autocommit" /\ post \in Batches /\ botched' = botched
        /\ durable \subseteq durable' /\ AfterTransaction
    BY <1>6 DEF autocommitOn, IInv, PlaceInv, InTransaction
  <2>2. CASE thrown
    BY <2>1, <2>2, NothingTold, StoreMaps DEF AfterTransaction
  <2>3. CASE ~thrown
    <3>1. durable' = durable /\ RowsOf(post) \subseteq durable
      BY <1>6, <2>1, <2>3 DEF autocommitOn, IInv, TxInv, StoreInv
    <3>2. Report("stored") \/ result' = result
      BY <2>1, <2>3 DEF AfterTransaction
    <3> QED  BY <2>1, <3>1, <3>2, TellMaps, NothingTold, StutterMaps
  <2> QED  BY <2>2, <2>3
<1>7. CASE select
  <2>1. post \in Batches /\ RowsOf(post) \subseteq durable
    BY <1>7 DEF select, IInv, PlaceInv, StoreInv
  <2> QED  BY <1>7, <2>1, TellMaps DEF select, serverVars
<1>8. CASE selectFails
  BY <1>8, NothingTold, StutterMaps DEF selectFails, serverVars
<1>9. CASE insert
  <2>1. post \in Singles /\ post \in Posts /\ post \notin Batches
    BY <1>9 DEF insert, IInv, PlaceInv
  <2>2. \A r \in NewRows(post, Size[post]) : r[1] \notin Batches
    BY <2>1 DEF NewRows
  <2>3. OfBatches(durable') = OfBatches(durable)
    BY <1>9, <2>2 DEF insert, Insert, NewRows, OfBatches
  <2>4. (Report("stored") \/ result' = result) /\ botched' = botched
    BY <1>9 DEF insert, Goes
  <2> QED  BY <2>1, <2>3, <2>4, NothingTold, StutterMaps
<1>10. CASE query
  BY <1>10, NothingTold, StutterMaps DEF query, serverVars, IInv, PlaceInv
<1> QED
  BY <1>1, <1>2, <1>3, <1>4, <1>5, <1>6, <1>7, <1>8, <1>9, <1>10 DEF Next

\* The session implements the log of batches (nanodbc.cpp:1421-1508, 4845-4851).
THEOREM Refinement == Spec => BatchesWhole
<1>1. Init => Log!Init
  BY Kinds DEF Init, Log!Init
<1>2. IInv /\ IInv' /\ [Next]_vars => [Log!Next]_(Log!logVars)
  BY LogStep
<1> QED  BY Invariance, <1>1, <1>2, PTL DEF Spec, BatchesWhole, Log!Spec
=============================================================================
