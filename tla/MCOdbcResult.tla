---------------------------- MODULE MCOdbcResult ----------------------------
(* A query of two result sets whose columns change kind between them, and  *)
(* a statement without a result set.                                       *)
EXTENDS OdbcResult

MCTwoSets == [param |-> FALSE,
              sets  |-> <<[cols |-> <<"number", "long">>, rows |-> 3],
                          [cols |-> <<"long", "text">>, rows |-> 1]>>]
MCInsert  == [param |-> TRUE, sets |-> <<[cols |-> <<>>, rows |-> 0]>>]
MCQueries == {MCTwoSets, MCInsert}

\* NULL in a bound and in an unbound column.
MCNullCells == {<<1, 2, 1>>, <<1, 3, 2>>}

\* An empty text, one that fills a buffer of two characters and its terminator, and
\* one that needs a second call.
MCLongLength == <<3, 0, 2>>
MCResults == 1 .. 3
=============================================================================
