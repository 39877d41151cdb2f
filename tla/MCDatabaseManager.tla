------------------------- MODULE MCDatabaseManager -------------------------
(* Small instances of DatabaseManager: a few bars, one option candle per   *)
(* bar.                                                                    *)
EXTENDS DatabaseManager

CONSTANT a

MCOneId == {a}

NoFaults  == {}
AllFaults == {"db", "race", "skew"}
=============================================================================
