--------------------------- MODULE MCIndexScanner ---------------------------
(* One strike per price, and closes eight strikes above the start: the     *)
(* contracts of the start are far from the money when the price has moved. *)
EXTENDS IndexScanner

MCCloses == {138}
MCInitPrice == 101

\* The first bars of the options arrive in the order of their requests, later ones in
\* any order.  Nobody reads the buffer once the streams are told to end: only the
\* underlying, whose price may be on its way, still delivers a bar.
BarsOfInterest ==
  /\ \A id \in activeReqs' \ (activeReqs \cup {Underlying}) :
       \A s \in streams : s.id < id => s.id \in activeReqs
  /\ terminateStream => bufferMap' \subseteq bufferMap \cup {Underlying}

MCSpec ==
  /\ Init /\ [][Next /\ BarsOfInterest]_vars
  /\ WF_vars(MainThread) /\ WF_vars(TestThread)
  /\ WF_vars(\E close \in Closes : writePrice(close))
  /\ \A id \in ReqIds :
       WF_vars(\E s \in streams : s.id = id /\ (realtimeBar(s) \/ endStream(s)))
  /\ SF_vars(checkBufferFull(TRUE))
=============================================================================
