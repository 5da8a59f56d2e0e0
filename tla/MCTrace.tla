------------------------------ MODULE MCTrace -------------------------------
(***************************************************************************)
(* An instance of Trace for TLC: a request that continues a caller's trace, *)
(* and one that begins its own, with up to two detectors each.              *)
(***************************************************************************)
EXTENDS Trace

MCRequests == {"r", "q"}
MCCallers == {<<"caller", 1>>, <<"caller", 2>>}
MCTraceparent ==
    [r \in MCRequests |-> IF r = "r" THEN [trace |-> <<"caller", 1>>, span |-> <<"caller", 2>>]
                          ELSE NoContext]
=============================================================================
