--------------------------- MODULE MCRequestChain ---------------------------
(* Instances of RequestChain for TLC.                                      *)
EXTENDS RequestChain

NoInformational == {}
EarlyHints == {103}
MCDiffs == {2, -1}
==============================================================================
