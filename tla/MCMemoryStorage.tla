--------------------------- MODULE MCMemoryStorage ---------------------------
(* Instances of MemoryStorage for TLC.                                     *)
EXTENDS MemoryStorage

CONSTANTS c1, c2

MCConsumers == {c1, c2}
OneQueue == {0}

(* A plain task, one with a delay, one with a start time and a delay.      *)
MCRequests ==
  {[startTime |-> NoTime, delay |-> 0], [startTime |-> NoTime, delay |-> 1],
   [startTime |-> 1, delay |-> 2]}
PlainRequests == {[startTime |-> NoTime, delay |-> 0]}
MCRetryDelays == {0, 1}
LaterOnly == {1}
==============================================================================
