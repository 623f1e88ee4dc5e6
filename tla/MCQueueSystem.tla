---------------------------- MODULE MCQueueSystem ----------------------------
(* Instances of QueueSystem for TLC.                                       *)
EXTENDS QueueSystem

OneQueue == <<0>>
==============================================================================
