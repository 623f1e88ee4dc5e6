---------------------------- MODULE MCQueueWorker ----------------------------
(* Instances of QueueWorker for TLC.                                       *)
EXTENDS QueueWorker

TwoQueues == <<0, 1>>
==============================================================================
