----------------------------- MODULE MCAppWorker -----------------------------
(* Instances of AppWorker for TLC.                                         *)
EXTENDS AppWorker

TwoQueues == <<0, 1>>
==============================================================================
