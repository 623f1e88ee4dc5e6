---------------------------- MODULE MCRestServer ----------------------------
(* Instances of RestServer for TLC.                                        *)
EXTENDS RestServer

(* With and without a write timeout, for net/http and the middleware alike. *)
(* With the handler timeouts 0 and 2 a handler has no deadline, the write   *)
(* timeout, or, on the server without one, more than the other server has.  *)
MCConfigs == {[read |-> 1, write |-> 1], [read |-> 2, write |-> 0]}
==============================================================================
