------------------------------- MODULE MCRPC -------------------------------
(* RPCServer with three connections, two agents and two threads.  The third  *)
(* connection is always one of the second agent's; the others are of either. *)
EXTENDS RPCServer

CONSTANTS c3, a2

MCSpec == RPCInit /\ cn[c3] = a2 /\ [][RPCNext /\ cn'[c3] = a2]_rpcVars /\ RPCFairness
=============================================================================
