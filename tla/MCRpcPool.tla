------------------------------ MODULE MCRpcPool ------------------------------
(* Four callers compete for two stubs: callers sleep, two of them can be   *)
(* woken before either runs, and the pool can die at any point.            *)
EXTENDS RpcPool
=============================================================================
