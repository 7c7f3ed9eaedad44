----------------------------- MODULE MCHandlePool -----------------------------
(***************************************************************************)
(* A small instance of HandlePool: a capped pool (argument 0, the default  *)
(* cap) and an uncapped one (negative argument).                           *)
(***************************************************************************)
EXTENDS HandlePool, TLC
CONSTANTS p1, p2

MCPools  == {p1, p2}
MCMaxArg == p1 :> 0 @@ p2 :> -1
MCIDLimit == p1 :> 2 @@ p2 :> 1
===============================================================================
