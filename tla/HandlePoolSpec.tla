---------------------------- MODULE HandlePoolSpec ----------------------------
(***************************************************************************)
(* What goroutine.HandlePool promises its callers, without locks, cgo or   *)
(* goroutines: each pool is a bounded partial map from identifiers to      *)
(* values in which an identifier is bound at most once in the pool's life. *)
(***************************************************************************)
EXTENDS Integers, FiniteSets

CONSTANTS
  Pools,          \* one pool per wrapper module
  Ids,            \* Ids[p]: the identifiers pool p can hand out
  Values,         \* the Go values callers bind
  Capacity        \* [Pools -> Int]: the effective cap, negative for none

VARIABLES
  given,          \* given[p]: every identifier p ever bound, with its value
  live            \* live[p]: the identifiers p still holds

specVars == <<given, live>>

SpecInit ==
  /\ given = [p \in Pools |-> [i \in {} |-> i]]
  /\ live  = [p \in Pools |-> {}]

HasRoom(p) == Capacity[p] > 0 => Cardinality(live[p]) < Capacity[p]

\* Acquire binds an identifier that was never bound before.
Bind(p, i, v) ==
  /\ HasRoom(p)
  /\ i \notin DOMAIN given[p]
  /\ given' = [given EXCEPT ![p] =
                 [j \in DOMAIN given[p] \cup {i} |->
                    IF j = i THEN v ELSE given[p][j]]]
  /\ live'  = [live EXCEPT ![p] = @ \cup {i}]

\* Release unbinds it, once.
Unbind(p, i) ==
  /\ i \in live[p]
  /\ live' = [live EXCEPT ![p] = @ \ {i}]
  /\ UNCHANGED given

SpecNext ==
  \E p \in Pools : \E i \in Ids[p] :
    \/ \E v \in Values : Bind(p, i, v)
    \/ Unbind(p, i)

PoolSpec == SpecInit /\ [][SpecNext]_specVars
===============================================================================
