---------------------------- MODULE ModuleCacheSpec ----------------------------
(***************************************************************************)
(* What moduleproxy.CacheLayout promises of one module version: each       *)
(* artifact is a register that holds a whole body or nothing; a reader     *)
(* sees the old body or the new one.                                       *)
(***************************************************************************)
CONSTANTS Artifacts, Bodies, Missing

VARIABLES file, offered   \* offered: the bodies that were given to be stored

SpecInit == file = [a \in Artifacts |-> Missing] /\ offered = [a \in Artifacts |-> {}]

Offer == (\A a \in Artifacts : offered[a] \subseteq offered'[a]) /\ UNCHANGED file
Store(a, b) == b \in offered[a] /\ file' = [file EXCEPT ![a] = b] /\ UNCHANGED offered
Discard(a)   == file' = [file EXCEPT ![a] = Missing] /\ UNCHANGED offered

SpecNext == Offer \/ \E a \in Artifacts : Discard(a) \/ \E b \in Bodies : Store(a, b)

RegisterSpec == SpecInit /\ [][SpecNext]_<<file, offered>>
===============================================================================
