------------------------------- MODULE MCPublish -------------------------------
(***************************************************************************)
(* A small instance of Publish: a release of two files, a later one that   *)
(* changed one and dropped the other, and the first's tag given once more, *)
(* to the later files on another branch.  Three calls of Publish in all:   *)
(* one to leave something behind and two that overlap.                     *)
(***************************************************************************)
EXTENDS Publish, TLC

CONSTANT MaxCalls
VARIABLE calls   \* of Publish, so far

MCReleases ==
  {[files |-> [go |-> "go 1", old |-> "old"], tag |-> "v1", branch |-> "main"],
   [files |-> [go |-> "go 2"],                tag |-> "v2", branch |-> "main"],
   [files |-> [go |-> "go 2"],                tag |-> "v1", branch |-> "dev"]}
MCSymmetry == Permutations(Publishers) \cup Permutations(Roots)

MCInit == Init /\ calls = 0
MCCall(p) == calls < MaxCalls /\ Call(p) /\ calls' = calls + 1
MCNext == \E p \in Publishers :
  \/ MCCall(p)
  \/ (Working(p) /\ UNCHANGED calls)
MCSpec == MCInit /\ [][MCNext]_<<vars, calls>>
===============================================================================
