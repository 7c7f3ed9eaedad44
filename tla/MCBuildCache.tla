----------------------------- MODULE MCBuildCache -----------------------------
(***************************************************************************)
(* Small instances of BuildCache: two wrappers, so an entry of four files  *)
(* and a manifest.                                                         *)
(***************************************************************************)
EXTENDS BuildCache, TLC

MCModules == <<"w2", "w1">>
MCByName  == <<"w1", "w2">>
MCSymmetry == Permutations(Drivers) \cup Permutations(Envs)
===============================================================================
