----------------------------- MODULE MCModuleCache -----------------------------
(***************************************************************************)
(* A small instance of ModuleCache: two good bodies and one with a foreign *)
(* entry.                                                                  *)
(***************************************************************************)
EXTENDS ModuleCache, TLC
CONSTANTS b1, b2, bad

MCZips     == {b1, b2, bad}
MCBadZips  == {bad}
MCSymmetry == Permutations(Procs) \cup Permutations({b1, b2})
===============================================================================
