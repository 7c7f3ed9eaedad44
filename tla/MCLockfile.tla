------------------------------- MODULE MCLockfile -------------------------------
(***************************************************************************)
(* An instance of Lockfile for TLC: two modules, one of them with a second *)
(* version, a path that needs escapes, and lists that differ in order and  *)
(* in number.                                                              *)
(***************************************************************************)
EXTENDS Lockfile

MCCapLists == {<<>>, <<"net", "fs">>, <<"fs", "net">>, <<"net", "net", "fs">>, <<"net", "fs", "fs">>}

MCPackage(m, v, src, caps) ==
  [Zero EXCEPT !.module = m, !.version = v, !.source = src, !.zip = "a", !.sumdb = "a",
               !.caps = caps, !.deps = <<"d">>]
MCNewPackages ==
  {MCPackage(1, v, <<"module-proxy", 0>>, <<"net", "fs">>) : v \in Versions} \cup
  {MCPackage(2, 1, <<"path", 1>>, <<>>)}
===============================================================================
