------------------------------ MODULE MCSumdbTree ------------------------------
(***************************************************************************)
(* Instances of SumdbTree: with a small tree any sequence of its hashes as *)
(* a proof; with a large one the proofs of other records and other sizes.  *)
(***************************************************************************)
EXTENDS SumdbTree, FiniteSets, SequencesExt
CONSTANT AllUpTo

\* Those of the tree, and the record after its last.
Hashes(n) == UNION {Range(Levels(n)[h]) : h \in 1..(n + 1)} \cup {HashLeaf(n)}
Paths == {Path(j[1], j[2]) : j \in {k \in (0..MaxSize) \X (1..MaxSize) : k[1] < k[2]}}

MCAnswers(n) ==
  IF n <= AllUpTo
    THEN [leafIndex : -1..n, leafHash : Hashes(n), proof : BoundedSeq(Hashes(n), 3)]
    ELSE [leafIndex : 0..(n - 1), leafHash : {HashLeaf(i) : i \in 0..(n - 1)}, proof : Paths]
===============================================================================
