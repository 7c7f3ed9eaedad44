------------------------------- MODULE SumdbTree -------------------------------
(***************************************************************************)
(* The Merkle tree of the checksum database (sumdb/tree.go): MerkleRoot,   *)
(* and VerifyInclusion one round of its loop at a time, on the records,    *)
(* indices and proofs a server may send beside a signed tree head.         *)
(*                                                                         *)
(* Hashes are terms: HashChildren of different children differ, and no     *)
(* interior hash is the hash of a record (the prefixes 0x00 and 0x01).     *)
(***************************************************************************)
EXTENDS Integers, Sequences

CONSTANTS
  MaxSize,           \* the records of the log
  Answers(_)         \* for a tree size, what may come with its root: records of
                     \* leafIndex, leafHash and proof

ASSUME MaxSizeAssumption == MaxSize \in Nat \ {0}
ASSUME AnswersAssumption ==
  \A n \in 0..MaxSize : \A a \in Answers(n) :
    a.leafIndex \in Int /\ Len(a.proof) \in Nat /\ a.proof = [j \in 1..Len(a.proof) |-> a.proof[j]]

VARIABLES
  treeSize, root,             \* of the signed tree head
  leafIndex, leafHash, proof, \* of the answer
  fn, sn, cur, pi,            \* VerifyInclusion's variables
  verdict                     \* "running", "verified" or the error it returned

input == <<treeSize, root, leafIndex, leafHash, proof>>
vars  == <<input, fn, sn, cur, pi, verdict>>

-------------------------------------------------------------------------------
HashLeaf(i) == <<"leaf", i>>
HashChildren(left, right) == <<"node", left, right>>

\* For n >= 2.
largestPow2LessThan(n) ==
  LET doubled[k \in 1..n] == IF 2 * k < n THEN doubled[2 * k] ELSE k
  IN  doubled[1]

\* The root over the records lo .. hi - 1 of the log.
Ranges == {range \in (0..MaxSize) \X (0..MaxSize) : range[1] < range[2]}
merkleRootRange[range \in Ranges] ==
  LET lo == range[1]  hi == range[2]  n == hi - lo
      k  == largestPow2LessThan(n)
  IN  IF n = 1 THEN HashLeaf(lo)
      ELSE HashChildren(merkleRootRange[<<lo, lo + k>>], merkleRootRange[<<lo + k, hi>>])
MerkleRoot(n) == IF n = 0 THEN <<"empty">> ELSE merkleRootRange[<<0, n>>]

-------------------------------------------------------------------------------
Init ==
  /\ treeSize \in 0..MaxSize /\ root = MerkleRoot(treeSize)
  /\ \E a \in Answers(treeSize) :
       leafIndex = a.leafIndex /\ leafHash = a.leafHash /\ proof = a.proof
  /\ fn = leafIndex /\ sn = treeSize - 1 /\ cur = leafHash /\ pi = 0
  /\ verdict = "running"

Return(v) == verdict' = v /\ UNCHANGED <<input, fn, sn, cur, pi>>

OutOfRange ==
  /\ verdict = "running" /\ (leafIndex < 0 \/ leafIndex >= treeSize)
  /\ Return("out of range")

Looping == verdict = "running" /\ leafIndex \in 0..(treeSize - 1) /\ sn > 0

\* Faulty: the index of the node stays.
UpInPlace(h, taken) ==
  /\ cur' = h /\ pi' = pi + taken /\ sn' = sn \div 2
  /\ UNCHANGED <<input, fn, verdict>>

\* One round of the loop: h is the hash of the node above, taken the hashes of the
\* proof that it took.
Up(h, taken) ==
  /\ cur' = h /\ pi' = pi + taken
  /\ fn' = fn \div 2 /\ sn' = sn \div 2
  /\ UNCHANGED <<input, verdict>>

isRightChild == fn % 2 = 1
\* Faulty: the last node is promoted whether it is a right child or not.
LastNode     == fn = sn
atBoundary   == fn = sn /\ ~isRightChild
Sibling      == proof[pi + 1]

Promote    == Looping /\ atBoundary /\ Up(cur, 0)
JoinLeft   == Looping /\ isRightChild /\ pi < Len(proof) /\ Up(HashChildren(Sibling, cur), 1)
JoinRight  ==
  /\ Looping /\ ~isRightChild /\ ~atBoundary /\ pi < Len(proof)
  /\ Up(HashChildren(cur, Sibling), 1)
TooShort   == Looping /\ ~atBoundary /\ pi >= Len(proof) /\ Return("too short")

\* Faulty: hashes left over are not looked at.
ConcludeEarly ==
  /\ verdict = "running" /\ leafIndex \in 0..(treeSize - 1) /\ sn = 0
  /\ Return(IF cur # root THEN "other root" ELSE "verified")

Conclude ==
  /\ verdict = "running" /\ leafIndex \in 0..(treeSize - 1) /\ sn = 0
  /\ Return(IF pi # Len(proof) THEN "unused hashes"
            ELSE IF cur # root THEN "other root" ELSE "verified")

Next == OutOfRange \/ Promote \/ JoinLeft \/ JoinRight \/ TooShort \/ Conclude

Spec == Init /\ [][Next]_vars

-------------------------------------------------------------------------------
(* The reference: the tree level by level.  A level pairs the nodes of the one *)
(* below; the last of an odd number goes up as it is.                          *)

Above(level) ==
  [i \in 1..((Len(level) + 1) \div 2) |->
     IF 2 * i > Len(level) THEN level[2 * i - 1]
     ELSE HashChildren(level[2 * i - 1], level[2 * i])]

\* Levels(n)[h] is the h-th level from the records; MaxSize + 1 levels are enough.
Levels(n) ==
  LET level[h \in 1..(MaxSize + 1)] ==
        IF h = 1 THEN [i \in 1..n |-> HashLeaf(i - 1)] ELSE Above(level[h - 1])
  IN  level

\* The siblings on the way from record i of n to the root.
Path(i, n) ==
  LET levels == Levels(n)
      path[x \in (1..(MaxSize + 1)) \X (0..MaxSize)] ==
        LET h   == x[1]  at == x[2]  above == path[<<h + 1, at \div 2>>]
            sib == IF at % 2 = 1 THEN at ELSE at + 2
        IN  IF h = MaxSize + 1 \/ Len(levels[h]) = 1 THEN <<>>
            ELSE IF sib > Len(levels[h]) THEN above
            ELSE <<levels[h][sib]>> \o above
  IN  path[<<1, i>>]

-------------------------------------------------------------------------------
(* Properties *)

\* The loop reads no hash past the end of the proof and climbs no further than the
\* root, whatever the server sent.
TypeOK ==
  /\ treeSize \in 0..MaxSize /\ leafIndex \in Int
  /\ leafIndex \in 0..(treeSize - 1) => sn \in 0..(treeSize - 1) /\ fn \in 0..sn
  /\ pi \in 0..Len(proof)
  /\ verdict \in {"running", "verified", "out of range", "too short", "unused hashes", "other root"}

\* A proof verifies only if the record is the log's record at that index: no other
\* record, index, sibling, order or number of siblings does.
Sound == verdict = "verified" =>
  leafHash = HashLeaf(leafIndex) /\ proof = Path(leafIndex, treeSize)

\* The proof of a record of the log, taken from the tree built level by level, is verified
\* against MerkleRoot, which splits at powers of two, at every index of every size.
Complete == verdict \notin {"running", "verified"} =>
  ~(leafIndex \in 0..(treeSize - 1) /\ leafHash = HashLeaf(leafIndex)
    /\ proof = Path(leafIndex, treeSize))

===============================================================================
