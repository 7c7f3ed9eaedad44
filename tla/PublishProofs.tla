----------------------------- MODULE PublishProofs -----------------------------
(***************************************************************************)
(* Proofs about Publish, for any publishers, roots and releases.           *)
(***************************************************************************)
EXTENDS Publish, TLAPS

-------------------------------------------------------------------------------
(* Types, and who owns a root *)

MaybeCommit == Commits \cup {None}
RepoType == [branch : Branches \cup {None}, origin : BOOLEAN, index : Trees,
             head : MaybeCommit, tags : [Tags -> MaybeCommit], sigs : [Tags -> MaybeCommit]]
RemoteType == [branches : [Branches -> MaybeCommit], tags : [Tags -> MaybeCommit],
               sigs : [Tags -> MaybeCommit]]
WritesType == [todo : SUBSET Names, open : Names \cup {None}, lost : SUBSET Names]
Steps == {"idle", "write", "init", "remote"} \cup Owning \cup Signing

\* A call under way and a result are of a request.
CallsOK ==
  /\ pc \in [Publishers -> Steps] /\ req \in [Publishers -> Requests \cup {None}]
  /\ sha \in [Publishers -> MaybeCommit] /\ result \in [Publishers -> BOOLEAN]
  /\ \A p \in Publishers : pc[p] # "idle" \/ result[p] => req[p] \in Requests

\* A root has no commit before its remote was added, nor between that and the commit.
RootsOK ==
  /\ \A r \in Roots : ~repo[r].origin => repo[r].head = None
  /\ \A p \in Publishers : pc[p] \in Owning => Here(p).origin
  /\ \A p \in Publishers : pc[p] \in {"add", "commit"} => Here(p).head = None

\* What a call has to write, and writes, is of its release.
WritesOK ==
  /\ writes \in [Publishers -> WritesType]
  /\ \A p \in Publishers : pc[p] = "write" =>
       /\ writes[p].todo \subseteq DOMAIN Rel(p).files
       /\ writes[p].open \in DOMAIN Rel(p).files \cup {None}

TypeInv ==
  /\ disk \in [Roots -> Trees] /\ repo \in [Roots -> RepoType] /\ remote \in RemoteType
  /\ CallsOK /\ WritesOK /\ RootsOK /\ OneOwner

LEMMA InitType == Init => TypeInv
  <1> SUFFICES ASSUME Init PROVE TypeInv
    OBVIOUS
  <1>1. disk \in [Roots -> Trees] /\ repo \in [Roots -> RepoType] /\ remote \in RemoteType
    BY DEF Init, RepoType, RemoteType, MaybeCommit, NoFiles, Trees
  <1>3. WritesOK
    BY DEF Init, WritesOK, WritesType, NoWrites
  <1>2. CallsOK /\ RootsOK /\ OneOwner
    BY DEF Init, CallsOK, RootsOK, OneOwner, Steps, Owning, MaybeCommit
  <1> QED
    BY <1>1, <1>2, <1>3 DEF TypeInv

\* The fields of the request p works on.
LEMMA RequestFacts ==
  ASSUME TypeInv, NEW p \in Publishers, pc[p] # "idle" \/ result[p]
  PROVE  /\ req[p].root \in Roots /\ Rel(p) \in Releases /\ req[p].dry \in BOOLEAN
         /\ Rel(p).tag \in Tags /\ Rel(p).branch \in Branches /\ DOMAIN Rel(p).files \subseteq Names
         /\ Here(p) \in RepoType
  BY DEF TypeInv, CallsOK, Requests, Rel, Tags, Branches, Names, Here

LEMMA TextFacts ==
  ASSUME NEW q \in Requests, NEW n \in DOMAIN q.rel.files
  PROVE  n \in Names /\ q.rel.files[n] \in Texts
  BY DEF Requests, Names, Texts

\* A step of p that leaves its request alone.
LEMMA MoveType ==
  ASSUME TypeInv, NEW p \in Publishers, NEW step \in Steps,
         pc' = [pc EXCEPT ![p] = step], req' = req,
         sha' \in [Publishers -> MaybeCommit], result' \in [Publishers -> BOOLEAN],
         pc[p] # "idle" \/ result[p], \A q \in Publishers : result'[q] => result[q] \/ q = p
  PROVE  CallsOK'
  BY DEF TypeInv, CallsOK

LEMMA ErrorType ==
  ASSUME TypeInv, NEW p \in Publishers, Error(p)
  PROVE  CallsOK'
  BY DEF TypeInv, CallsOK, Error, Go, Steps, MaybeCommit

\* A step of p away from the writing of files.
LEMMA WritesKept ==
  ASSUME TypeInv, NEW p \in Publishers, writes' = writes,
         \A q \in Publishers \ {p} : pc'[q] = pc[q] /\ req'[q] = req[q], pc'[p] # "write"
  PROVE  WritesOK'
  BY DEF TypeInv, WritesOK, Rel

LEMMA ErrorWrites ==
  ASSUME TypeInv, NEW p \in Publishers, Error(p)
  PROVE  WritesOK'
  <1>1. /\ \A q \in Publishers \ {p} : pc'[q] = pc[q] /\ req'[q] = req[q] /\ writes'[q] = writes[q]
        /\ pc'[p] # "write" /\ writes' \in [Publishers -> WritesType]
    BY DEF Error, Go, TypeInv, CallsOK, WritesOK, WritesType, NoWrites
  <1> QED
    BY <1>1 DEF TypeInv, WritesOK, Rel

\* p puts text into the file n of its release, and goes on to write or is done.
LEMMA PutType ==
  ASSUME TypeInv, NEW p \in Publishers, pc[p] = "write", NEW n \in DOMAIN Rel(p).files,
         NEW text \in {Rel(p).files[n], Torn}, NEW w \in WritesType, Put(p, n, text, w),
         w.todo \subseteq DOMAIN Rel(p).files, w.open \in DOMAIN Rel(p).files \cup {None},
         req' = req, \A q \in Publishers \ {p} : pc'[q] = pc[q]
  PROVE  disk' \in [Roots -> Trees] /\ WritesOK'
  <1>1. req[p] \in Requests /\ req[p].root \in Roots
    BY RequestFacts DEF TypeInv, CallsOK
  <1>2. n \in Names /\ text \in Texts \cup {Torn, None}
    BY <1>1, TextFacts DEF Rel
  <1>3. disk' \in [Roots -> Trees]
    BY <1>1, <1>2 DEF Put, Trees, TypeInv
  <1>4. /\ writes' \in [Publishers -> WritesType] /\ writes'[p] = w
        /\ \A q \in Publishers \ {p} :
             writes'[q].todo = writes[q].todo /\ writes'[q].open = writes[q].open
    BY <1>2 DEF Put, TypeInv, WritesOK, WritesType
  <1> QED
    BY <1>3, <1>4 DEF TypeInv, WritesOK, Rel

\* Nothing about who owns a root changes when p returns, or stays among the owners or
\* outside, and leaves the origins, and the heads of new roots, as they are.
LEMMA RootsKept ==
  ASSUME TypeInv, NEW p \in Publishers, repo' = repo,
         \A q \in Publishers \ {p} : pc'[q] = pc[q] /\ req'[q] = req[q],
         pc'[p] \in Owning => pc[p] \in Owning /\ req'[p] = req[p],
         pc'[p] \notin {"add", "commit"}
  PROVE  RootsOK' /\ OneOwner'
  BY DEF TypeInv, RootsOK, OneOwner, Here, Owning

LEMMA LocalType ==
  ASSUME TypeInv, NEW p \in Publishers, pc[p] # "idle" \/ result[p],
         NEW g \in RepoType, NEW step \in Steps \ {"write"}, Local(p, g, step)
  PROVE  /\ disk' \in [Roots -> Trees] /\ repo' \in [Roots -> RepoType]
         /\ remote' \in RemoteType /\ CallsOK' /\ WritesOK'
  <1>1. CallsOK'
    BY MoveType DEF Local, Go, TypeInv, CallsOK
  <1>2. repo' \in [Roots -> RepoType]
    BY DEF Local, TypeInv
  <1>3. WritesOK'
    BY WritesKept DEF Local, Go, TypeInv, CallsOK
  <1> QED
    BY <1>1, <1>2, <1>3 DEF Local, TypeInv

\* Only an owner commits, and only the one that adds the remote becomes an owner.
LEMMA LocalRoots ==
  ASSUME TypeInv, NEW p \in Publishers, pc[p] # "idle" \/ result[p],
         NEW g \in RepoType, NEW step \in Steps, Local(p, g, step),
         pc[p] \in Owning \/ g.head = Here(p).head, Here(p).origin => g.origin,
         ~g.origin => g.head = None,
         step \in Owning => g.origin /\ (pc[p] \in Owning \/ ~Here(p).origin),
         step \in {"add", "commit"} => g.head = None
  PROVE  RootsOK' /\ OneOwner'
  <1>1. /\ pc' = [pc EXCEPT ![p] = step] /\ req' = req /\ repo' = [repo EXCEPT ![req[p].root] = g]
        /\ req[p].root \in Roots
    BY RequestFacts DEF Local, Go
  <1>2. \A q \in Publishers : pc[q] # "idle" => req[q].root \in Roots
    BY RequestFacts
  <1>3. \A q \in Publishers \ {p} :
          pc[q] \in Owning /\ pc[p] \in Owning => req[q].root # req[p].root
    BY DEF TypeInv, OneOwner
  <1>4. OneOwner'
    BY <1>1, <1>2 DEF TypeInv, CallsOK, OneOwner, RootsOK, Here, Owning
  <1>5. \A r \in Roots : ~repo'[r].origin => repo'[r].head = None
    BY <1>1 DEF TypeInv, RootsOK
  <1>6. \A q \in Publishers : pc'[q] \in Owning => repo'[req'[q].root].origin
    BY <1>1, <1>2 DEF TypeInv, RootsOK, CallsOK, Here, Owning
  <1>7. \A q \in Publishers : pc'[q] \in {"add", "commit"} => repo'[req'[q].root].head = None
    BY <1>1, <1>2, <1>3 DEF TypeInv, RootsOK, CallsOK, Here, Owning
  <1> QED
    BY <1>4, <1>5, <1>6, <1>7 DEF RootsOK, Here

LEMMA StepType == TypeInv /\ [Next]_vars => TypeInv'
  <1> SUFFICES ASSUME TypeInv, [Next]_vars PROVE TypeInv'
    OBVIOUS
  <1>stutter. CASE UNCHANGED vars
    BY <1>stutter DEF vars, TypeInv, CallsOK, WritesOK, RootsOK, OneOwner, Here, Rel
  <1> SUFFICES ASSUME NEW p \in Publishers,
                      \/ Call(p) \/ OpenFile(p) \/ WritePart(p) \/ WriteFile(p)
                      \/ GitInit(p) \/ RemoteAdd(p)
                      \/ GitAdd(p) \/ GitCommit(p) \/ GitTag(p) \/ RevParse(p)
                      \/ PushBranch(p) \/ PushTag(p)
                      \/ CallSign(p) \/ TagSibling(p) \/ PushSibling(p)
                      \/ Fails(p)
               PROVE  TypeInv'
    BY <1>stutter DEF Next, Working
  <1> USE DEF At
  <1>1. pc \in [Publishers -> Steps]
    BY DEF TypeInv, CallsOK
  <1>local. ASSUME NEW g \in RepoType, NEW step \in Steps \ {"write"}, Local(p, g, step),
                   pc[p] # "idle" \/ result[p],
                   pc[p] \in Owning \/ g.head = Here(p).head, Here(p).origin => g.origin,
                   ~g.origin => g.head = None,
                   step \in Owning => g.origin /\ (pc[p] \in Owning \/ ~Here(p).origin),
                   step \in {"add", "commit"} => g.head = None
            PROVE  TypeInv'
    <2>1. RootsOK' /\ OneOwner'
      BY <1>local, LocalRoots
    <2>2. /\ disk' \in [Roots -> Trees] /\ repo' \in [Roots -> RepoType]
          /\ remote' \in RemoteType /\ CallsOK' /\ WritesOK'
      BY <1>local, LocalType
    <2> QED
      BY <2>1, <2>2 DEF TypeInv
  <1>call. CASE Call(p)
    <2>1. CallsOK' /\ RootsOK' /\ OneOwner'
      BY <1>call, RootsKept DEF Call, Go, TypeInv, CallsOK, Steps, Owning, MaybeCommit
    <2>2. PICK q \in Requests :
            /\ req' = [req EXCEPT ![p] = q]
            /\ writes' = [writes EXCEPT ![p] = [NoWrites EXCEPT !.todo = DOMAIN q.rel.files]]
      BY <1>call DEF Call
    <2>3. [NoWrites EXCEPT !.todo = DOMAIN q.rel.files] \in WritesType
      BY TextFacts DEF NoWrites, WritesType
    <2>4. pc' = [pc EXCEPT ![p] = "write"]
      BY <1>call DEF Call, Go
    <2>5. WritesOK'
      BY <2>2, <2>3, <2>4 DEF TypeInv, CallsOK, WritesOK, Rel, NoWrites
    <2> QED
      BY <1>call, <2>1, <2>5 DEF Call, TypeInv
  <1>put. ASSUME pc[p] = "write", NEW n \in DOMAIN Rel(p).files, NEW text \in {Rel(p).files[n], Torn},
                 NEW w \in WritesType, Put(p, n, text, w), NEW step \in {"write", "init"},
                 w.todo \subseteq DOMAIN Rel(p).files, w.open \in DOMAIN Rel(p).files \cup {None},
                 pc' = [pc EXCEPT ![p] = step], UNCHANGED <<repo, remote, req, sha, result>>
          PROVE  TypeInv'
    <2>1. disk' \in [Roots -> Trees] /\ WritesOK'
      BY <1>put, <1>1, PutType
    <2>2. RootsOK' /\ OneOwner'
      BY <1>put, RootsKept, <1>1 DEF Owning
    <2>3. CallsOK'
      BY <1>put, MoveType DEF Steps, TypeInv, CallsOK
    <2> QED
      BY <1>put, <2>1, <2>2, <2>3 DEF TypeInv
  <1>writing. ASSUME pc[p] = "write"
              PROVE  /\ writes[p] \in WritesType /\ writes[p].todo \subseteq DOMAIN Rel(p).files
                     /\ writes[p].open \in DOMAIN Rel(p).files \cup {None} /\ pc = [pc EXCEPT ![p] = "write"]
                     /\ None \notin DOMAIN Rel(p).files
    BY <1>writing, <1>1, RequestFacts, NoneAssumption DEF TypeInv, WritesOK
  <1>open. CASE OpenFile(p)
    <2>1. PICK n \in writes[p].todo : Put(p, n, Torn, [writes[p] EXCEPT !.todo = @ \ {n}, !.open = n])
      BY <1>open DEF OpenFile
    <2> DEFINE w == [writes[p] EXCEPT !.todo = @ \ {n}, !.open = n]
    <2>2. /\ w \in WritesType /\ w.todo \subseteq DOMAIN Rel(p).files /\ n \in DOMAIN Rel(p).files
          /\ w.open \in DOMAIN Rel(p).files \cup {None} /\ pc' = [pc EXCEPT ![p] = "write"]
      BY <1>open, <1>writing DEF OpenFile, WritesType
    <2> QED
      BY <1>open, <1>put, <2>1, <2>2 DEF OpenFile
  <1>part. CASE WritePart(p)
    <2>1. pc' = [pc EXCEPT ![p] = "write"] /\ writes[p].open \in DOMAIN Rel(p).files
      BY <1>part, <1>writing DEF WritePart
    <2> QED
      BY <1>part, <1>put, <1>writing, <2>1 DEF WritePart
  <1>write. CASE WriteFile(p)
    <2> DEFINE n == writes[p].open
               w == [writes[p] EXCEPT !.open = None]
    <2>1. PICK text \in {Rel(p).files[n], Torn} : Put(p, n, text, w)
      BY <1>write DEF WriteFile
    <2>2. /\ w \in WritesType /\ w.todo \subseteq DOMAIN Rel(p).files /\ n \in DOMAIN Rel(p).files
          /\ w.open = None
      BY <1>write, <1>writing DEF WriteFile, WritesType
    <2>3. PICK step \in {"write", "init"} : pc' = [pc EXCEPT ![p] = step]
      BY <1>write DEF WriteFile, Go
    <2> QED
      BY <1>write, <1>put, <2>1, <2>2, <2>3 DEF WriteFile
  <1>init. CASE GitInit(p)
    <2>1. Here(p) \in RepoType /\ Rel(p).branch \in Branches /\ req[p].root \in Roots
      BY <1>init, RequestFacts DEF GitInit
    <2>2. [Here(p) EXCEPT !.branch = IF @ = None THEN Rel(p).branch ELSE @] \in RepoType
      BY <2>1 DEF RepoType
    <2>3. ~Here(p).origin => Here(p).head = None
      BY <2>1 DEF TypeInv, RootsOK, Here
    <2> QED
      BY <1>init, <1>local, <2>1, <2>2, <2>3 DEF GitInit, Steps, Owning, RepoType
  <1>remote. CASE RemoteAdd(p)
    <2>1. Here(p) \in RepoType /\ req[p].root \in Roots
      BY <1>remote, RequestFacts DEF RemoteAdd
    <2>2. [Here(p) EXCEPT !.origin = TRUE] \in RepoType
      BY <2>1 DEF RepoType
    <2>3. ~Here(p).origin /\ Here(p).head = None
      BY <1>remote, <2>1 DEF RemoteAdd, TypeInv, RootsOK, Here
    <2> QED
      BY <1>remote, <1>local, <2>1, <2>2, <2>3 DEF RemoteAdd, Steps, Owning, RepoType
  <1>owning. ASSUME pc[p] \in Owning
             PROVE  Here(p) \in RepoType /\ req[p].root \in Roots /\ Here(p).origin /\ Rel(p).tag \in Tags
    BY <1>owning, RequestFacts DEF Owning, TypeInv, RootsOK
  <1>add. CASE GitAdd(p)
    <2>1. [Here(p) EXCEPT !.index = disk[req[p].root]] \in RepoType
      BY <1>add, <1>owning DEF GitAdd, Owning, RepoType, TypeInv
    <2>2. Here(p).head = None
      BY <1>add DEF GitAdd, TypeInv, RootsOK
    <2> QED
      BY <1>add, <1>local, <1>owning, <2>1, <2>2 DEF GitAdd, Steps, Owning, RepoType
  <1>commit. CASE GitCommit(p)
    <2> DEFINE c == [root |-> req[p].root, files |-> Here(p).index,
                     depth |-> IF Here(p).head = None THEN 1 ELSE Here(p).head.depth + 1]
    <2>1. Here(p).head = None
      BY <1>commit DEF GitCommit, TypeInv, RootsOK
    <2>2. c \in Commits
      BY <1>commit, <1>owning, <2>1 DEF GitCommit, Owning, RepoType, Commits
    <2>3. [Here(p) EXCEPT !.head = c] \in RepoType
      BY <1>commit, <1>owning, <2>2 DEF GitCommit, Owning, RepoType, MaybeCommit
    <2> QED
      BY <1>commit, <1>local, <1>owning, <2>3 DEF GitCommit, Steps, Owning, RepoType
  <1>tag. CASE GitTag(p)
    <2>1. [Here(p) EXCEPT !.tags[Rel(p).tag] = Here(p).head] \in RepoType
      BY <1>tag, <1>owning DEF GitTag, Owning, RepoType
    <2> QED
      BY <1>tag, <1>local, <1>owning, <2>1 DEF GitTag, Steps, Owning, RepoType
  <1>rev. CASE RevParse(p)
    <2>1. Here(p).head \in MaybeCommit /\ req[p].dry \in BOOLEAN
      BY <1>rev, <1>owning, RequestFacts DEF RevParse, Owning, RepoType
    <2>2. CallsOK' /\ WritesOK'
      BY <1>rev, <2>1, WritesKept DEF RevParse, Go, Steps, Owning, TypeInv, CallsOK
    <2>3. RootsOK' /\ OneOwner'
      BY <1>rev, <1>1, RootsKept DEF RevParse, Go, Owning
    <2> QED
      BY <1>rev, <2>2, <2>3 DEF RevParse, TypeInv
  <1>branch. CASE PushBranch(p)
    <2>1. remote' \in RemoteType
      BY <1>branch, <1>owning, RequestFacts DEF PushBranch, Owning, RepoType, RemoteType, TypeInv
    <2>2. CallsOK' /\ WritesOK'
      <3>1. CASE Error(p)
        BY <3>1, ErrorType, ErrorWrites
      <3>2. CASE Go(p, "pushTag") /\ UNCHANGED <<writes, req, sha, result>>
        BY <1>branch, <3>2, WritesKept DEF PushBranch, Go, Steps, Owning, TypeInv, CallsOK
      <3> QED
        BY <1>branch, <3>1, <3>2 DEF PushBranch
    <2>3. RootsOK' /\ OneOwner'
      BY <1>branch, <1>1, RootsKept DEF PushBranch, Error, Go, Owning, TypeInv, CallsOK
    <2> QED
      BY <1>branch, <2>1, <2>2, <2>3 DEF PushBranch, TypeInv
  <1>pushTag. CASE PushTag(p)
    <2>1. remote' \in RemoteType
      BY <1>pushTag, <1>owning DEF PushTag, Owning, RepoType, RemoteType, TypeInv
    <2>2. CallsOK' /\ WritesOK'
      <3>1. CASE Error(p)
        BY <3>1, ErrorType, ErrorWrites
      <3>2. CASE Go(p, "idle") /\ result' = [result EXCEPT ![p] = TRUE] /\ UNCHANGED <<writes, req, sha>>
        BY <1>pushTag, <3>2, WritesKept DEF PushTag, Go, Steps, TypeInv, CallsOK
      <3> QED
        BY <1>pushTag, <3>1, <3>2 DEF PushTag
    <2>3. RootsOK' /\ OneOwner'
      BY <1>pushTag, <1>1, RootsKept DEF PushTag, Error, Go, Owning, TypeInv, CallsOK
    <2> QED
      BY <1>pushTag, <2>1, <2>2, <2>3 DEF PushTag, TypeInv
  <1>sign. CASE CallSign(p)
    <2>1. Here(p) \in RepoType /\ req[p].root \in Roots
      BY <1>sign, RequestFacts DEF CallSign
    <2>2. ~Here(p).origin => Here(p).head = None
      BY <2>1 DEF TypeInv, RootsOK, Here
    <2> QED
      BY <1>sign, <1>local, <2>1, <2>2 DEF CallSign, Steps, Owning, Signing
  <1>sibling. CASE TagSibling(p)
    <2>1. Here(p) \in RepoType /\ req[p].root \in Roots /\ Rel(p).tag \in Tags /\ sha[p] \in MaybeCommit
      BY <1>sibling, RequestFacts DEF TagSibling, TypeInv, CallsOK
    <2>2. [Here(p) EXCEPT !.sigs[Rel(p).tag] = sha[p]] \in RepoType
      BY <2>1 DEF RepoType
    <2>3. ~Here(p).origin => Here(p).head = None
      BY <2>1 DEF TypeInv, RootsOK, Here
    <2> QED
      BY <1>sibling, <1>local, <2>1, <2>2, <2>3 DEF TagSibling, Steps, Owning, Signing, RepoType
  <1>pushSig. CASE PushSibling(p)
    <2>1. Here(p) \in RepoType /\ Rel(p).tag \in Tags
      BY <1>pushSig, RequestFacts DEF PushSibling
    <2>2. remote' \in RemoteType
      BY <1>pushSig, <2>1 DEF PushSibling, RepoType, RemoteType, TypeInv
    <2>3. CallsOK' /\ WritesOK'
      BY <1>pushSig, MoveType, WritesKept DEF PushSibling, Go, Steps, TypeInv, CallsOK
    <2>4. RootsOK' /\ OneOwner'
      BY <1>pushSig, <1>1, RootsKept DEF PushSibling, Go, Owning
    <2> QED
      BY <1>pushSig, <2>2, <2>3, <2>4 DEF PushSibling, TypeInv
  <1>fails. CASE Fails(p)
    <2>2. CallsOK' /\ WritesOK'
      BY <1>fails, ErrorType, ErrorWrites DEF Fails
    <2>3. RootsOK' /\ OneOwner'
      BY <1>fails, <1>1, RootsKept DEF Fails, Error, Go, Owning, TypeInv, CallsOK
    <2> QED
      BY <1>fails, <2>2, <2>3 DEF Fails, TypeInv
  <1> QED
    BY <1>call, <1>open, <1>part, <1>write, <1>init, <1>remote, <1>add, <1>commit, <1>tag, <1>rev, <1>branch,
       <1>pushTag, <1>sign, <1>sibling, <1>pushSig, <1>fails

\* No sequence of calls leaves the commands' state space; a root never has a second commit.
THEOREM TypeCorrect == Spec => []TypeOK
  <1>1. TypeInv => TypeOK
    BY DEF TypeInv, TypeOK, CallsOK, WritesOK, WritesType, RepoType, RemoteType, MaybeCommit, Steps
  <1> QED
    BY InitType, StepType, <1>1, PTL DEF Spec

\* git remote add lets one call into a workspace root.
THEOREM RootsHaveOneOwner == Spec => []OneOwner
  <1>1. TypeInv => OneOwner
    BY DEF TypeInv
  <1> QED
    BY InitType, StepType, <1>1, PTL DEF Spec

-------------------------------------------------------------------------------
(* From the files of a release to the remote *)

LEMMA ForwardsTransitive ==
  ASSUME NEW a \in MaybeCommit, NEW b \in Commits, NEW c \in MaybeCommit,
         Forwards(a, b), Forwards(b, c)
  PROVE  Forwards(a, c)
  BY NoneAssumption DEF Forwards, MaybeCommit, Commits

\* The branch of p's release has the commit that p worked out.
OnBranch(p) ==
  remote.branches[Rel(p).branch] # None /\ Forwards(sha[p], remote.branches[Rel(p).branch])

\* How far the files of its release have come: on disk, in the index, in the commit, under
\* the tag, on the branch, on the remote.
PubOK(p) ==
  /\ pc[p] \in {"write", "init", "remote"} \cup Owning => ~result[p]
  /\ pc[p] = "write" => \A n \in Opened(p) :
       /\ disk[req[p].root][n] # None
       /\ n \notin writes[p].lost /\ n # writes[p].open => disk[req[p].root][n] = Rel(p).files[n]
  /\ pc[p] \in {"init", "remote", "add"} => Has(p, disk[req[p].root]) /\ writes[p].todo = {}
  /\ pc[p] = "commit" => Has(p, Here(p).index)
  /\ pc[p] \in {"tag", "rev", "pushBranch", "pushTag"} =>
       Here(p).head # None /\ Has(p, Here(p).head.files)
  /\ pc[p] \in {"rev", "pushBranch", "pushTag"} => Here(p).tags[Rel(p).tag] = Here(p).head
  /\ pc[p] \in {"pushBranch", "pushTag"} => sha[p] = Here(p).head /\ ~req[p].dry
  /\ pc[p] = "pushTag" => OnBranch(p)
  /\ pc[p] \in Signing => result[p]
  /\ pc[p] = "pushSig" => ~req[p].dry /\ Here(p).sigs[Rel(p).tag] = sha[p]
  /\ result[p] => sha[p] # None /\ Has(p, sha[p].files)
  /\ result[p] /\ ~req[p].dry => OnBranch(p) /\ remote.tags[Rel(p).tag] = sha[p]

PubInv == (\A p \in Publishers : PubOK(p)) /\ TagOnBranch /\ SigMatchesTag

LEMMA InitPub == Init => PubInv
  BY DEF Init, PubInv, PubOK, Owning, Signing, TagOnBranch, SigMatchesTag

\* What a step of another publisher leaves to q: the root q owns, signatures that are there,
\* a remote whose branches only go forward and whose tags stay; and of its files what it has
\* still to write, that they are there, and the texts it has not lost.
FilesKept(q) ==
  pc[q] # "idle" \/ result[q] =>
    /\ writes'[q].todo = writes[q].todo /\ writes'[q].open = writes[q].open
    /\ writes[q].lost \subseteq writes'[q].lost
    /\ \A n \in Names : disk[req[q].root][n] # None => disk'[req[q].root][n] # None
    /\ pc[q] \in Staging => \A n \in Opened(q) :
         n \notin writes'[q].lost => disk'[req[q].root][n] = disk[req[q].root][n]
RemoteGrows ==
  /\ \A b \in Branches : remote.branches[b] # None =>
       remote'.branches[b] # None /\ Forwards(remote.branches[b], remote'.branches[b])
  /\ \A t \in Tags : remote.tags[t] # None => remote'.tags[t] = remote.tags[t]
RootKept(q) ==
  LET g == repo[req[q].root]  h == repo'[req[q].root] IN
  /\ pc[q] \in Owning => h.head = g.head /\ h.index = g.index /\ h.tags = g.tags
  /\ \A t \in Tags : g.sigs[t] # None => h.sigs[t] = g.sigs[t]
SelfKept(q) == pc'[q] = pc[q] /\ req'[q] = req[q] /\ sha'[q] = sha[q] /\ result'[q] = result[q]

LEMMA BranchKept ==
  ASSUME TypeInv, remote' \in RemoteType, RemoteGrows, NEW q \in Publishers,
         pc[q] # "idle" \/ result[q], req'[q] = req[q], sha'[q] = sha[q], OnBranch(q)
  PROVE  OnBranch(q)'
  <1>1. Rel(q).branch \in Branches /\ sha[q] \in MaybeCommit
    BY RequestFacts DEF TypeInv, CallsOK
  <1>2. /\ remote.branches[Rel(q).branch] \in Commits
        /\ remote'.branches[Rel(q).branch] \in MaybeCommit
    BY <1>1 DEF OnBranch, TypeInv, RemoteType, MaybeCommit
  <1>3. /\ remote'.branches[Rel(q).branch] # None
        /\ Forwards(remote.branches[Rel(q).branch], remote'.branches[Rel(q).branch])
    BY <1>1 DEF RemoteGrows, OnBranch
  <1>4. Forwards(sha[q], remote'.branches[Rel(q).branch])
    BY <1>1, <1>2, <1>3, ForwardsTransitive DEF OnBranch
  <1> QED
    BY <1>3, <1>4 DEF OnBranch, Rel

LEMMA OtherKept ==
  ASSUME TypeInv, remote' \in RemoteType, RemoteGrows, NEW q \in Publishers,
         SelfKept(q), RootKept(q), FilesKept(q), PubOK(q)
  PROVE  PubOK(q)'
  <1>1. CASE pc[q] = "idle" /\ ~result[q]
    BY <1>1 DEF PubOK, SelfKept, Owning, Signing
  <1>2. CASE pc[q] # "idle" \/ result[q]
    <2>1. /\ req[q].root \in Roots /\ Rel(q).tag \in Tags /\ Rel(q)' = Rel(q)
          /\ OnBranch(q) => OnBranch(q)'
      BY <1>2, RequestFacts, BranchKept DEF SelfKept, Rel
    <2>2. /\ pc[q] \in Owning => /\ Here(q)'.head = Here(q).head /\ Here(q)'.index = Here(q).index
                                 /\ Here(q)'.tags = Here(q).tags
          /\ Here(q).sigs[Rel(q).tag] # None => Here(q)'.sigs[Rel(q).tag] = Here(q).sigs[Rel(q).tag]
      BY <2>1 DEF RootKept, SelfKept, Here
    <2>3. /\ \A f : Has(q, f) => \A n \in DOMAIN Rel(q).files :
                      f[n] # None /\ (n \notin writes'[q].lost => f[n] = Rel(q).files[n])
          /\ pc[q] \in {"init", "remote", "add"} => writes'[q].todo = {} /\ Has(q, disk[req[q].root])'
          /\ pc[q] = "write" => \A n \in Opened(q)' :
               /\ disk'[req'[q].root][n] # None
               /\ n \notin writes'[q].lost /\ n # writes'[q].open => disk'[req'[q].root][n] = Rel(q)'.files[n]
      <3>1. /\ writes'[q].todo = writes[q].todo /\ writes'[q].open = writes[q].open
            /\ writes[q].lost \subseteq writes'[q].lost /\ Opened(q)' = Opened(q)
            /\ DOMAIN Rel(q).files \subseteq Names /\ req'[q] = req[q]
        BY <1>2, <2>1, RequestFacts DEF FilesKept, SelfKept, Opened
      <3>2. /\ \A n \in Opened(q) : disk[req[q].root][n] # None => disk'[req[q].root][n] # None
            /\ pc[q] \in Staging => \A n \in Opened(q) :
                 n \notin writes'[q].lost => disk'[req[q].root][n] = disk[req[q].root][n]
        BY <1>2, <3>1 DEF FilesKept, Opened
      <3>3. \A f : Has(q, f) => \A n \in DOMAIN Rel(q).files :
                      f[n] # None /\ (n \notin writes'[q].lost => f[n] = Rel(q).files[n])
        BY <3>1 DEF Has
      <3>4. ASSUME pc[q] \in {"init", "remote", "add"}
            PROVE  writes'[q].todo = {} /\ Has(q, disk[req[q].root])'
        <4>1. Has(q, disk[req[q].root]) /\ writes[q].todo = {} /\ pc[q] \in Staging
          BY <3>4 DEF PubOK, Staging
        <4>2. Opened(q) = DOMAIN Rel(q).files
          BY <4>1 DEF Opened
        <4> QED
          BY <2>1, <3>1, <3>2, <4>1, <4>2 DEF Has
      <3>5. ASSUME pc[q] = "write", NEW n \in Opened(q)'
            PROVE  /\ disk'[req'[q].root][n] # None
                   /\ n \notin writes'[q].lost /\ n # writes'[q].open =>
                        disk'[req'[q].root][n] = Rel(q)'.files[n]
        BY <2>1, <3>1, <3>2, <3>5 DEF PubOK, Staging
      <3> QED
        BY <3>3, <3>4, <3>5
    <2>4. remote.tags[Rel(q).tag] # None => remote'.tags[Rel(q).tag] = remote.tags[Rel(q).tag]
      BY <2>1 DEF RemoteGrows
    <2>5. pc'[q] = pc[q] /\ req'[q] = req[q] /\ sha'[q] = sha[q] /\ result'[q] = result[q]
      BY DEF SelfKept
    <2>6. /\ pc[q] = "commit" => Has(q, Here(q).index)'
          /\ pc[q] \in {"tag", "rev", "pushBranch", "pushTag"} => Has(q, Here(q).head.files)'
          /\ result[q] => Has(q, sha[q].files)'
      BY <2>1, <2>2, <2>3, <2>5 DEF PubOK, Owning, Has
    <2> QED
      BY <2>1, <2>2, <2>3, <2>4, <2>5, <2>6 DEF PubOK, Owning, Signing
  <1> QED
    BY <1>1, <1>2

\* A step of p that leaves the disk alone leaves the others their files.
LEMMA FilesSame ==
  ASSUME NEW p \in Publishers, disk' = disk, \A q \in Publishers \ {p} : writes'[q] = writes[q]
  PROVE  \A q \in Publishers \ {p} : FilesKept(q)
  BY DEF FilesKept

\* A file that p puts is lost to the others that opened it.
LEMMA PutKept ==
  ASSUME TypeInv, NEW p \in Publishers, pc[p] = "write", NEW n \in Names, NEW text, text # None,
         NEW w, Put(p, n, text, w)
  PROVE  \A q \in Publishers \ {p} : FilesKept(q)
  <1> SUFFICES ASSUME NEW q \in Publishers \ {p}, pc[q] # "idle" \/ result[q] PROVE FilesKept(q)
    BY DEF FilesKept
  <1>1. req[p].root \in Roots /\ req[q].root \in Roots
    BY RequestFacts
  <1>2. /\ writes[q] \in WritesType /\ disk \in [Roots -> Trees]
        /\ disk' = [disk EXCEPT ![req[p].root][n] = text]
        /\ writes'[q] = IF pc[q] \in Staging /\ req[q].root = req[p].root /\ n \in Opened(q)
                          THEN [writes[q] EXCEPT !.lost = @ \cup {n}]
                          ELSE writes[q]
    BY DEF Put, TypeInv, WritesOK
  <1>3. /\ writes'[q].todo = writes[q].todo /\ writes'[q].open = writes[q].open
        /\ writes[q].lost \subseteq writes'[q].lost
        /\ pc[q] \in Staging /\ req[q].root = req[p].root /\ n \in Opened(q) => n \in writes'[q].lost
    BY <1>2 DEF WritesType
  <1>4. /\ req[q].root # req[p].root => disk'[req[q].root] = disk[req[q].root]
        /\ req[q].root = req[p].root => disk'[req[q].root] = [disk[req[q].root] EXCEPT ![n] = text]
        /\ disk[req[q].root] \in Trees
    BY <1>1, <1>2
  <1>5. \A m \in Names : disk[req[q].root][m] # None => disk'[req[q].root][m] # None
    BY <1>4 DEF Trees
  <1>6. ASSUME pc[q] \in Staging, NEW m \in Opened(q), m \notin writes'[q].lost
        PROVE  disk'[req[q].root][m] = disk[req[q].root][m]
    <2>1. (m # n \/ req[q].root # req[p].root) /\ m \in Names
      BY <1>3, <1>6, RequestFacts DEF Opened
    <2> QED
      BY <1>4, <2>1 DEF Trees
  <1> QED
    BY <1>3, <1>5, <1>6 DEF FilesKept

LEMMA RemoteSame == TypeInv /\ remote' = remote => RemoteGrows
  BY DEF RemoteGrows, Forwards, TypeInv, RemoteType, MaybeCommit, Commits

LEMMA TagsOnBranchesKept ==
  ASSUME TypeInv, remote' \in RemoteType, RemoteGrows, TagOnBranch, remote'.tags = remote.tags
  PROVE  TagOnBranch'
  <1> SUFFICES ASSUME NEW t \in Tags, remote.tags[t] # None
               PROVE  \E b \in Branches : /\ remote'.branches[b] # None
                                          /\ Forwards(remote.tags[t], remote'.branches[b])
    BY DEF TagOnBranch
  <1> PICK b \in Branches : remote.branches[b] # None /\ Forwards(remote.tags[t], remote.branches[b])
    BY DEF TagOnBranch
  <1>1. /\ remote.tags[t] \in MaybeCommit /\ remote.branches[b] \in Commits
        /\ remote'.branches[b] \in MaybeCommit
    BY DEF TypeInv, RemoteType, MaybeCommit
  <1> QED
    BY <1>1, ForwardsTransitive DEF RemoteGrows

LEMMA SigsKept ==
  ASSUME TypeInv, RemoteGrows, SigMatchesTag, remote'.sigs = remote.sigs
  PROVE  SigMatchesTag'
  BY DEF SigMatchesTag, RemoteGrows

\* A step that leaves the remote alone only has to see to its own publisher, to the files
\* and to the roots.
LEMMA LocalPub ==
  ASSUME TypeInv, PubInv, NEW p \in Publishers, remote' = remote,
         \A q \in Publishers \ {p} : SelfKept(q) /\ RootKept(q) /\ FilesKept(q), PubOK(p)'
  PROVE  PubInv'
  <1>1. remote' \in RemoteType /\ RemoteGrows
    BY RemoteSame DEF TypeInv
  <1>2. \A q \in Publishers : PubOK(q)'
    BY <1>1, OtherKept DEF PubInv
  <1> QED
    BY <1>1, <1>2, TagsOnBranchesKept, SigsKept DEF PubInv

\* A step that changes the remote sees to its tags as well.
LEMMA RemotePub ==
  ASSUME TypeInv, PubInv, NEW p \in Publishers, remote' \in RemoteType, RemoteGrows,
         \A q \in Publishers \ {p} : SelfKept(q) /\ RootKept(q) /\ FilesKept(q), PubOK(p)',
         TagOnBranch', SigMatchesTag'
  PROVE  PubInv'
  BY OtherKept DEF PubInv

\* A failed call is over, and has no result if it had none.
LEMMA ErrorPub ==
  ASSUME TypeInv, NEW p \in Publishers, Error(p), ~result[p]
  PROVE  PubOK(p)'
  BY DEF Error, Go, PubOK, Owning, Signing, TypeInv, CallsOK

KeepsSigs(p, g) == \A t \in Tags : Here(p).sigs[t] # None => g.sigs[t] = Here(p).sigs[t]

\* A command in the repository of p: others have another root, or are not at work in it.
LEMMA RootsOfOthers ==
  ASSUME TypeInv, NEW p \in Publishers, pc[p] # "idle" \/ result[p], NEW g, NEW step, Local(p, g, step),
         \/ pc[p] \in Owning
         \/ ~Here(p).origin
         \/ g.head = Here(p).head /\ g.index = Here(p).index /\ g.tags = Here(p).tags,
         KeepsSigs(p, g)
  PROVE  remote' = remote /\ \A q \in Publishers \ {p} : SelfKept(q) /\ RootKept(q) /\ FilesKept(q)
  <1>1. /\ pc' = [pc EXCEPT ![p] = step] /\ repo' = [repo EXCEPT ![req[p].root] = g]
        /\ UNCHANGED <<disk, writes, remote, req, sha, result>>
    BY DEF Local, Go
  <1>2. remote' = remote /\ \A q \in Publishers \ {p} : SelfKept(q) /\ FilesKept(q)
    BY <1>1, FilesSame DEF SelfKept, TypeInv, CallsOK
  <1>3. ASSUME NEW q \in Publishers \ {p} PROVE RootKept(q)
    <2>1. CASE req[q].root # req[p].root
      BY <1>1, <2>1 DEF RootKept, TypeInv
    <2>2. CASE req[q].root = req[p].root
      <3>1. req[p].root \in Roots
        BY RequestFacts
      <3>2. repo[req[q].root] = Here(p) /\ repo'[req[q].root] = g
        BY <1>1, <2>2, <3>1 DEF Here, TypeInv
      <3>3. pc[q] \in Owning => pc[p] \notin Owning /\ Here(p).origin
        BY <2>2 DEF TypeInv, OneOwner, RootsOK, Here
      <3> QED
        BY <3>2, <3>3 DEF RootKept, KeepsSigs
    <2> QED
      BY <2>1, <2>2
  <1> QED
    BY <1>2, <1>3

LEMMA StepPub == TypeInv /\ PubInv /\ [Next]_vars => PubInv'
  <1> SUFFICES ASSUME TypeInv, PubInv, [Next]_vars PROVE PubInv'
    OBVIOUS
  <1>type. TypeInv'
    BY StepType
  <1>stutter. CASE UNCHANGED vars
    <2>1. UNCHANGED <<disk, writes, repo, remote, pc, req, sha, result>>
      BY <1>stutter DEF vars
    <2>2. TagOnBranch' /\ SigMatchesTag'
      BY <2>1 DEF PubInv, TagOnBranch, SigMatchesTag
    <2>3. ASSUME NEW q \in Publishers PROVE PubOK(q)'
      <3>1. SelfKept(q) /\ RootKept(q) /\ FilesKept(q)
        BY <2>1 DEF SelfKept, RootKept, FilesKept
      <3>2. remote' \in RemoteType /\ RemoteGrows
        BY <2>1, RemoteSame DEF TypeInv
      <3> QED
        BY <3>1, <3>2, OtherKept DEF PubInv
    <2> QED
      BY <2>2, <2>3 DEF PubInv
  <1> SUFFICES ASSUME NEW p \in Publishers,
                      \/ Call(p) \/ OpenFile(p) \/ WritePart(p) \/ WriteFile(p)
                      \/ GitInit(p) \/ RemoteAdd(p)
                      \/ GitAdd(p) \/ GitCommit(p) \/ GitTag(p) \/ RevParse(p)
                      \/ PushBranch(p) \/ PushTag(p)
                      \/ CallSign(p) \/ TagSibling(p) \/ PushSibling(p)
                      \/ Fails(p)
               PROVE  PubInv'
    BY <1>stutter DEF Next, Working
  <1> USE DEF At
  <1>types. /\ pc \in [Publishers -> Steps] /\ req \in [Publishers -> Requests \cup {None}]
            /\ sha \in [Publishers -> MaybeCommit] /\ result \in [Publishers -> BOOLEAN]
            /\ disk \in [Roots -> Trees] /\ writes \in [Publishers -> WritesType]
            /\ repo \in [Roots -> RepoType] /\ remote \in RemoteType
    BY DEF TypeInv, CallsOK, WritesOK
  <1>ok. PubOK(p) /\ (pc[p] # "idle" => ~result[p] \/ pc[p] \in Signing)
    BY <1>types DEF PubInv, PubOK, Steps, Owning
  <1>same. repo' = repo => \A q \in Publishers : req'[q] = req[q] => RootKept(q)
    BY DEF RootKept
  <1>local. ASSUME NEW g, NEW step, Local(p, g, step), pc[p] # "idle" \/ result[p],
                   \/ pc[p] \in Owning
                   \/ ~Here(p).origin
                   \/ g.head = Here(p).head /\ g.index = Here(p).index /\ g.tags = Here(p).tags,
                   KeepsSigs(p, g)
            PROVE  /\ pc'[p] = step /\ Here(p)' = g /\ Rel(p)' = Rel(p) /\ (OnBranch(p) => OnBranch(p)')
                   /\ UNCHANGED <<disk, writes, remote, req, sha, result>>
                   /\ (PubOK(p)' => PubInv')
    <2>1. /\ pc'[p] = step /\ UNCHANGED <<disk, writes, remote, req, sha, result>>
          /\ repo' = [repo EXCEPT ![req[p].root] = g] /\ req[p].root \in Roots
      BY <1>local, <1>types, RequestFacts DEF Local, Go
    <2>2. Here(p)' = g /\ Rel(p)' = Rel(p) /\ (OnBranch(p) => OnBranch(p)')
      BY <2>1, <1>types DEF Here, Rel, OnBranch
    <2>3. PubOK(p)' => PubInv'
      BY <1>local, RootsOfOthers, LocalPub
    <2> QED
      BY <2>1, <2>2, <2>3
  <1>call. CASE Call(p)
    <2>1. PICK q \in Requests :
            /\ req' = [req EXCEPT ![p] = q]
            /\ writes' = [writes EXCEPT ![p] = [NoWrites EXCEPT !.todo = DOMAIN q.rel.files]]
      BY <1>call DEF Call
    <2>2. \A o \in Publishers \ {p} : SelfKept(o) /\ RootKept(o) /\ FilesKept(o)
      BY <1>call, <1>types, <1>same, <2>1, FilesSame DEF Call, Go, SelfKept
    <2>3. pc'[p] = "write" /\ ~result'[p] /\ Opened(p)' = {}
      BY <1>call, <1>types, <2>1 DEF Call, Go, Opened, Rel, NoWrites, WritesType
    <2>4. PubOK(p)'
      BY <2>3 DEF PubOK, Owning, Signing
    <2> QED
      BY <1>call, <2>2, <2>4, LocalPub DEF Call
  <1>put. ASSUME pc[p] = "write", NEW n \in DOMAIN Rel(p).files, NEW text, text # None,
                 NEW w, Put(p, n, text, w), UNCHANGED <<repo, remote, req, sha, result>>,
                 NEW step, pc' = [pc EXCEPT ![p] = step]
          PROVE  /\ \A q \in Publishers \ {p} : SelfKept(q) /\ RootKept(q) /\ FilesKept(q)
                 /\ writes'[p] = w /\ Rel(p)' = Rel(p) /\ ~result'[p] /\ pc'[p] = step
                 /\ disk'[req'[p].root] = [disk[req[p].root] EXCEPT ![n] = text]
                 /\ disk[req[p].root] \in Trees /\ DOMAIN Rel(p).files \subseteq Names
                 /\ writes[p] \in WritesType
    <2>1. req[p].root \in Roots /\ DOMAIN Rel(p).files \subseteq Names
      BY <1>put, RequestFacts
    <2>2. \A q \in Publishers \ {p} : SelfKept(q) /\ RootKept(q)
      BY <1>put, <1>types, <1>same DEF SelfKept
    <2>3. \A q \in Publishers \ {p} : FilesKept(q)
      BY <1>put, <2>1, PutKept
    <2>4. disk'[req'[p].root] = [disk[req[p].root] EXCEPT ![n] = text] /\ disk[req[p].root] \in Trees
      BY <1>put, <1>types, <2>1 DEF Put
    <2>5. writes'[p] = w /\ Rel(p)' = Rel(p) /\ ~result'[p] /\ pc'[p] = step /\ writes[p] \in WritesType
      BY <1>put, <1>types, <1>ok DEF Put, Rel, Signing, TypeInv, WritesOK
    <2> QED
      BY <2>1, <2>2, <2>3, <2>4, <2>5
  <1>open. CASE OpenFile(p)
    <2>1. pc[p] = "write" /\ writes[p].todo \subseteq DOMAIN Rel(p).files /\ pc' = [pc EXCEPT ![p] = "write"]
          /\ UNCHANGED <<repo, remote, req, sha, result>> /\ writes[p].open = None
      BY <1>open, <1>types DEF OpenFile, TypeInv, WritesOK
    <2>2. PICK n \in writes[p].todo : Put(p, n, Torn, [writes[p] EXCEPT !.todo = @ \ {n}, !.open = n])
      BY <1>open DEF OpenFile
    <2>3. /\ \A q \in Publishers \ {p} : SelfKept(q) /\ RootKept(q) /\ FilesKept(q)
          /\ writes'[p] = [writes[p] EXCEPT !.todo = @ \ {n}, !.open = n]
          /\ Rel(p)' = Rel(p) /\ ~result'[p] /\ pc'[p] = "write"
          /\ disk'[req'[p].root] = [disk[req[p].root] EXCEPT ![n] = Torn]
          /\ disk[req[p].root] \in Trees /\ DOMAIN Rel(p).files \subseteq Names
          /\ writes[p] \in WritesType
      BY <1>put, <2>1, <2>2, NoneAssumption
    <2>4. /\ writes'[p].open = n /\ writes'[p].lost = writes[p].lost
          /\ Opened(p)' = Opened(p) \cup {n} /\ n \in DOMAIN Rel(p).files
      BY <2>1, <2>3 DEF WritesType, Opened
    <2>5. ASSUME NEW m \in Opened(p)'
          PROVE  /\ disk'[req'[p].root][m] # None
                 /\ m \notin writes'[p].lost /\ m # n => disk'[req'[p].root][m] = Rel(p)'.files[m]
      <3>1. CASE m = n
        BY <2>3, <2>4, <3>1, NoneAssumption DEF Trees
      <3>2. CASE m # n
        <4>1. /\ m \in Opened(p) /\ m # writes[p].open
              /\ disk'[req'[p].root][m] = disk[req[p].root][m]
          BY <2>1, <2>3, <2>4, <3>2, NoneAssumption DEF Trees, Opened
        <4> QED
          BY <1>ok, <2>1, <2>3, <2>4, <4>1 DEF PubOK
      <3> QED
        BY <3>1, <3>2
    <2>6. PubOK(p)'
      BY <2>3, <2>4, <2>5 DEF PubOK, Owning, Signing
    <2> QED
      BY <2>1, <2>3, <2>6, LocalPub
  <1>part. CASE WritePart(p)
    <2>0. PICK n, w : n = writes[p].open /\ w = writes[p]
      OBVIOUS
    <2>1. /\ pc[p] = "write" /\ n \in DOMAIN Rel(p).files /\ pc' = [pc EXCEPT ![p] = "write"]
          /\ UNCHANGED <<repo, remote, req, sha, result>> /\ Put(p, n, Torn, w) /\ Torn # None
      BY <1>part, <1>types, <2>0, NoneAssumption DEF WritePart, TypeInv, WritesOK
    <2>2. /\ \A q \in Publishers \ {p} : SelfKept(q) /\ RootKept(q) /\ FilesKept(q)
          /\ writes'[p] = w
          /\ Rel(p)' = Rel(p) /\ ~result'[p] /\ pc'[p] = "write"
          /\ disk'[req'[p].root] = [disk[req[p].root] EXCEPT ![n] = Torn]
          /\ disk[req[p].root] \in Trees /\ DOMAIN Rel(p).files \subseteq Names
      BY <1>put, <2>1
    <2>3. Opened(p)' = Opened(p) /\ Opened(p) \subseteq Names
      BY <2>0, <2>2 DEF Opened
    <2>4. \A m \in Opened(p) :
            /\ disk'[req'[p].root][m] # None
            /\ m \notin writes[p].lost /\ m # n => disk'[req'[p].root][m] = Rel(p).files[m]
      BY <1>ok, <2>0, <2>1, <2>2, <2>3 DEF PubOK, Trees
    <2>5. PubOK(p)'
      BY <2>0, <2>2, <2>3, <2>4 DEF PubOK, Owning, Signing
    <2> QED
      BY <2>1, <2>2, <2>5, LocalPub
  <1>write. CASE WriteFile(p)
    <2> DEFINE n == writes[p].open
    <2>0. PICK w, step : /\ w = [writes[p] EXCEPT !.open = None]
                         /\ step = IF writes[p].todo = {} THEN "init" ELSE "write"
      OBVIOUS
    <2>1. /\ pc[p] = "write" /\ n \in DOMAIN Rel(p).files /\ pc' = [pc EXCEPT ![p] = step]
          /\ UNCHANGED <<repo, remote, req, sha, result>>
      BY <2>0, <1>write, <1>types DEF WriteFile, Go, TypeInv, WritesOK
    <2>2. PICK text : /\ text \in {Rel(p).files[n]} \cup (IF n \in writes[p].lost THEN {Torn} ELSE {})
                      /\ Put(p, n, text, w)
      BY <1>write, <2>0 DEF WriteFile
    <2>3. text # None
      <3>1. req[p] \in Requests
        BY <2>1, <1>type DEF TypeInv, CallsOK
      <3>2. Rel(p).files[n] \in Texts
        BY <2>1, <3>1, TextFacts DEF Rel
      <3> QED
        BY <2>2, <3>2, NoneAssumption
    <2>4. /\ \A q \in Publishers \ {p} : SelfKept(q) /\ RootKept(q) /\ FilesKept(q)
          /\ writes'[p] = w /\ Rel(p)' = Rel(p) /\ ~result'[p] /\ pc'[p] = step
          /\ disk'[req'[p].root] = [disk[req[p].root] EXCEPT ![n] = text]
          /\ disk[req[p].root] \in Trees /\ DOMAIN Rel(p).files \subseteq Names
          /\ writes[p] \in WritesType
      BY <1>put, <2>1, <2>2, <2>3
    <2>5. /\ writes'[p].todo = writes[p].todo /\ writes'[p].lost = writes[p].lost
          /\ writes'[p].open = None /\ Opened(p)' = Opened(p) /\ Opened(p) \subseteq Names
      BY <2>0, <2>4 DEF WritesType, Opened
    <2>6. \A m \in Opened(p) :
            /\ disk'[req'[p].root][m] # None
            /\ m \notin writes[p].lost => disk'[req'[p].root][m] = Rel(p).files[m]
      <3>1. ASSUME NEW m \in Opened(p), m # n
            PROVE  disk'[req'[p].root][m] = disk[req[p].root][m]
        BY <2>4, <2>5, <3>1 DEF Trees
      <3>2. n \in Names => disk'[req'[p].root][n] = text
        BY <2>4 DEF Trees
      <3>3. n \notin writes[p].lost => text = Rel(p).files[n]
        BY <2>2
      <3>4. \A m \in Opened(p) :
              /\ disk[req[p].root][m] # None
              /\ m \notin writes[p].lost /\ m # n => disk[req[p].root][m] = Rel(p).files[m]
        BY <1>ok, <2>1 DEF PubOK
      <3> QED
        BY <2>3, <2>5, <3>1, <3>2, <3>3, <3>4
    <2>7. CASE writes[p].todo = {}
      <3>1. Opened(p) = DOMAIN Rel(p).files /\ pc'[p] = "init"
        BY <2>0, <2>4, <2>7 DEF Opened
      <3>2. Has(p, disk[req[p].root])' /\ writes'[p].todo = {}
        BY <2>4, <2>5, <2>6, <2>7, <3>1 DEF Has
      <3>3. PubOK(p)'
        BY <2>4, <3>1, <3>2 DEF PubOK, Owning, Signing
      <3> QED
        BY <2>1, <2>4, <3>3, LocalPub
    <2>8. CASE writes[p].todo # {}
      <3>1. pc'[p] = "write"
        BY <2>0, <2>4, <2>8
      <3>2. PubOK(p)'
        BY <2>4, <2>5, <2>6, <3>1 DEF PubOK, Owning, Signing
      <3> QED
        BY <2>1, <2>4, <3>2, LocalPub
    <2> QED
      BY <2>7, <2>8
  <1>init. CASE GitInit(p)
    <2> DEFINE g == [Here(p) EXCEPT !.branch = IF @ = None THEN Rel(p).branch ELSE @]
    <2>1. pc[p] = "init" /\ Here(p) \in RepoType /\ Local(p, g, "remote")
      BY <1>init, RequestFacts DEF GitInit
    <2>2. g.head = Here(p).head /\ g.index = Here(p).index /\ g.tags = Here(p).tags /\ KeepsSigs(p, g)
      BY <2>1 DEF RepoType, KeepsSigs
    <2>3. /\ pc'[p] = "remote" /\ Rel(p)' = Rel(p) /\ UNCHANGED <<disk, writes, req, result>>
          /\ (PubOK(p)' => PubInv')
      BY <2>1, <2>2, <1>local
    <2> QED
      BY <1>ok, <2>1, <2>3 DEF PubOK, Has, Owning, Signing
  <1>remote. CASE RemoteAdd(p)
    <2> DEFINE g == [Here(p) EXCEPT !.origin = TRUE]
    <2>1. pc[p] = "remote" /\ ~Here(p).origin /\ Here(p) \in RepoType /\ Local(p, g, "add")
      BY <1>remote, RequestFacts DEF RemoteAdd
    <2>2. KeepsSigs(p, g)
      BY <2>1 DEF RepoType, KeepsSigs
    <2>3. /\ pc'[p] = "add" /\ Rel(p)' = Rel(p) /\ UNCHANGED <<disk, writes, req, result>>
          /\ (PubOK(p)' => PubInv')
      BY <2>1, <2>2, <1>local
    <2> QED
      BY <1>ok, <2>1, <2>3 DEF PubOK, Has, Owning, Signing
  <1>owning. ASSUME pc[p] \in Owning
             PROVE  /\ Here(p) \in RepoType /\ req[p].root \in Roots /\ Rel(p).tag \in Tags
                    /\ ~result[p] /\ pc[p] # "idle" /\ Rel(p).branch \in Branches
    BY <1>owning, <1>ok, RequestFacts DEF Owning, Signing
  <1>add. CASE GitAdd(p)
    <2> DEFINE g == [Here(p) EXCEPT !.index = disk[req[p].root]]
    <2>1. pc[p] = "add" /\ Local(p, g, "commit")
      BY <1>add DEF GitAdd
    <2>2. KeepsSigs(p, g) /\ g.index = disk[req[p].root]
      BY <2>1, <1>owning DEF RepoType, Owning, KeepsSigs
    <2>3. /\ pc'[p] = "commit" /\ Rel(p)' = Rel(p) /\ UNCHANGED <<disk, writes, req, result>> /\ Here(p)' = g
          /\ (PubOK(p)' => PubInv')
      BY <2>1, <2>2, <1>owning, <1>local DEF Owning
    <2> QED
      BY <1>ok, <2>1, <2>2, <2>3 DEF PubOK, Has, Owning, Signing
  <1>commit. CASE GitCommit(p)
    <2> DEFINE c == [root |-> req[p].root, files |-> Here(p).index,
                     depth |-> IF Here(p).head = None THEN 1 ELSE Here(p).head.depth + 1]
    <2>1. Local(p, [Here(p) EXCEPT !.head = c], "tag") /\ pc[p] = "commit"
      BY <1>commit DEF GitCommit
    <2>2. /\ pc'[p] = "tag" /\ Here(p)' = [Here(p) EXCEPT !.head = c] /\ Rel(p)' = Rel(p)
          /\ UNCHANGED <<writes, result>> /\ (PubOK(p)' => PubInv')
      BY <2>1, <1>owning, <1>local DEF Owning, RepoType, KeepsSigs
    <2>3. Here(p)'.head = c
      BY <2>1, <2>2, <1>owning DEF Owning, RepoType
    <2>4. Here(p)'.head # None
      <3>1. Here(p)' \in RepoType /\ Here(p).head = None
        BY <1>type, <2>1, <2>2, RequestFacts DEF TypeInv, RootsOK, CallsOK, Here, Local
      <3>2. c \in Commits
        BY <2>1, <3>1, <1>owning DEF Commits, Owning, RepoType
      <3> QED
        BY <2>3, <3>2, NoneAssumption
    <2>5. Has(p, Here(p).head.files)'
      BY <1>ok, <2>1, <2>2, <2>3 DEF PubOK, Has
    <2> QED
      BY <1>owning, <2>1, <2>2, <2>4, <2>5 DEF PubOK, Owning, Signing
  <1>tag. CASE GitTag(p)
    <2>1. Local(p, [Here(p) EXCEPT !.tags[Rel(p).tag] = Here(p).head], "rev") /\ pc[p] = "tag"
      BY <1>tag DEF GitTag
    <2>2. /\ pc'[p] = "rev" /\ Here(p)' = [Here(p) EXCEPT !.tags[Rel(p).tag] = Here(p).head]
          /\ Rel(p)' = Rel(p) /\ UNCHANGED <<writes, result>> /\ (PubOK(p)' => PubInv')
      BY <2>1, <1>owning, <1>local DEF Owning, RepoType, KeepsSigs
    <2>3. Here(p)'.head = Here(p).head /\ Here(p)'.tags[Rel(p).tag] = Here(p).head
      BY <2>1, <2>2, <1>owning DEF Owning, RepoType
    <2> QED
      BY <1>ok, <1>owning, <2>1, <2>2, <2>3 DEF PubOK, Has, Owning, Signing
  <1>rev. CASE RevParse(p)
    <2>1. \A q \in Publishers \ {p} : SelfKept(q) /\ RootKept(q) /\ FilesKept(q)
      BY <1>rev, <1>types, <1>same, FilesSame DEF RevParse, Go, SelfKept
    <2>2. /\ Here(p)' = Here(p) /\ Rel(p)' = Rel(p) /\ req' = req /\ sha'[p] = Here(p).head
          /\ pc'[p] = (IF req[p].dry THEN "idle" ELSE "pushBranch") /\ result'[p] = req[p].dry
          /\ pc[p] = "rev" /\ UNCHANGED <<writes, remote>> /\ req[p].dry \in BOOLEAN
      BY <1>rev, <1>types, RequestFacts DEF RevParse, Go, Here, Rel
    <2>3. PubOK(p)'
      BY <1>ok, <2>2 DEF PubOK, Has, Owning, Signing
    <2> QED
      BY <2>1, <2>2, <2>3, LocalPub
  <1>branch. CASE PushBranch(p)
    <2> DEFINE b == Rel(p).branch
               c == Here(p).head
    <2>1. /\ pc[p] = "pushBranch" /\ Forwards(remote.branches[b], c) /\ UNCHANGED <<disk, repo>>
          /\ remote' = [remote EXCEPT !.branches[b] = c]
      BY <1>branch DEF PushBranch
    <2>2. b \in Branches /\ c \in Commits /\ sha[p] = c /\ ~result[p]
      BY <1>ok, <1>owning, <2>1 DEF PubOK, Owning, RepoType, MaybeCommit
    <2>3. /\ remote'.branches = [remote.branches EXCEPT ![b] = c]
          /\ remote'.tags = remote.tags /\ remote'.sigs = remote.sigs
      BY <2>1, <1>types DEF RemoteType
    <2>4. RemoteGrows
      BY <2>1, <2>2, <2>3, <1>types, NoneAssumption
         DEF RemoteGrows, RemoteType, Forwards, MaybeCommit, Commits
    <2>0. \A q \in Publishers \ {p} : writes'[q] = writes[q]
      BY <1>branch, <1>type DEF PushBranch, Error, TypeInv, WritesOK
    <2>5. \A q \in Publishers \ {p} : SelfKept(q) /\ RootKept(q) /\ FilesKept(q)
      <3>1. \A q \in Publishers \ {p} : SelfKept(q) /\ RootKept(q)
        BY <1>branch, <1>types, <1>same DEF PushBranch, Error, Go, SelfKept
      <3> QED
        BY <2>0, <2>1, <3>1, FilesSame
    <2>6. TagOnBranch' /\ SigMatchesTag' /\ remote' \in RemoteType
      BY <1>type, <2>1, <2>3, <2>4, TagsOnBranchesKept, SigsKept DEF PubInv, TypeInv
    <2>7. CASE Error(p)
      BY <2>2, <2>4, <2>5, <2>6, <2>7, ErrorPub, RemotePub
    <2>8. CASE Go(p, "pushTag") /\ UNCHANGED <<writes, req, sha, result>>
      <3>1. /\ pc'[p] = "pushTag" /\ Rel(p)' = Rel(p) /\ Here(p)' = Here(p)
            /\ remote'.branches[b] = c /\ UNCHANGED <<writes, req, sha, result>>
        BY <2>1, <2>2, <2>3, <2>8, <1>types DEF Go, Rel, Here, RemoteType
      <3>2. OnBranch(p)'
        BY <2>2, <3>1, NoneAssumption DEF OnBranch, Forwards, Commits
      <3>3. PubOK(p)'
        BY <1>ok, <2>1, <2>2, <3>1, <3>2 DEF PubOK, Has, Owning, Signing
      <3> QED
        BY <2>4, <2>5, <2>6, <3>3, RemotePub
    <2> QED
      BY <1>branch, <2>7, <2>8 DEF PushBranch
  <1>pushTag. CASE PushTag(p)
    <2> DEFINE t == Rel(p).tag
    <2>1. /\ pc[p] = "pushTag" /\ remote.tags[t] \in {None, Here(p).tags[t]}
          /\ UNCHANGED <<disk, repo>> /\ remote' = [remote EXCEPT !.tags[t] = Here(p).tags[t]]
      BY <1>pushTag DEF PushTag
    <2>2. /\ t \in Tags /\ Here(p).tags[t] = sha[p] /\ sha[p] # None /\ ~result[p] /\ OnBranch(p)
          /\ Has(p, sha[p].files) /\ ~req[p].dry /\ Rel(p).branch \in Branches
      BY <1>ok, <1>owning, <2>1 DEF PubOK, Owning
    <2>3. /\ remote'.tags = [remote.tags EXCEPT ![t] = sha[p]]
          /\ remote'.branches = remote.branches /\ remote'.sigs = remote.sigs
      BY <2>1, <2>2, <1>types DEF RemoteType
    <2>4. RemoteGrows
      BY <2>1, <2>2, <2>3, <1>types DEF RemoteGrows, RemoteType, Forwards, MaybeCommit, Commits
    <2>0. \A q \in Publishers \ {p} : writes'[q] = writes[q]
      BY <1>pushTag, <1>type DEF PushTag, Error, TypeInv, WritesOK
    <2>5. \A q \in Publishers \ {p} : SelfKept(q) /\ RootKept(q) /\ FilesKept(q)
      <3>1. \A q \in Publishers \ {p} : SelfKept(q) /\ RootKept(q)
        BY <1>pushTag, <1>types, <1>same DEF PushTag, Error, Go, SelfKept
      <3> QED
        BY <2>0, <2>1, <3>1, FilesSame
    <2>6. SigMatchesTag' /\ remote' \in RemoteType
      BY <1>type, <2>1, <2>3, <2>4, SigsKept DEF PubInv, TypeInv
    <2>7. TagOnBranch'
      <3> SUFFICES ASSUME NEW u \in Tags, remote'.tags[u] # None
                   PROVE  \E b \in Branches : /\ remote.branches[b] # None
                                              /\ Forwards(remote'.tags[u], remote.branches[b])
        BY <2>3 DEF TagOnBranch
      <3>1. CASE u = t
        BY <2>2, <2>3, <3>1, <1>types DEF OnBranch, RemoteType
      <3>2. CASE u # t
        BY <2>2, <2>3, <3>2, <1>types DEF PubInv, TagOnBranch, RemoteType
      <3> QED
        BY <3>1, <3>2
    <2>8. CASE Error(p)
      BY <2>2, <2>4, <2>5, <2>6, <2>7, <2>8, ErrorPub, RemotePub
    <2>9. CASE Go(p, "idle") /\ result' = [result EXCEPT ![p] = TRUE] /\ UNCHANGED <<writes, req, sha>>
      <3>1. pc'[p] = "idle" /\ Rel(p)' = Rel(p) /\ result'[p] /\ remote'.tags[t] = sha[p] /\ OnBranch(p)'
        BY <2>2, <2>3, <2>9, <1>types DEF Go, Rel, OnBranch, RemoteType
      <3>2. PubOK(p)'
        BY <2>2, <2>9, <3>1 DEF PubOK, Has, Owning, Signing
      <3> QED
        BY <2>4, <2>5, <2>6, <2>7, <3>2, RemotePub
    <2> QED
      BY <1>pushTag, <2>8, <2>9 DEF PushTag
  <1>sign. CASE CallSign(p)
    <2>1. pc[p] = "idle" /\ result[p] /\ Local(p, Here(p), "sigTag")
      BY <1>sign DEF CallSign
    <2>2. /\ pc'[p] = "sigTag" /\ Here(p)' = Here(p) /\ Rel(p)' = Rel(p) /\ (OnBranch(p) => OnBranch(p)')
          /\ UNCHANGED <<writes, remote, req, sha, result>> /\ (PubOK(p)' => PubInv')
      BY <2>1, <1>local DEF KeepsSigs
    <2> QED
      BY <1>ok, <2>1, <2>2 DEF PubOK, Has, Owning, Signing
  <1>sibling. CASE TagSibling(p)
    <2> DEFINE t == Rel(p).tag
    <2>1. PICK g, step : /\ g = [Here(p) EXCEPT !.sigs[t] = sha[p]]
                         /\ step = IF req[p].dry THEN "idle" ELSE "pushSig"
      OBVIOUS
    <2>2. pc[p] = "sigTag" /\ Here(p).sigs[t] = None /\ Local(p, g, step)
      BY <1>sibling, <2>1 DEF TagSibling
    <2>3. Here(p) \in RepoType /\ t \in Tags
      BY <2>2, RequestFacts
    <2>4. /\ g.head = Here(p).head /\ g.index = Here(p).index /\ g.tags = Here(p).tags
          /\ g.sigs = [Here(p).sigs EXCEPT ![t] = sha[p]] /\ g.sigs[t] = sha[p]
      BY <2>1, <2>3 DEF RepoType
    <2>5. KeepsSigs(p, g)
      BY <2>2, <2>3, <2>4 DEF RepoType, KeepsSigs
    <2>6. /\ pc'[p] = step /\ Here(p)' = g /\ Rel(p)' = Rel(p) /\ (OnBranch(p) => OnBranch(p)')
          /\ UNCHANGED <<writes, remote, req, sha, result>> /\ (PubOK(p)' => PubInv')
      BY <2>2, <2>4, <2>5, <1>local
    <2>7. PubOK(p)'
      BY <1>ok, <2>1, <2>2, <2>4, <2>6 DEF PubOK, Has, Owning, Signing
    <2> QED
      BY <2>6, <2>7
  <1>pushSig. CASE PushSibling(p)
    <2> DEFINE t == Rel(p).tag
    <2>1. /\ pc[p] = "pushSig" /\ UNCHANGED <<disk, writes, repo, req, sha, result>> /\ Go(p, "idle")
          /\ remote' = [remote EXCEPT !.sigs[t] = Here(p).sigs[t]]
      BY <1>pushSig DEF PushSibling
    <2>2. /\ t \in Tags /\ Here(p).sigs[t] = sha[p] /\ result[p] /\ ~req[p].dry
          /\ remote.tags[t] = sha[p] /\ OnBranch(p)
      BY <1>ok, <2>1, RequestFacts DEF PubOK, Signing
    <2>3. /\ remote'.sigs = [remote.sigs EXCEPT ![t] = sha[p]]
          /\ remote'.branches = remote.branches /\ remote'.tags = remote.tags
      BY <2>1, <2>2, <1>types DEF RemoteType
    <2>4. RemoteGrows
      BY <2>3, <1>types DEF RemoteGrows, RemoteType, Forwards, MaybeCommit, Commits
    <2>5. \A q \in Publishers \ {p} : SelfKept(q) /\ RootKept(q) /\ FilesKept(q)
      BY <2>1, <1>types, <1>same, FilesSame DEF Go, SelfKept
    <2>6. TagOnBranch' /\ remote' \in RemoteType
      BY <1>type, <2>3, <2>4, TagsOnBranchesKept DEF PubInv, TypeInv
    <2>7. SigMatchesTag'
      BY <2>2, <2>3, <1>types DEF SigMatchesTag, PubInv, RemoteType
    <2>8. pc'[p] = "idle" /\ Rel(p)' = Rel(p) /\ OnBranch(p)'
      BY <2>1, <2>2, <2>3, <1>types DEF Go, Rel, OnBranch
    <2>9. PubOK(p)'
      BY <1>ok, <2>1, <2>2, <2>3, <2>8 DEF PubOK, Has, Owning, Signing
    <2> QED
      BY <2>4, <2>5, <2>6, <2>7, <2>9, RemotePub
  <1>fails. CASE Fails(p)
    <2>1. pc[p] # "idle" /\ Error(p) /\ UNCHANGED <<repo, remote>>
      BY <1>fails DEF Fails
    <2>2. \A q \in Publishers \ {p} : FilesKept(q)
      <3>1. disk' = disk /\ \A q \in Publishers \ {p} : writes'[q] = writes[q]
        BY <1>fails, <1>type DEF Fails, Error, TypeInv, WritesOK
      <3> QED
        BY <3>1, FilesSame
    <2>3. \A q \in Publishers \ {p} : SelfKept(q) /\ RootKept(q)
      BY <2>1, <1>types, <1>same DEF Error, Go, SelfKept
    <2>4. CASE result[p]
      <3>1. pc'[p] = "idle" /\ UNCHANGED <<writes, req, sha, result>> /\ Rel(p)' = Rel(p) /\ (OnBranch(p) => OnBranch(p)')
        BY <2>1, <2>4, <1>types DEF Error, Go, Rel, OnBranch
      <3>2. PubOK(p)'
        BY <1>ok, <2>1, <2>4, <3>1 DEF PubOK, Has, Owning, Signing
      <3> QED
        BY <2>1, <2>2, <2>3, <3>2, LocalPub
    <2>5. CASE ~result[p]
      BY <2>1, <2>2, <2>3, <2>5, ErrorPub, LocalPub
    <2> QED
      BY <2>4, <2>5
  <1> QED
    BY <1>call, <1>open, <1>part, <1>write, <1>init, <1>remote, <1>add, <1>commit, <1>tag, <1>rev, <1>branch,
       <1>pushTag, <1>sign, <1>sibling, <1>pushSig, <1>fails

\* The branch goes before the tag: every release tag of the remote is on a branch.
THEOREM TagsAreOnBranches == Spec => []TagOnBranch
  <1>1. PubInv => TagOnBranch
    BY DEF PubInv
  <1> QED
    BY InitType, StepType, InitPub, StepPub, <1>1, PTL DEF Spec

\* What a successful Publish reports is on the remote, and stays there: the tag at its
\* commit, which the branch has; and the commit has every file of the release, with the
\* release's text where no other call put its own before the git add.
THEOREM ResultsAreRemote == Spec => []ResultIsRemote
  <1>1. PubInv => ResultIsRemote
    BY DEF PubInv, PubOK, OnBranch, ResultIsRemote
  <1> QED
    BY InitType, StepType, InitPub, StepPub, <1>1, PTL DEF Spec

\* A signature on the remote is of the commit its tag names.
THEOREM SigsMatchTags == Spec => []SigMatchesTag
  <1>1. PubInv => SigMatchesTag
    BY DEF PubInv
  <1> QED
    BY InitType, StepType, InitPub, StepPub, <1>1, PTL DEF Spec

===============================================================================
