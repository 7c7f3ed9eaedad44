-------------------------------- MODULE Publish --------------------------------
(***************************************************************************)
(* publish.Publish (publish/publish.go) and cosign.Sign (cosign/cosign.go) *)
(* over git: publishers materialise a module into a workspace root, commit *)
(* and tag it there, push branch and tag to the remote they share, and     *)
(* attach a signature as a sibling tag.                                    *)
(*                                                                         *)
(* Every command of the Runner is a step of its own and may fail; so may   *)
(* the process.  git itself is modelled by what these commands need of it. *)
(* A root that no call has used stands for the temporary directory of a    *)
(* request without WorkspaceRoot.                                          *)
(***************************************************************************)
EXTENDS Naturals, FiniteSets

CONSTANTS
  Publishers,   \* processes
  Roots,        \* workspace roots
  Releases,     \* requests: records of files (their texts by name), tag and branch
  Torn,         \* a text of no release: empty, cut off, or of two writes at once
  None

Tags     == {rel.tag : rel \in Releases}
Branches == {rel.branch : rel \in Releases}
Names    == UNION {DOMAIN rel.files : rel \in Releases}
Texts    == UNION {{rel.files[n] : n \in DOMAIN rel.files} : rel \in Releases}
Trees    == [Names -> Texts \cup {Torn, None}]   \* None: no such file
\* The depth-th commit made in a root, on top of the one before: the first is the
\* only one there ever is.
Commits  == [root : Roots, depth : {1}, files : Trees]
Requests == [rel : Releases, root : Roots, dry : BOOLEAN]

ASSUME NoneAssumption == None \notin Commits \cup Names \cup Texts \cup {Torn}

VARIABLES
  disk,    \* disk[r]: the files in root r
  writes,  \* each publisher's files: those still to write, the one open, and those that
           \* another call has opened or written since it did, up to its git add
  repo,    \* repo[r]: its repository: branch, origin, index, HEAD and tags
  remote,  \* the remote's branches, tags and signature tags
  pc,      \* each publisher's step
  req,     \* the request it works on, or has the result of; None
  sha,     \* what rev-parse answered
  result   \* whether its last Publish returned a PublishResult: that of req and sha

vars == <<disk, writes, repo, remote, pc, req, sha, result>>

-------------------------------------------------------------------------------
(* Helpers *)

At(p, step) == pc[p] = step
Go(p, step) == pc' = [pc EXCEPT ![p] = step]
Here(p)     == repo[req[p].root]
Rel(p)      == req[p].rel
Owning      == {"add", "commit", "tag", "rev", "pushBranch", "pushTag"}
Signing     == {"sigTag", "pushSig"}
Staging     == {"write", "init", "remote", "add"}

\* git push of a commit over what the remote has: only a fast-forward.
Forwards(old, new) == old # None => old.root = new.root /\ old.depth <= new.depth
NoFiles      == [n \in Names |-> None]
NoWrites     == [todo |-> {}, open |-> None, lost |-> {}]
Committed(p) == IF Here(p).head = None THEN NoFiles ELSE Here(p).head.files

\* The command p is at succeeds, changes p's repository to g and leads to step.
Local(p, g, step) ==
  /\ repo' = [repo EXCEPT ![req[p].root] = g]
  /\ Go(p, step)
  /\ UNCHANGED <<disk, writes, remote, req, sha, result>>

\* The files p's call has opened so far.
Opened(p) == DOMAIN Rel(p).files \ writes[p].todo

\* File n of p's root becomes text, by p, whose writes are then w: the other calls that
\* have yet to stage the root lose theirs.
Put(p, n, text, w) ==
  /\ disk' = [disk EXCEPT ![req[p].root][n] = text]
  /\ writes' = [q \in Publishers |->
       IF q = p THEN w
       ELSE IF pc[q] \in Staging /\ req[q].root = req[p].root /\ n \in Opened(q)
              THEN [writes[q] EXCEPT !.lost = @ \cup {n}]
              ELSE writes[q]]

\* The call ends with an error; an error has no PublishResult.
Error(p) ==
  /\ Go(p, "idle")
  /\ req' = IF result[p] THEN req ELSE [req EXCEPT ![p] = None]
  /\ sha' = IF result[p] THEN sha ELSE [sha EXCEPT ![p] = None]
  /\ writes' = IF result[p] THEN writes ELSE [writes EXCEPT ![p] = NoWrites]
  /\ UNCHANGED result

-------------------------------------------------------------------------------
Init ==
  /\ disk = [r \in Roots |-> NoFiles] /\ writes = [p \in Publishers |-> NoWrites]
  /\ repo = [r \in Roots |-> [branch |-> None, origin |-> FALSE, index |-> NoFiles, head |-> None,
                              tags |-> [t \in Tags |-> None], sigs |-> [t \in Tags |-> None]]]
  /\ remote = [branches |-> [b \in Branches |-> None],
               tags |-> [t \in Tags |-> None], sigs |-> [t \in Tags |-> None]]
  /\ pc = [p \in Publishers |-> "idle"] /\ req = [p \in Publishers |-> None]
  /\ sha = [p \in Publishers |-> None] /\ result = [p \in Publishers |-> FALSE]

\* The request is valid: Validate has no effect and refuses the others.
Call(p) ==
  /\ At(p, "idle")
  /\ \E q \in Requests :
       /\ req' = [req EXCEPT ![p] = q]
       /\ writes' = [writes EXCEPT ![p] = [NoWrites EXCEPT !.todo = DOMAIN q.rel.files]]
  /\ Go(p, "write")
  /\ sha' = [sha EXCEPT ![p] = None] /\ result' = [result EXCEPT ![p] = FALSE]
  /\ UNCHANGED <<disk, repo, remote>>

\* Faulty: a file that is there already is left as it is.
OpenUnlessThere(p) ==
  /\ At(p, "write") /\ writes[p].open = None
  /\ \E n \in writes[p].todo :
       LET w == [writes[p] EXCEPT !.todo = @ \ {n}] IN
       IF disk[req[p].root][n] = None
         THEN Put(p, n, Torn, [w EXCEPT !.open = n]) /\ UNCHANGED pc
         ELSE /\ writes' = [writes EXCEPT ![p] = w]
              /\ Go(p, IF w.todo = {} THEN "init" ELSE "write")
              /\ UNCHANGED disk
  /\ UNCHANGED <<repo, remote, req, sha, result>>

\* materialiseFiles goes through the files one by one, in an order that matters to
\* nobody here.  os.WriteFile empties a file that is there; what is in the root and
\* not in the release stays.
OpenFile(p) ==
  /\ At(p, "write") /\ writes[p].open = None
  /\ \E n \in writes[p].todo :
       Put(p, n, Torn, [writes[p] EXCEPT !.todo = @ \ {n}, !.open = n])
  /\ UNCHANGED <<repo, remote, pc, req, sha, result>>

\* A part of the text is written.
WritePart(p) ==
  /\ At(p, "write") /\ writes[p].open # None
  /\ Put(p, writes[p].open, Torn, writes[p])
  /\ UNCHANGED <<repo, remote, pc, req, sha, result>>

\* The rest is written.  If another call opened or wrote the file meanwhile, the two
\* texts may be there in parts.
WriteFile(p) ==
  /\ At(p, "write") /\ writes[p].open # None
  /\ LET n == writes[p].open IN
     \E text \in {Rel(p).files[n]} \cup (IF n \in writes[p].lost THEN {Torn} ELSE {}) :
       Put(p, n, text, [writes[p] EXCEPT !.open = None])
  /\ Go(p, IF writes[p].todo = {} THEN "init" ELSE "write")
  /\ UNCHANGED <<repo, remote, req, sha, result>>

\* git init in a repository changes nothing, its initial branch included; nor do
\* the four git configs that follow change anything that matters here.
GitInit(p) ==
  /\ At(p, "init")
  /\ Local(p, [Here(p) EXCEPT !.branch = IF @ = None THEN Rel(p).branch ELSE @], "remote")

\* Faulty: a remote that is there already is taken for the same.
RemoteAddAgain(p) == At(p, "remote") /\ Local(p, [Here(p) EXCEPT !.origin = TRUE], "add")

RemoteAdd(p) ==
  /\ At(p, "remote") /\ ~Here(p).origin
  /\ Local(p, [Here(p) EXCEPT !.origin = TRUE], "add")

GitAdd(p) ==
  /\ At(p, "add")
  /\ Local(p, [Here(p) EXCEPT !.index = disk[req[p].root]], "commit")

GitCommit(p) ==
  /\ At(p, "commit") /\ Here(p).index # Committed(p)
  /\ Local(p, [Here(p) EXCEPT !.head = [root  |-> req[p].root, files |-> Here(p).index,
                                        depth |-> IF @ = None THEN 1 ELSE @.depth + 1]],
           "tag")

GitTag(p) ==
  /\ At(p, "tag") /\ Here(p).tags[Rel(p).tag] = None
  /\ Local(p, [Here(p) EXCEPT !.tags[Rel(p).tag] = Here(p).head], "rev")

\* DryRun ends here, with a result.
RevParse(p) ==
  /\ At(p, "rev")
  /\ sha' = [sha EXCEPT ![p] = Here(p).head]
  /\ Go(p, IF req[p].dry THEN "idle" ELSE "pushBranch")
  /\ result' = [result EXCEPT ![p] = req[p].dry]
  /\ UNCHANGED <<disk, writes, repo, remote, req>>

\* Faulty: a rejected push of the branch is passed over.
PushBranchRejected(p) ==
  /\ At(p, "pushBranch")
  /\ IF Forwards(remote.branches[Rel(p).branch], Here(p).head)
       THEN remote' = [remote EXCEPT !.branches[Rel(p).branch] = Here(p).head]
       ELSE UNCHANGED remote
  /\ Go(p, "pushTag")
  /\ UNCHANGED <<disk, writes, repo, req, sha, result>>

\* The remote takes the commit; the command may fail all the same.
PushBranch(p) ==
  /\ At(p, "pushBranch")
  /\ Here(p).branch = Rel(p).branch
  /\ Forwards(remote.branches[Rel(p).branch], Here(p).head)
  /\ remote' = [remote EXCEPT !.branches[Rel(p).branch] = Here(p).head]
  /\ \/ Go(p, "pushTag") /\ UNCHANGED <<writes, req, sha, result>>
     \/ Error(p)
  /\ UNCHANGED <<disk, repo>>

PushTag(p) ==
  /\ At(p, "pushTag") /\ remote.tags[Rel(p).tag] \in {None, Here(p).tags[Rel(p).tag]}
  /\ remote' = [remote EXCEPT !.tags[Rel(p).tag] = Here(p).tags[Rel(p).tag]]
  /\ \/ Go(p, "idle") /\ result' = [result EXCEPT ![p] = TRUE]
        /\ UNCHANGED <<writes, req, sha>>
     \/ Error(p)
  /\ UNCHANGED <<disk, repo>>

-------------------------------------------------------------------------------
(* cosign.Sign, called with a PublishResult and the DryRun of its Publish; a   *)
(* caller may call it again.                                                   *)

\* The Signer answers with a bundle; its error, or an empty one, ends the call
\* before anything changed.
CallSign(p) == At(p, "idle") /\ result[p] /\ Local(p, Here(p), "sigTag")

TagSibling(p) ==
  /\ At(p, "sigTag") /\ Here(p).sigs[Rel(p).tag] = None
  /\ Local(p, [Here(p) EXCEPT !.sigs[Rel(p).tag] = sha[p]],
           IF req[p].dry THEN "idle" ELSE "pushSig")

PushSibling(p) ==
  /\ At(p, "pushSig") /\ remote.sigs[Rel(p).tag] \in {None, Here(p).sigs[Rel(p).tag]}
  /\ remote' = [remote EXCEPT !.sigs[Rel(p).tag] = Here(p).sigs[Rel(p).tag]]
  /\ Go(p, "idle")
  /\ UNCHANGED <<disk, writes, repo, req, sha, result>>

-------------------------------------------------------------------------------
\* Faulty: the result is filled in before the pushes and returned with the error.
FailsWithResult(p) ==
  /\ ~At(p, "idle")
  /\ Go(p, "idle")
  /\ result' = [result EXCEPT ![p] = sha[p] # None]
  /\ UNCHANGED <<disk, writes, repo, remote, req, sha>>

\* The command p is at fails, or p is killed.  The workspace stays as it is: with some
\* of the files, and one of them cut off, if they were being written.
Fails(p) ==
  /\ ~At(p, "idle")
  /\ Error(p)
  /\ UNCHANGED <<disk, repo, remote>>

Working(p) ==
  \/ OpenFile(p) \/ WritePart(p) \/ WriteFile(p)
  \/ GitInit(p) \/ RemoteAdd(p)
  \/ GitAdd(p) \/ GitCommit(p) \/ GitTag(p) \/ RevParse(p)
  \/ PushBranch(p) \/ PushTag(p)
  \/ CallSign(p) \/ TagSibling(p) \/ PushSibling(p)
  \/ Fails(p)

Next == \E p \in Publishers : Call(p) \/ Working(p)

Spec == Init /\ [][Next]_vars

-------------------------------------------------------------------------------
(* Properties *)

\* No sequence of Publish and Sign calls leaves the commands' state space, and a
\* root never holds more than one commit.
TypeOK ==
  /\ disk \in [Roots -> Trees]
  /\ writes \in [Publishers -> [todo : SUBSET Names, open : Names \cup {None},
                               lost : SUBSET Names]]
  /\ repo \in [Roots -> [branch : Branches \cup {None}, origin : BOOLEAN,
                         index : Trees, head : Commits \cup {None},
                         tags : [Tags -> Commits \cup {None}],
                         sigs : [Tags -> Commits \cup {None}]]]
  /\ remote \in [branches : [Branches -> Commits \cup {None}],
                 tags : [Tags -> Commits \cup {None}],
                 sigs : [Tags -> Commits \cup {None}]]
  /\ pc \in [Publishers -> {"idle", "write", "init", "remote"} \cup Owning \cup Signing]
  /\ req \in [Publishers -> Requests \cup {None}]
  /\ sha \in [Publishers -> Commits \cup {None}]
  /\ result \in [Publishers -> BOOLEAN]

\* git remote add lets one call into a workspace: what runs between it and the
\* result commits, tags and pushes alone, however many calls are given one root.
OneOwner == \A p, q \in Publishers :
  p # q /\ pc[p] \in Owning /\ pc[q] \in Owning => req[p].root # req[q].root

\* The branch is pushed before the tag: a release tag of the remote is on one of
\* its branches, wherever a publish stopped and whoever else pushed.
TagOnBranch == \A t \in Tags : remote.tags[t] # None =>
  \E b \in Branches :
    remote.branches[b] # None /\ Forwards(remote.tags[t], remote.branches[b])

\* f has every file of p's release, with the release's text but for those that another
\* call opened or wrote between p's os.WriteFile of it and p's git add.
Has(p, f) == \A n \in DOMAIN Rel(p).files :
  f[n] # None /\ (n \notin writes[p].lost => f[n] = Rel(p).files[n])

\* What a successful Publish reports is on the remote, and stays there: its tag, at its
\* CommitSHA, and the branch has that commit.  The commit, that of a dry run too, has
\* every file of the release with the release's text, whatever earlier calls, cut off
\* or not, left under its name in the root.  Two things it does not promise: it may
\* have more files, since what an earlier call left is added too; and a file that a
\* call in the same root writes before this one's git add has whatever text it then has.
ResultIsRemote == \A p \in Publishers : result[p] =>
  /\ Has(p, sha[p].files)
  /\ ~req[p].dry => /\ remote.tags[Rel(p).tag] = sha[p]
                    /\ Forwards(sha[p], remote.branches[Rel(p).branch])

\* A signature on the remote is of the commit its release tag names.
SigMatchesTag == \A t \in Tags :
  remote.sigs[t] # None => remote.tags[t] = remote.sigs[t]

===============================================================================
