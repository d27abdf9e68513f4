------------------------------- MODULE OpenPR -------------------------------
(***************************************************************************)
(* qryx fix --open-pr: Plan derives patches from the working tree, OpenPR  *)
(* applies them on a new branch by one git or gh command after the other.  *)
(* Every step may fail or be the last before the process is killed, and    *)
(* nothing is undone; a later run starts from what the earlier one left.   *)
(* Between runs the user works in the same repository.                     *)
(*                                                                         *)
(* The contents of a file are the edits it has: the user's, "fix" for the  *)
(* key sizes qryx raised.  "torn" is a file whose write was cut short.     *)
(***************************************************************************)
EXTENDS Naturals, FiniteSets

CONSTANTS
    File,
    Weak,      \* files with a sub-floor key size
    Resolve,   \* the file git finds under the name a patch gives to one
    Edit,      \* what the user may write, each once and into one file
    UserDoes,  \* what the user does between runs
    Branch,
    Main,
    None

ASSUME WeakAssumption     == Weak \subseteq File
ASSUME ResolveAssumption  == Resolve \in [File -> File \cup {None}] /\ None \notin File
ASSUME EditAssumption     == Edit \cap {"fix", "torn"} = {}
ASSUME UserDoesAssumption == UserDoes \subseteq {"edit", "stage", "publish", "switch"}
ASSUME MainAssumption     == Main \in Branch /\ None \notin Branch

Content == SUBSET (Edit \cup {"fix", "torn"})
Tree    == [File -> Content]

ASSUME NoneAssumption ==
    (\A x \in Content : x # None) /\ (\A t \in Tree : t # None)

VARIABLES
    worktree,  \* the files on disk
    index,     \* what the next commit will hold
    branches,  \* the tree of each local branch, or None
    remote,    \* the tree of each branch of origin, or None
    HEAD,      \* the current branch
    prs,       \* the pull requests opened
    pc,        \* the next step of the run
    patches,   \* NewContent by file, None where there is no patch
    unwritten, \* files OpenPR has still to write
    branch,    \* the branch the run created, or None
    base       \* the branch it will open the pull request against, or None

gitVars == <<worktree, index, branches, remote, HEAD, prs>>
runVars == <<patches, unwritten, branch, base>>
vars == <<gitVars, pc, runVars>>

files == {f \in File : patches[f] # None}

TypeOK ==
    /\ worktree \in Tree
    /\ index \in Tree
    /\ branches \in [Branch -> Tree \cup {None}]
    /\ remote \in [Branch -> Tree \cup {None}]
    /\ HEAD \in Branch /\ branches[HEAD] # None
    /\ prs \subseteq [head : Branch, base : Branch, files : SUBSET File]
    /\ pc \in {"ready", "dirty", "base", "branch", "write", "add", "commit",
               "push", "pr"}
    /\ patches \in [File -> Content \cup {None}]
    /\ unwritten \subseteq files
    /\ branch \in Branch \cup {None}
    /\ base \in Branch \cup {None}

NoPatches == [f \in File |-> None]

Init ==
    /\ worktree = [f \in File |-> {}]
    /\ index = worktree
    /\ branches = [b \in Branch |-> IF b = Main THEN worktree ELSE None]
    /\ remote = branches
    /\ HEAD = Main
    /\ prs = {}
    /\ pc = "ready"
    /\ patches = NoPatches
    /\ unwritten = {}
    /\ branch = None
    /\ base = None

Modified(f) == worktree[f] # index[f] \/ index[f] # branches[HEAD][f]

-----------------------------------------------------------------------------
(* The user, between runs.                                                 *)

\* The user's edit u of f is on disk, staged or in a commit.
Kept(u, f) ==
    \/ u \in worktree[f] \cup index[f]
    \/ \E b \in Branch : branches[b] # None /\ u \in branches[b][f]

Type(u, f) ==
    /\ "edit" \in UserDoes
    /\ \A g \in File : ~Kept(u, g)
    /\ worktree' = [worktree EXCEPT ![f] = @ \cup {u}]
    /\ UNCHANGED <<index, branches, remote, HEAD, prs>>

Stage(f) ==
    /\ "stage" \in UserDoes
    /\ worktree[f] # index[f]
    /\ index' = [index EXCEPT ![f] = worktree[f]]
    /\ UNCHANGED <<worktree, branches, remote, HEAD, prs>>

\* Commit everything and push it.
Publish ==
    /\ "publish" \in UserDoes
    /\ \E f \in File : Modified(f)
    /\ index' = worktree
    /\ branches' = [branches EXCEPT ![HEAD] = worktree]
    /\ remote' = [remote EXCEPT ![HEAD] = worktree]
    /\ UNCHANGED <<worktree, HEAD, prs>>

Switch(b) ==
    /\ "switch" \in UserDoes
    /\ branches[b] # None
    /\ \A f \in File : ~Modified(f)
    /\ HEAD' = b
    /\ worktree' = branches[b]
    /\ index' = branches[b]
    /\ UNCHANGED <<branches, remote, prs>>

User ==
    /\ pc = "ready"
    /\ \/ \E u \in Edit, f \in File : Type(u, f)
       \/ \E f \in File : Stage(f)
       \/ Publish
       \/ \E b \in Branch \ {HEAD} : Switch(b)
    /\ UNCHANGED <<pc, runVars>>

-----------------------------------------------------------------------------
(* A run.                                                                  *)

\* A torn file no longer parses, so nothing is found in it.
Plan ==
    /\ pc = "ready"
    /\ patches' = [f \in File |->
                     IF f \in Weak /\ worktree[f] \cap {"fix", "torn"} = {}
                       THEN worktree[f] \cup {"fix"} ELSE None]
    /\ patches' # NoPatches
    /\ pc' = "dirty"
    /\ unwritten' = {}
    /\ branch' = None
    /\ base' = None
    /\ UNCHANGED gitVars

\* Mutant: OpenPR goes on whatever the check says.
DirtyIgnored ==
    /\ pc = "dirty"
    /\ pc' = "base"
    /\ UNCHANGED <<gitVars, runVars>>

\* git status --porcelain: a name git does not know has no changes.
Dirty ==
    /\ pc = "dirty"
    /\ pc' = IF \E f \in files : Resolve[f] # None /\ Modified(Resolve[f])
               THEN "ready" ELSE "base"
    /\ UNCHANGED <<gitVars, runVars>>

BaseBranch ==
    /\ pc = "base"
    /\ base' = HEAD
    /\ pc' = "branch"
    /\ UNCHANGED <<gitVars, patches, unwritten, branch>>

\* Mutant: git switch -C, which resets a branch that exists.
CreateBranchForced(b) ==
    /\ pc = "branch"
    /\ branches' = [branches EXCEPT ![b] = branches[HEAD]]
    /\ HEAD' = b
    /\ branch' = b
    /\ unwritten' = files
    /\ pc' = "write"
    /\ UNCHANGED <<worktree, index, remote, prs, patches, base>>

\* git switch -c fails when b exists; disk and index come along.
CreateBranch(b) ==
    /\ pc = "branch"
    /\ IF branches[b] # None
         THEN pc' = "ready" /\ UNCHANGED <<branches, HEAD, branch, unwritten>>
         ELSE /\ branches' = [branches EXCEPT ![b] = branches[HEAD]]
              /\ HEAD' = b
              /\ branch' = b
              /\ unwritten' = files
              /\ pc' = "write"
    /\ UNCHANGED <<worktree, index, remote, prs, patches, base>>

\* Mutant: a failed write does not end the loop.
WriteFileUnchecked(f) ==
    /\ pc = "write"
    /\ f \in unwritten
    /\ \E x \in {patches[f], {"torn"}} : worktree' = [worktree EXCEPT ![f] = x]
    /\ unwritten' = unwritten \ {f}
    /\ pc' = IF unwritten' = {} THEN "add" ELSE "write"
    /\ UNCHANGED <<index, branches, remote, HEAD, prs, patches, branch, base>>

\* os.WriteFile truncates and writes; it may fail half way.
WriteFile(f) ==
    /\ pc = "write"
    /\ f \in unwritten
    /\ \/ /\ worktree' = [worktree EXCEPT ![f] = patches[f]]
          /\ unwritten' = unwritten \ {f}
          /\ pc' = IF unwritten' = {} THEN "add" ELSE "write"
       \/ /\ worktree' = [worktree EXCEPT ![f] = {"torn"}]
          /\ pc' = "ready"
          /\ UNCHANGED unwritten
    /\ UNCHANGED <<index, branches, remote, HEAD, prs, patches, branch, base>>

\* git add fails, and adds nothing, when it does not know one of the names.
Add ==
    /\ pc = "add"
    /\ IF \E f \in files : Resolve[f] = None
         THEN pc' = "ready" /\ UNCHANGED index
         ELSE LET found == {Resolve[f] : f \in files} IN
              /\ index' = [f \in File |-> IF f \in found THEN worktree[f] ELSE index[f]]
              /\ pc' = "commit"
    /\ UNCHANGED <<worktree, branches, remote, HEAD, prs, runVars>>

\* git commit takes the whole index, and nothing is no commit.
Commit ==
    /\ pc = "commit"
    /\ IF index = branches[HEAD]
         THEN pc' = "ready" /\ UNCHANGED branches
         ELSE branches' = [branches EXCEPT ![HEAD] = index] /\ pc' = "push"
    /\ UNCHANGED <<worktree, index, remote, HEAD, prs, runVars>>

\* origin may have the branch although the command fails.
Push ==
    /\ pc = "push"
    /\ remote' = [remote EXCEPT ![branch] = branches[branch]]
    /\ pc' \in {"pr", "ready"}
    /\ UNCHANGED <<worktree, index, branches, HEAD, prs, runVars>>

\* gh pr create needs the base on origin; its answer may get lost, too.
CreatePR ==
    /\ pc = "pr"
    /\ prs' = IF remote[base] = None THEN prs
              ELSE prs \cup {[head |-> branch, base |-> base, files |-> files]}
    /\ pc' = "ready"
    /\ UNCHANGED <<worktree, index, branches, remote, HEAD, runVars>>

\* A command fails without any effect, or the process is killed.
Fail ==
    /\ pc # "ready"
    /\ pc' = "ready"
    /\ UNCHANGED <<gitVars, runVars>>

Run ==
    \/ Plan \/ Dirty \/ BaseBranch
    \/ \E b \in Branch : CreateBranch(b)
    \/ \E f \in File : WriteFile(f)
    \/ Add \/ Commit \/ Push \/ CreatePR
    \/ Fail

Next == User \/ Run

Spec == Init /\ [][Next]_vars

-----------------------------------------------------------------------------

\* Nothing the user wrote is ever lost: not by a write that is cut short over
\* a file with uncommitted changes, nor by any run that starts from what an
\* earlier failed run left behind.
NothingLost ==
    [][\A u \in Edit, f \in File : Kept(u, f) => Kept(u, f)']_vars

\* A branch that was there before the run never moves, neither here nor on
\* origin: the fixes go to the branch the run created and to no other.
OldBranchesStay ==
    [][pc # "ready" => \A b \in Branch :
          branches[b] # None /\ b # branch =>
              branches'[b] = branches[b] /\ remote'[b] = remote[b]]_vars

\* When a pull request is opened, origin's branch has the fix of every file its
\* body lists, whole and on top of what the user had published, however many
\* runs failed before and wherever they stopped.
PRShowsFixes ==
    [][\A p \in prs' \ prs : \A f \in p.files :
          remote[p.head][f] \ remote[p.base][f] = {"fix"}]_vars

=============================================================================
