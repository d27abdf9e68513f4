---------------------------- MODULE OpenPRProofs ----------------------------
(***************************************************************************)
(* For any files, branches and edits, any number of runs that fail at any  *)
(* step, and whatever the user does between them: a run moves no branch    *)
(* but its own and loses nothing the user wrote, and a pull request shows  *)
(* the fixes it lists.                                                     *)
(*                                                                         *)
(* The last two hold where git finds every patched file under the name it  *)
(* is given (SameNames); a run in another directory than the scanned one   *)
(* is asked about other names.                                             *)
(***************************************************************************)
EXTENDS OpenPR, TLAPS

SameNames == \A f \in Weak : Resolve[f] = f

InRun     == {"write", "add", "commit", "push", "pr"}
Uncommitted == {"write", "add", "commit"}

-----------------------------------------------------------------------------
(* The invariant.                                                          *)

\* Origin has a branch as it is here, or not at all.
RemoteFollows == \A b \in Branch : remote[b] # None => remote[b] = branches[b]

\* From its creation on the run is on its own branch, which is not the base.
OnOwnBranch ==
    /\ pc = "branch" => base = HEAD
    /\ pc \in InRun => /\ branch \in Branch /\ HEAD = branch
                       /\ base \in Branch \ {branch} /\ branches[base] # None
    /\ pc \in Uncommitted => branches[branch] = branches[base] /\ remote[branch] = None
    /\ pc = "pr" => remote[branch] = branches[branch]

\* A patch is for a weak file, and adds the fix to what the file held.
PatchesAdd ==
    /\ files \subseteq Weak
    /\ pc = "dirty" => \A f \in files :
          patches[f] = worktree[f] \cup {"fix"} /\ "fix" \notin worktree[f]

\* The patched files had nothing uncommitted when the run went on, and hold what
\* was committed until they are written.
StartsClean ==
    SameNames =>
        /\ pc \in {"base", "branch"} => \A f \in files :
              /\ worktree[f] = index[f] /\ index[f] = branches[HEAD][f]
              /\ patches[f] = branches[HEAD][f] \cup {"fix"}
              /\ "fix" \notin branches[HEAD][f]
        /\ pc \in {"write", "add"} => \A f \in files : index[f] = branches[HEAD][f]
        /\ pc = "write" => \A f \in unwritten : worktree[f] = index[f]

\* The fix is on its way from the patches to the branch.
FixOnTheWay ==
    SameNames =>
        /\ pc \in InRun => \A f \in files :
              patches[f] = branches[base][f] \cup {"fix"} /\ "fix" \notin branches[base][f]
        /\ pc = "write" => \A f \in files \ unwritten : worktree[f] = patches[f]
        /\ pc = "add" => \A f \in files : worktree[f] = patches[f]
        /\ pc = "commit" => \A f \in files : index[f] = patches[f]
        /\ pc \in {"push", "pr"} => \A f \in files : branches[branch][f] = patches[f]

InABranch(u, f) == \E b \in Branch : branches[b] # None /\ u \in branches[b][f]

\* What is staged is on disk or in a commit as well, and what the current branch
\* has and the disk has not is in another branch.
SecondCopy ==
    SameNames =>
        \A u \in Edit, f \in File :
            /\ u \in index[f] => u \in worktree[f] \/ InABranch(u, f)
            /\ u \in branches[HEAD][f] /\ u \notin worktree[f] =>
                  \E b \in Branch \ {HEAD} : branches[b] # None /\ u \in branches[b][f]

IInv ==
    /\ TypeOK
    /\ RemoteFollows
    /\ OnOwnBranch
    /\ PatchesAdd
    /\ StartsClean
    /\ FixOnTheWay
    /\ SecondCopy

-----------------------------------------------------------------------------
(* A step of the user leaves pc = "ready" and the run as it is.            *)

LEMMA UserStep ==
    ASSUME User
    PROVE  pc = "ready" /\ pc' = "ready" /\ UNCHANGED runVars
BY DEF User

LEMMA InitIInv == Init => IInv
<1> SUFFICES ASSUME Init PROVE IInv
  OBVIOUS
<1>1. [f \in File |-> {}] \in Tree
  BY DEF Tree, Content
<1>2. files = {}
  BY DEF Init, files, NoPatches
<1>3. TypeOK
  BY <1>1, <1>2, MainAssumption, NoneAssumption DEF Init, TypeOK, NoPatches
<1>4. RemoteFollows /\ OnOwnBranch /\ PatchesAdd
  BY <1>2 DEF Init, RemoteFollows, OnOwnBranch, PatchesAdd, InRun, Uncommitted
<1>5. StartsClean /\ FixOnTheWay
  BY DEF Init, StartsClean, FixOnTheWay, InRun
<1>6. SecondCopy
  BY MainAssumption, NoneAssumption DEF Init, SecondCopy, InABranch
<1> QED
  BY <1>3, <1>4, <1>5, <1>6 DEF IInv

LEMMA TypeStep ==
    ASSUME TypeOK, OnOwnBranch, Next
    PROVE  TypeOK'
<1> USE DEF TypeOK, gitVars, runVars
<1>0. branches[HEAD] \in Tree /\ \A t \in Tree : t # None
  BY NoneAssumption
<1>1. ASSUME NEW u \in Edit, NEW f \in File, Type(u, f), UNCHANGED <<pc, runVars>>
      PROVE  TypeOK'
  BY <1>1 DEF Type, Tree, Content, files
<1>2. ASSUME NEW f \in File, Stage(f), UNCHANGED <<pc, runVars>>
      PROVE  TypeOK'
  BY <1>2 DEF Stage, Tree, files
<1>3. CASE Publish /\ UNCHANGED <<pc, runVars>>
  BY <1>3, <1>0 DEF Publish, files
<1>4. ASSUME NEW b \in Branch, Switch(b), UNCHANGED <<pc, runVars>>
      PROVE  TypeOK'
  BY <1>4 DEF Switch, files
<1>5. CASE Plan
  BY <1>5 DEF Plan, Tree, Content, files
<1>6. CASE Dirty
  BY <1>6 DEF Dirty, files
<1>7. CASE BaseBranch
  BY <1>7 DEF BaseBranch, files
<1>8. ASSUME NEW b \in Branch, CreateBranch(b) PROVE TypeOK'
  BY <1>8, <1>0 DEF CreateBranch, files
<1>9. ASSUME NEW f \in File, WriteFile(f) PROVE TypeOK'
  <2>1. patches[f] \in Content /\ {"torn"} \in Content
    BY <1>9 DEF WriteFile, files, Content
  <2>2. worktree' \in Tree
    BY <1>9, <2>1 DEF WriteFile, Tree
  <2> QED
    BY <1>9, <2>2 DEF WriteFile, files
<1>10. CASE Add
  BY <1>10 DEF Add, Tree, files
<1>11. CASE Commit
  BY <1>11, <1>0 DEF Commit, files
<1>12. CASE Push
  BY <1>12 DEF Push, files
<1>13. CASE CreatePR
  BY <1>13 DEF CreatePR, files, OnOwnBranch, InRun
<1>14. CASE Fail
  BY <1>14 DEF Fail, files
<1> QED
  BY <1>1, <1>2, <1>3, <1>4, <1>5, <1>6, <1>7, <1>8, <1>9, <1>10, <1>11, <1>12,
     <1>13, <1>14 DEF Next, User, Run

LEMMA RemoteStep ==
    ASSUME IInv, Next
    PROVE  RemoteFollows'
<1> USE DEF IInv, TypeOK, RemoteFollows, gitVars, runVars
<1>1. CASE User
  BY <1>1 DEF User, Type, Stage, Publish, Switch
<1>2. ASSUME NEW b \in Branch, CreateBranch(b) PROVE RemoteFollows'
  <2>1. CASE branches[b] # None
    BY <1>2, <2>1 DEF CreateBranch
  <2>2. CASE branches[b] = None
    BY <1>2, <2>2 DEF CreateBranch
  <2> QED
    BY <2>1, <2>2
<1>3. CASE Commit
  BY <1>3 DEF Commit, OnOwnBranch, InRun, Uncommitted
<1>4. CASE Push
  BY <1>4 DEF Push, OnOwnBranch, InRun
<1>5. CASE UNCHANGED <<branches, remote>>
  BY <1>5
<1> QED
  BY <1>1, <1>2, <1>3, <1>4, <1>5 DEF Next, Run, Plan, Dirty, BaseBranch,
     WriteFile, Add, CreatePR, Fail

LEMMA BranchStep ==
    ASSUME IInv, Next
    PROVE  OnOwnBranch'
<1> USE DEF IInv, TypeOK, OnOwnBranch, InRun, Uncommitted, gitVars, runVars
<1>1. CASE User \/ Fail
  BY <1>1, UserStep DEF Fail
<1>2. CASE Plan \/ Dirty \/ BaseBranch
  BY <1>2 DEF Plan, Dirty, BaseBranch
<1>3. ASSUME NEW b \in Branch, CreateBranch(b) PROVE OnOwnBranch'
  <2>1. CASE branches[b] # None
    BY <1>3, <2>1 DEF CreateBranch
  <2>2. CASE branches[b] = None
    <3>1. remote[b] = None
      BY <2>2 DEF RemoteFollows
    <3>2. base = HEAD /\ b # HEAD /\ HEAD' = b /\ branch' = b /\ pc' = "write"
          /\ branches' = [branches EXCEPT ![b] = branches[HEAD]]
          /\ UNCHANGED <<remote, base>>
      BY <1>3, <2>2 DEF CreateBranch
    <3> QED
      BY <1>3, <3>1, <3>2
  <2> QED
    BY <2>1, <2>2
<1>4. ASSUME NEW f \in File, WriteFile(f) PROVE OnOwnBranch'
  BY <1>4 DEF WriteFile
<1>5. CASE Add
  BY <1>5 DEF Add
<1>6. CASE Commit
  BY <1>6 DEF Commit
<1>7. CASE Push
  BY <1>7 DEF Push
<1>8. CASE CreatePR
  BY <1>8 DEF CreatePR
<1> QED
  BY <1>1, <1>2, <1>3, <1>4, <1>5, <1>6, <1>7, <1>8 DEF Next, Run

LEMMA PatchesStep ==
    ASSUME IInv, Next
    PROVE  PatchesAdd'
<1> USE DEF IInv, TypeOK, PatchesAdd, files, gitVars, runVars
<1>1. CASE User
  BY <1>1, UserStep
<1>2. CASE Plan
  BY <1>2, WeakAssumption DEF Plan
<1>3. CASE UNCHANGED patches /\ pc' # "dirty"
  BY <1>3
<1> QED
  BY <1>1, <1>2, <1>3 DEF Next, Run, Dirty, BaseBranch, CreateBranch, WriteFile,
     Add, Commit, Push, CreatePR, Fail

LEMMA CleanStep ==
    ASSUME IInv, Next
    PROVE  StartsClean'
<1> SUFFICES ASSUME SameNames PROVE StartsClean'
  BY DEF StartsClean, SameNames
<1> USE DEF IInv, TypeOK, StartsClean, files, gitVars, runVars
<1>1. CASE User \/ Fail \/ Plan
  BY <1>1, UserStep DEF Fail, Plan
<1>2. CASE Dirty
  <2>1. CASE pc' = "ready"
    BY <2>1
  <2>2. CASE pc' # "ready"
    <3>1. pc' = "base" /\ ~ \E f \in files : Resolve[f] # None /\ Modified(Resolve[f])
      BY <1>2, <2>2 DEF Dirty
    <3>2. \A f \in files : f \in File /\ Resolve[f] = f /\ f # None
      BY ResolveAssumption DEF PatchesAdd, SameNames
    <3>3. \A f \in files : worktree[f] = index[f] /\ index[f] = branches[HEAD][f]
      BY <3>1, <3>2 DEF Modified
    <3>4. \A f \in files :
             patches[f] = worktree[f] \cup {"fix"} /\ "fix" \notin worktree[f]
      BY <1>2 DEF Dirty, PatchesAdd
    <3> QED
      BY <1>2, <3>1, <3>3, <3>4 DEF Dirty
  <2> QED
    BY <2>1, <2>2
<1>3. CASE BaseBranch
  BY <1>3 DEF BaseBranch
<1>4. ASSUME NEW b \in Branch, CreateBranch(b) PROVE StartsClean'
  <2>1. CASE branches[b] # None
    BY <1>4, <2>1 DEF CreateBranch
  <2>2. CASE branches[b] = None
    BY <1>4, <2>2 DEF CreateBranch
  <2> QED
    BY <2>1, <2>2
<1>5. ASSUME NEW f \in File, WriteFile(f) PROVE StartsClean'
  <2>1. CASE pc' = "ready"
    BY <2>1
  <2>2. CASE pc' # "ready"
    <3>1. /\ pc = "write" /\ pc' \in {"write", "add"}
          /\ worktree' = [worktree EXCEPT ![f] = patches[f]]
          /\ unwritten' = unwritten \ {f}
          /\ UNCHANGED <<index, branches, HEAD, patches>>
      BY <1>5, <2>2 DEF WriteFile
    <3>2. \A g \in unwritten' : worktree'[g] = index'[g]
      BY <3>1
    <3>3. \A g \in files : index'[g] = branches'[HEAD'][g]
      BY <3>1
    <3> QED
      BY <3>1, <3>2, <3>3
  <2> QED
    BY <2>1, <2>2
<1>6. CASE Add
  BY <1>6 DEF Add
<1>7. CASE Commit \/ Push \/ CreatePR
  BY <1>7 DEF Commit, Push, CreatePR
<1> QED
  BY <1>1, <1>2, <1>3, <1>4, <1>5, <1>6, <1>7 DEF Next, Run

LEMMA FixStep ==
    ASSUME IInv, Next
    PROVE  FixOnTheWay'
<1> SUFFICES ASSUME SameNames PROVE FixOnTheWay'
  BY DEF FixOnTheWay, SameNames
<1> USE DEF IInv, TypeOK, FixOnTheWay, InRun, files, gitVars, runVars
<1>1. CASE User \/ Fail \/ Plan \/ Dirty \/ BaseBranch
  BY <1>1, UserStep DEF Fail, Plan, Dirty, BaseBranch
<1>2. ASSUME NEW b \in Branch, CreateBranch(b) PROVE FixOnTheWay'
  <2>1. CASE branches[b] # None
    BY <1>2, <2>1 DEF CreateBranch
  <2>2. CASE branches[b] = None
    <3>1. base = HEAD /\ b # HEAD /\ pc' = "write"
          /\ branches' = [branches EXCEPT ![b] = branches[HEAD]]
          /\ unwritten' = files /\ UNCHANGED <<patches, base>>
      BY <1>2, <2>2 DEF CreateBranch, OnOwnBranch
    <3>2. \A f \in files : patches[f] = branches[HEAD][f] \cup {"fix"}
                           /\ "fix" \notin branches[HEAD][f]
      BY <1>2 DEF CreateBranch, StartsClean
    <3>3. branches'[base] = branches[HEAD]
      BY <3>1
    <3> QED
      BY <3>1, <3>2, <3>3
  <2> QED
    BY <2>1, <2>2
<1>3. ASSUME NEW f \in File, WriteFile(f) PROVE FixOnTheWay'
  <2>1. CASE pc' = "ready"
    BY <2>1
  <2>2. CASE pc' # "ready"
    <3>1. /\ pc = "write" /\ pc' = IF unwritten' = {} THEN "add" ELSE "write"
          /\ worktree' = [worktree EXCEPT ![f] = patches[f]]
          /\ unwritten' = unwritten \ {f}
          /\ UNCHANGED <<branches, patches, base>>
      BY <1>3, <2>2 DEF WriteFile
    <3>2. \A g \in files \ unwritten' : worktree'[g] = patches[g]
      BY <1>3, <3>1 DEF Tree
    <3>3. \A g \in files : patches[g] = branches[base][g] \cup {"fix"}
                           /\ "fix" \notin branches[base][g]
      BY <3>1
    <3> QED
      BY <3>1, <3>2, <3>3
  <2> QED
    BY <2>1, <2>2
<1>4. CASE Add
  <2>1. CASE pc' = "ready"
    BY <2>1
  <2>2. CASE pc' # "ready"
    <3>1. /\ \A f \in files : f \in File /\ Resolve[f] = f
          /\ index' = [f \in File |-> IF f \in {Resolve[g] : g \in files}
                                      THEN worktree[f] ELSE index[f]]
      BY <1>4, <2>2 DEF Add, PatchesAdd, SameNames
    <3>2. \A f \in files : index'[f] = worktree[f]
      BY <3>1
    <3> QED
      BY <1>4, <2>2, <3>2 DEF Add
  <2> QED
    BY <2>1, <2>2
<1>5. CASE Commit
  <2>1. CASE pc' = "ready"
    BY <2>1
  <2>2. CASE pc' # "ready"
    BY <1>5, <2>2 DEF Commit, OnOwnBranch
  <2> QED
    BY <2>1, <2>2
<1>6. CASE Push
  BY <1>6 DEF Push
<1>7. CASE CreatePR
  BY <1>7 DEF CreatePR
<1> QED
  BY <1>1, <1>2, <1>3, <1>4, <1>5, <1>6, <1>7 DEF Next, Run

-----------------------------------------------------------------------------
(* What a step destroys has a copy.                                        *)

LEMMA CopyStep ==
    ASSUME IInv, Next
    PROVE  SecondCopy'
<1> SUFFICES ASSUME SameNames, NEW u \in Edit, NEW f \in File
             PROVE  /\ u \in index'[f] => u \in worktree'[f] \/ InABranch(u, f)'
                    /\ u \in branches'[HEAD'][f] /\ u \notin worktree'[f] =>
                          \E b \in Branch \ {HEAD'} :
                              branches'[b] # None /\ u \in branches'[b][f]
  BY DEF SecondCopy, SameNames
<1>0. /\ u \in index[f] => u \in worktree[f] \/ InABranch(u, f)
      /\ u \in branches[HEAD][f] /\ u \notin worktree[f] =>
            \E b \in Branch \ {HEAD} : branches[b] # None /\ u \in branches[b][f]
      /\ branches[HEAD] # None /\ HEAD \in Branch
  BY DEF IInv, SecondCopy, TypeOK
<1> USE DEF TypeOK, InABranch, gitVars, runVars
<1>1. ASSUME NEW v \in Edit, NEW g \in File, Type(v, g), UNCHANGED <<pc, runVars>>
      PROVE  /\ u \in index'[f] => u \in worktree'[f] \/ InABranch(u, f)'
             /\ u \in branches'[HEAD'][f] /\ u \notin worktree'[f] =>
                   \E b \in Branch \ {HEAD'} :
                       branches'[b] # None /\ u \in branches'[b][f]
  BY <1>0, <1>1 DEF Type, IInv
<1>2. ASSUME NEW g \in File, Stage(g), UNCHANGED <<pc, runVars>>
      PROVE  /\ u \in index'[f] => u \in worktree'[f] \/ InABranch(u, f)'
             /\ u \in branches'[HEAD'][f] /\ u \notin worktree'[f] =>
                   \E b \in Branch \ {HEAD'} :
                       branches'[b] # None /\ u \in branches'[b][f]
  BY <1>0, <1>2 DEF Stage, IInv
<1>3. CASE Publish
  BY <1>0, <1>3 DEF Publish, IInv
<1>4. ASSUME NEW b \in Branch, Switch(b)
      PROVE  index'[f] = worktree'[f] /\ branches'[HEAD'][f] = worktree'[f]
  BY <1>4 DEF Switch
<1>5. ASSUME NEW b \in Branch, CreateBranch(b)
      PROVE  /\ u \in index'[f] => u \in worktree'[f] \/ InABranch(u, f)'
             /\ u \in branches'[HEAD'][f] /\ u \notin worktree'[f] =>
                   \E d \in Branch \ {HEAD'} :
                       branches'[d] # None /\ u \in branches'[d][f]
  <2>1. CASE branches[b] # None
    BY <1>0, <1>5, <2>1 DEF CreateBranch
  <2>2. CASE branches[b] = None
    <3>1. HEAD' = b /\ b # HEAD /\ branches' = [branches EXCEPT ![b] = branches[HEAD]]
          /\ UNCHANGED <<index, worktree>>
      BY <1>0, <1>5, <2>2 DEF CreateBranch
    <3>2. branches'[HEAD] = branches[HEAD] /\ branches'[b] = branches[HEAD]
          /\ \A d \in Branch \ {b} : branches'[d] = branches[d]
      BY <1>0, <3>1 DEF IInv
    <3> QED
      BY <1>0, <2>2, <3>1, <3>2
  <2> QED
    BY <2>1, <2>2
<1>6. ASSUME NEW g \in File, WriteFile(g)
      PROVE  /\ u \in index'[f] => u \in worktree'[f] \/ InABranch(u, f)'
             /\ u \in branches'[HEAD'][f] /\ u \notin worktree'[f] =>
                   \E b \in Branch \ {HEAD'} :
                       branches'[b] # None /\ u \in branches'[b][f]
  <2>1. UNCHANGED <<index, branches, HEAD>> /\ pc = "write" /\ g \in unwritten
    BY <1>6 DEF WriteFile
  <2>2. CASE f # g
    <3>1. worktree'[f] = worktree[f]
      BY <1>6, <2>2 DEF WriteFile, IInv, Tree
    <3> QED
      BY <1>0, <2>1, <3>1
  <2>3. CASE f = g
    <3>1. index[f] = branches[HEAD][f]
      BY <2>1, <2>3 DEF IInv, StartsClean
    <3>2. base \in Branch \ {HEAD} /\ branches[base] = branches[HEAD]
      BY <2>1 DEF IInv, OnOwnBranch, InRun, Uncommitted
    <3> QED
      BY <1>0, <2>1, <3>1, <3>2
  <2> QED
    BY <2>2, <2>3
<1>7. CASE Add
  <2>1. UNCHANGED <<worktree, branches, HEAD>>
        /\ (index'[f] = index[f] \/ index'[f] = worktree[f])
    BY <1>7 DEF Add, IInv
  <2> QED
    BY <1>0, <2>1
<1>8. CASE Commit
  <2>1. CASE UNCHANGED branches
    BY <1>0, <1>8, <2>1 DEF Commit
  <2>2. CASE branches' = [branches EXCEPT ![HEAD] = index]
    <3>1. base \in Branch \ {HEAD} /\ branches[base] = branches[HEAD]
      BY <1>8 DEF Commit, IInv, OnOwnBranch, InRun, Uncommitted
    <3>2. UNCHANGED <<worktree, index, HEAD>> /\ branches'[HEAD] = index
          /\ index # None
          /\ \A d \in Branch \ {HEAD} : branches'[d] = branches[d]
      BY <1>0, <1>8, <2>2, NoneAssumption DEF Commit, IInv
    <3>3. u \in index[f] /\ u \notin worktree[f] =>
            \E b \in Branch \ {HEAD} : branches[b] # None /\ u \in branches[b][f]
      BY <1>0, <3>1
    <3> QED
      BY <3>2, <3>3
  <2> QED
    BY <1>8, <2>1, <2>2 DEF Commit
<1>9. CASE UNCHANGED <<worktree, index, branches, HEAD>>
  BY <1>0, <1>9
<1> QED
  BY <1>1, <1>2, <1>3, <1>4, <1>5, <1>6, <1>7, <1>8, <1>9 DEF Next, User, Run, Plan,
     Dirty, BaseBranch, Push, CreatePR, Fail

THEOREM Invariance == Spec => []IInv
<1>1. ASSUME IInv, [Next]_vars PROVE IInv'
  <2>1. CASE Next
    BY <1>1, <2>1, TypeStep, RemoteStep, BranchStep, PatchesStep, CleanStep, FixStep,
       CopyStep DEF IInv
  <2>2. CASE UNCHANGED vars
    <3>1. TypeOK' /\ RemoteFollows' /\ OnOwnBranch' /\ PatchesAdd'
      BY <1>1, <2>2 DEF IInv, vars, gitVars, runVars, TypeOK, files, RemoteFollows,
         OnOwnBranch, PatchesAdd
    <3>2. StartsClean' /\ FixOnTheWay'
      BY <1>1, <2>2 DEF IInv, vars, gitVars, runVars, files, StartsClean, FixOnTheWay
    <3>3. SecondCopy'
      BY <1>1, <2>2 DEF IInv, vars, gitVars, SecondCopy, InABranch
    <3> QED
      BY <3>1, <3>2, <3>3 DEF IInv
  <2> QED
    BY <1>1, <2>1, <2>2
<1> QED
  BY <1>1, InitIInv, PTL DEF Spec

\* Every variable keeps its type, and the current branch is one that exists.
THEOREM TypeCorrect == Spec => []TypeOK
BY Invariance, PTL DEF IInv

-----------------------------------------------------------------------------

\* No command of a run moves a branch that was there before it, neither here nor
\* on origin, wherever it fails (OpenPR in remediate/pr.go, gitcli.go).
THEOREM OldBranchesAreKept == Spec => OldBranchesStay
<1> DEFINE Stay == pc # "ready" => \A b \in Branch :
                      branches[b] # None /\ b # branch =>
                          branches'[b] = branches[b] /\ remote'[b] = remote[b]
<1>1. ASSUME IInv, Next PROVE Stay
  <2> USE DEF IInv, TypeOK, gitVars, runVars
  <2>1. CASE User \/ Plan
    BY <2>1, UserStep DEF Plan
  <2>2. ASSUME NEW b \in Branch, CreateBranch(b) PROVE Stay
    BY <1>1, <2>2 DEF CreateBranch
  <2>3. CASE Commit
    BY <1>1, <2>3 DEF Commit, OnOwnBranch, InRun
  <2>4. CASE Push
    BY <1>1, <2>4 DEF Push
  <2>5. CASE UNCHANGED <<branches, remote>>
    BY <2>5
  <2> QED
    BY <1>1, <2>1, <2>2, <2>3, <2>4, <2>5 DEF Next, Run, Dirty, BaseBranch,
       WriteFile, Add, CreatePR, Fail
<1>2. IInv /\ [Next]_vars => [Stay]_vars
  BY <1>1
<1> QED
  BY <1>2, Invariance, PTL DEF Spec, OldBranchesStay

\* However many runs are cut short, at whichever command or in the middle of a
\* file, everything the user wrote stays on disk, staged or in a commit (OpenPR's
\* check for uncommitted changes, and the branch it works on).
THEOREM NothingIsLost == SameNames => (Spec => NothingLost)
<1> SUFFICES ASSUME SameNames PROVE Spec => NothingLost
  OBVIOUS
<1> DEFINE Keeps == \A u \in Edit, f \in File : Kept(u, f) => Kept(u, f)'
<1>1. ASSUME IInv, Next PROVE Keeps
  <2> SUFFICES ASSUME NEW u \in Edit, NEW f \in File, Kept(u, f)
               PROVE  Kept(u, f)'
    OBVIOUS
  <2>0. /\ IInv' /\ branches'[HEAD'] # None /\ HEAD' \in Branch
        /\ branches[HEAD] # None /\ HEAD \in Branch
    BY <1>1, TypeStep, RemoteStep, BranchStep, PatchesStep, CleanStep, FixStep,
       CopyStep DEF IInv, TypeOK
  <2>1. InABranch(u, f) \/ u \in worktree[f]
    BY <1>1 DEF Kept, InABranch, IInv, SecondCopy
  <2>2. ASSUME InABranch(u, f) PROVE InABranch(u, f)' \/ u \in worktree'[f]
    <3> USE DEF IInv, TypeOK, InABranch, gitVars, runVars
    <3>1. CASE UNCHANGED branches
      BY <2>2, <3>1
    <3>2. ASSUME NEW b \in Branch, CreateBranch(b)
          PROVE  InABranch(u, f)'
      BY <1>1, <2>2, <3>2 DEF CreateBranch
    <3>3. CASE Publish
      <4>1. worktree' = worktree /\ branches' = [branches EXCEPT ![HEAD] = worktree]
        BY <3>3 DEF Publish
      <4>2. u \in branches[HEAD][f] /\ u \notin worktree[f] =>
              \E b \in Branch \ {HEAD} : branches[b] # None /\ u \in branches[b][f]
        BY <1>1 DEF SecondCopy
      <4> QED
        BY <1>1, <2>2, <4>1, <4>2
    <3>4. CASE Commit
      <4>1. base \in Branch \ {HEAD} /\ branches[base] = branches[HEAD]
        BY <1>1, <3>4 DEF Commit, OnOwnBranch, InRun, Uncommitted
      <4>2. \A b \in Branch \ {HEAD} : branches'[b] = branches[b]
        BY <1>1, <3>4 DEF Commit
      <4> QED
        BY <2>0, <2>2, <4>1, <4>2
    <3> QED
      BY <1>1, <3>1, <3>2, <3>3, <3>4 DEF Next, User, Run, Type, Stage, Switch,
         Plan, Dirty, BaseBranch, WriteFile, Add, Push, CreatePR, Fail
  <2>3. ASSUME u \in worktree[f] PROVE InABranch(u, f)' \/ u \in worktree'[f]
    <3> USE DEF IInv, TypeOK, gitVars, runVars
    <3>1. CASE worktree'[f] = worktree[f]
      BY <2>3, <3>1
    <3>2. ASSUME NEW v \in Edit, NEW g \in File, Type(v, g)
          PROVE  u \in worktree'[f]
      BY <1>1, <2>3, <3>2 DEF Type, Tree
    <3>3. ASSUME NEW b \in Branch, Switch(b) PROVE InABranch(u, f)'
      <4>1. worktree[f] = branches[HEAD][f] /\ UNCHANGED branches
        BY <3>3 DEF Switch, Modified
      <4> QED
        BY <2>0, <2>3, <4>1 DEF InABranch
    <3>4. ASSUME NEW g \in File, WriteFile(g), f = g PROVE InABranch(u, f)'
      <4>1. worktree[f] = branches[HEAD][f] /\ UNCHANGED branches
        BY <1>1, <3>4 DEF WriteFile, StartsClean
      <4> QED
        BY <2>0, <2>3, <4>1 DEF InABranch
    <3>5. ASSUME NEW g \in File, WriteFile(g), f # g
          PROVE  worktree'[f] = worktree[f]
      BY <1>1, <3>5 DEF WriteFile, Tree
    <3> QED
      BY <1>1, <3>1, <3>2, <3>3, <3>4, <3>5 DEF Next, User, Run, Stage, Publish,
         Plan, Dirty, BaseBranch, CreateBranch, Add, Commit, Push, CreatePR, Fail
  <2> QED
    BY <2>1, <2>2, <2>3 DEF Kept, InABranch
<1>2. IInv /\ [Next]_vars => [Keeps]_vars
  BY <1>1
<1> QED
  BY <1>2, Invariance, PTL DEF Spec, NothingLost

\* A pull request that is opened lists files of which origin's branch has the fix
\* and nothing else that its base has not, however many runs failed before
\* (OpenPR's commit, push and gh pr create, and the body prBody writes).
THEOREM PullRequestsShowTheFixes == SameNames => (Spec => PRShowsFixes)
<1> SUFFICES ASSUME SameNames PROVE Spec => PRShowsFixes
  OBVIOUS
<1> DEFINE Shows == \A p \in prs' \ prs : \A f \in p.files :
                       remote[p.head][f] \ remote[p.base][f] = {"fix"}
<1>1. ASSUME IInv, Next PROVE Shows
  <2>1. CASE UNCHANGED prs
    BY <2>1
  <2>2. CASE CreatePR
    <3> SUFFICES ASSUME NEW p \in prs' \ prs, NEW f \in p.files
                 PROVE  remote[p.head][f] \ remote[p.base][f] = {"fix"}
      OBVIOUS
    <3>1. p = [head |-> branch, base |-> base, files |-> files]
          /\ remote[base] # None /\ pc = "pr"
      BY <2>2 DEF CreatePR
    <3>2. /\ patches[f] = branches[base][f] \cup {"fix"}
          /\ "fix" \notin branches[base][f]
          /\ branches[branch][f] = patches[f]
      BY <1>1, <3>1 DEF IInv, FixOnTheWay, InRun
    <3>3. remote[branch] = branches[branch] /\ remote[base] = branches[base]
      BY <1>1, <3>1 DEF IInv, OnOwnBranch, RemoteFollows, InRun
    <3> QED
      BY <3>1, <3>2, <3>3
  <2> QED
    BY <1>1, <2>1, <2>2 DEF Next, User, Run, Type, Stage, Publish, Switch, Plan,
       Dirty, BaseBranch, CreateBranch, WriteFile, Add, Commit, Push, Fail,
       gitVars, runVars
<1>2. IInv /\ [Next]_vars => [Shows]_vars
  <2>1. CASE Next
    BY <1>1, <2>1
  <2> QED
    BY <2>1
<1> QED
  BY <1>2, Invariance, PTL DEF Spec, PRShowsFixes

=============================================================================
