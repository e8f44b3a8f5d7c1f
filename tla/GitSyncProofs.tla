---------------------------- MODULE GitSyncProofs ----------------------------
(* Proofs about GitSync, for any files, decisions and bounds. *)
EXTENDS GitSync, TLAPS

(* What a branch may rely on, with o the history of main, k the edits the
   department still wants, l the loose ones and n the number of edits so far:
   it builds on a commit of main, its unpushed commits change runtime files
   only, and a wanted edit among them is the one at HEAD. *)
Grounded(c) == \A p \in Paths : c.files[p] \in c.log \cup {0}

Sound(b, o, k, l, n) ==
    /\ b \in Branches
    /\ Grounded(b.base) /\ b.base.log \subseteq o
    /\ b.ahead \subseteq Runtime
    /\ b.log \subseteq 1 .. n
    /\ \A p \in Paths : b.head[p] \in 0 .. n
    /\ \A p \in Paths \ b.ahead : b.head[p] = b.base.files[p]
    /\ \A p \in b.ahead : b.head[p] \in b.log \cup {0}
    /\ b.ahead = {} => b.log = {}
    /\ \A e \in b.log \cap k : e \in o \cup l \/ \E p \in b.ahead : b.head[p] = e

Numbered ==
    /\ origin.log \subseteq 1 .. edits
    /\ \A p \in Paths : /\ tree[p] \in 0 .. edits /\ stash[p] \in 0 .. edits
                        /\ tag[p] \in 0 .. edits

(* The control: when the checkout is what HEAD says, and what a stash holds. *)
Phase ==
    /\ held # {} => pc \in {"pull", "restore", "pop"} /\ unmerged = {}
    /\ held \cap Runtime = {}
    /\ pc \in {"push", "stash"} /\ unmerged = {} => \A p \in Runtime : tree[p] = head[p]
    /\ pc = "pull" => tag = head /\ (unmerged = {} => tree = head)
    /\ pc = "restore" => unmerged = {} /\ tree = head
    /\ pc = "pop" => unmerged = {} /\ \A p \in Paths \ Runtime : tree[p] = head[p]
    /\ orig.open => unmerged = {} /\ pc \notin {"restore", "pop"}

(* A wanted edit of an unpushed commit is still in the checkout. *)
InPlace ==
    \A p \in ahead : head[p] \in keep =>
        head[p] \in origin.log \cup loose \/ \E q \in Runtime : tree[q] = head[p]

Rebasing ==
    orig.open => log \subseteq loose /\ Sound(orig.at, origin.log, keep, loose, edits)

IInv ==
    /\ TypeOK /\ Numbered /\ Phase /\ Grounded(origin)
    /\ Sound(Here, origin.log, keep, loose, edits)
    /\ Rebasing /\ InPlace /\ NothingLost

----------------------------------------------------------------------------
(* Typing *)

LEMMA Numbers == ASSUME GitAssumption PROVE MaxEdits \in Nat /\ Edits \subseteq Nat
  BY DEF GitAssumption, Edits

LEMMA HereIt ==
    ASSUME TypeOK
    PROVE  /\ Here \in Branches /\ Here.base = base /\ Here.head = head
           /\ Here.ahead = ahead /\ Here.log = log
  BY DEF TypeOK, Here, Branches

LEMMA OrigIt == ASSUME TypeOK, orig.open PROVE orig.at \in Branches
  BY DEF TypeOK

LEMMA InitTyped == ASSUME GitAssumption, Init PROVE TypeOK
<1>1. First \in Files /\ 1 \in Edits /\ 1 \in 0 .. MaxEdits
  BY DEF GitAssumption, First, Files, Edits
<1>2. origin \in Commits /\ base \in Commits
  BY <1>1 DEF Init, Commits
<1> QED BY <1>1, <1>2 DEF Init, TypeOK

LEMMA ArchivedIt ==
    ASSUME GitAssumption, NEW f \in Files, NEW d \in Decisions
    PROVE  /\ Archived(f, d) \in Files /\ ArchiveOf[d] \in Runtime \ {d}
           /\ Archived(f, d)[d] = 0 /\ Archived(f, d)[ArchiveOf[d]] = f[d]
           /\ \A p \in Paths \ {d, ArchiveOf[d]} : Archived(f, d)[p] = f[p]
<1>1. d \in Paths /\ ArchiveOf[d] \in Runtime /\ ArchiveOf[d] \in Paths /\ ArchiveOf[d] # d
  BY DEF GitAssumption, Archives
<1> QED BY <1>1, Numbers DEF Archived, Files

LEMMA OthersTyped ==
    ASSUME GitAssumption, TypeOK, NEW p \in Paths,
           \/ Merge(p) \/ Drop(p)
           \/ p \in Decisions /\ ExecuteThere(p)
    PROVE  TypeOK'
<1>1. PICK f \in Files : Lands(f)
  <2>1. CASE Merge(p)
    <3>1. [origin.files EXCEPT ![p] = edits + 1] \in Files
      BY <2>1, Numbers DEF Merge, TypeOK, Commits, Files, Lands
    <3> QED BY <2>1, <3>1 DEF Merge
  <2>2. CASE Drop(p)
    BY <2>2, Numbers DEF Drop, TypeOK, Commits, Files
  <2>3. CASE p \in Decisions /\ ExecuteThere(p)
    BY <2>3, ArchivedIt DEF ExecuteThere, TypeOK, Commits
  <2> QED BY <2>1, <2>2, <2>3
<1>2. edits + 1 \in Edits
  BY <1>1, Numbers DEF Lands, Edits, TypeOK
<1>3. origin' \in Commits /\ edits' \in 0 .. MaxEdits
  BY <1>1, <1>2, Numbers DEF Lands, Commits, TypeOK, Edits
<1> QED BY <1>1, <1>3 DEF Lands, TypeOK, branch, stashed, ghosts

LEMMA DeptTyped ==
    ASSUME GitAssumption, TypeOK, NEW p \in Paths,
           Work(p) \/ Wedge(p) \/ (p \in Decisions /\ ExecuteHere(p))
    PROVE  TypeOK'
<1>1. CASE Work(p)
  <2>1. edits + 1 \in Edits /\ edits' \in 0 .. MaxEdits
    BY <1>1, Numbers DEF Work, TypeOK, Edits
  <2>2. tree' \in Files /\ keep' \subseteq Edits /\ wrote' \subseteq Runtime
    BY <1>1, <2>1 DEF Work, TypeOK, Files, Edits
  <2> QED BY <1>1, <2>1, <2>2 DEF Work, TypeOK, branch, stashed
<1>2. CASE Wedge(p)
  BY <1>2 DEF Wedge, TypeOK, remote, branch, stashed, ghosts
<1>3. CASE p \in Decisions /\ ExecuteHere(p)
  <2>1. tree' \in Files
    BY <1>3, ArchivedIt DEF ExecuteHere, TypeOK
  <2> QED BY <1>3, <2>1 DEF ExecuteHere, TypeOK, remote, branch, stashed
<1> QED BY <1>1, <1>2, <1>3

LEMMA PoppedIt ==
    ASSUME TypeOK, NEW f \in Files, NEW b \in SUBSET Paths
    PROVE  Popped(f, b) \in Files
  BY DEF Popped, TypeOK, Files

LEMMA ShelfIt ==
    ASSUME GitAssumption, NEW f \in Files, NEW P \in SUBSET Paths
    PROVE  Contents(f, P) \subseteq Edits
  BY DEF Contents, TypeOK, Files, Edits

LEMMA CommitTyped == ASSUME GitAssumption, TypeOK, Commit PROVE TypeOK'
<1>1. Dirty \subseteq Paths /\ Contents(tree, Dirty \cap Runtime) \subseteq Edits
  BY ShelfIt DEF Dirty, TypeOK
<1>2. [p \in Paths |-> IF p \in Dirty \cap Runtime THEN tree[p] ELSE head[p]] \in Files
  BY DEF TypeOK, Files
<1> QED BY <1>1, <1>2, Zenon DEF Commit, Goto, TypeOK, remote, stashed, branch

LEMMA PushTyped == ASSUME GitAssumption, TypeOK, Push PROVE TypeOK'
<1>1. origin' \in Commits
  BY DEF Push, TypeOK, Commits
<1> QED BY <1>1 DEF Push, Goto, TypeOK, stashed, ghosts

LEMMA StashTyped == ASSUME GitAssumption, TypeOK, Stash PROVE TypeOK'
<1>1. Dirty \subseteq Paths
  BY DEF Dirty, TypeOK
<1>2. tag' \in Files /\ stash' \in Files /\ tree' \in Files /\ held' \subseteq Paths
      /\ wedged' \subseteq Paths
  BY <1>1 DEF Stash, TypeOK
<1> QED BY <1>2 DEF Stash, Goto, TypeOK, remote, branch, ghosts

LEMMA PullTyped == ASSUME GitAssumption, TypeOK, Pull PROVE TypeOK'
<1>1. [p \in Paths |-> IF p \in ahead THEN head[p] ELSE origin.files[p]] \in Files
  BY DEF TypeOK, Commits, Files
<1>2. base' \in Commits /\ head' \in Files /\ tree' \in Files /\ ahead' \subseteq Paths
      /\ log' \subseteq Edits
  BY <1>1 DEF Pull, TypeOK
<1> QED BY <1>2 DEF Pull, Goto, TypeOK, remote, stashed, ghosts

LEMMA RecoverTyped == ASSUME GitAssumption, TypeOK, Recover PROVE TypeOK'
<1>1. base' \in Commits /\ head' \in Files /\ tree' \in Files /\ wedged' \subseteq Paths
  BY DEF Recover, TypeOK, Commits
<1> QED BY <1>1 DEF Recover, Goto, TypeOK, remote, stashed, ghosts

LEMMA ShelveTyped ==
    ASSUME GitAssumption, TypeOK, NEW h \in Files, Shelve(h)
    PROVE  /\ shelf' \subseteq Edits /\ unmerged' \subseteq Paths
           /\ held' = {} /\ stash' = stash /\ tag' = tag
<1>1. Contents(stash, held) \subseteq Edits
  BY ShelfIt DEF TypeOK
<1> QED BY <1>1 DEF Shelve, Torn, TypeOK

(* Where the branch is after a pull that failed. *)
Back == IF orig.open THEN orig.at ELSE Here

LEMMA BackIt ==
    ASSUME TypeOK, PullFails
    PROVE  /\ Back \in Branches /\ Back.head \in Files
           /\ base' = Back.base /\ head' = Back.head
           /\ ahead' = Back.ahead /\ log' = Back.log
           /\ Shelve(Back.head)
           /\ tree' = Popped(IF orig.open THEN Back.head ELSE tree, held \ Clash(Back.head))
<1>1. Back \in Branches
  BY HereIt, OrigIt DEF Back
<1> QED BY <1>1 DEF PullFails, Back, Branches

LEMMA PullFailsTyped == ASSUME GitAssumption, TypeOK, PullFails PROVE TypeOK'
<1>1. base' \in Commits /\ head' \in Files /\ ahead' \subseteq Paths /\ log' \subseteq Edits
  BY BackIt DEF Branches
<1>2. tree' \in Files
  <2>1. (IF orig.open THEN Back.head ELSE tree) \in Files
    BY BackIt DEF TypeOK
  <2>2. held \ Clash(Back.head) \in SUBSET Paths
    BY DEF TypeOK
  <2> QED BY <2>1, <2>2, BackIt, PoppedIt
<1>3. shelf' \subseteq Edits /\ unmerged' \subseteq Paths
      /\ held' = {} /\ stash' = stash /\ tag' = tag
  BY BackIt, ShelveTyped
<1>4. orig' = [open |-> FALSE] /\ pc' = "idle" /\ killed' = killed /\ calm' = calm
      /\ UNCHANGED <<remote, wedged, ghosts>>
  BY DEF PullFails, Goto
<1> QED BY <1>1, <1>2, <1>3, <1>4 DEF TypeOK, remote, ghosts

LEMMA RestoreTyped == ASSUME GitAssumption, TypeOK, Restore PROVE TypeOK'
<1>1. tree' \in Files
  BY DEF Restore, TypeOK, Files
<1> QED BY <1>1 DEF Restore, Goto, TypeOK, remote, branch, stashed, ghosts

LEMMA PopTyped == ASSUME GitAssumption, TypeOK, Pop PROVE TypeOK'
<1>1. tree' \in Files
  <2> DEFINE b == IF Clash(head) # {} /\ Torn(head) = {}
                  THEN Untracked \ Clash(head) ELSE held \ Clash(head)
  <2>1. b \in SUBSET Paths
    BY DEF TypeOK, Untracked
  <2>2. tree' = Popped(tree, b)
    BY DEF Pop
  <2>3. tree \in Files
    BY DEF TypeOK
  <2> HIDE DEF b
  <2> QED BY <2>1, <2>2, <2>3, PoppedIt
<1>2. shelf' \subseteq Edits /\ unmerged' \subseteq Paths
      /\ held' = {} /\ stash' = stash /\ tag' = tag
  BY ShelveTyped DEF Pop, TypeOK
<1> QED BY <1>1, <1>2 DEF Pop, Goto, TypeOK, remote, branch, ghosts

LEMMA AbandonTyped ==
    ASSUME GitAssumption, TypeOK, Abandon
    PROVE  /\ shelf' \subseteq Edits /\ held' = {} /\ stash' = stash /\ tag' = tag
           /\ origin' = origin /\ edits' = edits /\ unmerged' = unmerged
           /\ wedged' = wedged /\ keep' = keep /\ wrote' = wrote /\ loose' = loose
           /\ killed' = TRUE /\ pc' = "idle" /\ calm' = calm
<1>1. Contents(stash, held) \subseteq Edits
  BY ShelfIt DEF TypeOK
<1> QED BY <1>1 DEF Abandon, TypeOK, remote, ghosts

LEMMA KillTyped == ASSUME GitAssumption, TypeOK, Kill \/ KillRebase PROVE TypeOK'
<1>1. CASE Kill
  BY <1>1, AbandonTyped DEF Kill, TypeOK, branch
<1>2. CASE KillRebase
  <2>1. base' \in Commits /\ head' \in Files /\ tree' \in Files /\ ahead' = {} /\ log' = {}
    BY <1>2 DEF KillRebase, TypeOK, Commits
  <2>2. orig' \in [open : {TRUE}, at : Branches]
    BY <1>2, HereIt DEF KillRebase
  <2> QED BY <1>2, <2>1, <2>2, AbandonTyped DEF KillRebase, TypeOK
<1> QED BY <1>1, <1>2

LEMMA OtherTyped ==
    ASSUME TypeOK, Sync \/ PushFails \/ Settle \/ UNCHANGED vars PROVE TypeOK'
  BY DEF Sync, PushFails, Settle, Goto, TypeOK, vars, remote, branch, stashed, ghosts

(* Every step keeps the types. *)
LEMMA TypeStep == ASSUME GitAssumption, TypeOK, [Next]_vars PROVE TypeOK'
<1>1. CASE UNCHANGED vars
  BY <1>1, OtherTyped
<1>2. CASE Next
  <2>1. Touched \subseteq Paths /\ Decisions \subseteq Paths /\ Wedges \subseteq Paths
    BY DEF GitAssumption
  <2> QED BY <1>2, <2>1, OthersTyped, DeptTyped, CommitTyped, PushTyped, StashTyped,
             PullTyped, RecoverTyped, PullFailsTyped, RestoreTyped, PopTyped,
             KillTyped, OtherTyped DEF Next, SyncStep
<1> QED BY <1>1, <1>2

(* Every variable keeps its type, for any files and bounds. *)
THEOREM Typing == Spec => []TypeOK
<1>1. Init => TypeOK
  BY InitTyped, GitAssumption
<1>2. TypeOK /\ [Next]_vars => TypeOK'
  BY TypeStep, GitAssumption
<1> QED BY <1>1, <1>2, PTL DEF Spec

----------------------------------------------------------------------------
(* The invariant *)

LEMMA InContents ==
    ASSUME NEW f, NEW P, NEW e
    PROVE  e \in Contents(f, P) <=> e # 0 /\ \E p \in P : f[p] = e
  BY DEF Contents

(* A branch stays sound when main and the loose edits grow and the wanted edits
   shrink or get new ones. *)
LEMMA SoundGrows ==
    ASSUME NEW b, NEW o, NEW o2, NEW k, NEW k2, NEW l, NEW l2, NEW n \in Nat, NEW n2 \in Nat,
           Sound(b, o, k, l, n), o \subseteq o2, l \subseteq l2, n <= n2,
           \A e \in k2 : e \in k \/ e \notin 1 .. n
    PROVE  Sound(b, o2, k2, l2, n2)
  BY DEF Sound

(* What a step has to show when it leaves the branch alone. *)
LEMMA BranchKept ==
    ASSUME GitAssumption, IInv, TypeOK', UNCHANGED <<branch, orig>>,
           origin.log \subseteq origin'.log, loose' = loose, edits <= edits',
           \A e \in keep' : e \in keep \/ e \notin 1 .. edits
    PROVE  Sound(Here, origin.log, keep, loose, edits)' /\ Rebasing'
<1>1. edits \in Nat /\ edits' \in Nat
  BY Numbers DEF IInv, TypeOK
<1>2. Here' = Here
  BY DEF Here, branch
<1>3. Sound(Here, origin'.log, keep', loose', edits')
  BY <1>1, SoundGrows DEF IInv
<1>4. ASSUME orig.open PROVE log' \subseteq loose' /\ Sound(orig.at, origin'.log, keep', loose', edits')
  BY <1>1, <1>4, SoundGrows DEF IInv, Rebasing, branch
<1> QED BY <1>2, <1>3, <1>4 DEF Rebasing

LEMMA InitIInv == ASSUME GitAssumption, Init PROVE IInv
<1>1. TypeOK
  BY InitTyped
<1>2. \A p \in Paths : First[p] \in {0, 1}
  BY DEF First
<1>3. Numbered
  BY <1>2 DEF Init, Numbered
<1>4. Grounded(origin) /\ Grounded(base)
  BY <1>2 DEF Init, Grounded
<1>5. Sound(Here, origin.log, keep, loose, edits)
  BY <1>1, <1>2, <1>4, HereIt DEF Init, Sound
<1>6. Phase /\ Rebasing /\ InPlace /\ NothingLost
  BY DEF Init, Phase, Rebasing, InPlace, NothingLost
<1> QED BY <1>1, <1>3, <1>4, <1>5, <1>6 DEF IInv

(* Others commit to main. *)
LEMMA LandsStep ==
    ASSUME GitAssumption, IInv, TypeOK', NEW f, Lands(f),
           \A p \in Paths : f[p] \in origin.log \cup {0, edits + 1}
    PROVE  IInv'
<1>0. edits \in Nat /\ edits' = edits + 1 /\ origin'.log = origin.log \cup {edits'}
      /\ origin'.files = f
  BY Numbers DEF Lands, IInv, TypeOK
<1>1. UNCHANGED <<branch, tree, unmerged, wedged, stashed, orig, pc, ghosts, killed, calm>>
  BY DEF Lands
<1>2. Numbered'
  BY <1>0, <1>1 DEF IInv, Numbered, stashed
<1>3. Phase'
  BY <1>1 DEF IInv, Phase, branch, stashed
<1>4. Grounded(origin)'
  BY <1>0 DEF Grounded
<1>5. Sound(Here, origin.log, keep, loose, edits)' /\ Rebasing'
  BY <1>0, <1>1, BranchKept DEF ghosts
<1>6. InPlace'
  BY <1>0, <1>1 DEF IInv, InPlace, branch, ghosts
<1>7. NothingLost'
  BY <1>0, <1>1 DEF IInv, NothingLost, Reached, branch, stashed, ghosts
<1> QED BY <1>2, <1>3, <1>4, <1>5, <1>6, <1>7 DEF IInv

LEMMA OthersStep ==
    ASSUME GitAssumption, IInv, TypeOK', NEW p \in Paths,
           \/ Merge(p) \/ Drop(p)
           \/ p \in Decisions /\ ExecuteThere(p)
    PROVE  IInv'
<1>0. origin.files \in Files /\ \A q \in Paths : origin.files[q] \in origin.log \cup {0}
  BY DEF IInv, TypeOK, Commits, Grounded
<1>1. CASE Merge(p)
  <2>1. \A q \in Paths : [origin.files EXCEPT ![p] = edits + 1][q] \in origin.log \cup {0, edits + 1}
    BY <1>0 DEF Files
  <2> QED BY <1>1, <2>1, LandsStep DEF Merge
<1>2. CASE Drop(p)
  <2>1. \A q \in Paths : [origin.files EXCEPT ![p] = 0][q] \in origin.log \cup {0, edits + 1}
    BY <1>0 DEF Files
  <2> QED BY <1>2, <2>1, LandsStep DEF Drop
<1>3. CASE p \in Decisions /\ ExecuteThere(p)
  <2>1. \A q \in Paths : Archived(origin.files, p)[q] \in origin.log \cup {0, edits + 1}
    BY <1>0, <1>3, ArchivedIt
  <2> QED BY <1>3, <2>1, LandsStep DEF ExecuteThere
<1> QED BY <1>1, <1>2, <1>3

(* The department writes a file: the edit that was there is no longer wanted. *)
LEMMA WorkStep ==
    ASSUME GitAssumption, IInv, TypeOK', NEW p \in Paths \ Archives, Work(p)
    PROVE  IInv'
<1>0. /\ edits \in Nat /\ edits' = edits + 1
      /\ tree' = [tree EXCEPT ![p] = edits + 1] /\ tree \in Files
      /\ keep' = (keep \ {tree[p]}) \cup {edits + 1}
      /\ pc = "idle" /\ p \in Paths
  BY Numbers DEF Work, IInv, TypeOK
<1>1. UNCHANGED <<origin, branch, unmerged, wedged, stashed, orig, pc, loose>>
  BY DEF Work
<1>2. /\ tree'[p] = edits + 1 /\ \A q \in Paths : q # p => tree'[q] = tree[q]
  BY <1>0 DEF Files
<1>3. Numbered'
  <2>1. \A q \in Paths : tree'[q] \in 0 .. edits'
    BY <1>0, <1>2 DEF IInv, Numbered
  <2> QED BY <1>0, <1>1, <2>1 DEF IInv, Numbered, stashed
<1>4. Phase'
  BY <1>0, <1>1 DEF IInv, Phase, branch, stashed
<1>5. Grounded(origin)'
  BY <1>1 DEF IInv, Grounded
<1>6. \A e \in keep' : e \in keep \/ e \notin 1 .. edits
  BY <1>0
<1>7. Sound(Here, origin.log, keep, loose, edits)' /\ Rebasing'
  BY <1>0, <1>1, <1>6, BranchKept
<1>8. InPlace'
  <2> SUFFICES ASSUME NEW q \in ahead, head[q] \in keep'
               PROVE  head[q] \in origin.log \cup loose \/ \E r \in Runtime : tree'[r] = head[q]
    BY <1>1 DEF InPlace, branch
  <2>1. head[q] \in 0 .. edits /\ Runtime \subseteq Paths
    BY HereIt DEF IInv, Sound, GitAssumption
  <2>2. head[q] \in keep /\ head[q] # tree[p]
    BY <1>0, <2>1
  <2> QED BY <1>2, <2>1, <2>2 DEF IInv, InPlace
<1>9. NothingLost'
  <2> SUFFICES ASSUME NEW e \in keep' PROVE e \in Reached' \cup loose'
    BY DEF NothingLost
  <2>1. CASE e = edits + 1
    <3>1. e # 0
      BY <1>0, <2>1
    <3>2. e \in Contents(tree', Paths)
      BY <1>0, <1>2, <2>1, <3>1, InContents
    <3> QED BY <3>2 DEF Reached
  <2>2. CASE e # edits + 1
    <3>1. e \in keep /\ e # tree[p]
      BY <1>0, <2>2
    <3>2. e \in Contents(tree, Paths) => e \in Contents(tree', Paths)
      BY <1>2, <3>1, InContents
    <3> QED BY <1>1, <3>1, <3>2 DEF IInv, NothingLost, Reached, branch, stashed
  <2> QED BY <2>1, <2>2
<1> QED BY <1>3, <1>4, <1>5, <1>7, <1>8, <1>9 DEF IInv

(* A decision moves to the archive, over an older one of its name. *)
LEMMA ExecuteHereStep ==
    ASSUME GitAssumption, IInv, TypeOK', NEW d \in Decisions, ExecuteHere(d)
    PROVE  IInv'
<1> DEFINE a == ArchiveOf[d]
<1>0. tree \in Files /\ a \in Runtime /\ a # d /\ d \in Runtime /\ d \in Paths /\ a \in Paths
      /\ edits \in Nat /\ pc = "idle"
  BY ArchivedIt, Numbers DEF IInv, TypeOK, GitAssumption, ExecuteHere
<1>1. /\ tree'[d] = 0 /\ tree'[a] = tree[d]
      /\ \A q \in Paths \ {d, a} : tree'[q] = tree[q]
      /\ keep' = keep \ {tree[a]} /\ tree[d] # 0
  BY <1>0, ArchivedIt DEF ExecuteHere
<1>2. UNCHANGED <<remote, branch, unmerged, wedged, stashed, orig, pc, loose>>
  BY DEF ExecuteHere
<1> HIDE DEF a
<1>3. Numbered'
  <2>1. \A q \in Paths : tree'[q] \in 0 .. edits
    BY <1>0, <1>1 DEF IInv, Numbered
  <2> QED BY <1>2, <2>1 DEF IInv, Numbered, stashed, remote
<1>4. Phase'
  BY <1>0, <1>2 DEF IInv, Phase, branch, stashed
<1>5. Grounded(origin)'
  BY <1>2 DEF IInv, Grounded, remote
<1>6. Sound(Here, origin.log, keep, loose, edits)' /\ Rebasing'
  BY <1>0, <1>1, <1>2, BranchKept DEF remote
<1>7. ASSUME NEW e, e \in keep', NEW P, P \in {Paths, Runtime},
             \E q \in P : tree[q] = e
      PROVE  \E q \in P : tree'[q] = e
  <2>1. Runtime \subseteq Paths
    BY DEF GitAssumption
  <2>2. PICK q \in P : tree[q] = e
    BY <1>7
  <2>3. q # a
    BY <1>1, <1>7, <2>2
  <2> QED BY <1>0, <1>1, <1>7, <2>1, <2>2, <2>3
<1>8. InPlace'
  BY <1>1, <1>2, <1>7 DEF IInv, InPlace, branch, remote
<1>9. NothingLost'
  <2> SUFFICES ASSUME NEW e \in keep' PROVE e \in Reached' \cup loose'
    BY DEF NothingLost
  <2>1. e \in Contents(tree, Paths) => e \in Contents(tree', Paths)
    BY <1>7, InContents
  <2> QED BY <1>1, <1>2, <2>1 DEF IInv, NothingLost, Reached, branch, stashed, remote
<1> QED BY <1>3, <1>4, <1>5, <1>6, <1>8, <1>9 DEF IInv

(* Steps that move nothing but the control. *)
LEMMA ControlStep ==
    ASSUME GitAssumption, IInv, TypeOK', Phase',
           UNCHANGED <<remote, branch, tree, stashed, orig, ghosts>>
    PROVE  IInv'
<1>1. Numbered' /\ Grounded(origin)'
  BY DEF IInv, Numbered, Grounded, remote, stashed
<1>2. Sound(Here, origin.log, keep, loose, edits)' /\ Rebasing'
  <2>1. edits' = edits /\ edits \in Nat /\ origin' = origin /\ loose' = loose /\ keep' = keep
    BY Numbers DEF remote, ghosts, IInv, TypeOK
  <2> QED BY <2>1, BranchKept
<1>3. InPlace' /\ NothingLost'
  BY DEF IInv, InPlace, NothingLost, Reached, remote, branch, stashed, ghosts
<1> QED BY <1>1, <1>2, <1>3 DEF IInv

LEMMA OtherStep ==
    ASSUME GitAssumption, IInv, TypeOK',
           \/ Sync \/ PushFails \/ Settle \/ UNCHANGED vars
           \/ \E p \in Wedges : Wedge(p)
    PROVE  IInv'
<1>1. UNCHANGED <<remote, branch, tree, stashed, orig, ghosts>>
  BY DEF Sync, PushFails, Settle, Wedge, vars
<1>2. Phase'
  <2>1. CASE Sync
    BY <1>1, <2>1 DEF IInv, Phase, Sync, Goto, branch, stashed
  <2>2. CASE PushFails
    BY <1>1, <2>2 DEF IInv, Phase, PushFails, Goto, branch, stashed
  <2>3. CASE Settle \/ UNCHANGED vars \/ \E p \in Wedges : Wedge(p)
    BY <1>1, <2>3 DEF IInv, Phase, Settle, Wedge, vars, branch, stashed
  <2> QED BY <2>1, <2>2, <2>3
<1> QED BY <1>1, <1>2, ControlStep

(* What is committed is what the checkout holds: a wanted edit whose file at
   HEAD is replaced is in another runtime file of the checkout. *)
LEMMA CommitStep == ASSUME GitAssumption, IInv, TypeOK', Commit PROVE IInv'
<1> DEFINE S == Dirty \cap Runtime
<1>0. /\ UNCHANGED <<remote, tree, unmerged, stashed, orig, keep, wrote>>
      /\ pc = "commit" /\ edits \in Nat
  BY Numbers DEF Commit, IInv, TypeOK
<1>1. CASE S = {} \/ unmerged # {}
  <2>1. UNCHANGED <<branch, loose>> /\ pc' = "stash"
    BY <1>1 DEF Commit, Goto
  <2>2. unmerged = {} => \A p \in Runtime : tree[p] = head[p]
    BY <1>1 DEF Dirty, GitAssumption
  <2>3. Phase'
    BY <1>0, <2>1, <2>2 DEF IInv, Phase, branch, stashed
  <2> QED BY <1>0, <2>1, <2>3, ControlStep DEF ghosts
<1>2. CASE S # {} /\ unmerged = {}
  <2>1. /\ pc' = "push" /\ base' = base
        /\ head' = [p \in Paths |-> IF p \in S THEN tree[p] ELSE head[p]]
        /\ ahead' = ahead \cup S
        /\ log' = log \cup Contents(tree, S)
        /\ loose' = IF orig.open THEN loose \cup Contents(tree, S) ELSE loose
    BY <1>2 DEF Commit, Goto
  <2>2. S \subseteq Runtime /\ S \subseteq Paths /\ Runtime \subseteq Paths
    BY DEF GitAssumption
  <2>3. \A p \in Runtime : head'[p] = tree[p]
    BY <1>2, <2>1, <2>2 DEF Dirty
  <2>4. \A p \in Paths \ S : head'[p] = head[p]
    BY <2>1
  <2>5. \A e : e \in Contents(tree, S) <=> e # 0 /\ \E p \in S : tree[p] = e
    BY InContents
  <2>6. /\ Sound(Here, origin.log, keep, loose, edits) /\ Numbered /\ TypeOK
        /\ InPlace /\ NothingLost /\ Phase
    BY DEF IInv
  <2> HIDE DEF S
  <2>7. Numbered' /\ Grounded(origin)'
    BY <1>0 DEF IInv, Numbered, Grounded, remote, stashed
  <2>8. Phase'
    BY <1>0, <2>1, <2>3, <2>6 DEF Phase, stashed
  <2>9. loose \subseteq loose' /\ origin' = origin /\ edits' = edits /\ keep' = keep
        /\ tree' = tree /\ orig' = orig
    BY <1>0, <2>1 DEF remote
  <2>10. Sound(Here, origin.log, keep, loose, edits)'
    <3>1. Here' \in Branches /\ Here'.base = base /\ Here'.head = head'
          /\ Here'.ahead = ahead' /\ Here'.log = log'
      BY <2>1 DEF Here, TypeOK, Branches
    <3>2. Here.base = base /\ Here.head = head /\ Here.ahead = ahead /\ Here.log = log
      BY DEF Here
    <3>3. ahead' \subseteq Runtime /\ log' \subseteq 1 .. edits
      <4>1. \A e \in Contents(tree, S) : e \in 1 .. edits
        BY <1>0, <2>2, <2>5, <2>6 DEF Numbered
      <4> QED BY <2>1, <2>2, <2>6, <3>2, <4>1 DEF Sound
    <3>4. \A p \in Paths : head'[p] \in 0 .. edits
      BY <2>1, <2>6, <3>2 DEF Sound, Numbered
    <3>5. \A p \in Paths \ ahead' : head'[p] = base.files[p]
      BY <2>1, <2>4, <2>6, <3>2 DEF Sound
    <3>6. \A p \in ahead' : head'[p] \in log' \cup {0}
      <4> SUFFICES ASSUME NEW p \in ahead' PROVE head'[p] \in log' \cup {0}
        OBVIOUS
      <4>1. CASE p \in S
        BY <2>1, <2>2, <2>5, <4>1
      <4>2. CASE p \notin S
        BY <2>1, <2>2, <2>4, <2>6, <3>2, <3>3, <4>2 DEF Sound
      <4> QED BY <4>1, <4>2
    <3>7. ahead' # {}
      BY <1>2, <2>1 DEF S
    <3>8. ASSUME NEW e \in log' \cap keep
          PROVE  e \in origin.log \cup loose' \/ \E p \in ahead' : head'[p] = e
      <4>1. CASE e \in Contents(tree, S)
        BY <2>1, <2>2, <2>3, <2>5, <4>1
      <4>2. CASE e \in log /\ e \notin origin.log \cup loose
        <5>1. PICK p \in ahead : head[p] = e
          BY <2>6, <3>2, <4>2 DEF Sound
        <5>2. PICK q \in Runtime : tree[q] = e
          BY <2>6, <4>2, <5>1, <3>8 DEF InPlace
        <5>3. CASE q \in S
          BY <2>1, <2>3, <5>2, <5>3
        <5>4. CASE q \notin S /\ q \in ahead
          BY <2>1, <2>3, <5>2, <5>4
        <5>5. CASE q \notin S /\ q \notin ahead
          <6>1. head[q] = e /\ q \in Paths
            BY <2>2, <2>3, <2>4, <5>2, <5>5
          <6>2. base.files[q] = e
            BY <2>6, <3>2, <5>5, <6>1 DEF Sound
          <6>3. e # 0
            BY <2>6, <3>2, <4>2 DEF Sound
          <6> QED BY <2>6, <3>2, <6>1, <6>2, <6>3 DEF Sound, Grounded
        <5> QED BY <5>3, <5>4, <5>5
      <4> QED BY <2>1, <2>9, <4>1, <4>2
    <3> QED BY <2>6, <2>9, <3>1, <3>2, <3>3, <3>4, <3>5, <3>6, <3>7, <3>8 DEF Sound
  <2>11. Rebasing'
    <3>1. ASSUME orig.open PROVE log' \subseteq loose'
      BY <2>1, <3>1 DEF IInv, Rebasing
    <3>2. ASSUME orig.open PROVE Sound(orig.at, origin.log, keep, loose', edits)
      BY <1>0, <2>9, <3>2, SoundGrows DEF IInv, Rebasing
    <3> QED BY <2>9, <3>1, <3>2 DEF Rebasing
  <2>12. InPlace'
    <3>1. ahead' \subseteq Runtime
      BY <2>1, <2>2, <2>6, HereIt DEF Sound
    <3> QED BY <2>3, <2>9, <3>1 DEF InPlace
  <2>13. NothingLost'
    BY <1>0, <2>1, <2>6, <2>9 DEF NothingLost, Reached, stashed
  <2> QED BY <2>7, <2>8, <2>10, <2>11, <2>12, <2>13 DEF IInv
<1> QED BY <1>1, <1>2

(* The unpushed edits become edits of main. *)
LEMMA PushStep == ASSUME GitAssumption, IInv, TypeOK', Push PROVE IInv'
<1>0. /\ UNCHANGED <<edits, head, tree, unmerged, wedged, stashed, orig, ghosts>>
      /\ pc = "push" /\ pc' = "stash" /\ ~orig.open
      /\ origin'.files = head /\ origin'.log = origin.log \cup log /\ base' = origin'
      /\ ahead' = {} /\ log' = {} /\ edits \in Nat
  BY Numbers DEF Push, Goto, IInv, TypeOK
<1>1. /\ Sound(Here, origin.log, keep, loose, edits) /\ Numbered /\ TypeOK
      /\ InPlace /\ NothingLost /\ Phase
      /\ Here.base = base /\ Here.head = head /\ Here.ahead = ahead /\ Here.log = log
  BY HereIt DEF IInv
<1>2. \A p \in Paths : head[p] \in origin.log \cup log \cup {0}
  <2> SUFFICES ASSUME NEW p \in Paths PROVE head[p] \in origin.log \cup log \cup {0}
    OBVIOUS
  <2>1. CASE p \in ahead
    BY <1>1, <2>1 DEF Sound
  <2>2. CASE p \notin ahead
    BY <1>1, <2>2 DEF Sound, Grounded
  <2> QED BY <2>1, <2>2
<1>3. Grounded(origin)' /\ Grounded(base)'
  BY <1>0, <1>2 DEF Grounded
<1>4. Numbered'
  BY <1>0, <1>1 DEF Numbered, Sound, stashed
<1>5. Phase'
  BY <1>0, <1>1 DEF Phase, stashed
<1>6. Sound(Here, origin.log, keep, loose, edits)'
  <2>1. /\ Here' \in Branches /\ Here'.base = base' /\ Here'.head = head
        /\ Here'.ahead = {} /\ Here'.log = {}
    BY <1>0, HereIt DEF Here, TypeOK, Branches
  <2> QED BY <1>0, <1>1, <1>3, <2>1 DEF Sound
<1>7. Rebasing' /\ InPlace'
  BY <1>0 DEF Rebasing, InPlace
<1>8. NothingLost'
  BY <1>0, <1>1 DEF NothingLost, Reached, stashed, ghosts
<1> QED BY <1>3, <1>4, <1>5, <1>6, <1>7, <1>8 DEF IInv

(* The stash takes all that differs from HEAD. *)
LEMMA StashStep == ASSUME GitAssumption, IInv, TypeOK', Stash PROVE IInv'
<1>0. /\ UNCHANGED <<remote, branch, unmerged, shelf, orig, ghosts>>
      /\ pc = "stash" /\ pc' = "pull" /\ tag' = head /\ edits \in Nat
      /\ origin' = origin /\ edits' = edits /\ loose' = loose /\ keep' = keep
      /\ head' = head /\ ahead' = ahead /\ log' = log
  BY Numbers DEF Stash, Goto, IInv, TypeOK, remote, ghosts, branch
<1>1. /\ Sound(Here, origin.log, keep, loose, edits) /\ Numbered /\ TypeOK
      /\ InPlace /\ NothingLost /\ Phase /\ held = {}
      /\ Here.base = base /\ Here.head = head /\ Here.ahead = ahead /\ Here.log = log
  BY <1>0, HereIt DEF IInv, Phase
<1>2. \A p \in Paths : head[p] \in 0 .. edits
  BY <1>1 DEF Sound
<1>3. Sound(Here, origin.log, keep, loose, edits)' /\ Rebasing'
  BY <1>0, BranchKept
<1>4. Grounded(origin)'
  BY <1>0 DEF IInv, Grounded
<1>5. CASE unmerged # {}
  <2>1. held' = {} /\ stash' = stash /\ tree' = tree
    BY <1>5 DEF Stash
  <2>2. Numbered' /\ Phase'
    BY <1>0, <1>1, <1>2, <1>5, <2>1 DEF Numbered, Phase
  <2>3. InPlace' /\ NothingLost'
    BY <1>0, <1>1, <2>1 DEF InPlace, NothingLost, Reached
  <2> QED BY <1>3, <1>4, <2>2, <2>3 DEF IInv
<1>6. CASE unmerged = {}
  <2>1. held' = Dirty /\ stash' = tree /\ tree' = head
    BY <1>6 DEF Stash
  <2>2. /\ \A p \in Paths : p \in Dirty <=> tree[p] # head[p]
        /\ \A p \in Runtime : tree[p] = head[p] /\ p \in Paths
    BY <1>0, <1>1, <1>6 DEF Dirty, Phase, GitAssumption
  <2>3. Numbered'
    BY <1>0, <1>1, <1>2, <2>1 DEF Numbered
  <2>4. Phase'
    BY <1>0, <1>1, <1>6, <2>1, <2>2 DEF Phase
  <2>5. InPlace'
    BY <1>0, <1>1, <2>1 DEF InPlace, Sound
  <2>6. NothingLost'
    <3> SUFFICES ASSUME NEW e \in keep PROVE e \in Reached' \cup loose
      BY <1>0 DEF NothingLost
    <3>1. ASSUME e \in Contents(tree, Paths)
          PROVE  e \in Contents(head, Paths) \cup Contents(tree, Dirty)
      <4>1. e # 0 /\ \E p \in Paths : tree[p] = e
        BY <3>1, InContents
      <4> QED BY <2>2, <4>1, InContents
    <3> QED BY <1>0, <1>1, <2>1, <3>1 DEF NothingLost, Reached, Contents
  <2> QED BY <1>3, <1>4, <2>3, <2>4, <2>5, <2>6 DEF IInv
<1> QED BY <1>5, <1>6

(* The pull: what was at HEAD is unpushed or it is in the history of main. *)
LEMMA Settled ==
    ASSUME IInv, NEW p \in Paths \ ahead, head[p] # 0
    PROVE  head[p] \in origin.log
<1>1. Sound(Here, origin.log, keep, loose, edits) /\ Here.base = base /\ Here.head = head
      /\ Here.ahead = ahead
  BY HereIt DEF IInv
<1> QED BY <1>1 DEF Sound, Grounded

LEMMA PullStep == ASSUME GitAssumption, IInv, TypeOK', Pull PROVE IInv'
<1>0. /\ UNCHANGED <<remote, unmerged, wedged, stashed, orig, ghosts>>
      /\ pc = "pull" /\ pc' = "restore" /\ base' = origin /\ tree' = head'
      /\ unmerged = {} /\ ~orig.open /\ edits \in Nat
      /\ origin' = origin /\ edits' = edits /\ loose' = loose /\ keep' = keep
  BY Numbers DEF Pull, Goto, Blocked, IInv, TypeOK, remote, ghosts
<1>1. /\ Sound(Here, origin.log, keep, loose, edits) /\ Numbered /\ TypeOK
      /\ NothingLost /\ Phase /\ Grounded(origin)
      /\ Here.base = base /\ Here.head = head /\ Here.ahead = ahead /\ Here.log = log
  BY HereIt DEF IInv
<1>2. /\ head' \in Files
      /\ \A p \in ahead : head'[p] = head[p]
      /\ \A p \in Paths \ ahead : head'[p] = origin.files[p]
      /\ ahead' = {p \in ahead : head[p] # origin.files[p]}
      /\ log' = IF ahead' = {} THEN {} ELSE log
      /\ ahead \subseteq Paths
  BY <1>1 DEF Pull, TypeOK
<1>3. \A p \in Paths : head'[p] \in 0 .. edits
  BY <1>0, <1>1, <1>2 DEF Sound, Numbered, Grounded
<1>4. Numbered' /\ Grounded(origin)'
  BY <1>0, <1>1, <1>3 DEF Numbered, Grounded, stashed
<1>5. Phase'
  BY <1>0, <1>1 DEF Phase, stashed
<1>6. \A e \in log \cap keep : e \in origin.log \cup loose \/ \E p \in ahead' : head'[p] = e
  <2> SUFFICES ASSUME NEW e \in log \cap keep, e \notin origin.log \cup loose
               PROVE  \E p \in ahead' : head'[p] = e
    OBVIOUS
  <2>1. PICK p \in ahead : head[p] = e
    BY <1>1 DEF Sound
  <2>2. e # 0
    BY <1>0, <1>1 DEF Sound
  <2>3. origin.files[p] # e
    BY <1>1, <1>2, <2>2 DEF Grounded
  <2> QED BY <1>2, <2>1, <2>3
<1>7. Sound(Here, origin.log, keep, loose, edits)'
  <2>1. /\ Here' \in Branches /\ Here'.base = origin /\ Here'.head = head'
        /\ Here'.ahead = ahead' /\ Here'.log = log'
    BY <1>0, <1>1, <1>2 DEF Here, TypeOK, Branches
  <2>2. \A p \in ahead' : head'[p] \in log' \cup {0}
    BY <1>1, <1>2 DEF Sound
  <2>3. \A p \in Paths \ ahead' : head'[p] = origin.files[p]
    BY <1>2
  <2> QED BY <1>0, <1>1, <1>2, <1>3, <1>6, <2>1, <2>2, <2>3 DEF Sound
<1>8. Rebasing' /\ InPlace'
  <2>1. ahead' \subseteq Runtime
    BY <1>1, <1>2 DEF Sound
  <2> QED BY <1>0, <2>1 DEF Rebasing, InPlace
<1>9. NothingLost'
  <2> SUFFICES ASSUME NEW e \in keep, e \notin origin.log \cup loose
               PROVE  e \in Reached'
    BY <1>0 DEF NothingLost, Reached
  <2>1. CASE e \in Contents(tree, Paths)
    <3>1. PICK p \in Paths : head[p] = e
      BY <1>0, <1>1, <2>1, InContents DEF Phase
    <3>2. e # 0
      BY <2>1, InContents
    <3>3. p \in ahead
      BY <3>1, <3>2, Settled DEF IInv
    <3>4. e \in Contents(tree', Paths)
      BY <1>0, <1>2, <3>1, <3>2, <3>3, InContents
    <3> QED BY <3>4 DEF Reached
  <2>2. CASE e \in log
    <3>1. \E p \in Paths : tree'[p] = e
      BY <1>0, <1>2, <1>6, <2>2
    <3>2. e # 0
      BY <1>0, <1>1, <2>2 DEF Sound
    <3>3. e \in Contents(tree', Paths)
      BY <3>1, <3>2, InContents
    <3> QED BY <3>3 DEF Reached
  <2>3. CASE e \in Contents(stash, held) \cup shelf
    BY <1>0, <2>3 DEF Reached, stashed
  <2> QED BY <1>0, <1>1, <2>1, <2>2, <2>3 DEF NothingLost, Reached
<1> QED BY <1>4, <1>5, <1>7, <1>8, <1>9 DEF IInv

(* The hard reset: with nothing unpushed and a clean checkout, everything that
   was there is in the history of main. *)
LEMMA CleanIsMain ==
    ASSUME IInv, tree = head, ahead = {}, NEW e \in Contents(tree, Paths)
    PROVE  e \in origin.log
<1>1. PICK p \in Paths : head[p] = e
  BY InContents
<1>2. e # 0
  BY InContents
<1> QED BY <1>1, <1>2, Settled

LEMMA RecoverStep == ASSUME GitAssumption, IInv, TypeOK', Recover PROVE IInv'
<1>0. /\ UNCHANGED <<remote, unmerged, stashed, orig, ghosts>>
      /\ pc = "pull" /\ pc' = "restore" /\ ahead = {} /\ ahead' = {} /\ log' = {}
      /\ base' = origin /\ head' = origin.files /\ tree' = origin.files
      /\ unmerged = {} /\ ~orig.open /\ edits \in Nat
      /\ origin' = origin /\ edits' = edits /\ loose' = loose /\ keep' = keep
  BY Numbers DEF Recover, Proven, Goto, Blocked, IInv, TypeOK, remote, ghosts
<1>1. /\ Sound(Here, origin.log, keep, loose, edits) /\ Numbered /\ TypeOK
      /\ NothingLost /\ Phase /\ Grounded(origin) /\ tree = head
      /\ Here.ahead = ahead /\ Here.log = log /\ log = {}
  BY <1>0, HereIt DEF IInv, Sound, Phase
<1>2. \A p \in Paths : origin.files[p] \in 0 .. edits
  BY <1>0, <1>1 DEF Numbered, Grounded
<1>3. Numbered' /\ Grounded(origin)'
  BY <1>0, <1>1, <1>2 DEF Numbered, Grounded, stashed
<1>4. Phase'
  BY <1>0, <1>1 DEF Phase, stashed
<1>5. Sound(Here, origin.log, keep, loose, edits)'
  <2>1. /\ Here' \in Branches /\ Here'.base = origin /\ Here'.head = origin.files
        /\ Here'.ahead = {} /\ Here'.log = {}
    BY <1>0, <1>1 DEF Here, TypeOK, Branches, Commits
  <2> QED BY <1>0, <1>1, <1>2, <2>1 DEF Sound
<1>6. Rebasing' /\ InPlace'
  BY <1>0 DEF Rebasing, InPlace
<1>7. NothingLost'
  BY <1>0, <1>1, CleanIsMain DEF NothingLost, Reached, stashed
<1> QED BY <1>3, <1>4, <1>5, <1>6, <1>7 DEF IInv

(* A stash that is popped: what it held is in the checkout or on the shelf. *)
LEMMA ShelveKeeps ==
    ASSUME TypeOK, NEW h, Shelve(h), NEW b, NEW f,
           tree' = Popped(f, b), PopFails(h) \/ b = held,
           NEW e \in Contents(stash, held)
    PROVE  e \in Contents(tree', Paths) \cup shelf'
<1>1. CASE PopFails(h)
  BY <1>1 DEF Shelve
<1>2. CASE ~PopFails(h)
  <2>1. PICK p \in held : stash[p] = e
    BY InContents
  <2>2. e # 0 /\ p \in Paths /\ p \in b
    BY <1>2, <2>1, InContents DEF TypeOK
  <2>3. tree'[p] = e
    BY <2>1, <2>2 DEF Popped
  <2> QED BY <2>2, <2>3, InContents
<1> QED BY <1>1, <1>2

LEMMA PullFailsStep == ASSUME GitAssumption, IInv, TypeOK', PullFails PROVE IInv'
<1>0. /\ UNCHANGED <<remote, wedged, ghosts>> /\ orig'.open = FALSE
      /\ pc = "pull" /\ pc' = "idle" /\ edits \in Nat
      /\ origin' = origin /\ edits' = edits /\ loose' = loose /\ keep' = keep
  BY Numbers DEF PullFails, Goto, IInv, TypeOK, remote, ghosts
<1>1. /\ Sound(Here, origin.log, keep, loose, edits) /\ Numbered /\ TypeOK
      /\ InPlace /\ NothingLost /\ Phase /\ Grounded(origin) /\ Rebasing
      /\ Here.base = base /\ Here.head = head /\ Here.ahead = ahead /\ Here.log = log
  BY HereIt DEF IInv
<1> DEFINE h == Back.head
           b == held \ Clash(h)
           f == IF orig.open THEN h ELSE tree
<1>2. /\ Back \in Branches /\ base' = Back.base /\ head' = h
      /\ ahead' = Back.ahead /\ log' = Back.log
      /\ Shelve(h) /\ tree' = Popped(f, b) /\ h \in Files
  BY <1>1, BackIt
<1>3. Sound(Back, origin.log, keep, loose, edits)
  BY <1>1 DEF Back, Rebasing
<1>4. PopFails(h) \/ b = held
  BY DEF PopFails
<1>5. b \subseteq held /\ held \cap Runtime = {} /\ held \subseteq Paths
      /\ Runtime \subseteq Paths
  BY <1>1 DEF Phase, TypeOK, GitAssumption
<1>6. /\ shelf \subseteq shelf' /\ held' = {} /\ stash' = stash /\ tag' = tag
  BY <1>2 DEF Shelve
<1>7. \A p \in Paths : h[p] \in 0 .. edits /\ f[p] \in 0 .. edits
  BY <1>1, <1>3 DEF Sound, Numbered
<1> HIDE DEF h, b, f
<1>8. \A p \in Paths : tree'[p] = IF p \in b THEN stash[p] ELSE f[p]
  BY <1>2 DEF Popped
<1>9. Numbered' /\ Grounded(origin)'
  BY <1>0, <1>1, <1>6, <1>7, <1>8 DEF Numbered, Grounded
<1>10. Phase'
  BY <1>0, <1>6 DEF Phase
<1>11. Sound(Here, origin.log, keep, loose, edits)'
  <2>1. Here' = Back
    BY <1>2 DEF Here, Branches, h
  <2> QED BY <1>0, <1>3, <2>1
<1>12. Rebasing'
  BY <1>0 DEF Rebasing
<1>13. \A p \in Runtime : tree'[p] = f[p]
  BY <1>5, <1>8
<1>14. InPlace'
  <2>1. CASE orig.open
    BY <1>0, <1>2, <1>3, <1>13, <2>1 DEF InPlace, Sound, f, h
  <2>2. CASE ~orig.open
    <3>1. ahead' = ahead /\ head' = head /\ f = tree
      BY <1>1, <1>2, <2>2 DEF Back, f, h
    <3> QED BY <1>0, <1>1, <1>13, <3>1 DEF InPlace
  <2> QED BY <2>1, <2>2
<1>15. NothingLost'
  <2> SUFFICES ASSUME NEW e \in keep, e \notin origin.log \cup loose
               PROVE  e \in Reached'
    BY <1>0 DEF NothingLost, Reached
  <2>1. CASE e \in Contents(stash, held)
    BY <1>1, <1>2, <1>4, <2>1, ShelveKeeps DEF Reached
  <2>2. CASE e \in shelf
    BY <1>6, <2>2 DEF Reached
  <2>3. CASE e \in log
    BY <1>0, <1>1, <1>2, <2>3 DEF Rebasing, Reached, Back
  <2>4. CASE orig.open /\ e \in orig.at.log
    BY <1>2, <2>4 DEF Back, Reached
  <2>5. CASE e \in Contents(tree, Paths)
    <3>1. PICK p \in Paths : tree[p] = e
      BY <2>5, InContents
    <3>2. e # 0
      BY <2>5, InContents
    <3>3. CASE orig.open
      <4>1. head[p] = e
        BY <1>0, <1>1, <3>1, <3>3 DEF Phase
      <4>2. p \in ahead
        BY <3>2, <4>1, Settled
      <4> QED BY <1>1, <3>2, <3>3, <4>1, <4>2 DEF Sound, Rebasing
    <3>4. CASE ~orig.open /\ p \in b
      <4>1. head[p] = e
        BY <1>0, <1>1, <1>5, <3>1, <3>4 DEF Phase
      <4>2. p \notin ahead
        BY <1>1, <1>5, <3>4 DEF Sound
      <4> QED BY <3>2, <4>1, <4>2, Settled
    <3>5. CASE ~orig.open /\ p \notin b
      <4>1. tree'[p] = e
        BY <1>8, <3>1, <3>5 DEF f
      <4>2. e \in Contents(tree', Paths)
        BY <3>2, <4>1, InContents
      <4> QED BY <4>2 DEF Reached
    <3> QED BY <3>3, <3>4, <3>5
  <2> QED BY <1>1, <2>1, <2>2, <2>3, <2>4, <2>5 DEF NothingLost, Reached
<1> QED BY <1>9, <1>10, <1>11, <1>12, <1>14, <1>15 DEF IInv

(* Files that the pull deleted come back; no other file changes. *)
LEMMA RestoreStep == ASSUME GitAssumption, IInv, TypeOK', Restore PROVE IInv'
<1>0. /\ UNCHANGED <<remote, branch, unmerged, wedged, stashed, orig, ghosts>>
      /\ pc = "restore" /\ pc' = "pop" /\ edits \in Nat
      /\ origin' = origin /\ edits' = edits /\ loose' = loose /\ keep' = keep
      /\ head' = head /\ ahead' = ahead /\ log' = log
  BY Numbers DEF Restore, Goto, IInv, TypeOK, remote, branch, ghosts
<1>1. /\ Numbered /\ TypeOK /\ InPlace /\ NothingLost /\ Phase /\ tree = head
      /\ unmerged = {} /\ Runtime \subseteq Paths
  BY <1>0 DEF IInv, Phase, GitAssumption
<1>2. /\ \A p \in Paths : tree'[p] = tree[p] \/ tree[p] = 0
      /\ \A p \in Paths \ Runtime : tree'[p] = tree[p]
      /\ \A p \in Paths : tree'[p] \in {tree[p], tag[p]}
  BY <1>1 DEF Restore
<1>3. Numbered' /\ Grounded(origin)'
  BY <1>0, <1>1, <1>2 DEF IInv, Numbered, Grounded, stashed
<1>4. Phase'
  BY <1>0, <1>1, <1>2 DEF Phase, stashed
<1>5. Sound(Here, origin.log, keep, loose, edits)' /\ Rebasing'
  BY <1>0, BranchKept
<1>6. ASSUME NEW e, e # 0, NEW p \in Paths, tree[p] = e PROVE tree'[p] = e
  BY <1>2, <1>6
<1>7. InPlace'
  <2>1. \A e \in keep : e # 0
    BY <1>1, Numbers DEF TypeOK, Edits
  <2> QED BY <1>0, <1>1, <1>6, <2>1 DEF InPlace
<1>8. NothingLost'
  <2>1. Contents(tree, Paths) \subseteq Contents(tree', Paths)
    BY <1>6, InContents
  <2> QED BY <1>0, <1>1, <2>1 DEF NothingLost, Reached, stashed
<1> QED BY <1>3, <1>4, <1>5, <1>7, <1>8 DEF IInv

LEMMA PopStep == ASSUME GitAssumption, IInv, TypeOK', Pop PROVE IInv'
<1> DEFINE b == IF Clash(head) # {} /\ Torn(head) = {}
                THEN Untracked \ Clash(head) ELSE held \ Clash(head)
<1>0. /\ UNCHANGED <<remote, branch, wedged, orig, ghosts>>
      /\ pc = "pop" /\ pc' = "idle" /\ edits \in Nat
      /\ origin' = origin /\ edits' = edits /\ loose' = loose /\ keep' = keep
      /\ head' = head /\ ahead' = ahead /\ log' = log
      /\ tree' = Popped(tree, b) /\ Shelve(head)
  BY Numbers DEF Pop, Goto, IInv, TypeOK, remote, branch, ghosts
<1>1. /\ Sound(Here, origin.log, keep, loose, edits) /\ Numbered /\ TypeOK
      /\ InPlace /\ NothingLost /\ Phase
      /\ Here.base = base /\ Here.head = head /\ Here.ahead = ahead /\ Here.log = log
  BY HereIt DEF IInv
<1>2. b \subseteq held /\ held \cap Runtime = {} /\ held \subseteq Paths
      /\ Runtime \subseteq Paths /\ (PopFails(head) \/ b = held)
  BY <1>1 DEF Phase, TypeOK, GitAssumption, Untracked, PopFails
<1> HIDE DEF b
<1>3. /\ \A p \in Paths : tree'[p] = IF p \in b THEN stash[p] ELSE tree[p]
      /\ \A p \in Runtime : tree'[p] = tree[p]
  BY <1>0, <1>2 DEF Popped
<1>4. shelf \subseteq shelf' /\ held' = {} /\ stash' = stash /\ tag' = tag
  BY <1>0 DEF Shelve
<1>5. Numbered' /\ Grounded(origin)'
  BY <1>0, <1>1, <1>3, <1>4 DEF IInv, Numbered, Grounded
<1>6. Phase'
  BY <1>0, <1>1, <1>4 DEF Phase
<1>7. Sound(Here, origin.log, keep, loose, edits)' /\ Rebasing'
  BY <1>0, BranchKept
<1>8. InPlace'
  BY <1>0, <1>1, <1>3 DEF InPlace
<1>9. NothingLost'
  <2> SUFFICES ASSUME NEW e \in keep, e \notin origin.log \cup loose
               PROVE  e \in Reached'
    BY <1>0 DEF NothingLost, Reached
  <2>1. CASE e \in Contents(stash, held)
    BY <1>0, <1>1, <1>2, <2>1, ShelveKeeps DEF Reached
  <2>2. CASE e \in Contents(tree, Paths)
    <3>1. PICK p \in Paths : tree[p] = e
      BY <2>2, InContents
    <3>2. e # 0
      BY <2>2, InContents
    <3>3. p \notin b
      <4> SUFFICES ASSUME p \in b PROVE FALSE
        OBVIOUS
      <4>1. head[p] = e /\ p \notin ahead
        BY <1>0, <1>1, <1>2, <3>1 DEF Phase, Sound
      <4> QED BY <3>2, <4>1, Settled
    <3>4. e \in Contents(tree', Paths)
      BY <1>3, <3>1, <3>2, <3>3, InContents
    <3> QED BY <3>4 DEF Reached
  <2> QED BY <1>0, <1>1, <1>4, <2>1, <2>2 DEF NothingLost, Reached
<1> QED BY <1>5, <1>6, <1>7, <1>8, <1>9 DEF IInv

(* A kill between two git commands: the stash is on the shelf. *)
LEMMA KillStep == ASSUME GitAssumption, IInv, TypeOK', Kill PROVE IInv'
<1>0. /\ UNCHANGED <<branch, tree, orig, unmerged, remote, stash, tag, ghosts>>
      /\ pc' = "idle" /\ held' = {} /\ shelf' = shelf \cup Contents(stash, held)
      /\ origin' = origin /\ edits' = edits /\ loose' = loose /\ keep' = keep
      /\ head' = head /\ ahead' = ahead /\ log' = log /\ edits \in Nat
  BY Numbers DEF Kill, Abandon, IInv, TypeOK, remote, branch, ghosts
<1>1. /\ Numbered /\ InPlace /\ NothingLost /\ Phase
  BY DEF IInv
<1>2. Numbered' /\ Grounded(origin)'
  BY <1>0, <1>1 DEF IInv, Numbered, Grounded
<1>3. Phase'
  BY <1>0, <1>1 DEF Phase
<1>4. Sound(Here, origin.log, keep, loose, edits)' /\ Rebasing'
  BY <1>0, BranchKept
<1>5. InPlace'
  BY <1>0, <1>1 DEF InPlace
<1>6. NothingLost'
  BY <1>0, <1>1 DEF NothingLost, Reached
<1> QED BY <1>2, <1>3, <1>4, <1>5, <1>6 DEF IInv

(* A kill within the rebase: the branch is where rebase --abort finds it, and
   what the checkout held is in that branch or on main. *)
LEMMA KillRebaseStep == ASSUME GitAssumption, IInv, TypeOK', KillRebase PROVE IInv'
<1>0. /\ pc = "pull" /\ pc' = "idle" /\ unmerged = {} /\ unmerged' = {} /\ ~orig.open
      /\ held' = {} /\ shelf' = shelf \cup Contents(stash, held)
      /\ stash' = stash /\ tag' = tag
      /\ origin' = origin /\ edits' = edits /\ loose' = loose /\ keep' = keep
      /\ orig'.open = TRUE /\ orig'.at = Here
      /\ base' = origin /\ head' = origin.files /\ tree' = origin.files
      /\ ahead' = {} /\ log' = {} /\ edits \in Nat
  BY Numbers DEF KillRebase, Abandon, Blocked, IInv, TypeOK, remote, ghosts
<1>1. /\ Sound(Here, origin.log, keep, loose, edits) /\ Numbered /\ TypeOK
      /\ NothingLost /\ Phase /\ Grounded(origin) /\ tree = head
      /\ Here.base = base /\ Here.head = head /\ Here.ahead = ahead /\ Here.log = log
  BY <1>0, HereIt DEF IInv, Phase
<1>2. \A p \in Paths : origin.files[p] \in 0 .. edits
  BY <1>0, <1>1 DEF Numbered, Grounded
<1>3. Numbered' /\ Grounded(origin)'
  BY <1>0, <1>1, <1>2 DEF Numbered, Grounded
<1>4. Phase'
  BY <1>0 DEF Phase
<1>5. Sound(Here, origin.log, keep, loose, edits)'
  <2>1. /\ Here' \in Branches /\ Here'.base = origin /\ Here'.head = origin.files
        /\ Here'.ahead = {} /\ Here'.log = {}
    BY <1>0, <1>1 DEF Here, TypeOK, Branches, Commits
  <2> QED BY <1>0, <1>1, <1>2, <2>1 DEF Sound
<1>6. Rebasing' /\ InPlace'
  BY <1>0, <1>1 DEF Rebasing, InPlace
<1>7. NothingLost'
  <2> SUFFICES ASSUME NEW e \in keep, e \notin origin.log \cup loose
               PROVE  e \in Reached'
    BY <1>0 DEF NothingLost, Reached
  <2>1. CASE e \in Contents(tree, Paths)
    <3>1. PICK p \in Paths : head[p] = e
      BY <1>1, <2>1, InContents
    <3>2. e # 0
      BY <2>1, InContents
    <3>3. p \in ahead
      BY <3>1, <3>2, Settled DEF IInv
    <3>4. e \in log
      BY <1>1, <3>1, <3>2, <3>3 DEF Sound
    <3> QED BY <1>0, <1>1, <3>4 DEF Reached
  <2> QED BY <1>0, <1>1, <2>1 DEF NothingLost, Reached
<1> QED BY <1>3, <1>4, <1>5, <1>6, <1>7 DEF IInv

(* The inductive invariant. *)
THEOREM Invariant == Spec => []IInv
<1>1. Init => IInv
  BY InitIInv, GitAssumption
<1>2. IInv /\ [Next]_vars => IInv'
  <2> SUFFICES ASSUME IInv, [Next]_vars PROVE IInv'
    OBVIOUS
  <2>1. TypeOK'
    BY TypeStep, GitAssumption DEF IInv
  <2>2. CASE UNCHANGED vars
    BY <2>1, <2>2, OtherStep, GitAssumption
  <2>3. CASE Next
    <3>1. Touched \subseteq Paths /\ Decisions \subseteq Paths
      BY GitAssumption DEF GitAssumption
    <3> QED BY <2>1, <2>3, <3>1, GitAssumption, OthersStep, WorkStep, ExecuteHereStep,
               OtherStep, CommitStep, PushStep, StashStep, PullStep, RecoverStep,
               PullFailsStep, RestoreStep, PopStep, KillStep, KillRebaseStep
            DEF Next, SyncStep
  <2> QED BY <2>2, <2>3
<1> QED BY <1>1, <1>2, PTL DEF Spec

(* Whatever others merge, however often git, the network or the process fails,
   a sync loses no edit that the department still wants, except those that it
   commits on top of a rebase that a kill left open. *)
THEOREM LosesNothing == Spec => []NothingLost
<1>1. IInv => NothingLost
  BY DEF IInv
<1> QED BY <1>1, Invariant, PTL

----------------------------------------------------------------------------
(* The archive *)

(* In a checkout or a commit with the files f, of which c are not as on main
   and m are the files of main: no decision of f is in its own archive; one that
   only f has in the inbox is nowhere on main; and what only f has in the
   archive is there, and is not live on main. *)
Apart(f, c, m) ==
    \A d \in Decisions :
        /\ f[d] # 0 => f[d] # f[ArchiveOf[d]]
        /\ d \in c /\ f[d] # 0 => f[d] # m[d] /\ f[d] # m[ArchiveOf[d]]
        /\ ArchiveOf[d] \in c => f[ArchiveOf[d]] # 0
        /\ ArchiveOf[d] \in c /\ d \notin c => f[ArchiveOf[d]] # m[d]

(* Main has every archive that the branch builds on. *)
Grows(b, m) == \A a \in Archives : b.base.files[a] # 0 => m[a] # 0

Ours == ahead \cup {p \in Paths : tree[p] # head[p]}

(* Between the pull and the repair: the pull took no archive away, and a
   decision that it took away without archiving it is nowhere on main. *)
Pulled(m) ==
    pc = "restore" =>
        /\ \A a \in Archives : tag[a] # 0 => head[a] # 0
        /\ \A d \in Decisions :
             head[d] = 0 /\ head[ArchiveOf[d]] = 0 /\ tag[d] # 0 =>
                 tag[d] # m[d] /\ tag[d] # m[ArchiveOf[d]]

ArchiveInv ==
    /\ Apart(origin.files, {}, origin.files)
    /\ Apart(head, ahead, origin.files)
    /\ Apart(tree, Ours, origin.files)
    /\ Grows(Here, origin.files)
    /\ orig.open => /\ Apart(orig.at.head, orig.at.ahead, origin.files)
                    /\ Grows(orig.at, origin.files)
    /\ Pulled(origin.files)
    /\ ArchivedIsNotLive
    /\ pc = "push" => unmerged = {}

(* A decision and its archive are two runtime files, and no other decision has
   that archive. *)
LEMMA Pairs ==
    ASSUME GitAssumption, NEW d \in Decisions
    PROVE  /\ d \in Runtime /\ d \in Paths /\ d \notin Archives
           /\ ArchiveOf[d] \in Runtime /\ ArchiveOf[d] \in Paths
           /\ ArchiveOf[d] \in Archives /\ ArchiveOf[d] \notin Decisions
           /\ \A e \in Decisions : ArchiveOf[e] = ArchiveOf[d] => e = d
  BY DEF GitAssumption, Archives

(* Apart looks at runtime files only. *)
LEMMA ApartCopy ==
    ASSUME GitAssumption, NEW f, NEW g, NEW c, NEW e, NEW m, Apart(f, c, m),
           \A p \in Runtime : g[p] = f[p], \A p \in Runtime : p \in e <=> p \in c
    PROVE  Apart(g, e, m)
<1> SUFFICES ASSUME NEW d \in Decisions
             PROVE  /\ g[d] # 0 => g[d] # g[ArchiveOf[d]]
                    /\ d \in e /\ g[d] # 0 => g[d] # m[d] /\ g[d] # m[ArchiveOf[d]]
                    /\ ArchiveOf[d] \in e => g[ArchiveOf[d]] # 0
                    /\ ArchiveOf[d] \in e /\ d \notin e => g[ArchiveOf[d]] # m[d]
  BY DEF Apart
<1>1. d \in Runtime /\ ArchiveOf[d] \in Runtime
  BY Pairs
<1>2. /\ g[d] = f[d] /\ g[ArchiveOf[d]] = f[ArchiveOf[d]]
      /\ (d \in e <=> d \in c) /\ (ArchiveOf[d] \in e <=> ArchiveOf[d] \in c)
  BY <1>1
<1> QED BY <1>2 DEF Apart

(* What others do to main: a decision goes or gets a new edit, or moves to its
   archive. n is the number of edits before. *)
Moved(m, n, k) ==
    \A d \in Decisions :
        \/ /\ n[ArchiveOf[d]] = m[ArchiveOf[d]]
           /\ n[d] = m[d] \/ n[d] = 0 \/ n[d] \notin 0 .. k
        \/ m[d] # 0 /\ n[d] = 0 /\ n[ArchiveOf[d]] = m[d]

LEMMA ApartMoves ==
    ASSUME NEW m, NEW n, NEW k, Moved(m, n, k), NEW f, NEW c,
           \A d \in Decisions : f[d] \in 0 .. k /\ f[ArchiveOf[d]] \in 0 .. k,
           Apart(f, c, m)
    PROVE  Apart(f, c, n)
<1> SUFFICES ASSUME NEW d \in Decisions
             PROVE  /\ f[d] # 0 => f[d] # f[ArchiveOf[d]]
                    /\ d \in c /\ f[d] # 0 => f[d] # n[d] /\ f[d] # n[ArchiveOf[d]]
                    /\ ArchiveOf[d] \in c => f[ArchiveOf[d]] # 0
                    /\ ArchiveOf[d] \in c /\ d \notin c => f[ArchiveOf[d]] # n[d]
  BY DEF Apart
<1>1. /\ f[d] # 0 => f[d] # f[ArchiveOf[d]]
      /\ d \in c /\ f[d] # 0 => f[d] # m[d] /\ f[d] # m[ArchiveOf[d]]
      /\ ArchiveOf[d] \in c => f[ArchiveOf[d]] # 0
      /\ ArchiveOf[d] \in c /\ d \notin c => f[ArchiveOf[d]] # m[d]
      /\ f[d] \in 0 .. k /\ f[ArchiveOf[d]] \in 0 .. k
  BY DEF Apart
<1>2. \/ /\ n[ArchiveOf[d]] = m[ArchiveOf[d]]
         /\ n[d] = m[d] \/ n[d] = 0 \/ n[d] \notin 0 .. k
      \/ m[d] # 0 /\ n[d] = 0 /\ n[ArchiveOf[d]] = m[d]
  BY DEF Moved
<1> QED BY <1>1, <1>2

LEMMA MainApart ==
    ASSUME NEW m, NEW n, NEW k, Moved(m, n, k), Apart(m, {}, m),
           \A d \in Decisions : m[ArchiveOf[d]] \in 0 .. k
    PROVE  Apart(n, {}, n)
<1> SUFFICES ASSUME NEW d \in Decisions, n[d] # 0 PROVE n[d] # n[ArchiveOf[d]]
  BY DEF Apart
<1>1. m[ArchiveOf[d]] \in 0 .. k /\ (m[d] # 0 => m[d] # m[ArchiveOf[d]])
  BY DEF Apart
<1> QED BY <1>1 DEF Moved

LEMMA GrowsMoves ==
    ASSUME GitAssumption, NEW m, NEW n, NEW k, Moved(m, n, k), NEW b, Grows(b, m)
    PROVE  Grows(b, n)
<1> SUFFICES ASSUME NEW d \in Decisions, m[ArchiveOf[d]] # 0 PROVE n[ArchiveOf[d]] # 0
  BY DEF Grows, Archives
<1> QED BY DEF Moved

(* The numbers in the files. *)
LEMMA Bounded ==
    ASSUME GitAssumption, IInv
    PROVE  \A p \in Paths :
              /\ origin.files[p] \in 0 .. edits /\ head[p] \in 0 .. edits
              /\ tree[p] \in 0 .. edits /\ tag[p] \in 0 .. edits
              /\ orig.open => orig.at.head[p] \in 0 .. edits
<1>1. edits \in Nat
  BY Numbers DEF IInv, TypeOK
<1>2. ASSUME NEW p \in Paths PROVE origin.files[p] \in 0 .. edits
  BY <1>1 DEF IInv, Grounded, Numbered
<1>3. \A p \in Paths : head[p] \in 0 .. edits
  BY HereIt DEF IInv, Sound
<1>4. orig.open => \A p \in Paths : orig.at.head[p] \in 0 .. edits
  BY DEF IInv, Rebasing, Sound
<1> QED BY <1>2, <1>3, <1>4 DEF IInv, Numbered

LEMMA ArchiveInit == ASSUME GitAssumption, Init PROVE ArchiveInv
<1>1. \A d \in Decisions : First[ArchiveOf[d]] = 0
  BY Pairs DEF First, GitAssumption
<1>2. Apart(First, {}, First)
  BY <1>1 DEF Apart
<1>3. /\ origin.files = First /\ head = First /\ tree = First /\ ahead = {} /\ Ours = {}
      /\ base.files = First
  BY DEF Init, Ours
<1>4. Here.base = base
  BY DEF Here
<1>5. ArchivedIsNotLive
  BY <1>2, <1>3 DEF ArchivedIsNotLive, Apart
<1> QED BY <1>2, <1>3, <1>4, <1>5 DEF Init, ArchiveInv, Grows, Pulled

(* Others commit to main. *)
LEMMA OthersArchive ==
    ASSUME GitAssumption, IInv, ArchiveInv, NEW p \in Paths,
           \/ Merge(p) /\ p \notin Archives
           \/ Drop(p) /\ p \notin Archives
           \/ p \in Decisions /\ ExecuteThere(p)
    PROVE  ArchiveInv'
<1> DEFINE m == origin.files
           n == origin'.files
<1>1. UNCHANGED <<branch, tree, unmerged, stashed, orig, pc>>
  BY DEF Merge, Drop, ExecuteThere, Lands
<1>2. m \in Files /\ edits \in Nat
  BY Numbers DEF IInv, TypeOK, Commits
<1>3. Moved(m, n, edits)
  <2> SUFFICES ASSUME NEW d \in Decisions
               PROVE  \/ /\ n[ArchiveOf[d]] = m[ArchiveOf[d]]
                         /\ n[d] = m[d] \/ n[d] = 0 \/ n[d] \notin 0 .. edits
                      \/ m[d] # 0 /\ n[d] = 0 /\ n[ArchiveOf[d]] = m[d]
    BY DEF Moved
  <2>0. /\ d \in Paths /\ ArchiveOf[d] \in Paths /\ ArchiveOf[d] \in Archives
        /\ ArchiveOf[d] # d
    BY Pairs
  <2>1. CASE Merge(p) /\ p \notin Archives
    <3>1. n = [m EXCEPT ![p] = edits + 1]
      BY <2>1 DEF Merge, Lands
    <3>2. n[ArchiveOf[d]] = m[ArchiveOf[d]] /\ (n[d] = m[d] \/ n[d] = edits + 1)
      BY <1>2, <2>0, <2>1, <3>1 DEF Files
    <3> QED BY <1>2, <3>2
  <2>2. CASE Drop(p) /\ p \notin Archives
    <3>1. n = [m EXCEPT ![p] = 0]
      BY <2>2 DEF Drop, Lands
    <3> QED BY <1>2, <2>0, <2>2, <3>1 DEF Files
  <2>3. CASE p \in Decisions /\ ExecuteThere(p)
    <3>1. n = Archived(m, p) /\ m[p] # 0
      BY <2>3 DEF ExecuteThere, Lands
    <3>2. CASE d = p
      BY <1>2, <2>3, <3>1, <3>2, ArchivedIt
    <3>3. CASE d # p
      <4>1. ArchiveOf[d] # ArchiveOf[p] /\ d # ArchiveOf[p] /\ ArchiveOf[d] # p
        BY <2>3, <3>3, Pairs
      <4> QED BY <1>2, <2>0, <2>3, <3>1, <3>3, <4>1, ArchivedIt
    <3> QED BY <3>2, <3>3
  <2> QED BY <2>1, <2>2, <2>3
<1>4. \A d \in Decisions : LET a == ArchiveOf[d] IN
         /\ m[d] \in 0 .. edits /\ m[a] \in 0 .. edits
         /\ head[d] \in 0 .. edits /\ head[a] \in 0 .. edits
         /\ tree[d] \in 0 .. edits /\ tree[a] \in 0 .. edits
         /\ tag[d] \in 0 .. edits
         /\ orig.open => orig.at.head[d] \in 0 .. edits /\ orig.at.head[a] \in 0 .. edits
  BY Bounded, Pairs
<1> HIDE DEF m, n
<1>5. /\ Apart(m, {}, m) /\ Apart(head, ahead, m) /\ Apart(tree, Ours, m) /\ Grows(Here, m)
      /\ orig.open => Apart(orig.at.head, orig.at.ahead, m) /\ Grows(orig.at, m)
      /\ Pulled(m) /\ ArchivedIsNotLive /\ (pc = "push" => unmerged = {})
  BY DEF ArchiveInv, m
<1>6. Apart(n, {}, n) /\ Apart(head, ahead, n) /\ Apart(tree, Ours, n)
  BY <1>3, <1>4, <1>5, MainApart, ApartMoves
<1>7. Grows(Here, n)
  BY <1>3, <1>5, GrowsMoves
<1>8. ASSUME orig.open
      PROVE  Apart(orig.at.head, orig.at.ahead, n) /\ Grows(orig.at, n)
  BY <1>3, <1>4, <1>5, <1>8, ApartMoves, GrowsMoves
<1>9. Pulled(n)
  <2> SUFFICES ASSUME pc = "restore", NEW d \in Decisions,
                      head[d] = 0, head[ArchiveOf[d]] = 0, tag[d] # 0
               PROVE  tag[d] # n[d] /\ tag[d] # n[ArchiveOf[d]]
    BY <1>5 DEF Pulled
  <2>1. tag[d] # m[d] /\ tag[d] # m[ArchiveOf[d]] /\ tag[d] \in 0 .. edits
    BY <1>4, <1>5 DEF Pulled
  <2> QED BY <1>3, <2>1 DEF Moved
<1>10. /\ head' = head /\ ahead' = ahead /\ tree' = tree /\ orig' = orig /\ tag' = tag
       /\ pc' = pc /\ unmerged' = unmerged /\ Ours' = Ours /\ Here' = Here
  BY <1>1 DEF branch, stashed, Ours, Here
<1> QED BY <1>5, <1>6, <1>7, <1>8, <1>9, <1>10 DEF ArchiveInv, ArchivedIsNotLive, Pulled, n

(* The department edits a file: a decision gets a text that is nowhere yet. *)
LEMMA WorkArchive ==
    ASSUME GitAssumption, IInv, ArchiveInv, NEW p \in Paths \ Archives, Work(p)
    PROVE  ArchiveInv'
<1>0. /\ edits \in Nat /\ tree \in Files
      /\ UNCHANGED <<origin, branch, unmerged, stashed, orig>> /\ pc' = pc /\ pc = "idle"
      /\ tree' = [tree EXCEPT ![p] = edits + 1]
  BY Numbers DEF Work, IInv, TypeOK
<1>1. /\ tree'[p] = edits + 1 /\ \A q \in Paths : q # p => tree'[q] = tree[q]
  BY <1>0 DEF Files
<1>2. head' = head /\ ahead' = ahead /\ origin' = origin /\ Here' = Here /\ orig' = orig
  BY <1>0 DEF branch, Here
<1>3. ASSUME NEW d \in Decisions
      PROVE  /\ tree'[d] # 0 => tree'[d] # tree'[ArchiveOf[d]] /\ tree'[d] # head[ArchiveOf[d]]
             /\ d \in Ours' /\ tree'[d] # 0 =>
                    tree'[d] # origin.files[d] /\ tree'[d] # origin.files[ArchiveOf[d]]
             /\ ArchiveOf[d] \in Ours' => tree'[ArchiveOf[d]] # 0
             /\ ArchiveOf[d] \in Ours' /\ d \notin Ours' =>
                    tree'[ArchiveOf[d]] # origin.files[d]
  <2>0. d \in Paths /\ ArchiveOf[d] \in Paths /\ ArchiveOf[d] # p
    BY Pairs
  <2>1. /\ tree[d] # 0 => tree[d] # tree[ArchiveOf[d]] /\ tree[d] # head[ArchiveOf[d]]
        /\ d \in Ours /\ tree[d] # 0 =>
               tree[d] # origin.files[d] /\ tree[d] # origin.files[ArchiveOf[d]]
        /\ ArchiveOf[d] \in Ours => tree[ArchiveOf[d]] # 0
        /\ ArchiveOf[d] \in Ours /\ d \notin Ours => tree[ArchiveOf[d]] # origin.files[d]
    BY DEF ArchiveInv, Apart, ArchivedIsNotLive
  <2>2. tree'[ArchiveOf[d]] = tree[ArchiveOf[d]] /\ (ArchiveOf[d] \in Ours' <=> ArchiveOf[d] \in Ours)
    BY <1>1, <1>2, <2>0 DEF Ours
  <2>3. CASE d = p
    <3>1. /\ tree[ArchiveOf[d]] \in 0 .. edits /\ head[ArchiveOf[d]] \in 0 .. edits
          /\ head[d] \in 0 .. edits
          /\ origin.files[d] \in 0 .. edits /\ origin.files[ArchiveOf[d]] \in 0 .. edits
      BY <2>0, Bounded
    <3>2. tree'[d] = edits + 1 /\ edits + 1 \notin 0 .. edits
      BY <1>0, <1>1, <2>3
    <3>3. d \in Ours'
      BY <1>2, <2>0, <3>1, <3>2 DEF Ours
    <3> QED BY <2>1, <2>2, <3>1, <3>2, <3>3
  <2>4. CASE d # p
    <3>1. tree'[d] = tree[d] /\ (d \in Ours' <=> d \in Ours)
      BY <1>1, <1>2, <2>0, <2>4 DEF Ours
    <3> QED BY <2>1, <2>2, <3>1
  <2> QED BY <2>3, <2>4
<1>4. Apart(tree', Ours', origin.files) /\ ArchivedIsNotLive'
  BY <1>2, <1>3 DEF Apart, ArchivedIsNotLive
<1> QED BY <1>0, <1>2, <1>4 DEF ArchiveInv, Pulled

(* A decision is executed: its content leaves the inbox for the archive. *)
LEMMA ExecuteHereArchive ==
    ASSUME GitAssumption, IInv, ArchiveInv, NEW x \in Decisions, ExecuteHere(x)
    PROVE  ArchiveInv'
<1>0. /\ tree \in Files
      /\ UNCHANGED <<remote, branch, unmerged, stashed, orig>> /\ pc' = pc /\ pc = "idle"
      /\ tree' = Archived(tree, x) /\ tree[x] # 0
  BY DEF ExecuteHere, IInv, TypeOK
<1>1. /\ tree'[x] = 0 /\ tree'[ArchiveOf[x]] = tree[x]
      /\ \A p \in Paths \ {x, ArchiveOf[x]} : tree'[p] = tree[p]
  BY <1>0, ArchivedIt
<1>2. head' = head /\ ahead' = ahead /\ origin' = origin /\ Here' = Here /\ orig' = orig
  BY <1>0 DEF branch, remote, Here
<1>3. ASSUME NEW d \in Decisions
      PROVE  /\ tree'[d] # 0 => tree'[d] # tree'[ArchiveOf[d]] /\ tree'[d] # head[ArchiveOf[d]]
             /\ d \in Ours' /\ tree'[d] # 0 =>
                    tree'[d] # origin.files[d] /\ tree'[d] # origin.files[ArchiveOf[d]]
             /\ ArchiveOf[d] \in Ours' => tree'[ArchiveOf[d]] # 0
             /\ ArchiveOf[d] \in Ours' /\ d \notin Ours' =>
                    tree'[ArchiveOf[d]] # origin.files[d]
  <2>0. d \in Paths /\ ArchiveOf[d] \in Paths /\ ArchiveOf[d] # d
    BY Pairs
  <2>1. /\ tree[d] # 0 => tree[d] # tree[ArchiveOf[d]] /\ tree[d] # head[ArchiveOf[d]]
        /\ d \in Ours /\ tree[d] # 0 =>
               tree[d] # origin.files[d] /\ tree[d] # origin.files[ArchiveOf[d]]
        /\ ArchiveOf[d] \in Ours => tree[ArchiveOf[d]] # 0
        /\ ArchiveOf[d] \in Ours /\ d \notin Ours => tree[ArchiveOf[d]] # origin.files[d]
    BY DEF ArchiveInv, Apart, ArchivedIsNotLive
  <2>2. CASE d = x
    <3>1. d \notin Ours' => d \in Ours
      BY <1>0, <1>1, <1>2, <2>0, <2>2 DEF Ours
    <3> QED BY <1>0, <1>1, <2>1, <2>2, <3>1
  <2>3. CASE d # x
    <3>1. ArchiveOf[d] # ArchiveOf[x] /\ ArchiveOf[d] # x /\ d # ArchiveOf[x]
      BY <2>3, Pairs
    <3>2. tree'[d] = tree[d] /\ tree'[ArchiveOf[d]] = tree[ArchiveOf[d]]
      BY <1>1, <2>0, <2>3, <3>1
    <3>3. (d \in Ours' <=> d \in Ours) /\ (ArchiveOf[d] \in Ours' <=> ArchiveOf[d] \in Ours)
      BY <1>2, <2>0, <3>2 DEF Ours
    <3> QED BY <2>1, <3>2, <3>3
  <2> QED BY <2>2, <2>3
<1>4. Apart(tree', Ours', origin.files) /\ ArchivedIsNotLive'
  BY <1>2, <1>3 DEF Apart, ArchivedIsNotLive
<1> QED BY <1>0, <1>2, <1>4 DEF ArchiveInv, Pulled

(* HEAD becomes, in its runtime files, a commit f of which c are not on main m,
   and the checkout is what HEAD says. *)
LEMMA CleanArchive ==
    ASSUME GitAssumption, NEW f, NEW c, Apart(f, c, origin'.files),
           \A p \in Runtime : head'[p] = f[p] /\ tree'[p] = f[p] /\ (p \in ahead' <=> p \in c)
    PROVE  /\ Apart(head, ahead, origin.files)' /\ Apart(tree, Ours, origin.files)'
           /\ ArchivedIsNotLive'
<1>1. \A p \in Runtime : p \in Ours' <=> p \in c
  BY DEF Ours, GitAssumption
<1>2. Apart(head', ahead', origin'.files) /\ Apart(tree', Ours', origin'.files)
  BY <1>1, ApartCopy
<1>3. \A d \in Decisions : tree'[ArchiveOf[d]] = head'[ArchiveOf[d]]
  BY Pairs
<1>4. ArchivedIsNotLive'
  BY <1>2, <1>3 DEF Apart, ArchivedIsNotLive
<1> QED BY <1>2, <1>4

(* Steps that leave main, HEAD and the runtime files of the checkout alone. *)
LEMMA SameArchive ==
    ASSUME GitAssumption, ArchiveInv, UNCHANGED <<origin, branch, orig>>,
           \A p \in Runtime : tree'[p] = tree[p],
           pc' # "restore" \/ UNCHANGED <<pc, tag>>,
           pc' = "push" => unmerged' = {}
    PROVE  ArchiveInv'
<1>1. head' = head /\ ahead' = ahead /\ origin' = origin /\ Here' = Here /\ orig' = orig
  BY DEF branch, Here
<1>2. \A p \in Runtime : p \in Ours' <=> p \in Ours
  BY <1>1 DEF Ours, GitAssumption
<1>3. Apart(tree', Ours', origin.files)
  BY <1>2, ApartCopy DEF ArchiveInv
<1>4. ArchivedIsNotLive'
  BY <1>1, Pairs DEF ArchiveInv, ArchivedIsNotLive
<1>5. Pulled(origin.files)'
  BY <1>1 DEF ArchiveInv, Pulled
<1> QED BY <1>1, <1>3, <1>4, <1>5 DEF ArchiveInv

LEMMA CommitArchive == ASSUME GitAssumption, IInv, ArchiveInv, Commit PROVE ArchiveInv'
<1>0. UNCHANGED <<remote, tree, unmerged, stashed, orig>> /\ pc = "commit"
  BY DEF Commit
<1>1. CASE Dirty \cap Runtime = {} \/ unmerged # {}
  <2>1. UNCHANGED branch /\ pc' = "stash"
    BY <1>1 DEF Commit, Goto
  <2> QED BY <1>0, <2>1, SameArchive DEF remote
<1>2. CASE ~(Dirty \cap Runtime = {} \/ unmerged # {})
  <2>1. /\ head' = [p \in Paths |-> IF p \in Dirty \cap Runtime THEN tree[p] ELSE head[p]]
        /\ ahead' = ahead \cup (Dirty \cap Runtime) /\ base' = base /\ pc' = "push"
        /\ unmerged = {}
    BY <1>2 DEF Commit, Goto
  <2>2. ASSUME NEW p \in Runtime
        PROVE  head'[p] = tree[p] /\ tree'[p] = tree[p] /\ (p \in ahead' <=> p \in Ours)
    <3>1. p \in Paths
      BY DEF GitAssumption
    <3>2. p \in Dirty <=> tree[p] # head[p]
      BY <2>1, <3>1 DEF Dirty
    <3> QED BY <1>0, <2>1, <3>1, <3>2 DEF Ours
  <2>3. Apart(tree, Ours, origin'.files) /\ origin' = origin
    BY <1>0 DEF ArchiveInv, remote
  <2>4. /\ Apart(head, ahead, origin.files)' /\ Apart(tree, Ours, origin.files)'
        /\ ArchivedIsNotLive'
    BY <2>2, <2>3, CleanArchive
  <2>5. Here'.base = Here.base
    BY <2>1 DEF Here
  <2> QED BY <1>0, <2>1, <2>3, <2>4, <2>5 DEF ArchiveInv, Pulled, Grows
<1> QED BY <1>1, <1>2

LEMMA PushArchive == ASSUME GitAssumption, IInv, ArchiveInv, Push PROVE ArchiveInv'
<1>0. /\ head' = head /\ tree' = tree /\ orig' = orig /\ ~orig.open /\ pc' = "stash"
      /\ origin'.files = head /\ base' = origin' /\ ahead' = {}
      /\ pc = "push" /\ unmerged = {}
  BY DEF Push, Goto, ArchiveInv
<1>1. \A p \in Runtime : tree[p] = head[p]
  BY <1>0 DEF IInv, Phase
<1>2. Apart(head, {}, head)
  BY DEF ArchiveInv, Apart
<1>3. /\ Apart(head, ahead, origin.files)' /\ Apart(tree, Ours, origin.files)'
      /\ ArchivedIsNotLive'
  BY <1>0, <1>1, <1>2, CleanArchive
<1>4. Here'.base = origin'
  BY <1>0 DEF Here
<1> QED BY <1>0, <1>2, <1>3, <1>4 DEF ArchiveInv, Grows, Pulled

LEMMA StashArchive == ASSUME GitAssumption, IInv, ArchiveInv, Stash PROVE ArchiveInv'
<1>0. UNCHANGED <<remote, branch, unmerged, orig>> /\ pc' = "pull"
  BY DEF Stash, Goto
<1>1. CASE unmerged # {}
  BY <1>0, <1>1, SameArchive DEF Stash, remote
<1>2. CASE unmerged = {}
  <2>1. /\ tree' = head /\ head' = head /\ ahead' = ahead /\ origin' = origin /\ orig' = orig
        /\ Here' = Here
    BY <1>0, <1>2 DEF Stash, remote, branch, Here
  <2>2. Apart(head, ahead, origin'.files)
    BY <2>1 DEF ArchiveInv
  <2>3. /\ Apart(head, ahead, origin.files)' /\ Apart(tree, Ours, origin.files)'
        /\ ArchivedIsNotLive'
    BY <2>1, <2>2, CleanArchive
  <2> QED BY <1>0, <2>1, <2>3 DEF ArchiveInv, Pulled
<1> QED BY <1>1, <1>2

(* HEAD gets to main: of two files of a decision each is as on main or as the
   unpushed commits have it. *)
LEMMA FollowArchive ==
    ASSUME GitAssumption, IInv, ArchiveInv, Pull \/ Recover
    PROVE  ArchiveInv'
<1>0. /\ origin' = origin /\ base' = origin /\ orig' = orig /\ ~orig.open
      /\ pc = "pull" /\ pc' = "restore" /\ tree' = head' /\ tag' = tag /\ tag = head
  BY DEF Pull, Recover, Goto, Blocked, remote, stashed, IInv, Phase
<1>1. /\ \A p \in Paths : head'[p] = IF p \in ahead THEN head[p] ELSE origin.files[p]
      /\ ahead' \subseteq ahead
      /\ \A p \in ahead : p \notin ahead' => head[p] = origin.files[p]
  <2>1. CASE Pull
    BY <2>1 DEF Pull
  <2>2. CASE Recover
    BY <2>2 DEF Recover, Proven, IInv, TypeOK, Commits, Files
  <2> QED BY <2>1, <2>2
<1>2. ASSUME NEW d \in Decisions
      PROVE  /\ head'[d] # 0 => head'[d] # head'[ArchiveOf[d]]
             /\ d \in ahead' /\ head'[d] # 0 =>
                    head'[d] # origin.files[d] /\ head'[d] # origin.files[ArchiveOf[d]]
             /\ ArchiveOf[d] \in ahead' => head'[ArchiveOf[d]] # 0
             /\ ArchiveOf[d] \in ahead' /\ d \notin ahead' =>
                    head'[ArchiveOf[d]] # origin.files[d]
             /\ head'[d] = 0 /\ head'[ArchiveOf[d]] = 0 /\ head[d] # 0 =>
                    origin.files[d] = 0 /\ origin.files[ArchiveOf[d]] = 0
  <2>0. d \in Paths /\ ArchiveOf[d] \in Paths
    BY Pairs
  <2>1. /\ head[d] # 0 => head[d] # head[ArchiveOf[d]]
        /\ d \in ahead /\ head[d] # 0 =>
               head[d] # origin.files[d] /\ head[d] # origin.files[ArchiveOf[d]]
        /\ ArchiveOf[d] \in ahead => head[ArchiveOf[d]] # 0
        /\ ArchiveOf[d] \in ahead /\ d \notin ahead => head[ArchiveOf[d]] # origin.files[d]
        /\ origin.files[d] # 0 => origin.files[d] # origin.files[ArchiveOf[d]]
    BY DEF ArchiveInv, Apart
  <2>2. head'[d] = IF d \in ahead THEN head[d] ELSE origin.files[d]
    BY <1>1, <2>0
  <2>3. head'[ArchiveOf[d]] = IF ArchiveOf[d] \in ahead THEN head[ArchiveOf[d]]
                              ELSE origin.files[ArchiveOf[d]]
    BY <1>1, <2>0
  <2>4. /\ d \in ahead' => d \in ahead
        /\ ArchiveOf[d] \in ahead' => ArchiveOf[d] \in ahead
        /\ d \in ahead /\ d \notin ahead' => head[d] = origin.files[d]
    BY <1>1
  <2> QED BY <2>1, <2>2, <2>3, <2>4
<1>3. Apart(head', ahead', origin.files)
  BY <1>2 DEF Apart
<1>4. /\ Apart(head, ahead, origin.files)' /\ Apart(tree, Ours, origin.files)'
      /\ ArchivedIsNotLive'
  BY <1>0, <1>3, CleanArchive
<1>5. ASSUME NEW a \in Archives, head[a] # 0 PROVE head'[a] # 0
  <2>0. a \in Paths
    BY DEF Archives, GitAssumption
  <2>1. CASE a \in ahead
    BY <1>1, <1>5, <2>0, <2>1
  <2>2. CASE a \notin ahead
    <3>1. base.files[a] = head[a]
      BY <2>0, <2>2, HereIt DEF IInv, Sound
    <3>2. origin.files[a] # 0
      BY <1>5, <3>1, HereIt DEF ArchiveInv, Grows, IInv
    <3> QED BY <1>1, <2>0, <2>2, <3>2
  <2> QED BY <2>1, <2>2
<1>6. Pulled(origin.files)'
  <2>1. \A a \in Archives : tag[a] # 0 => head'[a] # 0
    BY <1>0, <1>5
  <2>2. \A d \in Decisions : head'[d] = 0 /\ head'[ArchiveOf[d]] = 0 /\ tag[d] # 0 =>
          tag[d] # origin.files[d] /\ tag[d] # origin.files[ArchiveOf[d]]
    BY <1>0, <1>2
  <2> QED BY <1>0, <2>1, <2>2 DEF Pulled
<1>7. Here'.base = origin
  BY <1>0 DEF Here
<1> QED BY <1>0, <1>4, <1>6, <1>7 DEF ArchiveInv, Grows

(* A stash holds no runtime file, so that a pop changes none. *)
LEMMA PopSpares ==
    ASSUME GitAssumption, IInv, NEW f, NEW b \in SUBSET held
    PROVE  \A p \in Runtime : Popped(f, b)[p] = f[p]
  BY DEF Popped, IInv, Phase, GitAssumption

LEMMA PullFailsArchive ==
    ASSUME GitAssumption, IInv, ArchiveInv, PullFails
    PROVE  ArchiveInv'
<1> DEFINE to == IF orig.open THEN orig.at ELSE Here
           files == IF orig.open THEN to.head ELSE tree
<1>0. /\ origin' = origin /\ pc = "pull" /\ pc' = "idle" /\ orig' = [open |-> FALSE]
      /\ base' = to.base /\ head' = to.head /\ ahead' = to.ahead /\ log' = to.log
      /\ tree' = Popped(files, held \ Clash(to.head))
  BY DEF PullFails, Goto, remote
<1>1. \A p \in Runtime : tree'[p] = files[p]
  BY <1>0, PopSpares
<1>2. CASE orig.open
  <2>1. Apart(to.head, to.ahead, origin'.files) /\ Grows(to, origin.files)
    BY <1>0, <1>2 DEF ArchiveInv
  <2>2. /\ Apart(head, ahead, origin.files)' /\ Apart(tree, Ours, origin.files)'
        /\ ArchivedIsNotLive'
    <3>1. \A p \in Runtime : head'[p] = to.head[p] /\ tree'[p] = to.head[p]
                              /\ (p \in ahead' <=> p \in to.ahead)
      BY <1>0, <1>1, <1>2
    <3> HIDE DEF to
    <3> QED BY <2>1, <3>1, CleanArchive
  <2>3. Here'.base = to.base
    BY <1>0 DEF Here
  <2> QED BY <1>0, <2>1, <2>2, <2>3 DEF ArchiveInv, Grows, Pulled
<1>3. CASE ~orig.open
  <2>1. base' = base /\ head' = head /\ ahead' = ahead /\ log' = log
    BY <1>0, <1>3, HereIt DEF IInv
  <2>2. Here' = Here
    BY <2>1 DEF Here
  <2>3. \A p \in Runtime : p \in Ours' <=> p \in Ours
    BY <1>1, <1>3, <2>1 DEF Ours, GitAssumption
  <2>4. Apart(tree', Ours', origin.files)
    BY <1>1, <1>3, <2>3, ApartCopy DEF ArchiveInv
  <2>5. ArchivedIsNotLive'
    BY <1>1, <1>3, <2>1, Pairs DEF ArchiveInv, ArchivedIsNotLive
  <2> QED BY <1>0, <2>1, <2>2, <2>4, <2>5 DEF ArchiveInv, Pulled
<1> QED BY <1>2, <1>3

(* What the repair puts back in the inbox has no archive at HEAD and is nowhere
   on main. *)
LEMMA RestoreArchive ==
    ASSUME GitAssumption, IInv, ArchiveInv, Restore
    PROVE  ArchiveInv'
<1>0. /\ UNCHANGED <<remote, branch, unmerged, stashed, orig>> /\ pc = "restore" /\ pc' = "pop"
      /\ tree = head
      /\ tree' = [p \in Paths |->
                    IF p \in Runtime /\ tag[p] # 0 /\ head[p] = 0 /\ ~IsArchived(p)
                    THEN tag[p] ELSE tree[p]]
  BY DEF Restore, Goto, IInv, Phase
<1>1. head' = head /\ ahead' = ahead /\ origin' = origin /\ Here' = Here /\ orig' = orig
  BY <1>0 DEF branch, remote, Here
<1>2. ASSUME NEW d \in Decisions
      PROVE  /\ tree'[d] # 0 => tree'[d] # tree'[ArchiveOf[d]] /\ tree'[d] # head[ArchiveOf[d]]
             /\ d \in Ours' /\ tree'[d] # 0 =>
                    tree'[d] # origin.files[d] /\ tree'[d] # origin.files[ArchiveOf[d]]
             /\ ArchiveOf[d] \in Ours' => tree'[ArchiveOf[d]] # 0
             /\ ArchiveOf[d] \in Ours' /\ d \notin Ours' =>
                    tree'[ArchiveOf[d]] # origin.files[d]
  <2>0. /\ d \in Paths /\ ArchiveOf[d] \in Paths /\ d \in Runtime
        /\ ArchiveOf[d] \in Archives
    BY Pairs
  <2>1. /\ head[d] # 0 => head[d] # head[ArchiveOf[d]]
        /\ d \in ahead /\ head[d] # 0 =>
               head[d] # origin.files[d] /\ head[d] # origin.files[ArchiveOf[d]]
        /\ ArchiveOf[d] \in ahead => head[ArchiveOf[d]] # 0
        /\ ArchiveOf[d] \in ahead /\ d \notin ahead => head[ArchiveOf[d]] # origin.files[d]
    BY DEF ArchiveInv, Apart
  <2>2. tree'[ArchiveOf[d]] = head[ArchiveOf[d]]
    BY <1>0, <2>0 DEF ArchiveInv, Pulled
  <2>3. ArchiveOf[d] \in Ours' <=> ArchiveOf[d] \in ahead
    BY <1>1, <2>0, <2>2 DEF Ours
  <2>4. CASE tag[d] # 0 /\ head[d] = 0 /\ head[ArchiveOf[d]] = 0
    <3>1. tree'[d] = tag[d]
      BY <1>0, <2>0, <2>4 DEF IsArchived
    <3>2. tag[d] # origin.files[d] /\ tag[d] # origin.files[ArchiveOf[d]]
      BY <1>0, <2>4 DEF ArchiveInv, Pulled
    <3> QED BY <2>1, <2>2, <2>3, <2>4, <3>1, <3>2
  <2>5. CASE ~(tag[d] # 0 /\ head[d] = 0 /\ head[ArchiveOf[d]] = 0)
    <3>1. tree'[d] = head[d]
      BY <1>0, <2>0, <2>5 DEF IsArchived
    <3>2. d \in Ours' <=> d \in ahead
      BY <1>1, <2>0, <3>1 DEF Ours
    <3> QED BY <2>1, <2>2, <2>3, <3>1, <3>2
  <2> QED BY <2>4, <2>5
<1>3. Apart(tree', Ours', origin.files) /\ ArchivedIsNotLive'
  BY <1>1, <1>2 DEF Apart, ArchivedIsNotLive
<1> QED BY <1>0, <1>1, <1>3 DEF ArchiveInv, Pulled

LEMMA PopArchive == ASSUME GitAssumption, IInv, ArchiveInv, Pop PROVE ArchiveInv'
<1> DEFINE back == IF Clash(head) # {} /\ Torn(head) = {}
                   THEN Untracked \ Clash(head) ELSE held \ Clash(head)
<1>1. UNCHANGED <<origin, branch, orig>> /\ pc' = "idle" /\ tree' = Popped(tree, back)
  BY DEF Pop, Goto, remote
<1>2. back \subseteq held
  BY DEF Untracked
<1> HIDE DEF back
<1>3. \A p \in Runtime : tree'[p] = tree[p]
  BY <1>1, <1>2, PopSpares
<1> QED BY <1>1, <1>3, SameArchive

LEMMA KillRebaseArchive ==
    ASSUME GitAssumption, IInv, ArchiveInv, KillRebase
    PROVE  ArchiveInv'
<1>0. /\ origin' = origin /\ base' = origin /\ head' = origin.files /\ tree' = origin.files
      /\ ahead' = {} /\ orig' = [open |-> TRUE, at |-> Here] /\ pc' = "idle"
  BY DEF KillRebase, Abandon, remote
<1>1. Here.head = head /\ Here.ahead = ahead /\ Here'.base = origin
  BY <1>0 DEF Here
<1>2. Apart(origin.files, {}, origin'.files)
  BY <1>0 DEF ArchiveInv
<1>3. /\ Apart(head, ahead, origin.files)' /\ Apart(tree, Ours, origin.files)'
      /\ ArchivedIsNotLive'
  BY <1>0, <1>2, CleanArchive
<1>4. Apart(Here.head, Here.ahead, origin.files) /\ Grows(Here, origin.files)
  BY <1>1 DEF ArchiveInv
<1> QED BY <1>0, <1>1, <1>2, <1>3, <1>4 DEF ArchiveInv, Grows, Pulled

LEMMA OtherArchive ==
    ASSUME GitAssumption, IInv, ArchiveInv,
           \/ Sync \/ PushFails \/ Kill \/ Settle \/ UNCHANGED vars
           \/ \E p \in Wedges : Wedge(p)
    PROVE  ArchiveInv'
<1>1. UNCHANGED <<origin, branch, tree, orig>>
  BY DEF Sync, PushFails, Kill, Abandon, Settle, Wedge, vars, remote
<1>2. pc' # "restore" \/ UNCHANGED <<pc, tag>>
  BY DEF Sync, PushFails, Kill, Abandon, Settle, Wedge, vars, Goto, stashed
<1>3. pc' = "push" => unmerged' = {}
  BY DEF Sync, PushFails, Kill, Abandon, Settle, Wedge, vars, Goto, ArchiveInv
<1> QED BY <1>1, <1>2, <1>3, SameArchive

LEMMA ArchiveInvariant == Spec => []ArchiveInv
<1>1. Init => ArchiveInv
  BY ArchiveInit, GitAssumption
<1>2. IInv /\ ArchiveInv /\ [Next]_vars => ArchiveInv'
  <2> SUFFICES ASSUME IInv, ArchiveInv, [Next]_vars PROVE ArchiveInv'
    OBVIOUS
  <2>1. CASE UNCHANGED vars
    BY <2>1, OtherArchive, GitAssumption
  <2>2. CASE Next
    <3>1. Touched \subseteq Paths \ Archives /\ Decisions \subseteq Paths
      BY GitAssumption DEF GitAssumption
    <3> QED BY <2>2, <3>1, GitAssumption, OthersArchive, WorkArchive, ExecuteHereArchive,
               OtherArchive, CommitArchive, PushArchive, StashArchive, FollowArchive,
               PullFailsArchive, RestoreArchive, PopArchive, KillRebaseArchive
            DEF Next, SyncStep
  <2> QED BY <2>1, <2>2
<1> QED BY <1>1, <1>2, Invariant, PTL DEF Spec

(* Whatever is executed here or in another checkout, dropped on main, pulled,
   restored or killed half-way, a decision whose archived copy is at HEAD is not
   in the inbox, where the next tick would execute it again. *)
THEOREM ArchivedStaysOut == Spec => []ArchivedIsNotLive
<1>1. ArchiveInv => ArchivedIsNotLive
  BY DEF ArchiveInv
<1> QED BY <1>1, ArchiveInvariant, PTL

----------------------------------------------------------------------------
(* The files of the department *)

(* A runtime file that the department wrote is there, or is in the archive. *)
Stays(f) == \A p \in wrote : f[p] # 0 \/ (p \in Decisions /\ f[ArchiveOf[p]] # 0)

(* What the pull took away is still in the tag. *)
StaysInv == ~killed => ~orig.open /\ Stays(IF pc = "restore" THEN tag ELSE tree)

LEMMA StaysCopy ==
    ASSUME GitAssumption, TypeOK, NEW f, NEW g, Stays(f),
           \A p \in Runtime : g[p] = f[p]
    PROVE  Stays(g)
<1> SUFFICES ASSUME NEW p \in wrote
             PROVE  g[p] # 0 \/ (p \in Decisions /\ g[ArchiveOf[p]] # 0)
  BY DEF Stays
<1>1. p \in Runtime
  BY DEF TypeOK
<1>2. p \in Decisions => g[ArchiveOf[p]] = f[ArchiveOf[p]]
  BY Pairs
<1> QED BY <1>1, <1>2 DEF Stays

(* Steps that leave the runtime files of the checkout alone. *)
LEMMA SameStays ==
    ASSUME GitAssumption, IInv, StaysInv, ~killed' => ~killed, wrote' = wrote,
           ~orig.open => ~orig'.open,
           \/ /\ pc # "restore" /\ pc' # "restore"
              /\ \A p \in Runtime : tree'[p] = tree[p]
           \/ UNCHANGED <<pc, tree, tag>>
    PROVE  StaysInv'
<1> SUFFICES ASSUME ~killed'
             PROVE  ~orig'.open /\ Stays(IF pc = "restore" THEN tag ELSE tree)'
  BY DEF StaysInv
<1>1. ~orig.open /\ Stays(IF pc = "restore" THEN tag ELSE tree)
  BY DEF StaysInv
<1>2. CASE /\ pc # "restore" /\ pc' # "restore"
           /\ \A p \in Runtime : tree'[p] = tree[p]
  <2>1. Stays(tree')
    BY <1>1, <1>2, StaysCopy DEF IInv
  <2> QED BY <1>1, <1>2, <2>1 DEF Stays
<1>3. CASE UNCHANGED <<pc, tree, tag>>
  BY <1>1, <1>3 DEF Stays
<1> QED BY <1>1, <1>2, <1>3

LEMMA DeptStays ==
    ASSUME GitAssumption, IInv, StaysInv, NEW p \in Paths,
           Work(p) \/ (p \in Decisions /\ ExecuteHere(p))
    PROVE  StaysInv'
<1> SUFFICES ASSUME ~killed'
             PROVE  ~orig'.open /\ Stays(IF pc = "restore" THEN tag ELSE tree)'
  BY DEF StaysInv
<1>1. /\ ~orig.open /\ orig' = orig /\ pc = "idle" /\ pc' = "idle" /\ Stays(tree)
      /\ tree \in Files /\ edits \in Nat
  BY Numbers DEF StaysInv, Work, ExecuteHere, IInv, TypeOK
<1>2. ASSUME NEW q \in wrote'
      PROVE  tree'[q] # 0 \/ (q \in Decisions /\ tree'[ArchiveOf[q]] # 0)
  <2>0. q \in Decisions => ArchiveOf[q] \in Paths /\ ArchiveOf[q] \notin Decisions
    BY Pairs
  <2>1. CASE Work(p)
    <3>1. /\ tree'[p] = edits + 1 /\ edits + 1 # 0
          /\ \A r \in Paths : r # p => tree'[r] = tree[r]
      BY <1>1, <2>1 DEF Work, Files
    <3>2. q \in Paths
      BY <1>2, <2>1 DEF Work, IInv, TypeOK, GitAssumption
    <3>3. CASE q = p
      BY <3>1, <3>3
    <3>4. CASE q # p
      <4>1. q \in wrote /\ tree'[q] = tree[q]
        BY <2>1, <3>1, <3>2, <3>4 DEF Work
      <4>2. q \in Decisions => tree'[ArchiveOf[q]] # 0 \/ tree'[ArchiveOf[q]] = tree[ArchiveOf[q]]
        BY <2>0, <3>1
      <4> QED BY <1>1, <4>1, <4>2 DEF Stays
    <3> QED BY <3>3, <3>4
  <2>2. CASE p \in Decisions /\ ExecuteHere(p)
    <3>1. /\ q \in wrote /\ q # p /\ tree[p] # 0
          /\ tree'[ArchiveOf[p]] = tree[p]
          /\ \A r \in Paths \ {p, ArchiveOf[p]} : tree'[r] = tree[r]
      BY <1>1, <2>2, ArchivedIt DEF ExecuteHere
    <3>2. q \in Paths
      BY <3>1 DEF IInv, TypeOK, GitAssumption
    <3>3. tree'[q] # 0 \/ tree'[q] = tree[q]
      BY <3>1, <3>2
    <3>4. q \in Decisions => tree'[ArchiveOf[q]] # 0 \/ tree'[ArchiveOf[q]] = tree[ArchiveOf[q]]
      BY <2>0, <2>2, <3>1
    <3> QED BY <1>1, <3>1, <3>3, <3>4 DEF Stays
  <2> QED BY <2>1, <2>2
<1>3. Stays(tree)'
  BY <1>2 DEF Stays
<1> QED BY <1>1, <1>3

LEMMA StashStays == ASSUME GitAssumption, IInv, StaysInv, Stash PROVE StaysInv'
<1>1. \A p \in Runtime : tree'[p] = tree[p]
  <2>1. CASE unmerged # {}
    BY <2>1 DEF Stash
  <2>2. CASE unmerged = {}
    BY <2>2 DEF Stash, IInv, Phase
  <2> QED BY <2>1, <2>2
<1> QED BY <1>1, SameStays DEF Stash, Goto, ghosts

(* The pull: the tag is what the checkout was. *)
LEMMA FollowStays ==
    ASSUME GitAssumption, IInv, StaysInv, Pull \/ Recover
    PROVE  StaysInv'
<1>1. /\ tag' = tag /\ tree = tag /\ pc = "pull" /\ pc' = "restore"
      /\ killed' = killed /\ wrote' = wrote /\ orig' = orig
  BY DEF Pull, Recover, Goto, Blocked, stashed, ghosts, IInv, Phase
<1> QED BY <1>1 DEF StaysInv, Stays

(* The repair puts back what is neither there nor archived. *)
LEMMA RestoreStays ==
    ASSUME GitAssumption, IInv, ArchiveInv, StaysInv, Restore
    PROVE  StaysInv'
<1> SUFFICES ASSUME ~killed'
             PROVE  ~orig'.open /\ Stays(IF pc = "restore" THEN tag ELSE tree)'
  BY DEF StaysInv
<1>1. /\ orig' = orig /\ pc = "restore" /\ pc' = "pop" /\ killed' = killed /\ wrote' = wrote
      /\ tree = head
      /\ tree' = [p \in Paths |->
                    IF p \in Runtime /\ tag[p] # 0 /\ head[p] = 0 /\ ~IsArchived(p)
                    THEN tag[p] ELSE tree[p]]
  BY DEF Restore, Goto, ghosts, IInv, Phase
<1>2. ~orig.open /\ Stays(tag)
  BY <1>1 DEF StaysInv
<1>3. ASSUME NEW q \in wrote
      PROVE  tree'[q] # 0 \/ (q \in Decisions /\ tree'[ArchiveOf[q]] # 0)
  <2>0. q \in Runtime /\ q \in Paths
    BY DEF IInv, TypeOK, GitAssumption
  <2>1. ASSUME q \in Decisions, head[ArchiveOf[q]] # 0
        PROVE  tree'[ArchiveOf[q]] # 0
    <3>1. ArchiveOf[q] \in Paths
      BY <2>1, Pairs
    <3> QED BY <1>1, <2>1, <3>1
  <2>2. CASE tag[q] # 0
    BY <1>1, <2>0, <2>1, <2>2 DEF IsArchived
  <2>3. CASE tag[q] = 0
    <3>1. q \in Decisions /\ tag[ArchiveOf[q]] # 0
      BY <1>2, <2>3 DEF Stays
    <3>2. head[ArchiveOf[q]] # 0
      BY <1>1, <3>1, Pairs DEF ArchiveInv, Pulled
    <3> QED BY <2>1, <3>1, <3>2
  <2> QED BY <2>2, <2>3
<1>4. Stays(tree)'
  BY <1>1, <1>3 DEF Stays
<1> QED BY <1>1, <1>2, <1>4

LEMMA PullFailsStays == ASSUME GitAssumption, IInv, StaysInv, PullFails PROVE StaysInv'
<1>0. /\ pc = "pull" /\ pc' = "idle" /\ killed' = killed /\ wrote' = wrote
      /\ ~orig'.open
  BY DEF PullFails, Goto, ghosts
<1>1. CASE orig.open
  BY <1>0, <1>1 DEF StaysInv
<1>2. CASE ~orig.open
  <2>1. tree' = Popped(tree, held \ Clash(Here.head))
    BY <1>2 DEF PullFails
  <2>2. \A p \in Runtime : tree'[p] = tree[p]
    BY <2>1, PopSpares
  <2> QED BY <1>0, <2>2, SameStays
<1> QED BY <1>1, <1>2

LEMMA PopStays == ASSUME GitAssumption, IInv, StaysInv, Pop PROVE StaysInv'
<1> DEFINE back == IF Clash(head) # {} /\ Torn(head) = {}
                   THEN Untracked \ Clash(head) ELSE held \ Clash(head)
<1>1. /\ orig' = orig /\ pc = "pop" /\ pc' = "idle" /\ killed' = killed /\ wrote' = wrote
      /\ tree' = Popped(tree, back)
  BY DEF Pop, Goto, ghosts
<1>2. back \subseteq held
  BY DEF Untracked
<1> HIDE DEF back
<1>3. \A p \in Runtime : tree'[p] = tree[p]
  BY <1>1, <1>2, PopSpares
<1> QED BY <1>1, <1>3, SameStays

LEMMA OtherStays ==
    ASSUME GitAssumption, IInv, StaysInv,
           \/ \E p \in Paths : Merge(p) \/ Drop(p)
           \/ \E d \in Decisions : ExecuteThere(d)
           \/ \E p \in Wedges : Wedge(p)
           \/ Sync \/ Commit \/ Push \/ PushFails
           \/ Kill \/ KillRebase \/ Settle \/ UNCHANGED vars
    PROVE  StaysInv'
<1>1. CASE Kill \/ KillRebase
  BY <1>1 DEF Kill, KillRebase, Abandon, StaysInv
<1>2. CASE ~(Kill \/ KillRebase)
  <2>1. /\ killed' = killed /\ wrote' = wrote /\ orig' = orig /\ tree' = tree /\ tag' = tag
    BY <1>2 DEF Merge, Drop, ExecuteThere, Lands, Wedge, Sync, Commit, Push, PushFails,
                Settle, Goto, vars, stashed, ghosts
  <2>2. pc' = pc \/ (pc # "restore" /\ pc' # "restore")
    BY <1>2 DEF Merge, Drop, ExecuteThere, Lands, Wedge, Sync, Commit, Push, PushFails,
                Settle, Goto, vars
  <2> QED BY <2>1, <2>2, SameStays
<1> QED BY <1>1, <1>2

(* Whatever is dropped on main, a runtime file that the department wrote is there
   after the sync or is in the archive, unless a kill left the deletion
   unrepaired (the loss of 2026-06-15). *)
THEOREM WrittenFilesStay == Spec => []FilesStay
<1>1. Init => StaysInv
  BY DEF Init, StaysInv, Stays
<1>2. IInv /\ ArchiveInv /\ StaysInv /\ [Next]_vars => StaysInv'
  <2> SUFFICES ASSUME IInv, ArchiveInv, StaysInv, [Next]_vars PROVE StaysInv'
    OBVIOUS
  <2>1. CASE UNCHANGED vars
    BY <2>1, OtherStays, GitAssumption
  <2>2. CASE Next
    <3>1. Touched \subseteq Paths /\ Decisions \subseteq Paths
      BY GitAssumption DEF GitAssumption
    <3> QED BY <2>2, <3>1, GitAssumption, DeptStays, OtherStays, StashStays, FollowStays,
               PullFailsStays, RestoreStays, PopStays
            DEF Next, SyncStep
  <2> QED BY <2>1, <2>2
<1>3. StaysInv => FilesStay
  BY DEF StaysInv, FilesStay, Stays
<1> QED BY <1>1, <1>2, <1>3, ArchiveInvariant, Invariant, PTL DEF Spec

----------------------------------------------------------------------------
(* Only a kill loses work *)

CleanInv == ~killed => ~orig.open /\ loose = {}

(* The promise of dispatch_helpers.py:5146, "without ever losing work", holds
   whatever git, the network and the others do, as long as no sync was killed:
   failed commits, pushes, pulls and pops lose nothing. *)
THEOREM OnlyKillsLose == Spec => [](~killed => NeverLoses)
<1>1. Init => CleanInv
  BY DEF Init, CleanInv
<1>2. CleanInv /\ [Next]_vars => CleanInv'
  <2> SUFFICES ASSUME CleanInv, [Next]_vars PROVE CleanInv'
    OBVIOUS
  <2>1. CASE Kill \/ KillRebase
    BY <2>1 DEF Kill, KillRebase, Abandon, CleanInv
  <2>2. CASE Commit \/ PullFails
    BY <2>2 DEF Commit, PullFails, Goto, ghosts, CleanInv
  <2>3. CASE ~(Kill \/ KillRebase \/ Commit \/ PullFails)
    <3>1. killed' = killed /\ orig' = orig /\ loose' = loose
      BY <2>3 DEF Next, SyncStep, Merge, Drop, ExecuteThere, ExecuteHere, Lands, Work,
                  Wedge, Sync, Push, PushFails, Stash, Pull, Recover, Restore, Pop,
                  Settle, Goto, vars, stashed, ghosts
    <3> QED BY <3>1 DEF CleanInv
  <2> QED BY <2>1, <2>2, <2>3
<1>3. NothingLost /\ CleanInv => (~killed => NeverLoses)
  BY DEF NothingLost, NeverLoses, CleanInv
<1> QED BY <1>1, <1>2, <1>3, LosesNothing, PTL DEF Spec
=============================================================================
