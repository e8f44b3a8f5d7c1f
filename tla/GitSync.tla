------------------------------- MODULE GitSync -------------------------------
(* safe_pull, the first step of a department's tick: what the department      *)
(* wrote is committed and pushed, what may not be pushed is stashed, main is  *)
(* pulled with a rebase, runtime files that the pull deleted are put back,    *)
(* the stash is popped.  Others commit to main at any moment, the process may *)
(* be killed between two git commands.                                        *)
(*                                                                         *)
(* A file's content is the number of the edit that made it, 0 when there is  *)
(* no file; two edits of one file do not merge.                              *)
EXTENDS Naturals

CONSTANTS Paths,
          Runtime,      \* what a runtime push may carry; the others are structural
          Decisions,    \* runtime files that are archived once they are executed
          ArchiveOf,    \* [Decisions -> the same name under .processed/]
          Start,        \* files of the first commit
          Touched,      \* what others edit or drop on main
          MaxEdits,
          Wedges        \* files whose index entry may go stale

Archives == {ArchiveOf[d] : d \in Decisions}
Edits == 1 .. MaxEdits
Files == [Paths -> 0 .. MaxEdits]

ASSUME GitAssumption ==
    /\ Runtime \subseteq Paths
    /\ ArchiveOf \in [Decisions -> Runtime]
    /\ \A d, e \in Decisions : ArchiveOf[d] = ArchiveOf[e] => d = e
    /\ Decisions \subseteq Runtime \ Archives
    /\ Start \subseteq Paths \ Archives
    /\ Touched \subseteq Paths \ Archives
    /\ Wedges \subseteq Paths
    /\ MaxEdits \in Nat \ {0}

VARIABLES
    origin,    \* [files, log]: the tip of main, and the edits of its history
    base,      \* the commit of main that HEAD builds on
    head,      \* files at HEAD
    ahead,     \* files that the unpushed commits change
    log,       \* edits in the unpushed commits
    tree,      \* files of the checkout
    unmerged,  \* files with conflict markers
    wedged,    \* files whose index entry is stale
    held,      \* files in the stash of this sync
    stash,     \* their contents
    tag,       \* files at HEAD before the pull
    orig,      \* what rebase --abort goes back to, while a rebase is open
    shelf,     \* edits in stashes that no sync pops any more
    pc,
    edits,     \* edits so far
    keep,      \* edits of the department that it has not replaced itself
    wrote,     \* runtime files that the department wrote and did not archive
    loose,     \* edits committed while a rebase was open
    killed,
    calm       \* nothing fails from here on

remote == <<origin, edits>>
branch == <<base, head, ahead, log>>
stashed == <<held, stash, tag, shelf>>
ghosts == <<keep, wrote, loose>>
vars == <<remote, branch, tree, unmerged, wedged, stashed, orig, pc, ghosts,
          killed, calm>>

Commits == [files : Files, log : SUBSET Edits]
Branches == [base : Commits, head : Files, ahead : SUBSET Paths, log : SUBSET Edits]

Here == [base |-> base, head |-> head, ahead |-> ahead, log |-> log]

TypeOK ==
    /\ origin \in Commits /\ base \in Commits
    /\ head \in Files /\ tree \in Files /\ stash \in Files /\ tag \in Files
    /\ ahead \subseteq Paths /\ unmerged \subseteq Paths
    /\ wedged \subseteq Paths /\ held \subseteq Paths
    /\ log \subseteq Edits /\ shelf \subseteq Edits
    /\ keep \subseteq Edits /\ loose \subseteq Edits
    /\ orig \in [open : {FALSE}] \cup [open : {TRUE}, at : Branches]
    /\ pc \in {"idle", "commit", "push", "stash", "pull", "restore", "pop"}
    /\ edits \in 0 .. MaxEdits
    /\ wrote \subseteq Runtime
    /\ killed \in BOOLEAN /\ calm \in BOOLEAN

First == [p \in Paths |-> IF p \in Start THEN 1 ELSE 0]

Init ==
    /\ origin = [files |-> First, log |-> {1}] /\ base = origin
    /\ head = First /\ tree = First /\ stash = First /\ tag = First
    /\ ahead = {} /\ log = {}
    /\ unmerged = {} /\ wedged = {} /\ held = {} /\ shelf = {}
    /\ orig = [open |-> FALSE]
    /\ pc = "idle" /\ edits = 1
    /\ keep = {} /\ wrote = {} /\ loose = {} /\ killed = FALSE /\ calm = FALSE

Dirty == {p \in Paths : tree[p] # head[p]} \cup unmerged
Contents(f, P) == {f[p] : p \in P} \ {0}

----------------------------------------------------------------------------
(* Others: a merged pull request edits or, made from an older main, drops a   *)
(* file; another checkout of the department executes a decision.              *)

Lands(files) ==
    /\ edits < MaxEdits
    /\ edits' = edits + 1
    /\ origin' = [files |-> files, log |-> origin.log \cup {edits + 1}]
    /\ UNCHANGED <<branch, tree, unmerged, wedged, stashed, orig, pc, ghosts, killed, calm>>

Merge(p) == Lands([origin.files EXCEPT ![p] = edits + 1])

Drop(p) == origin.files[p] # 0 /\ Lands([origin.files EXCEPT ![p] = 0])

Archived(files, d) == [files EXCEPT ![d] = 0, ![ArchiveOf[d]] = files[d]]

ExecuteThere(d) == origin.files[d] # 0 /\ Lands(Archived(origin.files, d))

----------------------------------------------------------------------------
(* The department between two syncs: its agents and the console's decisions.  *)

Work(p) ==
    /\ pc = "idle" /\ p \notin unmerged
    /\ edits < MaxEdits
    /\ edits' = edits + 1
    /\ tree' = [tree EXCEPT ![p] = edits + 1]
    /\ keep' = (keep \ {tree[p]}) \cup {edits + 1}
    /\ wrote' = wrote \cup ({p} \cap Runtime)
    /\ UNCHANGED <<origin, branch, unmerged, wedged, stashed, orig, pc, loose,
                    killed, calm>>

ExecuteHere(d) ==
    /\ pc = "idle" /\ tree[d] # 0
    /\ tree' = Archived(tree, d)
    /\ keep' = keep \ {tree[ArchiveOf[d]]}
    /\ wrote' = wrote \ {d}
    /\ UNCHANGED <<remote, branch, unmerged, wedged, stashed, orig, pc, loose,
                    killed, calm>>

(* A process touches a tracked file and leaves its content alone. *)
Wedge(p) ==
    /\ ~calm /\ pc = "idle"
    /\ head[p] # 0 /\ tree[p] = head[p]
    /\ wedged' = wedged \cup {p}
    /\ UNCHANGED <<remote, branch, tree, unmerged, stashed, orig, pc, ghosts, killed, calm>>

----------------------------------------------------------------------------
(* The sync *)

Goto(l) == pc' = l /\ UNCHANGED <<killed, calm>>

Sync ==
    /\ pc = "idle" /\ Goto("commit")
    /\ UNCHANGED <<remote, branch, tree, unmerged, wedged, stashed, orig, ghosts>>

(* Only runtime files are staged; git commits nothing while a file is unmerged. *)
Commit ==
    /\ pc = "commit"
    /\ LET staged == Dirty \cap Runtime IN
       IF staged = {} \/ unmerged # {}
       THEN Goto("stash") /\ UNCHANGED <<branch, wedged, loose>>
       ELSE /\ Goto("push")
            /\ head' = [p \in Paths |-> IF p \in staged THEN tree[p] ELSE head[p]]
            /\ ahead' = ahead \cup staged
            /\ log' = log \cup Contents(tree, staged)
            /\ wedged' = wedged \ staged
            /\ loose' = IF orig.open THEN loose \cup Contents(tree, staged) ELSE loose
            /\ UNCHANGED base
    /\ UNCHANGED <<remote, tree, unmerged, stashed, orig, keep, wrote>>

(* The push goes through when main has not moved since the last pull. *)
Push ==
    /\ pc = "push" /\ base = origin /\ ~orig.open
    /\ origin' = [files |-> head, log |-> origin.log \cup log]
    /\ base' = origin' /\ ahead' = {} /\ log' = {}
    /\ Goto("stash")
    /\ UNCHANGED <<edits, head, tree, unmerged, wedged, stashed, orig, ghosts>>

PushFails ==
    /\ pc = "push" /\ (base # origin \/ orig.open \/ ~calm)
    /\ Goto("stash")
    /\ UNCHANGED <<remote, branch, tree, unmerged, wedged, stashed, orig, ghosts>>

(* git stash push fails as a whole while a file is unmerged. *)
Stash ==
    /\ pc = "stash" /\ Goto("pull")
    /\ tag' = head
    /\ IF unmerged # {}
       THEN held' = {} /\ UNCHANGED <<stash, tree, wedged>>
       ELSE /\ held' = Dirty /\ stash' = tree /\ tree' = head
            /\ wedged' = wedged \ Dirty
    /\ UNCHANGED <<remote, branch, unmerged, shelf, orig, ghosts>>

(* git stash pop over the files h: it does not overwrite a file that was not  *)
(* tracked when it was stashed, and it leaves markers where a tracked file    *)
(* has changed.                                                               *)
Untracked == {p \in held : tag[p] = 0}
Clash(h) == {p \in Untracked : h[p] # 0}
Torn(h) == {p \in held \ Untracked : h[p] # tag[p] /\ h[p] # stash[p]}
PopFails(h) == Clash(h) \cup Torn(h) # {}
Popped(files, back) == [p \in Paths |-> IF p \in back THEN stash[p] ELSE files[p]]

(* A stash whose pop fails is kept, and no later sync looks at it. *)
Shelve(h) ==
    /\ shelf' = IF PopFails(h) THEN shelf \cup Contents(stash, held) ELSE shelf
    /\ unmerged' = unmerged \cup Torn(h)
    /\ held' = {}
    /\ UNCHANGED <<stash, tag>>

Changed == {p \in Paths : origin.files[p] # base.files[p]}
Conflicts == {p \in ahead \cap Changed : origin.files[p] # head[p]}
Blocked == unmerged # {} \/ orig.open
Stale == wedged \cap Changed

(* _recover_mtime_wedge proves that a hard reset discards nothing. *)
Proven_OwnPaths ==
    /\ ahead \cap Stale = {}
    /\ \A p \in Stale : tree[p] \in {head[p], origin.files[p]}
    /\ Dirty \subseteq Stale

Proven_Never == FALSE

Proven ==
    /\ ahead = {}
    /\ \A p \in Stale : tree[p] \in {head[p], origin.files[p]}
    /\ Dirty \subseteq Stale

Pull ==
    /\ pc = "pull" /\ ~Blocked /\ Stale = {} /\ Conflicts = {}
    /\ base' = origin
    /\ head' = [p \in Paths |-> IF p \in ahead THEN head[p] ELSE origin.files[p]]
    /\ tree' = head'
    /\ ahead' = {p \in ahead : head[p] # origin.files[p]}
    /\ log' = IF ahead' = {} THEN {} ELSE log
    /\ Goto("restore")
    /\ UNCHANGED <<remote, unmerged, wedged, stashed, orig, ghosts>>

Recover ==
    /\ pc = "pull" /\ ~Blocked /\ Stale # {} /\ Proven
    /\ base' = origin /\ head' = origin.files /\ tree' = origin.files
    /\ ahead' = {} /\ log' = {}
    /\ wedged' = wedged \ Stale
    /\ Goto("restore")
    /\ UNCHANGED <<remote, unmerged, stashed, orig, ghosts>>

(* The rebase is aborted, also one that an earlier sync left open, and the    *)
(* stash is popped.                                                           *)
PullFails ==
    /\ pc = "pull"
    /\ Blocked \/ (Stale # {} /\ ~Proven) \/ (Stale = {} /\ Conflicts # {}) \/ ~calm
    /\ LET to == IF orig.open THEN orig.at ELSE Here IN
       /\ base' = to.base /\ head' = to.head /\ ahead' = to.ahead /\ log' = to.log
       /\ tree' = Popped(IF orig.open THEN to.head ELSE tree, held \ Clash(to.head))
       /\ Shelve(to.head)
    /\ orig' = [open |-> FALSE]
    /\ Goto("idle")
    /\ UNCHANGED <<remote, wedged, ghosts>>

(* _is_archived_at_head asks for the name, not for the content. *)
IsArchived_No(p) == FALSE
IsArchived_AnyDecision(p) == p \in Decisions

IsArchived(p) == p \in Decisions /\ head[ArchiveOf[p]] # 0

Restore ==
    /\ pc = "restore" /\ Goto("pop")
    /\ tree' = [p \in Paths |->
                  IF p \in Runtime /\ tag[p] # 0 /\ head[p] = 0 /\ ~IsArchived(p)
                  THEN tag[p] ELSE tree[p]]
    /\ UNCHANGED <<remote, branch, unmerged, wedged, stashed, orig, ghosts>>

(* After a failed pop "git checkout -- ." takes the tracked edits away again,
   but it does nothing at all when a file is unmerged. *)
Pop ==
    /\ pc = "pop" /\ Goto("idle")
    /\ tree' = Popped(tree, IF Clash(head) # {} /\ Torn(head) = {}
                            THEN Untracked \ Clash(head) ELSE held \ Clash(head))
    /\ Shelve(head)
    /\ UNCHANGED <<remote, branch, wedged, orig, ghosts>>

SyncStep == Sync \/ Commit \/ Push \/ PushFails \/ Stash \/ Pull \/ Recover
            \/ PullFails \/ Restore \/ Pop

----------------------------------------------------------------------------
(* A kill.  The stash and the tag stay behind; a rebase that is hit before    *)
(* its first pick leaves HEAD detached at main.                               *)

Abandon ==
    /\ ~calm /\ killed' = TRUE
    /\ pc' = "idle"
    /\ shelf' = shelf \cup Contents(stash, held) /\ held' = {}
    /\ UNCHANGED <<remote, stash, tag, unmerged, wedged, ghosts, calm>>

Kill ==
    /\ pc # "idle" /\ Abandon
    /\ UNCHANGED <<branch, tree, orig>>

KillRebase ==
    /\ pc = "pull" /\ ~Blocked /\ Stale = {}
    /\ ahead # {} /\ Changed # {}
    /\ Abandon
    /\ orig' = [open |-> TRUE, at |-> Here]
    /\ base' = origin /\ head' = origin.files /\ tree' = origin.files
    /\ ahead' = {} /\ log' = {}

Settle ==
    /\ ~calm /\ calm' = TRUE
    /\ UNCHANGED <<remote, branch, tree, unmerged, wedged, stashed, orig, pc, ghosts, killed>>

Next ==
    \/ \E p \in Touched : Merge(p) \/ Drop(p)
    \/ \E p \in Paths \ Archives : Work(p)
    \/ \E d \in Decisions : ExecuteThere(d) \/ ExecuteHere(d)
    \/ \E p \in Wedges : Wedge(p)
    \/ SyncStep \/ Kill \/ KillRebase \/ Settle

Spec == Init /\ [][Next]_vars

(* A tick comes again and again, and it starts with a sync; failures end. *)
Fairness == WF_vars(SyncStep) /\ WF_vars(Settle)
FairSpec == Spec /\ Fairness

----------------------------------------------------------------------------
(* Properties *)

(* Where an edit still is: in the checkout, in a stash, or in a commit that a
   branch reaches. *)
Reached == Contents(tree, Paths) \cup Contents(stash, held) \cup shelf
           \cup log \cup origin.log \cup (IF orig.open THEN orig.at.log ELSE {})

(* An edit of the department that it has not replaced itself is somewhere,
   unless it was committed on top of the rebase that a kill left open. *)
NothingLost == keep \subseteq Reached \cup loose

(* dispatch_helpers.py:5146 "make the pull RELIABLE without ever losing work". *)
NeverLoses == keep \subseteq Reached

(* #1043: a decision whose archived copy is at HEAD is not in the inbox too,
   where the next tick would execute it again. *)
ArchivedIsNotLive ==
    \A d \in Decisions : tree[d] # 0 => tree[d] # head[ArchiveOf[d]]

(* The loss of 2026-06-15: whatever is dropped on main, a runtime file that
   the department wrote is there after the sync, or a file of its name is in
   the archive, unless a kill left the deletion unrepaired. *)
FilesStay ==
    pc = "idle" /\ ~killed =>
        \A p \in wrote : tree[p] # 0 \/ (p \in Decisions /\ tree[ArchiveOf[p]] # 0)

(* HEAD cannot follow main: markers in the checkout, an unpushed commit that
   conflicts with main, or a stale entry that may not be reset. *)
Stuck == unmerged # {} \/ Conflicts # {} \/ (Stale # {} /\ ahead # {})

(* The checkout gets to the tip of main again and again unless it is stuck. *)
LandsOrSticks == []<>(base = origin \/ Stuck)

(* scaffold.py:302 "so a merged change auto-lands; never blocks on a dirty
   tree". *)
MergedLands == []<>(base = origin)
=============================================================================
