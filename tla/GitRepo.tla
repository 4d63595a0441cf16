------------------------------ MODULE GitRepo ------------------------------
(***************************************************************************)
(* coding/git_ops.py and ai/tools/git_tools.py: every operation runs       *)
(* several git programs one after another, nothing holds the repository    *)
(* meanwhile, and other turns switch branches, commit and edit in between. *)
(*                                                                         *)
(* A step is one program that is awaited.  The check that a project is a   *)
(* repository, which precedes the programs of a tool, is part of the step  *)
(* of the first of them, and the two reads of one question about the       *)
(* branch are one step: each may go wrong, and nothing is kept in between. *)
(* git (outside this repository) is modelled by what the code asks of it;  *)
(* it refuses to work in a tree that belongs to another user.  What is     *)
(* refused at once (a branch that exists, a bad name) changes nothing and  *)
(* is no step.                                                             *)
(***************************************************************************)
EXTENDS ProjectFiles

VARIABLES
  repo,     \* there is a .git
  head,     \* the branch HEAD names, if it names one
  tips,     \* the edits in the last commit of every branch that has one, and
            \* in that of the last HEAD that named none
  commits,  \* the edits of every commit there ever was; a hash names it
  index,    \* the edits that are staged
  gpc,      \* the program a turn awaits
  reports,  \* what the last git tool of a turn has to report, or has reported
  seen,     \* history: the working tree when git_commit was started
  switched, \* history: turns whose commit was under way when HEAD moved
  misled    \* history: git_init has moved HEAD to a branch that had commits

git == <<repo, head, tips, commits, index, gpc, reports, seen, switched, misled>>

Branches  == {"main", "master", "dev"}
Protected == {"main", "master"}

Unknown  == "unknown"   \* what is read where no branch is read
Detached == "detached"  \* what HEAD names after the checkout of a commit
Heads    == Branches \union {Detached}

(* read is the branch the warning rests on, branch the one the report      *)
(* names, on the one the commit has gone to. *)
Kinds   == {"none", "no repository", "created", "nothing"}
Answers == Branches \union {Unknown}
Reports == [kind : Kinds, read : Answers, warned : BOOLEAN, branch : Answers, on : Heads]

Silent == [kind |-> "none", read |-> Unknown, warned |-> FALSE, branch |-> Unknown, on |-> "main"]

GitTypeOK ==
  /\ repo \in BOOLEAN /\ head \in Heads
  /\ DOMAIN tips \subseteq Heads
  /\ commits \in SUBSET (SUBSET Made)
  /\ \A b \in DOMAIN tips : tips[b] \in commits
  /\ index \subseteq Made
  /\ gpc \in [Turns -> {"idle", "probe", "init", "name main", "look", "add", "name", "commit"}]
  /\ reports \in [Turns -> Reports]
  /\ seen \in [Turns -> SUBSET Made]
  /\ switched \subseteq Turns /\ misled \in BOOLEAN

(* No repository, or one with two branches, of which dev is ahead. *)
GitInit ==
  /\ \/ repo = FALSE /\ tips = [b \in {} |-> {}] /\ (present => work = {1})
     \/ repo = TRUE /\ present /\ work = {} /\ tips = [b \in {"main", "dev"} |-> IF b = "dev" THEN {1} ELSE {}]
  /\ commits = {tips[b] : b \in DOMAIN tips}
  /\ head = "main" /\ index = {}
  /\ gpc = [t \in Turns |-> "idle"]
  /\ reports = [t \in Turns |-> Silent]
  /\ seen = [t \in Turns |-> {}]
  /\ switched = {} /\ misled = FALSE

-----------------------------------------------------------------------------
(* The programs                                                            *)

(* What rev-parse --is-inside-work-tree answers. *)
IsGitRepo == repo /\ owner = "bot"

Recorded(e) == \E c \in commits : e \in c

Tip(b) == IF b \in DOMAIN tips THEN tips[b] ELSE {}

Committing(t) == gpc[t] \in {"add", "name", "commit"}

MoveHead(b) ==
  /\ head' = b
  /\ switched' = IF b = head THEN switched ELSE switched \union {t \in Turns : Committing(t)}

(* What is not committed is carried from the commit old to the commit new: *)
(* what was added to the tree stays added, what was taken out of it stays  *)
(* out. *)
Carry(tree, old, new) == (new \ (old \ tree)) \union (tree \ old)

(* A report of anything but a commit, an error included. *)
Says(t, kind) == reports' = [reports EXCEPT ![t] = [Silent EXCEPT !.kind = kind]]

At(t, pc) == gpc[t] = pc
GoTo(t, pc) == gpc' = [gpc EXCEPT ![t] = pc]

-----------------------------------------------------------------------------
(* git_init                                                                *)

StartInit(t) ==
  /\ At(t, "idle") /\ present
  /\ GoTo(t, "probe") /\ Says(t, "none")
  /\ UNCHANGED <<files, repo, head, tips, commits, index, seen, switched, misled>>

(* A probe that fails, for whatever reason, counts as no repository. *)
ProbeInit(t) ==
  /\ At(t, "probe")
  /\ GoTo(t, "init") \/ (IsGitRepo /\ GoTo(t, "idle"))
  /\ UNCHANGED <<files, repo, head, tips, commits, index, reports, seen, switched, misled>>

(* In a repository git init changes nothing. *)
RunInit(t) ==
  /\ At(t, "init")
  /\ repo' = TRUE
  /\ IF repo THEN UNCHANGED <<head, tips, index, switched>>
     ELSE MoveHead("master") /\ tips' = [b \in {} |-> {}] /\ index' = {}
  /\ GoTo(t, "name main")
  /\ UNCHANGED <<files, commits, reports, seen, misled>>

(* symbolic-ref, whose outcome nobody reads: it moves HEAD and nothing     *)
(* else, or fails. *)
NameMain(t) ==
  /\ At(t, "name main")
  /\ \/ /\ IsGitRepo /\ MoveHead("main")
        /\ misled' = (misled \/ (head # "main" /\ "main" \in DOMAIN tips))
     \/ UNCHANGED <<head, switched, misled>>
  /\ GoTo(t, "idle")
  /\ UNCHANGED <<files, repo, tips, commits, index, reports, seen>>

-----------------------------------------------------------------------------
(* git_create_branch and git_checkout                                      *)

(* Bug: -B, which takes a name that is used. *)
CreateAnyBranch(t, b, checkout) ==
  /\ At(t, "idle") /\ present /\ IsGitRepo
  /\ head \in DOMAIN tips
  /\ tips' = [c \in DOMAIN tips \union {b} |-> IF c = b THEN tips[head] ELSE tips[c]]
  /\ IF checkout THEN MoveHead(b) ELSE UNCHANGED <<head, switched>>
  /\ Says(t, "none")
  /\ UNCHANGED <<files, repo, commits, index, gpc, seen, misled>>

CreateBranch(t, b, checkout) ==
  /\ At(t, "idle") /\ present /\ IsGitRepo
  /\ b \notin DOMAIN tips
  /\ checkout \/ head \in DOMAIN tips
  /\ tips' = IF head \in DOMAIN tips
             THEN [c \in DOMAIN tips \union {b} |-> IF c = b THEN tips[head] ELSE tips[c]]
             ELSE tips
  /\ IF checkout THEN MoveHead(b) ELSE UNCHANGED <<head, switched>>
  /\ Says(t, "none")
  /\ UNCHANGED <<files, repo, commits, index, gpc, seen, misled>>

(* git refuses where the two commits disagree about what was taken out,    *)
(* and may where they do about the file of what was added. *)
Switch(new) ==
  /\ Tip(head) \ (work \intersect index) \subseteq new
  /\ work'  = Carry(work, Tip(head), new)
  /\ index' = Carry(index, Tip(head), new)
  /\ undone' = undone \ work'

CheckoutBranch(t, b) ==
  /\ At(t, "idle") /\ present /\ IsGitRepo
  /\ b \in DOMAIN tips \intersect Branches
  /\ Switch(tips[b]) /\ MoveHead(b)
  /\ Says(t, "none")
  /\ UNCHANGED <<present, made, owner, repo, tips, commits, gpc, seen, misled>>

(* A hash is a name like any other. *)
CheckoutCommit(t, c) ==
  /\ At(t, "idle") /\ present /\ IsGitRepo
  /\ Switch(c) /\ MoveHead(Detached)
  /\ tips' = [b \in DOMAIN tips \union {Detached} |-> IF b = Detached THEN c ELSE tips[b]]
  /\ Says(t, "none")
  /\ UNCHANGED <<present, made, owner, repo, commits, gpc, seen, misled>>

(* So is that of a file or a directory (there is no "--"): what is staged  *)
(* of it is put back, and what is not is gone. *)
CheckoutPath(t) ==
  /\ At(t, "idle") /\ present /\ IsGitRepo
  /\ \E gone \in SUBSET (work \ index) \ {{}}, back \in SUBSET (index \ work) :
       work' = (work \ gone) \union back /\ undone' = (undone \union gone) \ back
  /\ Says(t, "none")
  /\ UNCHANGED <<present, made, owner, repo, head, tips, commits, index, gpc, seen, switched, misled>>

Checkout(t) ==
  \/ \E b \in Branches : CheckoutBranch(t, b)
  \/ \E c \in commits : CheckoutCommit(t, c)
  \/ CheckoutPath(t)

(* Every tool but git_init says so; one whose check itself went wrong says *)
(* the same, and is like one that failed. *)
NoRepository(t) ==
  /\ At(t, "idle") /\ present /\ ~IsGitRepo
  /\ Says(t, "no repository")
  /\ UNCHANGED <<files, repo, head, tips, commits, index, gpc, seen, switched, misled>>

-----------------------------------------------------------------------------
(* git_commit: handle_git_commit and git_commit_all                        *)

StartCommit(t) ==
  /\ At(t, "idle") /\ present
  /\ seen' = [seen EXCEPT ![t] = work]
  /\ switched' = switched \ {t}
  /\ GoTo(t, "look") /\ Says(t, "none")
  /\ UNCHANGED <<files, repo, head, tips, commits, index, misled>>

(* Bug: the old name of the main branch is forgotten. *)
IsMain(b) == b = "main"

IsProtectedBranch(b) == b \in Protected

(* git_current_branch: rev-parse --abbrev-ref, and symbolic-ref where that *)
(* named no branch.  Nobody reads how they ended: where HEAD names no      *)
(* branch, and where both of them failed or took too long, the answer is   *)
(* "unknown". *)
CurrentBranch == {head, Unknown} \ {Detached}

(* Whether to warn is decided here. *)
Look(t) ==
  /\ At(t, "look") /\ IsGitRepo
  /\ \E b \in CurrentBranch :
       reports' = [reports EXCEPT ![t].read = b, ![t].warned = IsProtectedBranch(b)]
  /\ GoTo(t, "add")
  /\ UNCHANGED <<files, repo, head, tips, commits, index, seen, switched, misled>>

(* Bug: only one directory is staged. *)
AddApp(t) ==
  /\ At(t, "add") /\ IsGitRepo
  /\ \E e \in work : index' = index \union {e}
  /\ GoTo(t, "name")
  /\ UNCHANGED <<files, repo, head, tips, commits, reports, seen, switched, misled>>

Add(t) ==
  /\ At(t, "add") /\ IsGitRepo
  /\ index' = work
  /\ GoTo(t, "name")
  /\ UNCHANGED <<files, repo, head, tips, commits, reports, seen, switched, misled>>

(* The branch is read again, for the report to name. *)
Name(t) ==
  /\ At(t, "name") /\ IsGitRepo
  /\ \E b \in CurrentBranch : reports' = [reports EXCEPT ![t].branch = b]
  /\ GoTo(t, "commit")
  /\ UNCHANGED <<files, repo, head, tips, commits, index, seen, switched, misled>>

Tell(t, kind) == reports' = [reports EXCEPT ![t].kind = kind, ![t].on = head]

RunCommit(t) ==
  /\ At(t, "commit") /\ IsGitRepo
  /\ index # Tip(head)
  /\ tips' = [b \in DOMAIN tips \union {head} |-> IF b = head THEN index ELSE tips[b]]
  /\ commits' = commits \union {index}
  /\ Tell(t, "created")
  /\ GoTo(t, "idle")
  /\ UNCHANGED <<files, repo, head, index, seen, switched, misled>>

(* git has two ways to say it, and one of them raises. *)
NothingToCommit(t) ==
  /\ At(t, "commit") /\ IsGitRepo
  /\ index = Tip(head)
  /\ IF work = index THEN Tell(t, "nothing") ELSE Says(t, "none")
  /\ GoTo(t, "idle")
  /\ UNCHANGED <<files, repo, head, tips, commits, index, seen, switched, misled>>

(* A check, add or commit fails or takes longer than a minute, or the      *)
(* executor raises; or there is no repository any more that git would work *)
(* in. *)
GitFails(t) ==
  /\ gpc[t] \in {"init", "look", "add", "name", "commit"}
  /\ \/ Says(t, "none")
     \/ ~IsGitRepo /\ gpc[t] # "init" /\ Says(t, "no repository")
  /\ GoTo(t, "idle")
  /\ seen' = [seen EXCEPT ![t] = {}] /\ switched' = switched \ {t}
  /\ UNCHANGED <<files, repo, head, tips, commits, index, misled>>

(* The tools a turn may start, and how one goes on. *)
GitStart(t) ==
  \/ StartInit(t) \/ StartCommit(t) \/ NoRepository(t)
  \/ Checkout(t)
  \/ \E checkout \in BOOLEAN : CreateBranch(t, "dev", checkout)

GitStep(t) ==
  \/ ProbeInit(t) \/ RunInit(t) \/ NameMain(t)
  \/ Look(t) \/ Add(t) \/ Name(t) \/ RunCommit(t) \/ NothingToCommit(t) \/ GitFails(t)

-----------------------------------------------------------------------------
(* Properties                                                              *)

(* What git_commit tells the operator is true of the commit it made        *)
(* (git_tools.py:85-93): the branch it names is the one the commit is on,  *)
(* it never warns of a commit that is somewhere else, and it keeps silent  *)
(* about the main branch only where the branch could not be read; unless   *)
(* HEAD was moved by another turn after the branch had been read. *)
CommitReportIsRight ==
  \A t \in Turns \ switched :
    reports[t].kind = "created" =>
      /\ reports[t].branch \in {reports[t].on, Unknown}
      /\ reports[t].warned => reports[t].on \in Protected
      /\ reports[t].on \in Protected => reports[t].warned \/ reports[t].read = Unknown

(* Everything that was in the working tree when git_commit was approved    *)
(* and run is in a commit once the tool says that it has committed or that *)
(* there is nothing to commit (git_ops.py:123-144), whoever committed it,  *)
(* whatever HEAD named by then and whatever was checked out meanwhile;     *)
(* unless a tool that wrote, deleted or checked out its file has undone it *)
(* before it was staged. *)
ApprovedEditsAreCommitted ==
  \A t \in Turns :
    (At(t, "idle") /\ reports[t].kind \in {"created", "nothing"}) =>
      \A e \in seen[t] \ undone : Recorded(e)

(* A commit takes nothing back that its branch already had and that nobody *)
(* has overwritten, deleted or discarded, whatever other turns check out   *)
(* and stage between its programs.  The exception is a git_init that takes *)
(* a repository for none (a probe that failed, another turn that was       *)
(* faster): symbolic-ref moves HEAD to main and leaves the tree of the     *)
(* other branch in place (git_ops.py:61-68). *)
CommitsOnlyAdd ==
  [][~misled' => \A b \in DOMAIN tips \intersect Branches :
                    b \in DOMAIN tips' /\ tips[b] \ undone \subseteq tips'[b]]_tips

(* What git_tools.py:87 promises without a condition: a commit to the main *)
(* branch is never made without a warning. *)
MainIsWarnedOf ==
  \A t \in Turns :
    (reports[t].kind = "created" /\ reports[t].on \in Protected) => reports[t].warned

(* "A commit was made directly to the main branch" (git_tools.py:90) is    *)
(* said of a commit that was made. *)
WarnsOfCommits ==
  \A t \in Turns :
    (reports[t].kind # "none" /\ reports[t].warned) => reports[t].kind = "created"

(* README.md:198: after the tests in the sandbox comes git.  A project     *)
(* whose repository exists is never said to have none. *)
RepositoryIsKnown ==
  \A t \in Turns : reports[t].kind = "no repository" => ~repo
=============================================================================
