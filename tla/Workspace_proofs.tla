-------------------------- MODULE Workspace_proofs --------------------------
(***************************************************************************)
(* Proofs about Workspace: what its tools promise holds for every number   *)
(* of turns, of edits, of probes and of starts.  The invariant has one     *)
(* part for every component; a step of one component leaves the variables  *)
(* of the others alone, so each part has a lemma for its own steps, and    *)
(* one for the steps that only touch the files.                            *)
(***************************************************************************)
EXTENDS Workspace, TLAPS

(* What the git tools know of a commit that is under way. *)
WarnedRightly(t) ==
  /\ reports[t].warned => head \in Protected
  /\ head \in Protected => reports[t].warned \/ reports[t].read = Unknown

ReportsInvariant ==
  /\ \A t \in Turns :
       gpc[t] \in {"look", "add", "name", "commit"} => reports[t].kind = "none"
  /\ \A t \in Turns \ switched : Committing(t) => WarnedRightly(t)
  /\ \A t \in Turns \ switched : At(t, "commit") => reports[t].branch \in {head, Unknown}
  /\ CommitReportIsRight

(* But for what was undone, what is committed is staged and what is staged *)
(* is in the tree. *)
Staged == Tip(head) \ undone \subseteq index /\ index \ undone \subseteq work

(* An edit that is staged can be told to be somewhere. *)
IndexKnown == \A e \in index : e \in work \union undone \/ Recorded(e)

(* What was there when a commit was started is on its way into one; what   *)
(* was undone and is not staged cannot come back. *)
OnItsWay(t) ==
  \A e \in seen[t] :
    /\ gpc[t] \in {"look", "add"} => e \in work \union undone \/ Recorded(e)
    /\ gpc[t] \in {"name", "commit"} => e \in index \union undone \/ Recorded(e)
    /\ reports[t].kind \in {"created", "nothing"} => e \in undone \ index \/ Recorded(e)

TreeInvariant ==
  /\ ~repo => DOMAIN tips = {}
  /\ \A t \in Turns : Committing(t) => repo
  /\ IndexKnown /\ \A t \in Turns : OnItsWay(t)
  /\ ~misled => Staged

(* Where the container of a run is while the tool is at work. *)
SandboxInvariant ==
  /\ \A t \in Turns :
       /\ In(t, "chown") => ctr[t] = "none"
       /\ In(t, "ok") => ctr[t] = "gone"
  /\ SurvivorNeedsFailedRemoval

(* The turn that probes after its own build probes that build. *)
DeploymentInvariant ==
  /\ told # {} \/ (\E b \in builder : dpc[b] = "probe") => served = image
  /\ told # {} => cont = "up" \/ lost \/ \E u \in Turns : dpc[u] = "start"

(* The statements of the registry write outcomes only. *)
RegistryInvariant == \A t \in Turns : rpc[t] = "update" => sets[t] \in Outcomes

(* A turn awaits one thing at a time. *)
OneAtATime ==
  \A t \in Turns :
    /\ gpc[t] # "idle" => spc[t] = "idle" /\ dpc[t] = "idle" /\ rpc[t] = "idle"
    /\ spc[t] # "idle" => dpc[t] = "idle" /\ rpc[t] = "idle"
    /\ dpc[t] # "idle" => rpc[t] = "idle"

Types == FilesTypeOK /\ GitTypeOK /\ SandboxTypeOK /\ DeploymentTypeOK /\ RegistryTypeOK

WorkspaceInvariant ==
  /\ Types /\ OneAtATime
  /\ ReportsInvariant /\ TreeInvariant
  /\ SandboxInvariant /\ DeploymentInvariant /\ RegistryInvariant

-----------------------------------------------------------------------------
(* Files and git                                                           *)

(* What becomes of the tree outside git: edits are added, and those that   *)
(* go are undone. *)
TreeMoves ==
  /\ work \subseteq work' \union undone' /\ undone \subseteq undone'
  /\ Made \subseteq Made'

LEMMA EditsKnown ==
  ASSUME FilesTypeOK
  PROVE  work \subseteq Edits
BY FilesAssumption DEF FilesTypeOK, Edits, Made

LEMMA FilesStay ==
  ASSUME FilesTypeOK, UNCHANGED files
  PROVE  FilesTypeOK' /\ TreeMoves
BY DEF FilesTypeOK, TreeMoves, files, Made

LEMMA ChangeTyped ==
  ASSUME FilesTypeOK, Change
  PROVE  FilesTypeOK' /\ TreeMoves
<1>1. made' = made + 1 /\ made \in 0..MaxEdits /\ made < MaxEdits
  BY DEF Change, FilesTypeOK
<1>2. made' \in 0..MaxEdits /\ Made' = Made \union {made'} /\ made' \notin Made
  BY <1>1, FilesAssumption DEF Made
<1>3. PICK over \in SUBSET work :
        work' = (work \ over) \union {made'} /\ undone' = undone \union over
  BY DEF Change
<1>4. work' \subseteq Made' /\ undone' \subseteq Made' \ work'
  BY <1>2, <1>3 DEF FilesTypeOK
<1>5. TreeMoves
  BY <1>2, <1>3 DEF TreeMoves
<1> QED
  BY <1>2, <1>4, <1>5 DEF Change, FilesTypeOK

LEMMA SaysTyped ==
  ASSUME reports \in [Turns -> Reports], NEW t \in Turns, NEW k \in Kinds, Says(t, k)
  PROVE  /\ reports' \in [Turns -> Reports]
         /\ reports'[t].kind = k
         /\ \A u \in Turns \ {t} : reports'[u] = reports[u]
<1> DEFINE r == [Silent EXCEPT !.kind = k]
<1>1. r \in Reports /\ r.kind = k
  BY DEF Silent, Reports, Kinds, Answers, Heads, Branches
<1>2. reports' = [reports EXCEPT ![t] = r]
  BY DEF Says
<1> HIDE DEF r
<1> QED
  BY <1>1, <1>2

(* A branch more, or a tip that has moved. *)
LEMMA TipsTyped ==
  ASSUME DOMAIN tips \subseteq Heads, \A b \in DOMAIN tips : tips[b] \in commits,
         NEW c \in Heads, NEW s,
         tips' = [b \in DOMAIN tips \union {c} |-> IF b = c THEN s ELSE tips[b]],
         commits' = commits \union {s}
  PROVE  DOMAIN tips' \subseteq Heads /\ \A b \in DOMAIN tips' : tips'[b] \in commits'
OBVIOUS

(* What Switch leaves in the tree and in the index was there, or is in the *)
(* commit that HEAD is moved to. *)
LEMMA SwitchTyped ==
  ASSUME FilesTypeOK, index \subseteq Made, NEW s \in SUBSET Made, Switch(s),
         UNCHANGED <<present, made, owner>>
  PROVE  FilesTypeOK' /\ index' \subseteq Made /\ Made' = Made
BY DEF Switch, Carry, FilesTypeOK, Made

(* One of the answers that the current branch may be given. *)
LEMMA AnswersKnown ==
  ASSUME head \in Heads, NEW b \in CurrentBranch
  PROVE  b \in Answers /\ b \in {head, Unknown}
BY DEF CurrentBranch, Answers, Heads, Branches

LEMMA GitTypes ==
  ASSUME FilesTypeOK, GitTypeOK, NEW t \in Turns, GitStart(t) \/ GitStep(t)
  PROVE  FilesTypeOK' /\ GitTypeOK'
<1> USE DEF At, GoTo
<1>1. CASE StartInit(t)
  BY <1>1, SaysTyped DEF StartInit, FilesTypeOK, GitTypeOK, files, Kinds, Made
<1>2. CASE ProbeInit(t)
  BY <1>2 DEF ProbeInit, FilesTypeOK, GitTypeOK, files, Made
<1>3. CASE RunInit(t)
  <2>1. CASE repo
    BY <1>3, <2>1 DEF RunInit, FilesTypeOK, GitTypeOK, files, Made
  <2>2. CASE ~repo
    <3>1. DOMAIN tips' = {}
      BY <1>3, <2>2 DEF RunInit
    <3>2. head' \in Heads /\ switched' \subseteq Turns
      BY <1>3, <2>2 DEF RunInit, MoveHead, GitTypeOK, Heads, Branches
    <3> QED
      BY <1>3, <2>2, <3>1, <3>2 DEF RunInit, FilesTypeOK, GitTypeOK, files, Made
  <2> QED
    BY <2>1, <2>2
<1>4. CASE NameMain(t)
  BY <1>4 DEF NameMain, MoveHead, FilesTypeOK, GitTypeOK, files, Made, Heads, Branches
<1>5. ASSUME NEW checkout \in BOOLEAN, CreateBranch(t, "dev", checkout)
      PROVE  FilesTypeOK' /\ GitTypeOK'
  <2>1. "none" \in Kinds /\ "dev" \in Heads
    BY DEF Kinds, Heads, Branches
  <2>2. reports' \in [Turns -> Reports]
    BY <1>5, <2>1, SaysTyped DEF CreateBranch, GitTypeOK
  <2>3. head' \in Heads /\ switched' \subseteq Turns
    BY <1>5, <2>1 DEF CreateBranch, MoveHead, GitTypeOK
  <2>4. DOMAIN tips' \subseteq Heads /\ \A b \in DOMAIN tips' : tips'[b] \in commits'
    <3>1. commits' = commits
      BY <1>5 DEF CreateBranch
    <3>2. CASE head \in DOMAIN tips
      <4>1. tips' = [c \in DOMAIN tips \union {"dev"} |-> IF c = "dev" THEN tips[head] ELSE tips[c]]
        BY <1>5, <3>2 DEF CreateBranch
      <4> QED
        BY <2>1, <3>1, <3>2, <4>1 DEF GitTypeOK
    <3>3. CASE head \notin DOMAIN tips
      BY <1>5, <3>1, <3>3 DEF CreateBranch, GitTypeOK
    <3> QED
      BY <3>2, <3>3
  <2> QED
    BY <1>5, <2>2, <2>3, <2>4 DEF CreateBranch, FilesTypeOK, GitTypeOK, files, Made
<1>6. ASSUME NEW b \in Branches, CheckoutBranch(t, b)
      PROVE  FilesTypeOK' /\ GitTypeOK'
  <2>1. reports' \in [Turns -> Reports]
    BY <1>6, SaysTyped DEF CheckoutBranch, GitTypeOK, Kinds
  <2>2. tips[b] \in SUBSET Made
    BY <1>6 DEF CheckoutBranch, GitTypeOK
  <2>3. FilesTypeOK' /\ index' \subseteq Made /\ Made' = Made
    BY <1>6, <2>2, SwitchTyped DEF CheckoutBranch, GitTypeOK
  <2>4. head' \in Heads /\ switched' \subseteq Turns
    BY <1>6 DEF CheckoutBranch, MoveHead, GitTypeOK, Heads
  <2> QED
    BY <1>6, <2>1, <2>3, <2>4 DEF CheckoutBranch, GitTypeOK
<1>7. ASSUME NEW c \in commits, CheckoutCommit(t, c)
      PROVE  FilesTypeOK' /\ GitTypeOK'
  <2>1. reports' \in [Turns -> Reports]
    BY <1>7, SaysTyped DEF CheckoutCommit, GitTypeOK, Kinds
  <2>2. c \in SUBSET Made
    BY <1>7 DEF GitTypeOK
  <2>3. FilesTypeOK' /\ index' \subseteq Made /\ Made' = Made
    BY <1>7, <2>2, SwitchTyped DEF CheckoutCommit, GitTypeOK
  <2>4. head' \in Heads /\ switched' \subseteq Turns /\ Detached \in Heads
    BY <1>7 DEF CheckoutCommit, MoveHead, GitTypeOK, Heads
  <2>5. DOMAIN tips' \subseteq Heads /\ \A b \in DOMAIN tips' : tips'[b] \in commits'
    BY <1>7, <2>4, TipsTyped DEF CheckoutCommit, GitTypeOK
  <2> QED
    BY <1>7, <2>1, <2>3, <2>4, <2>5 DEF CheckoutCommit, GitTypeOK
<1>8. CASE CheckoutPath(t)
  <2>1. reports' \in [Turns -> Reports]
    BY <1>8, SaysTyped DEF CheckoutPath, GitTypeOK, Kinds
  <2>2. PICK gone \in SUBSET (work \ index), back \in SUBSET (index \ work) :
          work' = (work \ gone) \union back /\ undone' = (undone \union gone) \ back
    BY <1>8 DEF CheckoutPath
  <2>3. work' \subseteq Made /\ undone' \subseteq Made \ work'
    BY <2>2 DEF FilesTypeOK, GitTypeOK
  <2> QED
    BY <1>8, <2>1, <2>3 DEF CheckoutPath, FilesTypeOK, GitTypeOK, Made
<1>9. CASE NoRepository(t)
  BY <1>9, SaysTyped DEF NoRepository, FilesTypeOK, GitTypeOK, files, Kinds, Made
<1>10. CASE StartCommit(t)
  BY <1>10, SaysTyped DEF StartCommit, FilesTypeOK, GitTypeOK, files, Kinds, Made
<1>11. CASE Look(t)
  <2>1. PICK b \in CurrentBranch :
          reports' = [reports EXCEPT ![t].read = b, ![t].warned = IsProtectedBranch(b)]
    BY <1>11 DEF Look
  <2>2. b \in Answers
    BY AnswersKnown DEF GitTypeOK
  <2>a. IsProtectedBranch(b) \in BOOLEAN
    BY DEF IsProtectedBranch
  <2>3. reports' \in [Turns -> Reports]
    BY <2>1, <2>2, <2>a DEF GitTypeOK, Reports
  <2> QED
    BY <1>11, <2>3 DEF Look, FilesTypeOK, GitTypeOK, files, Made
<1>12. CASE Add(t)
  BY <1>12 DEF Add, FilesTypeOK, GitTypeOK, files, Made
<1>13. CASE Name(t)
  <2>1. PICK b \in CurrentBranch : reports' = [reports EXCEPT ![t].branch = b]
    BY <1>13 DEF Name
  <2>2. b \in Answers
    BY AnswersKnown DEF GitTypeOK
  <2>3. reports' \in [Turns -> Reports]
    BY <2>1, <2>2 DEF GitTypeOK, Reports
  <2> QED
    BY <1>13, <2>3 DEF Name, FilesTypeOK, GitTypeOK, files, Made
<1>14. CASE RunCommit(t)
  <2>1. reports' \in [Turns -> Reports]
    BY <1>14 DEF RunCommit, Tell, GitTypeOK, Reports, Kinds
  <2>2. DOMAIN tips' \subseteq Heads /\ \A b \in DOMAIN tips' : tips'[b] \in commits'
    BY <1>14, TipsTyped DEF RunCommit, GitTypeOK
  <2>3. commits' \in SUBSET (SUBSET Made)
    BY <1>14 DEF RunCommit, GitTypeOK
  <2> QED
    BY <1>14, <2>1, <2>2, <2>3 DEF RunCommit, FilesTypeOK, GitTypeOK, files, Made
<1>15. CASE NothingToCommit(t)
  <2>1. "none" \in Kinds /\ "nothing" \in Kinds
    BY DEF Kinds
  <2>2. reports' \in [Turns -> Reports]
    <3>1. CASE Says(t, "none")
      BY <2>1, <3>1, SaysTyped DEF GitTypeOK
    <3>2. CASE Tell(t, "nothing")
      BY <2>1, <3>2 DEF Tell, GitTypeOK, Reports
    <3> QED
      BY <1>15, <3>1, <3>2 DEF NothingToCommit
  <2> QED
    BY <1>15, <2>2 DEF NothingToCommit, FilesTypeOK, GitTypeOK, files, Made
<1>16. CASE GitFails(t)
  <2>1. reports' \in [Turns -> Reports]
    BY <1>16, SaysTyped DEF GitFails, GitTypeOK, Kinds
  <2> QED
    BY <1>16, <2>1 DEF GitFails, FilesTypeOK, GitTypeOK, files, Made
<1> QED
  BY <1>1, <1>2, <1>3, <1>4, <1>5, <1>6, <1>7, <1>8, <1>9, <1>10, <1>11, <1>12, <1>13, <1>14,
     <1>15, <1>16
     DEF GitStart, GitStep, Checkout

(* What HEAD does to the turns that are committing. *)
LEMMA HeadMoves ==
  ASSUME NEW b, MoveHead(b)
  PROVE  \A u \in Turns \ switched' : u \notin switched /\ (Committing(u) => b = head)
BY DEF MoveHead

(* ReportsInvariant, as what it says of one turn.                          *)
OwnReport(t) ==
  /\ gpc[t] \in {"look", "add", "name", "commit"} => reports[t].kind = "none"
  /\ t \notin switched =>
       /\ Committing(t) => WarnedRightly(t)
       /\ At(t, "commit") => reports[t].branch \in {head, Unknown}
       /\ reports[t].kind = "created" =>
            /\ reports[t].branch \in {reports[t].on, Unknown}
            /\ reports[t].warned => reports[t].on \in Protected
            /\ reports[t].on \in Protected => reports[t].warned \/ reports[t].read = Unknown

LEMMA EveryOwnReport == ReportsInvariant <=> \A t \in Turns : OwnReport(t)
BY DEF ReportsInvariant, OwnReport, CommitReportIsRight

LEMMA EveryOwnReportNext == ReportsInvariant' <=> \A t \in Turns : OwnReport(t)'
BY DEF ReportsInvariant, OwnReport, CommitReportIsRight, Committing, At, WarnedRightly

(* A turn that leaves the others' reports alone, and moves HEAD under none  *)
(* of those that stay unswitched, has only its own report to answer for.   *)
LEMMA OwnStep ==
  ASSUME ReportsInvariant, NEW t \in Turns, OwnReport(t)',
         \A u \in Turns \ {t} : gpc'[u] = gpc[u] /\ reports'[u] = reports[u],
         \A u \in Turns \ {t} : u \notin switched' =>
                                u \notin switched /\ (Committing(u) => head' = head)
  PROVE  ReportsInvariant'
<1>1. SUFFICES ASSUME NEW u \in Turns, u # t PROVE OwnReport(u)'
  BY EveryOwnReportNext
<1>2. OwnReport(u)
  BY EveryOwnReport
<1>3. gpc'[u] = gpc[u] /\ reports'[u] = reports[u]
  BY <1>1
<1>4. u \notin switched' => u \notin switched /\ (Committing(u) => head' = head)
  BY <1>1
<1> QED
  BY <1>2, <1>3, <1>4 DEF OwnReport, Committing, At, WarnedRightly

(* The same when HEAD stays.                                               *)
LEMMA OwnStepInPlace ==
  ASSUME ReportsInvariant, NEW t \in Turns, OwnReport(t)', head' = head,
         \A u \in Turns \ {t} : gpc'[u] = gpc[u] /\ reports'[u] = reports[u],
         switched \ {t} \subseteq switched'
  PROVE  ReportsInvariant'
BY OwnStep

LEMMA GoesTo ==
  ASSUME GitTypeOK, NEW t \in Turns, NEW pc, GoTo(t, pc)
  PROVE  gpc'[t] = pc /\ \A u \in Turns \ {t} : gpc'[u] = gpc[u]
BY DEF GitTypeOK, GoTo

LEMMA ReportsStep ==
  ASSUME GitTypeOK, ReportsInvariant, NEW t \in Turns, GitStart(t) \/ GitStep(t)
  PROVE  ReportsInvariant'
<1>1. "none" \in Kinds /\ "no repository" \in Kinds /\ reports \in [Turns -> Reports]
  BY DEF Kinds, GitTypeOK
<1>2. OwnReport(t)
  BY EveryOwnReport
(* The steps that leave HEAD where it is.                                  *)
<1>3. CASE StartInit(t)
  <2>1. gpc'[t] = "probe" /\ \A u \in Turns \ {t} : gpc'[u] = gpc[u]
    BY <1>3, GoesTo DEF StartInit
  <2>2. reports'[t].kind = "none" /\ \A u \in Turns \ {t} : reports'[u] = reports[u]
    BY <1>1, <1>3, SaysTyped DEF StartInit
  <2>3. OwnReport(t)'
    BY <2>1, <2>2 DEF OwnReport, Committing, At, WarnedRightly
  <2> QED
    BY <1>3, <2>1, <2>2, <2>3, OwnStepInPlace DEF StartInit
<1>4. CASE ProbeInit(t)
  <2>1. gpc'[t] \in {"init", "idle"} /\ \A u \in Turns \ {t} : gpc'[u] = gpc[u]
    BY <1>4, GoesTo DEF ProbeInit
  <2>2. OwnReport(t)'
    BY <1>4, <1>2, <2>1 DEF OwnReport, Committing, At, WarnedRightly, ProbeInit
  <2> QED
    BY <1>4, <2>1, <2>2, OwnStepInPlace DEF ProbeInit
<1>5. CASE NoRepository(t)
  <2>1. reports'[t].kind = "no repository" /\ \A u \in Turns \ {t} : reports'[u] = reports[u]
    BY <1>1, <1>5, SaysTyped DEF NoRepository
  <2>2. gpc[t] = "idle" /\ gpc' = gpc /\ head' = head /\ switched' = switched
    BY <1>5 DEF NoRepository, At
  <2>3. OwnReport(t)'
    BY <2>1, <2>2 DEF OwnReport, Committing, At, WarnedRightly
  <2> QED
    BY <2>1, <2>2, <2>3, OwnStepInPlace
<1>6. CASE StartCommit(t)
  <2>1. gpc'[t] = "look" /\ \A u \in Turns \ {t} : gpc'[u] = gpc[u]
    BY <1>6, GoesTo DEF StartCommit
  <2>2. reports'[t].kind = "none" /\ \A u \in Turns \ {t} : reports'[u] = reports[u]
    BY <1>1, <1>6, SaysTyped DEF StartCommit
  <2>3. OwnReport(t)'
    BY <2>1, <2>2 DEF OwnReport, Committing, At, WarnedRightly
  <2> QED
    BY <1>6, <2>1, <2>2, <2>3, OwnStepInPlace DEF StartCommit
<1>7. CASE Look(t)
  <2>1. gpc'[t] = "add" /\ \A u \in Turns \ {t} : gpc'[u] = gpc[u]
    BY <1>7, GoesTo DEF Look
  <2>2. reports[t].kind = "none"
    BY <1>7, <1>2 DEF Look, At, OwnReport
  <2>a. PICK b \in CurrentBranch :
          reports' = [reports EXCEPT ![t].read = b, ![t].warned = IsProtectedBranch(b)]
    BY <1>7 DEF Look
  <2>b. b \in {head, Unknown} /\ b # Detached /\ Unknown \notin Protected
    BY AnswersKnown DEF CurrentBranch, Protected, Unknown, GitTypeOK
  <2>c. /\ reports'[t].kind = "none" /\ reports'[t].read = b
        /\ (reports'[t].warned <=> b \in Protected)
    BY <1>1, <2>2, <2>a DEF IsProtectedBranch, Reports
  <2>3. /\ reports'[t].kind = "none"
        /\ reports'[t].warned => head \in Protected
        /\ head \in Protected => reports'[t].warned \/ reports'[t].read = Unknown
        /\ \A u \in Turns \ {t} : reports'[u] = reports[u]
    BY <1>1, <2>a, <2>b, <2>c
  <2>4. head' = head /\ switched' = switched
    BY <1>7 DEF Look
  <2>5. OwnReport(t)'
    BY <2>1, <2>3, <2>4 DEF OwnReport, Committing, At, WarnedRightly
  <2> QED
    BY <2>1, <2>3, <2>4, <2>5, OwnStepInPlace
<1>8. CASE Add(t)
  <2>1. gpc'[t] = "name" /\ \A u \in Turns \ {t} : gpc'[u] = gpc[u]
    BY <1>8, GoesTo DEF Add
  <2>2. gpc[t] = "add" /\ UNCHANGED <<head, switched, reports>>
    BY <1>8 DEF Add, At
  <2>3. OwnReport(t)'
    BY <1>2, <2>1, <2>2 DEF OwnReport, Committing, At, WarnedRightly
  <2> QED
    BY <2>1, <2>2, <2>3, OwnStepInPlace
<1>9. CASE Name(t)
  <2>1. gpc'[t] = "commit" /\ \A u \in Turns \ {t} : gpc'[u] = gpc[u]
    BY <1>9, GoesTo DEF Name
  <2>2. gpc[t] = "name" /\ UNCHANGED <<head, switched>>
    BY <1>9 DEF Name, At
  <2>a. PICK b \in CurrentBranch : reports' = [reports EXCEPT ![t].branch = b]
    BY <1>9 DEF Name
  <2>b. b \in {head, Unknown}
    BY AnswersKnown DEF GitTypeOK
  <2>3. /\ reports'[t].kind = reports[t].kind /\ reports'[t].branch \in {head, Unknown}
        /\ reports'[t].warned = reports[t].warned /\ reports'[t].read = reports[t].read
        /\ \A u \in Turns \ {t} : reports'[u] = reports[u]
    BY <1>1, <2>a, <2>b DEF Reports
  <2>4. OwnReport(t)'
    BY <1>2, <2>1, <2>2, <2>3 DEF OwnReport, Committing, At, WarnedRightly
  <2> QED
    BY <2>1, <2>2, <2>3, <2>4, OwnStepInPlace
<1>10. CASE RunCommit(t)
  <2>1. gpc'[t] = "idle" /\ \A u \in Turns \ {t} : gpc'[u] = gpc[u]
    BY <1>10, GoesTo DEF RunCommit
  <2>2. gpc[t] = "commit" /\ UNCHANGED <<head, switched>>
    BY <1>10 DEF RunCommit, At
  <2>3. /\ reports'[t].kind = "created" /\ reports'[t].on = head
        /\ reports'[t].warned = reports[t].warned /\ reports'[t].branch = reports[t].branch
        /\ reports'[t].read = reports[t].read
        /\ \A u \in Turns \ {t} : reports'[u] = reports[u]
    BY <1>1, <1>10 DEF RunCommit, Tell, Reports
  <2>4. OwnReport(t)'
    BY <1>2, <2>1, <2>2, <2>3 DEF OwnReport, Committing, At, WarnedRightly
  <2> QED
    BY <2>1, <2>2, <2>3, <2>4, OwnStepInPlace
<1>11. CASE NothingToCommit(t)
  <2>1. gpc'[t] = "idle" /\ \A u \in Turns \ {t} : gpc'[u] = gpc[u]
    BY <1>11, GoesTo DEF NothingToCommit
  <2>2. reports'[t].kind \in {"none", "nothing"} /\ \A u \in Turns \ {t} : reports'[u] = reports[u]
    <3>1. CASE Says(t, "none")
      BY <1>1, <3>1, SaysTyped
    <3>2. CASE Tell(t, "nothing")
      BY <1>1, <3>2 DEF Tell, Reports
    <3> QED
      BY <1>11, <3>1, <3>2 DEF NothingToCommit
  <2>3. OwnReport(t)'
    BY <2>1, <2>2 DEF OwnReport, Committing, At, WarnedRightly
  <2> QED
    BY <1>11, <2>1, <2>2, <2>3, OwnStepInPlace DEF NothingToCommit
<1>12. CASE GitFails(t)
  <2>1. gpc'[t] = "idle" /\ \A u \in Turns \ {t} : gpc'[u] = gpc[u]
    BY <1>12, GoesTo DEF GitFails
  <2>2. /\ reports'[t].kind \in {"none", "no repository"}
        /\ \A u \in Turns \ {t} : reports'[u] = reports[u]
    <3>1. CASE Says(t, "none")
      BY <1>1, <3>1, SaysTyped
    <3>2. CASE Says(t, "no repository")
      BY <1>1, <3>2, SaysTyped
    <3> QED
      BY <1>12, <3>1, <3>2 DEF GitFails
  <2>3. OwnReport(t)'
    BY <2>1, <2>2 DEF OwnReport, Committing, At, WarnedRightly
  <2> QED
    BY <1>12, <2>1, <2>2, <2>3, OwnStepInPlace DEF GitFails
(* The steps that may move it.                                             *)
<1>13. ASSUME NEW b, MoveHead(b)
       PROVE  \A u \in Turns \ {t} : u \notin switched' =>
                 u \notin switched /\ (Committing(u) => head' = head)
  BY <1>13, HeadMoves DEF MoveHead
<1>14. CASE RunInit(t)
  <2>1. gpc'[t] = "name main" /\ \A u \in Turns \ {t} : gpc'[u] = gpc[u]
    BY <1>14, GoesTo DEF RunInit
  <2>2. reports' = reports
    BY <1>14 DEF RunInit
  <2>3. t \notin switched' => t \notin switched
    BY <1>14 DEF RunInit, MoveHead
  <2>4. OwnReport(t)'
    BY <1>2, <2>1, <2>2, <2>3 DEF OwnReport, Committing, At, WarnedRightly
  <2>5. CASE MoveHead("master")
    BY <1>13, <2>1, <2>2, <2>4, <2>5, OwnStep
  <2>6. CASE UNCHANGED <<head, switched>>
    BY <2>1, <2>2, <2>4, <2>6, OwnStepInPlace
  <2> QED
    BY <1>14, <2>5, <2>6 DEF RunInit
<1>15. CASE NameMain(t)
  <2>1. gpc'[t] = "idle" /\ \A u \in Turns \ {t} : gpc'[u] = gpc[u]
    BY <1>15, GoesTo DEF NameMain
  <2>2. reports' = reports
    BY <1>15 DEF NameMain
  <2>3. t \notin switched' => t \notin switched
    BY <1>15 DEF NameMain, MoveHead
  <2>4. OwnReport(t)'
    BY <1>2, <2>1, <2>2, <2>3 DEF OwnReport, Committing, At, WarnedRightly
  <2>5. CASE MoveHead("main")
    BY <1>13, <2>1, <2>2, <2>4, <2>5, OwnStep
  <2>6. CASE UNCHANGED <<head, switched>>
    BY <2>1, <2>2, <2>4, <2>6, OwnStepInPlace
  <2> QED
    BY <1>15, <2>5, <2>6 DEF NameMain
<1>16. ASSUME NEW checkout \in BOOLEAN, CreateBranch(t, "dev", checkout)
      PROVE  ReportsInvariant'
  <2>1. reports'[t].kind = "none" /\ \A u \in Turns \ {t} : reports'[u] = reports[u]
    BY <1>1, <1>16, SaysTyped DEF CreateBranch
  <2>2. gpc[t] = "idle" /\ gpc' = gpc
    BY <1>16 DEF CreateBranch, At
  <2>3. OwnReport(t)'
    BY <2>1, <2>2 DEF OwnReport, Committing, At, WarnedRightly
  <2>4. CASE MoveHead("dev")
    BY <1>13, <2>1, <2>2, <2>3, <2>4, OwnStep
  <2>5. CASE UNCHANGED <<head, switched>>
    BY <2>1, <2>2, <2>3, <2>5, OwnStepInPlace
  <2> QED
    BY <1>16, <2>4, <2>5 DEF CreateBranch
<1>17. ASSUME NEW b \in Branches, CheckoutBranch(t, b)
      PROVE  ReportsInvariant'
  <2>1. reports'[t].kind = "none" /\ \A u \in Turns \ {t} : reports'[u] = reports[u]
    BY <1>1, <1>17, SaysTyped DEF CheckoutBranch
  <2>2. gpc[t] = "idle" /\ gpc' = gpc /\ MoveHead(b)
    BY <1>17 DEF CheckoutBranch, At
  <2>3. OwnReport(t)'
    BY <2>1, <2>2 DEF OwnReport, Committing, At, WarnedRightly
  <2> QED
    BY <1>13, <2>1, <2>2, <2>3, OwnStep
<1>18. ASSUME NEW c \in commits, CheckoutCommit(t, c)
      PROVE  ReportsInvariant'
  <2>1. reports'[t].kind = "none" /\ \A u \in Turns \ {t} : reports'[u] = reports[u]
    BY <1>1, <1>18, SaysTyped DEF CheckoutCommit
  <2>2. gpc[t] = "idle" /\ gpc' = gpc /\ MoveHead(Detached)
    BY <1>18 DEF CheckoutCommit, At
  <2>3. OwnReport(t)'
    BY <2>1, <2>2 DEF OwnReport, Committing, At, WarnedRightly
  <2> QED
    BY <1>13, <2>1, <2>2, <2>3, OwnStep
<1>19. CASE CheckoutPath(t)
  <2>1. reports'[t].kind = "none" /\ \A u \in Turns \ {t} : reports'[u] = reports[u]
    BY <1>1, <1>19, SaysTyped DEF CheckoutPath
  <2>2. gpc[t] = "idle" /\ gpc' = gpc /\ UNCHANGED <<head, switched>>
    BY <1>19 DEF CheckoutPath, At
  <2>3. OwnReport(t)'
    BY <2>1, <2>2 DEF OwnReport, Committing, At, WarnedRightly
  <2> QED
    BY <2>1, <2>2, <2>3, OwnStepInPlace
<1> QED
  BY <1>3, <1>4, <1>5, <1>6, <1>7, <1>8, <1>9, <1>10, <1>11, <1>12, <1>14, <1>15, <1>16, <1>17,
     <1>18, <1>19
     DEF GitStart, GitStep, Checkout

(* Every branch keeps what it had, but for what was undone. *)
OnlyAdds ==
  \A b \in DOMAIN tips \intersect Branches : b \in DOMAIN tips' /\ tips[b] \ undone \subseteq tips'[b]

LEMMA RecordedStays ==
  ASSUME commits \subseteq commits', NEW e, Recorded(e)
  PROVE  Recorded(e)'
BY DEF Recorded

(* What the last commit of a branch holds is in a commit. *)
LEMMA TipsRecorded ==
  ASSUME \A b \in DOMAIN tips : tips[b] \in commits, NEW b, NEW e \in Tip(b)
  PROVE  Recorded(e)
BY DEF Tip, Recorded

(* A turn that does nothing itself. *)
LEMMA SeenStays ==
  ASSUME NEW u \in Turns, OnItsWay(u), commits \subseteq commits',
         gpc'[u] = gpc[u], reports'[u] = reports[u], seen'[u] = seen[u],
         \A e \in work : e \in work' \union undone' \/ Recorded(e)',
         gpc[u] \in {"name", "commit"} =>
           \A e \in index : e \in index' \union undone' \/ Recorded(e)',
         \A e \in undone : e \in undone' \union (work' \intersect index') \/ Recorded(e)',
         \A e \in undone \ index : e \in undone' \ index' \/ Recorded(e)'
  PROVE  OnItsWay(u)'
BY RecordedStays DEF OnItsWay

(* The same where the tree and the index are left alone. *)
LEMMA SeenSame ==
  ASSUME NEW u \in Turns, OnItsWay(u), commits \subseteq commits',
         gpc'[u] = gpc[u], reports'[u] = reports[u], seen'[u] = seen[u],
         UNCHANGED <<work, undone, index>>
  PROVE  OnItsWay(u)'
BY RecordedStays DEF OnItsWay

(* Where nothing is committed and nothing is reported, nothing is due. *)
LEMMA NothingDue ==
  ASSUME NEW u \in Turns, reports'[u].kind \notin {"created", "nothing"},
         gpc'[u] \in {"idle", "probe", "init", "name main"}
  PROVE  OnItsWay(u)'
BY DEF OnItsWay

(* Only Add, Checkout and a first RunInit touch the index, and only        *)
(* RunCommit, CheckoutCommit and CreateBranch the tips. *)
LEMMA SameTips ==
  ASSUME UNCHANGED tips
  PROVE  OnlyAdds /\ \A b : Tip(b)' = Tip(b)
BY DEF OnlyAdds, Tip

LEMMA SameIndex ==
  ASSUME IndexKnown, UNCHANGED <<work, undone, index>>, commits \subseteq commits'
  PROVE  IndexKnown'
BY RecordedStays DEF IndexKnown

(* HEAD is moved to a commit and what is not in one is carried there: an   *)
(* edit that leaves the tree or the index is in a commit, and one that     *)
(* comes into them is in the new one. *)
LEMMA SwitchKeeps ==
  ASSUME FilesTypeOK, \A b \in DOMAIN tips : tips[b] \in commits, IndexKnown,
         NEW s \in commits, Switch(s), commits' = commits
  PROVE  /\ IndexKnown'
         /\ \A e \in work : e \in work' \union undone' \/ Recorded(e)'
         /\ \A e \in index : e \in index' \union undone' \/ Recorded(e)'
         /\ \A e \in undone : e \in undone' \union (work' \intersect index') \/ Recorded(e)'
         /\ \A e \in undone \ index : e \in undone' \ index' \/ Recorded(e)'
         /\ Staged => s \ undone' \subseteq index' /\ index' \ undone' \subseteq work'
<1>1. /\ work'  = (s \ (Tip(head) \ work)) \union (work \ Tip(head))
      /\ index' = (s \ (Tip(head) \ index)) \union (index \ Tip(head))
      /\ undone' = undone \ work'
  BY DEF Switch, Carry
<1>2. /\ \A e \in s : Recorded(e)'
      /\ \A e \in Tip(head) : Recorded(e)'
      /\ \A e : Recorded(e) => Recorded(e)'
  BY TipsRecorded, RecordedStays DEF Recorded
<1>3. work \intersect undone = {}
  BY DEF FilesTypeOK
<1>4. IndexKnown'
  BY <1>1, <1>2 DEF IndexKnown
<1>5. /\ \A e \in work : e \in work' \union undone' \/ Recorded(e)'
      /\ \A e \in index : e \in index' \union undone' \/ Recorded(e)'
  BY <1>1, <1>2
<1>6. /\ \A e \in undone : e \in undone' \union (work' \intersect index') \/ Recorded(e)'
      /\ \A e \in undone \ index : e \in undone' \ index' \/ Recorded(e)'
  BY <1>1, <1>2, <1>3
<1>7. Staged => s \ undone' \subseteq index' /\ index' \ undone' \subseteq work'
  BY <1>1, <1>3 DEF Staged
<1> QED
  BY <1>4, <1>5, <1>6, <1>7

TreeNext ==
  /\ ~repo' => DOMAIN tips' = {}
  /\ \A u \in Turns : Committing(u)' => repo'
  /\ IndexKnown' /\ \A u \in Turns : OnItsWay(u)'
  /\ ~misled' => OnlyAdds /\ Staged'

LEMMA TreeStep ==
  ASSUME FilesTypeOK, GitTypeOK, ReportsInvariant, TreeInvariant,
         NEW t \in Turns, GitStart(t) \/ GitStep(t)
  PROVE  TreeNext
<1> USE DEF At, GoTo, files
<1>0. /\ "none" \in Kinds /\ "no repository" \in Kinds
      /\ gpc \in [Turns -> {"idle", "probe", "init", "name main", "look", "add", "name", "commit"}]
      /\ reports \in [Turns -> Reports] /\ seen \in [Turns -> SUBSET Made]
      /\ \A b \in DOMAIN tips : tips[b] \in commits
      /\ work \intersect undone = {}
  BY DEF Kinds, GitTypeOK, FilesTypeOK
<1>a. /\ ~repo => DOMAIN tips = {}
      /\ \A u \in Turns : Committing(u) => repo
      /\ IndexKnown /\ \A u \in Turns : OnItsWay(u)
      /\ ~misled => Staged
      /\ \A u \in Turns :
           gpc[u] \in {"look", "add", "name", "commit"} => reports[u].kind = "none"
  BY DEF TreeInvariant, ReportsInvariant
<1>1. CASE StartInit(t)
  <2>1. reports'[t].kind = "none" /\ \A u \in Turns \ {t} : reports'[u] = reports[u]
    BY <1>0, <1>1, SaysTyped DEF StartInit
  <2>2. gpc'[t] = "probe" /\ \A u \in Turns \ {t} : gpc'[u] = gpc[u]
    BY <1>0, <1>1 DEF StartInit
  <2>3. UNCHANGED <<work, undone, repo, head, tips, commits, index, seen, misled>>
    BY <1>1 DEF StartInit
  <2>4. \A u \in Turns : OnItsWay(u)'
    BY <1>a, <2>1, <2>2, <2>3, SeenSame, NothingDue
  <2> QED
    BY <1>a, <2>2, <2>3, <2>4, SameTips, SameIndex DEF TreeNext, Staged, Committing
<1>2. CASE ProbeInit(t)
  <2>1. gpc'[t] \in {"init", "idle"} /\ \A u \in Turns \ {t} : gpc'[u] = gpc[u]
    BY <1>0, <1>2 DEF ProbeInit
  <2>2. UNCHANGED <<work, undone, repo, head, tips, commits, index, reports, seen, misled>>
    BY <1>2 DEF ProbeInit
  <2>3. OnItsWay(t)'
    BY <1>a, <2>1, <2>2, RecordedStays DEF OnItsWay
  <2>4. \A u \in Turns : OnItsWay(u)'
    BY <1>a, <2>1, <2>2, <2>3, SeenSame
  <2> QED
    BY <1>a, <2>1, <2>2, <2>4, SameTips, SameIndex DEF TreeNext, Staged, Committing
<1>3. CASE RunInit(t)
  <2>1. gpc'[t] = "name main" /\ \A u \in Turns \ {t} : gpc'[u] = gpc[u]
    BY <1>0, <1>3 DEF RunInit
  <2>2. UNCHANGED <<work, undone, commits, reports, seen, misled>> /\ repo'
    BY <1>3 DEF RunInit
  <2>3. CASE repo
    <3>1. UNCHANGED <<head, tips, index>>
      BY <1>3, <2>3 DEF RunInit
    <3>2. OnItsWay(t)'
      BY <1>a, <2>1, <2>2, <3>1, RecordedStays DEF OnItsWay
    <3>3. \A u \in Turns : OnItsWay(u)'
      BY <1>a, <2>1, <2>2, <3>1, <3>2, SeenSame
    <3> QED
      BY <1>a, <2>1, <2>2, <3>1, <3>3, SameTips, SameIndex DEF TreeNext, Staged, Committing
  <2>4. CASE ~repo
    <3>1. DOMAIN tips = {} /\ DOMAIN tips' = {} /\ index' = {} /\ head' = "master"
      BY <1>3, <1>a, <2>4 DEF RunInit, MoveHead
    <3>2. OnlyAdds
      BY <3>1 DEF OnlyAdds
    <3>3. Staged' /\ IndexKnown'
      BY <3>1 DEF Staged, IndexKnown, Tip
    <3>4. OnItsWay(t)'
      BY <1>a, <2>1, <2>2, <3>1, RecordedStays DEF OnItsWay
    <3>5. \A u \in Turns : OnItsWay(u)'
      BY <1>a, <2>1, <2>2, <2>4, <3>1, <3>4, SeenStays DEF Committing
    <3> QED
      BY <2>2, <3>2, <3>3, <3>5 DEF TreeNext
  <2> QED
    BY <2>3, <2>4
<1>4. CASE NameMain(t)
  <2>1. gpc'[t] = "idle" /\ \A u \in Turns \ {t} : gpc'[u] = gpc[u]
    BY <1>0, <1>4 DEF NameMain
  <2>2. UNCHANGED <<work, undone, repo, tips, commits, index, reports, seen>>
    BY <1>4 DEF NameMain
  <2>3. ~misled' => ~misled /\ (head' = head \/ Tip(head') = {})
    BY <1>4 DEF NameMain, MoveHead, Tip
  <2>4. ~misled' => Staged'
    BY <1>a, <2>2, <2>3, SameTips DEF Staged, Tip
  <2>5. OnItsWay(t)'
    BY <1>a, <2>1, <2>2, RecordedStays DEF OnItsWay
  <2>6. \A u \in Turns : OnItsWay(u)'
    BY <1>a, <2>1, <2>2, <2>5, SeenSame
  <2> QED
    BY <1>a, <2>1, <2>2, <2>3, <2>4, <2>6, SameTips, SameIndex DEF TreeNext, Committing
<1>5. ASSUME NEW checkout \in BOOLEAN, CreateBranch(t, "dev", checkout)
      PROVE  TreeNext
  <2>1. /\ gpc' = gpc /\ reports'[t].kind = "none" /\ gpc[t] = "idle"
        /\ \A u \in Turns \ {t} : reports'[u] = reports[u]
    BY <1>0, <1>5, SaysTyped DEF CreateBranch
  <2>2. UNCHANGED <<work, undone, repo, commits, index, seen, misled>> /\ repo
    BY <1>5 DEF CreateBranch, IsGitRepo
  <2>3. OnlyAdds /\ Tip(head)' \subseteq Tip(head)
    <3>1. CASE head \in DOMAIN tips
      <4>1. tips' = [c \in DOMAIN tips \union {"dev"} |-> IF c = "dev" THEN tips[head] ELSE tips[c]]
        BY <1>5, <3>1 DEF CreateBranch
      <4>2. head' \in {head, "dev"} /\ "dev" \notin DOMAIN tips
        BY <1>5 DEF CreateBranch, MoveHead
      <4> QED
        BY <3>1, <4>1, <4>2 DEF OnlyAdds, Tip
    <3>2. CASE head \notin DOMAIN tips
      <4>1. tips' = tips /\ head' \in {head, "dev"} /\ "dev" \notin DOMAIN tips
        BY <1>5, <3>2 DEF CreateBranch, MoveHead
      <4> QED
        BY <4>1 DEF OnlyAdds, Tip
    <3> QED
      BY <3>1, <3>2
  <2>4. OnItsWay(t)'
    BY <2>1, NothingDue
  <2>5. \A u \in Turns : OnItsWay(u)'
    BY <1>a, <2>1, <2>2, <2>4, SeenSame
  <2> QED
    BY <1>a, <2>1, <2>2, <2>3, <2>5, SameIndex DEF TreeNext, Staged, Committing
<1>6. ASSUME NEW b \in Branches, CheckoutBranch(t, b)
      PROVE  TreeNext
  <2>1. /\ gpc' = gpc /\ reports'[t].kind = "none" /\ gpc[t] = "idle"
        /\ \A u \in Turns \ {t} : reports'[u] = reports[u]
    BY <1>0, <1>6, SaysTyped DEF CheckoutBranch
  <2>2. /\ UNCHANGED <<repo, tips, commits, seen, misled>> /\ repo
        /\ b \in DOMAIN tips /\ head' = b /\ Switch(tips[b])
    BY <1>6 DEF CheckoutBranch, IsGitRepo, MoveHead
  <2>3. tips[b] \in commits /\ Tip(head)' = tips[b]
    BY <1>0, <2>2 DEF Tip
  <2>4. OnItsWay(t)'
    BY <2>1, NothingDue
  <2>5. \A u \in Turns : OnItsWay(u)'
    BY <1>0, <1>a, <2>1, <2>2, <2>3, <2>4, SwitchKeeps, SeenStays
  <2>6. IndexKnown' /\ (~misled => Staged')
    BY <1>0, <1>a, <2>2, <2>3, SwitchKeeps DEF Staged
  <2> QED
    BY <1>a, <2>1, <2>2, <2>5, <2>6, SameTips DEF TreeNext
<1>7. ASSUME NEW c \in commits, CheckoutCommit(t, c)
      PROVE  TreeNext
  <2>1. /\ gpc' = gpc /\ reports'[t].kind = "none" /\ gpc[t] = "idle"
        /\ \A u \in Turns \ {t} : reports'[u] = reports[u]
    BY <1>0, <1>7, SaysTyped DEF CheckoutCommit
  <2>2. /\ UNCHANGED <<repo, commits, seen, misled>> /\ repo
        /\ head' = Detached /\ Switch(c)
        /\ tips' = [b \in DOMAIN tips \union {Detached} |-> IF b = Detached THEN c ELSE tips[b]]
    BY <1>7 DEF CheckoutCommit, IsGitRepo, MoveHead
  <2>3. Tip(head)' = c /\ OnlyAdds
    <3>1. Detached \notin Branches
      BY DEF Detached, Branches
    <3> QED
      BY <2>2, <3>1 DEF Tip, OnlyAdds
  <2>4. OnItsWay(t)'
    BY <2>1, NothingDue
  <2>5. \A u \in Turns : OnItsWay(u)'
    BY <1>0, <1>a, <2>1, <2>2, <2>4, SwitchKeeps, SeenStays
  <2>6. IndexKnown' /\ (~misled => Staged')
    BY <1>0, <1>a, <2>2, <2>3, SwitchKeeps DEF Staged
  <2> QED
    BY <1>a, <2>1, <2>2, <2>3, <2>5, <2>6 DEF TreeNext
<1>8. CASE CheckoutPath(t)
  <2>1. /\ gpc' = gpc /\ reports'[t].kind = "none" /\ gpc[t] = "idle"
        /\ \A u \in Turns \ {t} : reports'[u] = reports[u]
    BY <1>0, <1>8, SaysTyped DEF CheckoutPath
  <2>2. UNCHANGED <<repo, head, tips, commits, index, seen, misled>> /\ repo
    BY <1>8 DEF CheckoutPath, IsGitRepo
  <2>3. PICK gone \in SUBSET (work \ index), back \in SUBSET (index \ work) :
          work' = (work \ gone) \union back /\ undone' = (undone \union gone) \ back
    BY <1>8 DEF CheckoutPath
  <2>4. \A e : Recorded(e) => Recorded(e)'
    BY <2>2, RecordedStays
  <2>5. /\ \A e \in work : e \in work' \union undone'
        /\ \A e \in undone : e \in undone' \union (work' \intersect index')
        /\ \A e \in undone \ index : e \in undone' \ index'
    BY <2>2, <2>3
  <2>6. OnItsWay(t)'
    BY <2>1, NothingDue
  <2>7. \A u \in Turns : OnItsWay(u)'
    BY <1>a, <2>1, <2>2, <2>5, <2>6, SeenStays
  <2>8. IndexKnown'
    BY <1>a, <2>2, <2>3, <2>4 DEF IndexKnown
  <2>9. ~misled => Staged'
    <3>1. Tip(head)' = Tip(head)
      BY <2>2, SameTips DEF Tip
    <3> QED
      BY <1>a, <2>2, <2>3, <3>1 DEF Staged
  <2> QED
    BY <1>a, <2>1, <2>2, <2>7, <2>8, <2>9, SameTips DEF TreeNext
<1>9. CASE NoRepository(t)
  <2>1. Says(t, "no repository") /\ gpc' = gpc /\ gpc[t] = "idle"
    BY <1>9 DEF NoRepository
  <2>2. reports'[t].kind = "no repository" /\ \A u \in Turns \ {t} : reports'[u] = reports[u]
    BY <1>0, <2>1, SaysTyped
  <2>3. UNCHANGED <<work, undone, repo, head, tips, commits, index, seen, misled>>
    BY <1>9 DEF NoRepository
  <2>4. \A u \in Turns : OnItsWay(u)'
    BY <1>a, <2>1, <2>2, <2>3, SeenSame, NothingDue
  <2> QED
    BY <1>a, <2>1, <2>3, <2>4, SameTips, SameIndex DEF TreeNext, Staged, Committing
<1>10. CASE StartCommit(t)
  <2>1. reports'[t].kind = "none" /\ \A u \in Turns \ {t} : reports'[u] = reports[u]
    BY <1>0, <1>10, SaysTyped DEF StartCommit
  <2>2. gpc'[t] = "look" /\ \A u \in Turns \ {t} : gpc'[u] = gpc[u] /\ seen'[u] = seen[u]
    BY <1>0, <1>10 DEF StartCommit
  <2>3. UNCHANGED <<work, undone, repo, head, tips, commits, index, misled>>
    BY <1>10 DEF StartCommit
  <2>4. seen'[t] = work
    BY <1>0, <1>10 DEF StartCommit
  <2>5. OnItsWay(t)'
    BY <2>1, <2>2, <2>3, <2>4 DEF OnItsWay
  <2>6. \A u \in Turns : OnItsWay(u)'
    BY <1>a, <2>1, <2>2, <2>3, <2>5, SeenSame
  <2> QED
    BY <1>a, <2>2, <2>3, <2>6, SameTips, SameIndex DEF TreeNext, Staged, Committing
<1>11. CASE Look(t)
  <2>1. /\ reports'[t].kind = "none" /\ gpc[t] = "look" /\ repo
        /\ \A u \in Turns \ {t} : reports'[u] = reports[u]
    BY <1>0, <1>11, <1>a DEF Look, IsGitRepo, Reports
  <2>2. gpc'[t] = "add" /\ \A u \in Turns \ {t} : gpc'[u] = gpc[u]
    BY <1>0, <1>11 DEF Look
  <2>3. UNCHANGED <<work, undone, repo, head, tips, commits, index, seen, misled>>
    BY <1>11 DEF Look
  <2>4. OnItsWay(t)'
    BY <1>a, <2>1, <2>2, <2>3, RecordedStays DEF OnItsWay
  <2>5. \A u \in Turns : OnItsWay(u)'
    BY <1>a, <2>1, <2>2, <2>3, <2>4, SeenSame
  <2> QED
    BY <1>a, <2>1, <2>3, <2>5, SameTips, SameIndex DEF TreeNext, Staged
<1>12. CASE Add(t)
  <2>1. gpc'[t] = "name" /\ gpc[t] = "add" /\ repo /\ \A u \in Turns \ {t} : gpc'[u] = gpc[u]
    BY <1>0, <1>12 DEF Add, IsGitRepo
  <2>2. UNCHANGED <<work, undone, repo, head, tips, commits, reports, seen, misled>> /\ index' = work
    BY <1>12 DEF Add
  <2>3. Tip(head)' = Tip(head) /\ \A e : Recorded(e) => Recorded(e)'
    BY <2>2, SameTips, RecordedStays DEF Tip
  <2>4. ~misled => Staged'
    BY <1>a, <2>2, <2>3 DEF Staged
  <2>5. OnItsWay(t)'
    BY <1>a, <2>1, <2>2, <2>3 DEF OnItsWay
  <2>6. /\ \A e \in index : e \in index' \union undone' \/ Recorded(e)'
        /\ \A e \in undone \ index : e \in undone' \ index'
    BY <1>0, <1>a, <2>2, <2>3 DEF IndexKnown
  <2>7. \A u \in Turns : OnItsWay(u)'
    BY <1>a, <2>1, <2>2, <2>5, <2>6, SeenStays
  <2>8. IndexKnown'
    BY <2>2 DEF IndexKnown
  <2> QED
    BY <1>a, <2>1, <2>2, <2>4, <2>7, <2>8, SameTips DEF TreeNext
<1>13. CASE Name(t)
  <2>a. PICK b \in CurrentBranch : reports' = [reports EXCEPT ![t].branch = b]
    BY <1>13 DEF Name
  <2>b. gpc[t] = "name" /\ repo /\ reports[t].kind = "none"
    BY <1>13, <1>a DEF Name, IsGitRepo
  <2>1. /\ reports'[t].kind = "none" /\ gpc[t] = "name" /\ repo
        /\ \A u \in Turns \ {t} : reports'[u] = reports[u]
    BY <1>0, <2>a, <2>b DEF Reports
  <2>2. gpc'[t] = "commit" /\ \A u \in Turns \ {t} : gpc'[u] = gpc[u]
    BY <1>0, <1>13 DEF Name
  <2>3. UNCHANGED <<work, undone, repo, head, tips, commits, index, seen, misled>>
    BY <1>13 DEF Name
  <2>4. OnItsWay(t)'
    BY <1>a, <2>1, <2>2, <2>3, RecordedStays DEF OnItsWay
  <2>5. \A u \in Turns : OnItsWay(u)'
    BY <1>a, <2>1, <2>2, <2>3, <2>4, SeenSame
  <2> QED
    BY <1>a, <2>1, <2>3, <2>5, SameTips, SameIndex DEF TreeNext, Staged
<1>14. CASE RunCommit(t)
  <2>1. gpc'[t] = "idle" /\ gpc[t] = "commit" /\ repo /\ \A u \in Turns \ {t} : gpc'[u] = gpc[u]
    BY <1>0, <1>14 DEF RunCommit, IsGitRepo
  <2>2. UNCHANGED <<work, undone, repo, head, index, seen, misled>>
    BY <1>14 DEF RunCommit
  <2>3. \A u \in Turns \ {t} : reports'[u] = reports[u]
    BY <1>0, <1>14 DEF RunCommit, Tell
  <2>4. /\ tips' = [b \in DOMAIN tips \union {head} |-> IF b = head THEN index ELSE tips[b]]
        /\ commits' = commits \union {index}
    BY <1>14 DEF RunCommit
  <2>5. ~misled => OnlyAdds
    BY <1>a, <2>4 DEF OnlyAdds, Staged, Tip
  <2>6. (\A e \in index : Recorded(e)') /\ \A e : Recorded(e) => Recorded(e)'
    BY <2>4, RecordedStays DEF Recorded
  <2>7. ~misled => Staged'
    <3>1. Tip(head)' = index
      BY <2>2, <2>4 DEF Tip
    <3> QED
      BY <1>a, <2>2, <3>1 DEF Staged
  <2>8. OnItsWay(t)'
    <3>1. \A e \in seen[t] : e \in index \union undone \/ Recorded(e)
      BY <1>a, <2>1 DEF OnItsWay
    <3> QED
      BY <2>1, <2>2, <2>6, <3>1 DEF OnItsWay
  <2>9. \A u \in Turns : OnItsWay(u)'
    BY <1>a, <2>1, <2>2, <2>3, <2>4, <2>8, SeenSame
  <2>10. IndexKnown'
    BY <2>2, <2>6 DEF IndexKnown
  <2> QED
    BY <1>a, <2>1, <2>2, <2>5, <2>7, <2>9, <2>10 DEF TreeNext
<1>15. CASE NothingToCommit(t)
  <2>1. gpc'[t] = "idle" /\ gpc[t] = "commit" /\ repo /\ \A u \in Turns \ {t} : gpc'[u] = gpc[u]
    BY <1>0, <1>15 DEF NothingToCommit, IsGitRepo
  <2>2. /\ UNCHANGED <<work, undone, repo, head, tips, commits, index, seen, misled>>
        /\ index = Tip(head)
    BY <1>15 DEF NothingToCommit
  <2>3. \A u \in Turns \ {t} : reports'[u] = reports[u]
    <3>1. CASE Says(t, "none")
      BY <1>0, <3>1, SaysTyped
    <3>2. CASE Tell(t, "nothing")
      BY <1>0, <3>2 DEF Tell
    <3> QED
      BY <1>15, <3>1, <3>2 DEF NothingToCommit
  <2>4. (\A e \in index : Recorded(e)') /\ \A e : Recorded(e) => Recorded(e)'
    BY <1>0, <2>2, TipsRecorded, RecordedStays
  <2>5. OnItsWay(t)'
    <3>1. \A e \in seen[t] : e \in index \union undone \/ Recorded(e)
      BY <1>a, <2>1 DEF OnItsWay
    <3> QED
      BY <2>1, <2>2, <2>4, <3>1 DEF OnItsWay
  <2>6. \A u \in Turns : OnItsWay(u)'
    BY <1>a, <2>1, <2>2, <2>3, <2>5, SeenSame
  <2> QED
    BY <1>a, <2>1, <2>2, <2>6, SameTips, SameIndex DEF TreeNext, Staged
<1>16. CASE GitFails(t)
  <2>1. /\ gpc'[t] = "idle" /\ seen'[t] = {}
        /\ \A u \in Turns \ {t} : gpc'[u] = gpc[u] /\ seen'[u] = seen[u]
    BY <1>0, <1>16 DEF GitFails
  <2>2. UNCHANGED <<work, undone, repo, head, tips, commits, index, misled>>
    BY <1>16 DEF GitFails
  <2>3. \A u \in Turns \ {t} : reports'[u] = reports[u]
    BY <1>0, <1>16, SaysTyped DEF GitFails
  <2>4. OnItsWay(t)'
    BY <2>1 DEF OnItsWay
  <2>5. \A u \in Turns : OnItsWay(u)'
    BY <1>a, <2>1, <2>2, <2>3, <2>4, SeenSame
  <2> QED
    BY <1>a, <2>1, <2>2, <2>5, SameTips, SameIndex DEF TreeNext, Staged, Committing
<1> QED
  BY <1>1, <1>2, <1>3, <1>4, <1>5, <1>6, <1>7, <1>8, <1>9, <1>10, <1>11, <1>12, <1>13, <1>14,
     <1>15, <1>16
     DEF GitStart, GitStep, Checkout

(* Steps of other components, which may edit the tree. *)
LEMMA GitStays ==
  ASSUME GitTypeOK, ReportsInvariant, TreeInvariant, UNCHANGED git, TreeMoves
  PROVE  GitTypeOK' /\ ReportsInvariant' /\ TreeInvariant' /\ OnlyAdds
<1> USE DEF git
<1>1. GitTypeOK'
  <2>1. /\ commits' \in SUBSET (SUBSET Made') /\ index' \subseteq Made'
        /\ seen' \in [Turns -> SUBSET Made']
    BY DEF GitTypeOK, TreeMoves
  <2> QED
    BY <2>1 DEF GitTypeOK
<1>2. ReportsInvariant'
  BY DEF ReportsInvariant, CommitReportIsRight, Committing, At, WarnedRightly
<1>3. TreeInvariant'
  <2>1. /\ commits \subseteq commits' /\ Tip(head)' = Tip(head)
        /\ \A e : Recorded(e) => Recorded(e)'
    BY RecordedStays, SameTips DEF Tip
  <2>2. ~misled' => Staged'
    BY <2>1 DEF TreeInvariant, Staged, TreeMoves
  <2>3. IndexKnown'
    BY <2>1 DEF TreeInvariant, IndexKnown, TreeMoves
  <2>4. \A u \in Turns : OnItsWay(u)'
    BY <2>1, SeenStays DEF TreeInvariant, TreeMoves
  <2> QED
    BY <2>2, <2>3, <2>4 DEF TreeInvariant, Committing
<1> QED
  BY <1>1, <1>2, <1>3, SameTips

-----------------------------------------------------------------------------
(* The sandbox                                                             *)

LEMMA SandboxKeeps ==
  ASSUME FilesTypeOK, SandboxTypeOK, SandboxInvariant, NEW t \in Turns,
         SandboxStart(t) \/ SandboxStep(t) \/ DaemonStep(t)
  PROVE  /\ FilesTypeOK' /\ TreeMoves
         /\ SandboxTypeOK' /\ SandboxInvariant'
<1> USE DEF In, Goes, Container, Forgets, SandboxTypeOK, SandboxInvariant, SurvivorNeedsFailedRemoval
<1>0. UNCHANGED files => FilesTypeOK' /\ TreeMoves
  BY FilesStay
<1>1. ASSUME NEW k \in Tasks, StartTask(t, k)
      PROVE  SandboxTypeOK' /\ SandboxInvariant' /\ UNCHANGED files
  BY <1>1 DEF StartTask
<1>2. CASE Chown(t)
  <2>1. FilesTypeOK' /\ TreeMoves
    BY <1>2 DEF Chown, FilesTypeOK, TreeMoves, Made
  <2> QED
    BY <1>2, <2>1 DEF Chown
<1>3. CASE ClientReturns(t)
  BY <1>0, <1>3 DEF ClientReturns
<1>4. CASE ClientFails(t)
  BY <1>0, <1>4 DEF ClientFails
<1>5. CASE ClientTimesOut(t)
  BY <1>0, <1>5 DEF ClientTimesOut
<1>6. CASE Cleanup(t)
  BY <1>0, <1>6 DEF Cleanup
<1>7. CASE DaemonStarts(t)
  BY <1>0, <1>7 DEF DaemonStarts
<1>8. CASE ProgramWrites(t)
  BY <1>8, ChangeTyped DEF ProgramWrites, sandbox
<1>9. CASE ContainerEnds(t)
  BY <1>0, <1>9 DEF ContainerEnds
<1> QED
  BY <1>0, <1>1, <1>2, <1>3, <1>4, <1>5, <1>6, <1>7, <1>8, <1>9
     DEF SandboxStart, SandboxStep, DaemonStep

-----------------------------------------------------------------------------
(* The deployment                                                          *)

LEMMA DeploymentKeeps ==
  ASSUME FilesTypeOK, DeploymentTypeOK, DeploymentInvariant, NEW t \in Turns,
         \/ DeploymentStart(t) \/ DeploymentStep(t)
         \/ ContainerDies \/ ContainerRestarts
  PROVE  /\ FilesTypeOK' /\ TreeMoves
         /\ DeploymentTypeOK' /\ DeploymentInvariant'
<1> USE DeploymentAssumption DEF Awaits, DeploymentTypeOK, DeploymentInvariant
<1>0. UNCHANGED files => FilesTypeOK' /\ TreeMoves
  BY FilesStay
<1>w. work \subseteq Edits
  BY EditsKnown
<1>1. CASE PrepareAll(t)
  BY <1>1, ChangeTyped DEF PrepareAll, Edits
<1>2. CASE StartDeploy(t)
  BY <1>0, <1>2 DEF StartDeploy, Edits
<1>3. CASE Build(t)
  BY <1>0, <1>3, <1>w DEF Build, Edits
<1>4. CASE BuildFails(t)
  BY <1>0, <1>4, <1>w DEF BuildFails, Edits
<1>5. CASE Remove(t)
  BY <1>0, <1>5 DEF Remove, Edits
<1>6. CASE Run(t)
  BY <1>0, <1>6 DEF Run, Edits
<1>7. CASE RunFails(t)
  BY <1>0, <1>7 DEF RunFails, Edits
<1>8. CASE Healthy(t)
  BY <1>0, <1>8 DEF Healthy, Edits
<1>9. CASE ProbeFails(t)
  BY <1>0, <1>9 DEF ProbeFails, Edits
<1>10. CASE ContainerDies
  BY <1>0, <1>10 DEF ContainerDies, Edits
<1>11. CASE ContainerRestarts
  BY <1>0, <1>11 DEF ContainerRestarts, Edits
<1> QED
  BY <1>1, <1>2, <1>3, <1>4, <1>5, <1>6, <1>7, <1>8, <1>9, <1>10, <1>11
     DEF DeploymentStart, DeploymentStep

-----------------------------------------------------------------------------
(* The registry                                                            *)

(* What is kept as the status is an outcome; a turn whose run has ended    *)
(* well, or whose probes are over, has no container in use. *)
LEMMA OutcomeKnown ==
  ASSUME OneAtATime, NEW t \in Turns, NEW outcome \in OutcomesOf(t)
  PROVE  /\ outcome \in Outcomes
         /\ In(t, "ok") \/ In(t, "idle")
         /\ dpc[t] \in {"idle", "healthy", "unhealthy"}
<1>1. CASE spc[t] = "ok"
  BY <1>1 DEF OutcomesOf, Outcomes, In, OneAtATime
<1>2. CASE spc[t] # "ok" /\ dpc[t] = "healthy"
  BY <1>2 DEF OutcomesOf, Outcomes, In, OneAtATime
<1>3. CASE spc[t] # "ok" /\ dpc[t] = "unhealthy"
  BY <1>3 DEF OutcomesOf, Outcomes, In, OneAtATime
<1>4. CASE spc[t] # "ok" /\ dpc[t] \notin {"healthy", "unhealthy"}
  BY <1>4 DEF OutcomesOf
<1> QED
  BY <1>1, <1>2, <1>3, <1>4

(* What the statements make of the row. *)
RowMoves == row # "none" => row' \in {row} \union Outcomes

LEMMA StatementKeeps ==
  ASSUME RegistryTypeOK, RegistryInvariant, NEW t \in Turns, Find(t) \/ Insert(t) \/ Update(t)
  PROVE  RegistryTypeOK' /\ RegistryInvariant' /\ RowMoves
<1> USE DEF RegistryTypeOK, RegistryInvariant, RowMoves, Await, Statuses
<1>1. CASE Find(t)
  BY <1>1 DEF Find
<1>2. CASE Insert(t)
  BY <1>2 DEF Insert
<1>3. CASE Update(t)
  BY <1>3 DEF Update
<1> QED
  BY <1>1, <1>2, <1>3

LEMMA SelectKeeps ==
  ASSUME RegistryTypeOK, RegistryInvariant, SandboxTypeOK, SandboxInvariant,
         DeploymentTypeOK, DeploymentInvariant, OneAtATime, NEW t \in Turns, Select(t)
  PROVE  /\ RegistryTypeOK' /\ RegistryInvariant' /\ UNCHANGED row
         /\ SandboxTypeOK' /\ SandboxInvariant'
         /\ DeploymentTypeOK' /\ DeploymentInvariant'
<1>0. PICK outcome \in OutcomesOf(t) :
        IF row \in {"none", outcome} THEN UNCHANGED <<rpc, sets>>
        ELSE Await(t, "update") /\ sets' = [sets EXCEPT ![t] = outcome]
  BY DEF Select
<1>1. /\ outcome \in Outcomes
      /\ In(t, "ok") \/ In(t, "idle")
      /\ dpc[t] \in {"idle", "healthy", "unhealthy"}
  BY OutcomeKnown
<1>2. RegistryTypeOK' /\ RegistryInvariant' /\ UNCHANGED row
  BY <1>0, <1>1 DEF Select, Await, RegistryTypeOK, RegistryInvariant, Statuses
<1>3. SandboxTypeOK' /\ SandboxInvariant'
  BY <1>1 DEF Select, Goes, In, SandboxTypeOK, SandboxInvariant, SurvivorNeedsFailedRemoval
<1>4. DeploymentTypeOK'
  BY <1>1 DEF Select, Awaits, DeploymentTypeOK, Edits
<1>5. DeploymentInvariant'
  BY <1>1 DEF Select, Awaits, DeploymentTypeOK, DeploymentInvariant
<1> QED
  BY <1>2, <1>3, <1>4, <1>5

(* The start of a tool that the registry, or nothing, waits for. *)
LEMMA CodeKeeps ==
  ASSUME FilesTypeOK, NEW t \in Turns,
         row \in Statuses \union {"none"},
         rpc \in [Turns -> {"idle", "find", "insert", "update"}], sets \in [Turns -> Statuses],
         RegistryInvariant,
         CreateProject(t) \/ WriteCode(t) \/ EditCode(t)
  PROVE  /\ FilesTypeOK' /\ TreeMoves
         /\ rpc' \in [Turns -> {"idle", "find", "insert", "update"}] /\ UNCHANGED <<row, sets>>
         /\ RegistryInvariant'
         /\ \A u \in Turns \ {t} : rpc'[u] = rpc[u]
         /\ UNCHANGED <<git, sandbox, deployment>>
<1> USE DEF Await, Stays, RegistryInvariant
<1>1. CASE CreateProject(t)
  BY <1>1 DEF CreateProject, FilesTypeOK, TreeMoves, Made
<1>2. CASE WriteCode(t)
  <2>1. FilesTypeOK' /\ TreeMoves
    BY <1>2, ChangeTyped, FilesStay DEF WriteCode
  <2> QED
    BY <1>2, <2>1 DEF WriteCode
<1>3. CASE EditCode(t)
  BY <1>3, ChangeTyped DEF EditCode
<1> QED
  BY <1>1, <1>2, <1>3

-----------------------------------------------------------------------------
(* One thing at a time                                                     *)

LEMMA GitPlaces ==
  ASSUME GitTypeOK, NEW t \in Turns, GitStart(t) \/ GitStep(t)
  PROVE  /\ GitStep(t) => gpc[t] # "idle"
         /\ \A u \in Turns \ {t} : gpc'[u] = gpc[u]
<1> USE DEF At, GoTo, GitTypeOK
<1>1. GitStep(t) => gpc[t] # "idle"
  BY DEF GitStep, ProbeInit, RunInit, NameMain, Look, Add, Name, RunCommit, NothingToCommit, GitFails
<1>2. GitStep(t) => \A u \in Turns \ {t} : gpc'[u] = gpc[u]
  BY DEF GitStep, ProbeInit, RunInit, NameMain, Look, Add, Name, RunCommit, NothingToCommit, GitFails
<1>3. GitStart(t) => \A u \in Turns \ {t} : gpc'[u] = gpc[u]
  BY DEF GitStart, StartInit, StartCommit, NoRepository, CreateBranch,
         Checkout, CheckoutBranch, CheckoutCommit, CheckoutPath
<1> QED
  BY <1>1, <1>2, <1>3

LEMMA SandboxPlaces ==
  ASSUME SandboxTypeOK, NEW t \in Turns
  PROVE  /\ SandboxStep(t) => spc[t] # "idle"
         /\ SandboxStart(t) \/ SandboxStep(t) => \A u \in Turns \ {t} : spc'[u] = spc[u]
         /\ DaemonStep(t) => spc' = spc
<1> USE DEF In, Goes, SandboxTypeOK
<1>1. SandboxStep(t) => spc[t] # "idle" /\ \A u \in Turns \ {t} : spc'[u] = spc[u]
  BY DEF SandboxStep, Chown, ClientReturns, ClientFails, ClientTimesOut, Cleanup
<1>2. SandboxStart(t) => \A u \in Turns \ {t} : spc'[u] = spc[u]
  BY DEF SandboxStart, StartTask
<1>3. DaemonStep(t) => spc' = spc
  BY DEF DaemonStep, DaemonStarts, ProgramWrites, ContainerEnds, sandbox
<1> QED
  BY <1>1, <1>2, <1>3

LEMMA DeploymentPlaces ==
  ASSUME DeploymentTypeOK, NEW t \in Turns
  PROVE  /\ DeploymentStep(t) => dpc[t] # "idle"
         /\ DeploymentStart(t) \/ DeploymentStep(t) => \A u \in Turns \ {t} : dpc'[u] = dpc[u]
         /\ ContainerDies \/ ContainerRestarts => dpc' = dpc
<1> USE DEF Awaits, DeploymentTypeOK
<1>1. DeploymentStep(t) => dpc[t] # "idle"
  BY DEF DeploymentStep, Build, BuildFails, Remove, Run, RunFails, Healthy, ProbeFails
<1>2. DeploymentStep(t) => \A u \in Turns \ {t} : dpc'[u] = dpc[u]
  BY DEF DeploymentStep, Build, BuildFails, Remove, Run, RunFails, Healthy, ProbeFails
<1>3. DeploymentStart(t) => \A u \in Turns \ {t} : dpc'[u] = dpc[u]
  BY DEF DeploymentStart, PrepareAll, StartDeploy
<1>4. ContainerDies \/ ContainerRestarts => dpc' = dpc
  BY DEF ContainerDies, ContainerRestarts
<1> QED
  BY <1>1, <1>2, <1>3, <1>4

-----------------------------------------------------------------------------
(* The invariant                                                           *)

LEMMA InitHolds == Init => WorkspaceInvariant
<1> SUFFICES ASSUME Init
             PROVE  WorkspaceInvariant
  OBVIOUS
<1> USE WorkspaceAssumption DEF Init
<1>1. FilesTypeOK
  <2>1. MaxEdits \in Nat /\ MaxEdits >= 1
    BY FilesAssumption
  <2>2. made \in 0..MaxEdits
    BY <2>1 DEF FilesInit
  <2>3. work \subseteq Made
    BY DEF FilesInit, Made
  <2> QED
    BY <2>2, <2>3 DEF FilesInit, FilesTypeOK
<1>2. GitTypeOK
  <2>1. Silent \in Reports
    BY DEF Silent, Reports, Kinds, Answers, Heads, Branches
  <2>2. DOMAIN tips \subseteq Heads /\ \A b \in DOMAIN tips : tips[b] \subseteq Made
    <3>1. CASE tips = [b \in {} |-> {}]
      BY <3>1
    <3>2. CASE present /\ tips = [b \in {"main", "dev"} |-> IF b = "dev" THEN {1} ELSE {}]
      <4>1. made = 1
        BY <3>2 DEF FilesInit
      <4>2. 1 \in Made
        BY <4>1 DEF Made
      <4> QED
        BY <3>2, <4>2 DEF Heads, Branches
    <3> QED
      BY <3>1, <3>2 DEF GitInit
  <2>3. commits \in SUBSET (SUBSET Made) /\ \A b \in DOMAIN tips : tips[b] \in commits
    BY <2>2 DEF GitInit
  <2> QED
    BY <2>1, <2>2, <2>3 DEF GitInit, GitTypeOK, Heads, Branches
<1>3. SandboxTypeOK
  BY DEF SandboxInit, SandboxTypeOK, Tasks
<1>4. DeploymentTypeOK
  <2>1. 0 \in 0..(Retries - 1)
    BY DeploymentAssumption
  <2>2. tries \in [Turns -> 0..(Retries - 1)]
    BY <2>1 DEF DeploymentInit
  <2>3. dpc \in [Turns -> {"idle", "build", "remove", "start", "probe", "healthy", "unhealthy"}]
    BY DEF DeploymentInit
  <2> QED
    BY <2>2, <2>3 DEF DeploymentInit, DeploymentTypeOK
<1>5. RegistryTypeOK
  BY DEF RegistryTypeOK, Statuses
<1>6. OneAtATime
  BY DEF OneAtATime, GitInit, SandboxInit, DeploymentInit
<1>7. ReportsInvariant
  BY DEF ReportsInvariant, CommitReportIsRight, Committing, At, GitInit, Silent, WarnedRightly
<1>8. TreeInvariant
  <2>1. Staged /\ IndexKnown
    BY DEF GitInit, Staged, IndexKnown, Tip
  <2> QED
    BY <2>1 DEF TreeInvariant, OnItsWay, Committing, GitInit
<1>9. SandboxInvariant
  BY DEF SandboxInvariant, SurvivorNeedsFailedRemoval, In, SandboxInit
<1>10. DeploymentInvariant
  BY DEF DeploymentInvariant, DeploymentInit
<1>11. RegistryInvariant
  BY DEF RegistryInvariant
<1> QED
  BY <1>1, <1>2, <1>3, <1>4, <1>5, <1>6, <1>7, <1>8, <1>9, <1>10, <1>11
     DEF WorkspaceInvariant, Types

(* Each conjunct after a step of one component, the others' variables      *)
(* being left alone. *)
LEMMA SandboxStays ==
  ASSUME SandboxTypeOK, SandboxInvariant, UNCHANGED sandbox
  PROVE  SandboxTypeOK' /\ SandboxInvariant'
BY DEF SandboxTypeOK, SandboxInvariant, SurvivorNeedsFailedRemoval, In, sandbox

LEMMA DeploymentStays ==
  ASSUME DeploymentTypeOK, DeploymentInvariant, UNCHANGED deployment
  PROVE  DeploymentTypeOK' /\ DeploymentInvariant'
BY DEF DeploymentTypeOK, DeploymentInvariant, deployment, Edits

LEMMA RegistryStays ==
  ASSUME RegistryInvariant, UNCHANGED <<row, rpc, sets>>
  PROVE  RegistryInvariant' /\ RowMoves
BY DEF RegistryInvariant, RowMoves

(* What the actions of the next-state relation do, one by one. *)
StepKeeps == WorkspaceInvariant' /\ (~misled' => OnlyAdds) /\ RowMoves

LEMMA StartKeeps ==
  ASSUME WorkspaceInvariant, NEW t \in Turns, StartTool(t)
  PROVE  StepKeeps
<1> USE DEF WorkspaceInvariant, Types
<1>1. gpc[t] = "idle" /\ spc[t] = "idle" /\ dpc[t] = "idle" /\ rpc[t] = "idle"
  BY DEF StartTool, Free
<1>2. starts' \in 0..MaxStarts
  <2>1. starts \in 0..MaxStarts /\ starts < MaxStarts /\ starts' = starts + 1
    BY DEF StartTool, RegistryTypeOK
  <2> QED
    BY <2>1, WorkspaceAssumption
<1>3. /\ row \in Statuses \union {"none"} /\ sets \in [Turns -> Statuses]
      /\ rpc \in [Turns -> {"idle", "find", "insert", "update"}]
  BY DEF RegistryTypeOK
<1>4. CASE GitStart(t) /\ UNCHANGED <<sandbox, deployment, row, rpc, sets>>
  <2>1. FilesTypeOK' /\ GitTypeOK' /\ ReportsInvariant' /\ TreeNext
    BY <1>4, GitTypes, ReportsStep, TreeStep
  <2>2. TreeInvariant' /\ (~misled' => OnlyAdds)
    BY <2>1 DEF TreeNext, TreeInvariant
  <2>3. SandboxTypeOK' /\ SandboxInvariant' /\ DeploymentTypeOK' /\ DeploymentInvariant'
    BY <1>4, SandboxStays, DeploymentStays
  <2>4. RegistryTypeOK' /\ RegistryInvariant' /\ RowMoves
    BY <1>2, <1>3, <1>4, RegistryStays DEF RegistryTypeOK
  <2>5. OneAtATime'
    <3>1. \A u \in Turns \ {t} : gpc'[u] = gpc[u]
      BY <1>4, GitPlaces
    <3>2. spc' = spc /\ dpc' = dpc /\ rpc' = rpc
      BY <1>4 DEF sandbox, deployment
    <3> QED
      BY <1>1, <3>1, <3>2 DEF OneAtATime
  <2> QED
    BY <2>1, <2>2, <2>3, <2>4, <2>5 DEF StepKeeps
<1>5. CASE SandboxStart(t) /\ UNCHANGED <<git, deployment, row, rpc, sets>>
  <2>1. FilesTypeOK' /\ TreeMoves /\ SandboxTypeOK' /\ SandboxInvariant'
    BY <1>5, SandboxKeeps
  <2>2. GitTypeOK' /\ ReportsInvariant' /\ TreeInvariant' /\ OnlyAdds
    BY <1>5, <2>1, GitStays
  <2>3. DeploymentTypeOK' /\ DeploymentInvariant'
    BY <1>5, DeploymentStays
  <2>4. RegistryTypeOK' /\ RegistryInvariant' /\ RowMoves
    BY <1>2, <1>3, <1>5, RegistryStays DEF RegistryTypeOK
  <2>5. OneAtATime'
    <3>1. \A u \in Turns \ {t} : spc'[u] = spc[u]
      BY <1>5, SandboxPlaces
    <3>2. gpc' = gpc /\ dpc' = dpc /\ rpc' = rpc
      BY <1>5 DEF git, deployment
    <3> QED
      BY <1>1, <3>1, <3>2 DEF OneAtATime
  <2> QED
    BY <2>1, <2>2, <2>3, <2>4, <2>5 DEF StepKeeps
<1>6. CASE DeploymentStart(t) /\ UNCHANGED <<git, sandbox, row, rpc, sets>>
  <2>1. FilesTypeOK' /\ TreeMoves /\ DeploymentTypeOK' /\ DeploymentInvariant'
    BY <1>6, DeploymentKeeps
  <2>2. GitTypeOK' /\ ReportsInvariant' /\ TreeInvariant' /\ OnlyAdds
    BY <1>6, <2>1, GitStays
  <2>3. SandboxTypeOK' /\ SandboxInvariant'
    BY <1>6, SandboxStays
  <2>4. RegistryTypeOK' /\ RegistryInvariant' /\ RowMoves
    BY <1>2, <1>3, <1>6, RegistryStays DEF RegistryTypeOK
  <2>5. OneAtATime'
    <3>1. \A u \in Turns \ {t} : dpc'[u] = dpc[u]
      BY <1>6, DeploymentPlaces
    <3>2. gpc' = gpc /\ spc' = spc /\ rpc' = rpc
      BY <1>6 DEF git, sandbox
    <3> QED
      BY <1>1, <3>1, <3>2 DEF OneAtATime
  <2> QED
    BY <2>1, <2>2, <2>3, <2>4, <2>5 DEF StepKeeps
<1>7. CASE CreateProject(t) \/ WriteCode(t) \/ EditCode(t)
  <2>1. /\ FilesTypeOK' /\ TreeMoves
        /\ rpc' \in [Turns -> {"idle", "find", "insert", "update"}] /\ UNCHANGED <<row, sets>>
        /\ RegistryInvariant'
        /\ \A u \in Turns \ {t} : rpc'[u] = rpc[u]
        /\ UNCHANGED <<git, sandbox, deployment>>
    BY <1>3, <1>7, CodeKeeps
  <2>2. GitTypeOK' /\ ReportsInvariant' /\ TreeInvariant' /\ OnlyAdds
    BY <2>1, GitStays
  <2>3. SandboxTypeOK' /\ SandboxInvariant' /\ DeploymentTypeOK' /\ DeploymentInvariant'
    BY <2>1, SandboxStays, DeploymentStays
  <2>4. RegistryTypeOK' /\ RowMoves
    BY <1>2, <1>3, <2>1 DEF RegistryTypeOK, RowMoves
  <2>5. OneAtATime'
    <3>1. gpc' = gpc /\ spc' = spc /\ dpc' = dpc
      BY <2>1 DEF git, sandbox, deployment
    <3> QED
      BY <1>1, <2>1, <3>1 DEF OneAtATime
  <2> QED
    BY <2>1, <2>2, <2>3, <2>4, <2>5 DEF StepKeeps
<1> QED
  BY <1>4, <1>5, <1>6, <1>7 DEF StartTool

LEMMA ToolKeeps ==
  ASSUME WorkspaceInvariant, NEW t \in Turns, ToolStep(t)
  PROVE  StepKeeps
<1> USE DEF WorkspaceInvariant, Types
<1>1. CASE GitStep(t) /\ UNCHANGED <<sandbox, deployment, registry>>
  <2>1. FilesTypeOK' /\ GitTypeOK' /\ ReportsInvariant' /\ TreeNext
    BY <1>1, GitTypes, ReportsStep, TreeStep
  <2>2. TreeInvariant' /\ (~misled' => OnlyAdds)
    BY <2>1 DEF TreeNext, TreeInvariant
  <2>3. SandboxTypeOK' /\ SandboxInvariant' /\ DeploymentTypeOK' /\ DeploymentInvariant'
    BY <1>1, SandboxStays, DeploymentStays
  <2>4. RegistryTypeOK' /\ RegistryInvariant' /\ RowMoves
    BY <1>1, RegistryStays DEF RegistryTypeOK, registry
  <2>5. OneAtATime'
    <3>1. gpc[t] # "idle" /\ \A u \in Turns \ {t} : gpc'[u] = gpc[u]
      BY <1>1, GitPlaces
    <3>2. spc' = spc /\ dpc' = dpc /\ rpc' = rpc
      BY <1>1 DEF sandbox, deployment, registry
    <3> QED
      BY <3>1, <3>2 DEF OneAtATime
  <2> QED
    BY <2>1, <2>2, <2>3, <2>4, <2>5 DEF StepKeeps
<1>2. CASE SandboxStep(t) /\ UNCHANGED <<git, deployment, registry>>
  <2>1. FilesTypeOK' /\ TreeMoves /\ SandboxTypeOK' /\ SandboxInvariant'
    BY <1>2, SandboxKeeps
  <2>2. GitTypeOK' /\ ReportsInvariant' /\ TreeInvariant' /\ OnlyAdds
    BY <1>2, <2>1, GitStays
  <2>3. DeploymentTypeOK' /\ DeploymentInvariant'
    BY <1>2, DeploymentStays
  <2>4. RegistryTypeOK' /\ RegistryInvariant' /\ RowMoves
    BY <1>2, RegistryStays DEF RegistryTypeOK, registry
  <2>5. OneAtATime'
    <3>1. spc[t] # "idle" /\ \A u \in Turns \ {t} : spc'[u] = spc[u]
      BY <1>2, SandboxPlaces
    <3>2. gpc' = gpc /\ dpc' = dpc /\ rpc' = rpc
      BY <1>2 DEF git, deployment, registry
    <3> QED
      BY <3>1, <3>2 DEF OneAtATime
  <2> QED
    BY <2>1, <2>2, <2>3, <2>4, <2>5 DEF StepKeeps
<1>3. CASE DeploymentStep(t) /\ UNCHANGED <<git, sandbox, registry>>
  <2>1. FilesTypeOK' /\ TreeMoves /\ DeploymentTypeOK' /\ DeploymentInvariant'
    BY <1>3, DeploymentKeeps
  <2>2. GitTypeOK' /\ ReportsInvariant' /\ TreeInvariant' /\ OnlyAdds
    BY <1>3, <2>1, GitStays
  <2>3. SandboxTypeOK' /\ SandboxInvariant'
    BY <1>3, SandboxStays
  <2>4. RegistryTypeOK' /\ RegistryInvariant' /\ RowMoves
    BY <1>3, RegistryStays DEF RegistryTypeOK, registry
  <2>5. OneAtATime'
    <3>1. dpc[t] # "idle" /\ \A u \in Turns \ {t} : dpc'[u] = dpc[u]
      BY <1>3, DeploymentPlaces
    <3>2. gpc' = gpc /\ spc' = spc /\ rpc' = rpc
      BY <1>3 DEF git, sandbox, registry
    <3> QED
      BY <3>1, <3>2 DEF OneAtATime
  <2> QED
    BY <2>1, <2>2, <2>3, <2>4, <2>5 DEF StepKeeps
<1>4. CASE Find(t) \/ Insert(t) \/ Update(t)
  <2>1. UNCHANGED <<files, git, sandbox, deployment>>
    BY <1>4 DEF Find, Insert, Update, Stays
  <2>2. FilesTypeOK' /\ TreeMoves
    BY <2>1, FilesStay
  <2>3. GitTypeOK' /\ ReportsInvariant' /\ TreeInvariant' /\ OnlyAdds
    BY <2>1, <2>2, GitStays
  <2>4. SandboxTypeOK' /\ SandboxInvariant' /\ DeploymentTypeOK' /\ DeploymentInvariant'
    BY <2>1, SandboxStays, DeploymentStays
  <2>5. RegistryTypeOK' /\ RegistryInvariant' /\ RowMoves
    BY <1>4, StatementKeeps
  <2>6. OneAtATime'
    <3>1. rpc[t] # "idle" /\ \A u \in Turns \ {t} : rpc'[u] = rpc[u]
      BY <1>4 DEF Find, Insert, Update, Await, RegistryTypeOK
    <3>2. gpc' = gpc /\ spc' = spc /\ dpc' = dpc
      BY <2>1 DEF git, sandbox, deployment
    <3> QED
      BY <3>1, <3>2 DEF OneAtATime
  <2> QED
    BY <2>2, <2>3, <2>4, <2>5, <2>6 DEF StepKeeps
<1>5. CASE Select(t)
  <2>1. UNCHANGED <<files, git>>
    BY <1>5 DEF Select
  <2>2. FilesTypeOK' /\ TreeMoves
    BY <2>1, FilesStay
  <2>3. GitTypeOK' /\ ReportsInvariant' /\ TreeInvariant' /\ OnlyAdds
    BY <2>1, <2>2, GitStays
  <2>4. /\ RegistryTypeOK' /\ RegistryInvariant' /\ UNCHANGED row
        /\ SandboxTypeOK' /\ SandboxInvariant'
        /\ DeploymentTypeOK' /\ DeploymentInvariant'
    BY <1>5, SelectKeeps
  <2>5. OneAtATime'
    <3>1. spc[t] # "idle" \/ dpc[t] # "idle"
      BY <1>5 DEF Select, OutcomesOf
    <3>2. /\ spc' = [spc EXCEPT ![t] = "idle"] /\ dpc' = [dpc EXCEPT ![t] = "idle"]
          /\ rpc' = rpc \/ rpc' = [rpc EXCEPT ![t] = "update"]
          /\ gpc' = gpc
      BY <1>5 DEF Select, Goes, Awaits, Await, git
    <3> QED
      BY <3>1, <3>2 DEF OneAtATime, SandboxTypeOK, DeploymentTypeOK, RegistryTypeOK
  <2> QED
    BY <2>2, <2>3, <2>4, <2>5 DEF StepKeeps, RowMoves
<1> QED
  BY <1>1, <1>2, <1>3, <1>4, <1>5 DEF ToolStep, RegistryStep

LEMMA DaemonKeeps ==
  ASSUME WorkspaceInvariant, Daemon
  PROVE  StepKeeps
<1> USE DEF WorkspaceInvariant, Types
<1>1. ASSUME NEW t \in Turns, DaemonStep(t), UNCHANGED <<git, deployment, registry>>
      PROVE  StepKeeps
  <2>1. FilesTypeOK' /\ TreeMoves /\ SandboxTypeOK' /\ SandboxInvariant'
    BY <1>1, SandboxKeeps
  <2>2. GitTypeOK' /\ ReportsInvariant' /\ TreeInvariant' /\ OnlyAdds
    BY <1>1, <2>1, GitStays
  <2>3. DeploymentTypeOK' /\ DeploymentInvariant'
    BY <1>1, DeploymentStays
  <2>4. RegistryTypeOK' /\ RegistryInvariant' /\ RowMoves
    BY <1>1, RegistryStays DEF RegistryTypeOK, registry
  <2>5. OneAtATime'
    BY <1>1, SandboxPlaces DEF OneAtATime, git, deployment, registry
  <2> QED
    BY <2>1, <2>2, <2>3, <2>4, <2>5 DEF StepKeeps
<1>2. ASSUME ContainerDies \/ ContainerRestarts, UNCHANGED <<git, sandbox, registry>>
      PROVE  StepKeeps
  <2>1. dpc' = dpc /\ UNCHANGED files
    BY <1>2 DEF ContainerDies, ContainerRestarts
  <2>2. FilesTypeOK' /\ TreeMoves
    BY <2>1, FilesStay
  <2>3. DeploymentTypeOK' /\ DeploymentInvariant'
    BY <1>2 DEF ContainerDies, ContainerRestarts, DeploymentTypeOK, DeploymentInvariant, Edits
  <2>4. GitTypeOK' /\ ReportsInvariant' /\ TreeInvariant' /\ OnlyAdds
    BY <1>2, <2>2, GitStays
  <2>5. SandboxTypeOK' /\ SandboxInvariant'
    BY <1>2, SandboxStays
  <2>6. RegistryTypeOK' /\ RegistryInvariant' /\ RowMoves
    BY <1>2, RegistryStays DEF RegistryTypeOK, registry
  <2>7. OneAtATime'
    BY <1>2, <2>1 DEF OneAtATime, git, sandbox, registry
  <2> QED
    BY <2>2, <2>3, <2>4, <2>5, <2>6, <2>7 DEF StepKeeps
<1> QED
  BY <1>1, <1>2 DEF Daemon

(* A run that is cut off is one whose container may be left. *)
LEMMA CrashKeeps ==
  ASSUME WorkspaceInvariant, Crash
  PROVE  StepKeeps
<1> USE DEF WorkspaceInvariant, Types, Crash
<1>1. FilesTypeOK' /\ TreeMoves
  BY FilesStay
<1>2. GitTypeOK'
  <2>1. Made' = Made
    BY DEF files, Made
  <2> QED
    BY <2>1 DEF GitTypeOK
<1>3. ReportsInvariant'
  BY DEF ReportsInvariant, CommitReportIsRight, Committing, At, WarnedRightly
<1>4. OnlyAdds /\ TreeInvariant'
  <2>1. UNCHANGED <<repo, head, tips, commits, index, reports, seen, misled, work, undone>>
    BY DEF files
  <2>2. \A u \in Turns : gpc'[u] = "idle"
    OBVIOUS
  <2>3. \A u \in Turns : OnItsWay(u)'
    BY <2>1, <2>2, RecordedStays DEF TreeInvariant, OnItsWay
  <2> QED
    BY <2>1, <2>2, <2>3, SameTips, SameIndex DEF TreeInvariant, Staged, Committing
<1>5. SandboxTypeOK' /\ SandboxInvariant'
  BY DEF SandboxTypeOK, SandboxInvariant, SurvivorNeedsFailedRemoval, In
<1>6. DeploymentTypeOK'
  <2>1. 0 \in 0..(Retries - 1)
    BY DeploymentAssumption
  <2>2. lost' \in BOOLEAN
    BY DEF DeploymentTypeOK
  <2> QED
    BY <2>1, <2>2 DEF DeploymentTypeOK, Edits
<1>7. DeploymentInvariant'
  BY DEF DeploymentInvariant, DeploymentTypeOK
<1>8. RegistryTypeOK' /\ RegistryInvariant' /\ RowMoves
  <2>1. starts' \in 0..MaxStarts
    BY WorkspaceAssumption DEF RegistryTypeOK
  <2> QED
    BY <2>1 DEF RegistryTypeOK, RegistryInvariant, RowMoves, Statuses
<1>9. OneAtATime'
  BY DEF OneAtATime
<1> QED
  BY <1>1, <1>2, <1>3, <1>4, <1>5, <1>6, <1>7, <1>8, <1>9 DEF StepKeeps

LEMMA NextKeeps ==
  ASSUME WorkspaceInvariant, [Next]_vars
  PROVE  StepKeeps
<1>1. CASE UNCHANGED vars
  <2>1. UNCHANGED <<files, git, sandbox, deployment, row, rpc, sets, starts>>
    BY <1>1 DEF vars, registry
  <2>2. FilesTypeOK' /\ TreeMoves
    BY <2>1, FilesStay DEF WorkspaceInvariant, Types
  <2>3. GitTypeOK' /\ ReportsInvariant' /\ TreeInvariant' /\ OnlyAdds
    BY <2>1, <2>2, GitStays DEF WorkspaceInvariant, Types
  <2>4. SandboxTypeOK' /\ SandboxInvariant' /\ DeploymentTypeOK' /\ DeploymentInvariant'
    BY <2>1, SandboxStays, DeploymentStays DEF WorkspaceInvariant, Types
  <2>5. RegistryTypeOK' /\ RegistryInvariant' /\ RowMoves
    BY <2>1, RegistryStays DEF WorkspaceInvariant, Types, RegistryTypeOK
  <2>6. OneAtATime'
    BY <2>1 DEF WorkspaceInvariant, OneAtATime, git, sandbox, deployment
  <2> QED
    BY <2>2, <2>3, <2>4, <2>5, <2>6 DEF StepKeeps, WorkspaceInvariant, Types
<1>2. CASE Next
  BY <1>2, StartKeeps, ToolKeeps, DaemonKeeps, CrashKeeps DEF Next
<1> QED
  BY <1>1, <1>2

-----------------------------------------------------------------------------
(* The theorems                                                            *)

(* What holds between the tools of all turns, the daemon and the bot that  *)
(* is started again (code_tools.py, git_ops.py, sandbox.py, deploy.py). *)
THEOREM WorkspaceInvariantHolds == Spec => []WorkspaceInvariant
<1>1. WorkspaceInvariant /\ [Next]_vars => WorkspaceInvariant'
  BY NextKeeps DEF StepKeeps
<1> QED
  BY InitHolds, <1>1, PTL DEF Spec

(* The variables of the five components keep their types, and a turn       *)
(* awaits one thing at a time (agent_loop.py:119). *)
THEOREM WorkspaceTyped == Spec => []TypeOK
<1>1. WorkspaceInvariant => TypeOK
  <2> SUFFICES ASSUME WorkspaceInvariant
               PROVE  TypeOK
    OBVIOUS
  <2>1. ASSUME NEW t \in Turns
        PROVE  LET busy == {pc \in {"git", "sandbox", "deployment", "registry"} :
                              CASE pc = "git"        -> gpc[t] # "idle"
                                [] pc = "sandbox"    -> spc[t] # "idle"
                                [] pc = "deployment" -> dpc[t] # "idle"
                                [] pc = "registry"   -> rpc[t] # "idle"}
               IN \A a, b \in busy : a = b
    BY <2>1 DEF WorkspaceInvariant, OneAtATime
  <2> QED
    BY <2>1 DEF TypeOK, WorkspaceInvariant, Types
<1> QED
  BY <1>1, WorkspaceInvariantHolds, PTL

(* git_commit names the branch its commit is on, and warns exactly when it *)
(* is the main branch, unless another turn moved HEAD meanwhile            *)
(* (git_tools.py:85-93). *)
THEOREM CommitReportHolds == Spec => []CommitReportIsRight
<1>1. WorkspaceInvariant => CommitReportIsRight
  BY DEF WorkspaceInvariant, ReportsInvariant
<1> QED
  BY <1>1, WorkspaceInvariantHolds, PTL

(* What was in the tree when git_commit was started is in a commit once it *)
(* says so (git_ops.py:123-144). *)
THEOREM ApprovedEditsHold == Spec => []ApprovedEditsAreCommitted
<1>1. WorkspaceInvariant => ApprovedEditsAreCommitted
  BY DEF WorkspaceInvariant, TreeInvariant, OnItsWay, ApprovedEditsAreCommitted
<1> QED
  BY <1>1, WorkspaceInvariantHolds, PTL

(* No commit takes back what its branch had, however git add, git commit   *)
(* and git checkout of several turns interleave (git_ops.py:60-144). *)
THEOREM CommitsOnlyAddHolds == Spec => CommitsOnlyAdd
<1>1. WorkspaceInvariant /\ [Next]_vars =>
        [~misled' => \A b \in DOMAIN tips \intersect Branches :
                       b \in DOMAIN tips' /\ tips[b] \ undone \subseteq tips'[b]]_tips
  BY NextKeeps DEF StepKeeps, OnlyAdds
<1> QED
  BY <1>1, WorkspaceInvariantHolds, PTL DEF Spec, CommitsOnlyAdd

(* A container is left behind only where its removal came too early or     *)
(* failed, or the bot was stopped (sandbox.py:122-135). *)
THEOREM SurvivorHolds == Spec => []SurvivorNeedsFailedRemoval
<1>1. WorkspaceInvariant => SurvivorNeedsFailedRemoval
  BY DEF WorkspaceInvariant, SandboxInvariant
<1> QED
  BY <1>1, WorkspaceInvariantHolds, PTL

(* What was reported as deployed is what is served (deploy.py:177-262). *)
THEOREM DeployedHolds == Spec => []DeployedIsServed
<1>1. WorkspaceInvariant => DeployedIsServed
  BY DEF WorkspaceInvariant, Types, DeploymentTypeOK, DeploymentInvariant, DeployedIsServed
<1> QED
  BY <1>1, WorkspaceInvariantHolds, PTL

(* The status of a registered project only moves between outcomes          *)
(* (code_tools.py:75-81, workspace.py:75-86). *)
THEOREM ProgressHolds == Spec => ProgressIsKept
<1>1. WorkspaceInvariant /\ [Next]_vars => [row # "none" => row' \in {row} \union Outcomes]_row
  BY NextKeeps DEF StepKeeps, RowMoves
<1> QED
  BY <1>1, WorkspaceInvariantHolds, PTL DEF Spec, ProgressIsKept
=============================================================================
