------------------------------ MODULE FixGuard ------------------------------
(***************************************************************************)
(* coding/fix_guard.py and the tools that use it (code_tools.py,           *)
(* tester_tools.py): the limit on cycles of editing code and failing its   *)
(* tests.  A turn of the agent calls one tool at a time, but turns overlap *)
(* (several users, several messages), and a run awaits its container, so   *)
(* code can be edited while its tests run.                                 *)
(*                                                                         *)
(* The registration of an edit and the edit are one step: nothing is       *)
(* awaited between them.  A project the guard does not know is one with a  *)
(* blank state.  Refusals (limit, rate limit, unknown project) change      *)
(* nothing and are not steps.  The guard lives as long as the process.     *)
(***************************************************************************)
EXTENDS Integers

CONSTANTS
  Projects, Turns,
  Limit,      \* MAX_CODE_FIX_ITERATIONS
  TTL,        \* FIX_SESSION_TTL_SECONDS
  NoProject,  \* the project of a turn that runs nothing
  MaxTime,    \* bound on the clock
  MaxChanges  \* bound on the calls that edit or rewrite a project

ASSUME GuardAssumption ==
  /\ Limit \in Nat \ {0} /\ TTL \in Nat /\ MaxTime \in Nat /\ MaxChanges \in Nat
  /\ NoProject \notin Projects

VARIABLES
  guard,     \* _state: what the guard knows of every project
  run,       \* the sandbox run every turn awaits; base: edits when it started
  edits,     \* how many times write/edit_code_file has changed the code
  rewrites,  \* how many times another tool has changed it
  clock,     \* time.monotonic()
  calls,     \* history: edits registered since the count was last dropped
  cycles,    \* history: failed runs since then that tested a new edit
  tested,    \* history: the last edit a finished run has tested, or dropped
  overlapped \* history: the projects edited while their tests ran

vars == <<guard, run, edits, rewrites, clock, calls, cycles, tested, overlapped>>

Tasks  == {"none", "test", "format"}
States == [iterations : Nat, pending : BOOLEAN, last : Nat]
Runs   == [task : Tasks, project : Projects \union {NoProject}, base : Nat]

NoRun == [task |-> "none", project |-> NoProject, base |-> 0]
Blank == [iterations |-> 0, pending |-> FALSE, last |-> clock]

TypeOK ==
  /\ guard \in [Projects -> States]
  /\ run \in [Turns -> Runs]
  /\ \A t \in Turns : run[t].task # "none" => run[t].project \in Projects
  /\ edits \in [Projects -> Nat] /\ rewrites \in [Projects -> Nat]
  /\ calls \in [Projects -> Nat] /\ cycles \in [Projects -> Nat]
  /\ tested \in [Projects -> Nat]
  /\ overlapped \subseteq Projects
  /\ clock \in Nat

Init ==
  /\ clock    = 0
  /\ guard    = [p \in Projects |-> [iterations |-> 0, pending |-> FALSE, last |-> 0]]
  /\ run      = [t \in Turns |-> NoRun]
  /\ edits    = [p \in Projects |-> 0]
  /\ rewrites = [p \in Projects |-> 0]
  /\ calls    = [p \in Projects |-> 0]
  /\ cycles   = [p \in Projects |-> 0]
  /\ tested   = [p \in Projects |-> 0]
  /\ overlapped = {}

Idle(t)    == run[t].task = "none"
Testing(p) == \E t \in Turns : run[t].task = "test" /\ run[t].project = p
Expired(p) == clock - guard[p].last > TTL
Fresh(p)   == IF Expired(p) THEN Blank ELSE guard[p]

(* History up to now, forgotten where the guard forgets. *)
CallsNow(p)  == IF Expired(p) THEN 0 ELSE calls[p]
CyclesNow(p) == IF Expired(p) THEN 0 ELSE cycles[p]
TestedNow(p) == IF Expired(p) THEN edits[p] ELSE tested[p]

(* Bug: the check lets one more edit through. *)
WithinLimitAtMost(p) == Fresh(p).iterations <= Limit

WithinLimit(p) == Fresh(p).iterations < Limit

(* Bug: every edit starts a new count. *)
OnEditAnew(p) == [Blank EXCEPT !.pending = TRUE]

OnEdit(p) == [Fresh(p) EXCEPT !.pending = TRUE, !.last = clock]

(* Bug: the edit is still pending after the run that tested it. *)
OnTestFailureKeeps(p) ==
  IF Fresh(p).pending
  THEN [Fresh(p) EXCEPT !.iterations = @ + 1, !.last = clock]
  ELSE [Fresh(p) EXCEPT !.last = clock]

OnTestFailure(p) ==
  IF Fresh(p).pending
  THEN [iterations |-> Fresh(p).iterations + 1, pending |-> FALSE, last |-> clock]
  ELSE [Fresh(p) EXCEPT !.last = clock]

OnTestSuccess(p) == Blank

(* write_code_file and edit_code_file: the edit is registered first, and   *)
(* may then fail (no such text, no such file, a path outside). *)
Edit(t, p, applied) ==
  /\ calls[p] < MaxChanges /\ edits[p] < MaxChanges
  /\ Idle(t)
  /\ WithinLimit(p)
  /\ guard' = [guard EXCEPT ![p] = OnEdit(p)]
  /\ edits' = [edits EXCEPT ![p] = IF applied THEN @ + 1 ELSE @]
  /\ calls' = [calls EXCEPT ![p] = CallsNow(p) + 1]
  /\ cycles' = [cycles EXCEPT ![p] = CyclesNow(p)]
  /\ tested' = [tested EXCEPT ![p] = TestedNow(p)]
  /\ overlapped' = IF Testing(p) THEN overlapped \union {p} ELSE overlapped
  /\ UNCHANGED <<run, rewrites, clock>>

(* delete_code_file asks no guard. *)
Delete(t, p) ==
  /\ rewrites[p] < MaxChanges
  /\ Idle(t)
  /\ rewrites' = [rewrites EXCEPT ![p] = @ + 1]
  /\ UNCHANGED <<guard, run, edits, clock, calls, cycles, tested, overlapped>>

(* Tests and the formatter; the linter and the build touch no state here. *)
StartRun(t, p, task) ==
  /\ Idle(t)
  /\ run' = [run EXCEPT ![t] = [task |-> task, project |-> p, base |-> edits[p]]]
  /\ UNCHANGED <<guard, edits, rewrites, clock, calls, cycles, tested, overlapped>>

TestsFail(t) ==
  LET p == run[t].project
      new == run[t].base > TestedNow(p)
  IN /\ run[t].task = "test"
     /\ guard' = [guard EXCEPT ![p] = OnTestFailure(p)]
     /\ calls' = [calls EXCEPT ![p] = CallsNow(p)]
     /\ cycles' = [cycles EXCEPT ![p] = IF new THEN CyclesNow(p) + 1 ELSE CyclesNow(p)]
     /\ tested' = [tested EXCEPT ![p] = IF new THEN run[t].base ELSE TestedNow(p)]
     /\ run' = [run EXCEPT ![t] = NoRun]
     /\ UNCHANGED <<edits, rewrites, clock, overlapped>>

TestsPass(t) ==
  LET p == run[t].project
  IN /\ run[t].task = "test"
     /\ guard' = [guard EXCEPT ![p] = OnTestSuccess(p)]
     /\ calls' = [calls EXCEPT ![p] = 0]
     /\ cycles' = [cycles EXCEPT ![p] = 0]
     /\ tested' = [tested EXCEPT ![p] = run[t].base]
     /\ run' = [run EXCEPT ![t] = NoRun]
     /\ UNCHANGED <<edits, rewrites, clock, overlapped>>

(* The formatter rewrites the mounted project and asks no guard. *)
FormatEnds(t) ==
  LET p == run[t].project
  IN /\ run[t].task = "format"
     /\ rewrites[p] < MaxChanges
     /\ rewrites' = [rewrites EXCEPT ![p] = @ + 1]
     /\ run' = [run EXCEPT ![t] = NoRun]
     /\ UNCHANGED <<guard, edits, clock, calls, cycles, tested, overlapped>>

(* No image, or docker cannot be started; or nothing to format. *)
NothingRuns(t) ==
  /\ ~Idle(t)
  /\ run' = [run EXCEPT ![t] = NoRun]
  /\ UNCHANGED <<guard, edits, rewrites, clock, calls, cycles, tested, overlapped>>

Tick ==
  /\ clock < MaxTime
  /\ clock' = clock + 1
  /\ UNCHANGED <<guard, run, edits, rewrites, calls, cycles, tested, overlapped>>

TurnStep(t) ==
  \/ \E p \in Projects :
       \/ \E applied \in BOOLEAN : Edit(t, p, applied)
       \/ Delete(t, p)
       \/ \E task \in {"test", "format"} : StartRun(t, p, task)
  \/ TestsFail(t) \/ TestsPass(t) \/ FormatEnds(t) \/ NothingRuns(t)

Next == (\E t \in Turns : TurnStep(t)) \/ Tick

Spec == Init /\ [][Next]_vars

-----------------------------------------------------------------------------
(* Properties                                                              *)

(* Whatever overlaps, no project gets past the limit: with the limit       *)
(* reached no edit is pending that a failing run still under way could     *)
(* turn into one cycle more. *)
LimitRespected ==
  \A p \in Projects :
    /\ guard[p].iterations <= Limit
    /\ guard[p].iterations = Limit => ~guard[p].pending

(* An edit is charged once: failing again, or two runs failing one after   *)
(* the other, is no new cycle without a new call that edits. *)
ChargedOnce ==
  \A p \in Projects :
    guard[p].iterations + (IF guard[p].pending THEN 1 ELSE 0) <= calls[p]

(* Every failed run of newly edited code is counted, however edits, runs   *)
(* of several turns, runs that fail to start and time interleave, as long  *)
(* as no edit of the project came while its tests ran. *)
UndercountNeedsOverlap ==
  \A p \in Projects \ overlapped : cycles[p] <= guard[p].iterations

(* What the docstring promises (fix_guard.py:5), of every project: each    *)
(* finished cycle of an edit and failed tests is counted. *)
NeverUndercounts == \A p \in Projects : cycles[p] <= guard[p].iterations

(* What the docstring promises (fix_guard.py:5,26): a cycle is a run that  *)
(* failed after edits.  An edit that was not applied counts, too. *)
CyclesNeedEdits == \A p \in Projects : guard[p].iterations <= edits[p]

(* What the agent is told at the limit (tester_tools.py:83): the code of   *)
(* the project can no longer be changed.  Other tools still change it. *)
BlockedCodeStays ==
  [][\A p \in Projects :
       ~WithinLimit(p) => edits'[p] = edits[p] /\ rewrites'[p] = rewrites[p]]_vars
=============================================================================
