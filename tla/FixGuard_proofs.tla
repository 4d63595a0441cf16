-------------------------- MODULE FixGuard_proofs --------------------------
(***************************************************************************)
(* The guard, for every limit, every number of projects and turns and any  *)
(* length of run.  The bounds of TLC's runs play no part.                  *)
(***************************************************************************)
EXTENDS FixGuard, TLAPS

(* What one call of the guard makes of the state of its project. *)
LEMMA GuardCalls ==
  ASSUME TypeOK, NEW p \in Projects
  PROVE  /\ Fresh(p) \in States /\ OnEdit(p) \in States
         /\ OnTestFailure(p) \in States /\ OnTestSuccess(p) \in States
         /\ CallsNow(p) \in Nat /\ CyclesNow(p) \in Nat /\ TestedNow(p) \in Nat
<1>1. guard[p] \in States /\ clock \in Nat
  BY DEF TypeOK
<1>2. Fresh(p) \in States
  BY <1>1 DEF Fresh, Blank, States
<1>3. OnEdit(p) \in States
  BY <1>1, <1>2 DEF OnEdit, States
<1>5. OnTestFailure(p) \in States
  BY <1>1, <1>2 DEF OnTestFailure, States
<1>6. OnTestSuccess(p) \in States
  BY <1>1 DEF OnTestSuccess, Blank, States
<1>4. CallsNow(p) \in Nat /\ CyclesNow(p) \in Nat /\ TestedNow(p) \in Nat
  BY DEF TypeOK, CallsNow, CyclesNow, TestedNow
<1> QED
  BY <1>2, <1>3, <1>4, <1>5, <1>6

(* The record a run leaves has the type of a run. *)
LEMMA RunRecords ==
  /\ NoRun \in Runs
  /\ \A p \in Projects, b \in Nat, k \in {"test", "format"} :
       [task |-> k, project |-> p, base |-> b] \in Runs
BY DEF NoRun, Runs, Tasks

(* A turn that awaits a run knows its project. *)
LEMMA RunOfProject ==
  ASSUME TypeOK, NEW t \in Turns, run[t].task \in {"test", "format"}
  PROVE  run[t].project \in Projects /\ run[t].base \in Nat
BY DEF TypeOK, Runs

LEMMA InitType == Init => TypeOK
BY GuardAssumption DEF Init, TypeOK, States, Runs, Tasks, NoRun

LEMMA NextType ==
  ASSUME TypeOK, [Next]_vars
  PROVE  TypeOK'
<1> USE DEF TypeOK
<1>1. ASSUME NEW t \in Turns, NEW p \in Projects, NEW applied \in BOOLEAN, Edit(t, p, applied)
      PROVE  TypeOK'
  <2>1. OnEdit(p) \in States /\ CallsNow(p) \in Nat /\ CyclesNow(p) \in Nat /\ TestedNow(p) \in Nat
    BY GuardCalls
  <2> QED
    BY <1>1, <2>1 DEF Edit
<1>2. ASSUME NEW t \in Turns, NEW p \in Projects, Delete(t, p)
      PROVE  TypeOK'
  BY <1>2 DEF Delete
<1>3. ASSUME NEW t \in Turns, NEW p \in Projects, NEW k \in {"test", "format"}, StartRun(t, p, k)
      PROVE  TypeOK'
  <2>1. PICK r \in Runs : r = [task |-> k, project |-> p, base |-> edits[p]]
    BY RunRecords
  <2>2. r.project \in Projects /\ run' = [run EXCEPT ![t] = r]
    BY <1>3, <2>1 DEF StartRun
  <2> QED
    BY <1>3, <2>2 DEF StartRun
<1>4. ASSUME NEW t \in Turns, TestsFail(t)
      PROVE  TypeOK'
  <2>1. PICK p \in Projects : p = run[t].project
    BY <1>4, RunOfProject DEF TestsFail
  <2>2. OnTestFailure(p) \in States /\ CallsNow(p) \in Nat /\ CyclesNow(p) \in Nat /\ TestedNow(p) \in Nat
    BY GuardCalls
  <2>3. run[t].base \in Nat
    BY <1>4, RunOfProject DEF TestsFail
  <2>4. NoRun \in Runs /\ NoRun.task = "none"
    BY RunRecords DEF NoRun
  <2> QED
    BY <1>4, <2>1, <2>2, <2>3, <2>4 DEF TestsFail
<1>5. ASSUME NEW t \in Turns, TestsPass(t)
      PROVE  TypeOK'
  <2>1. PICK p \in Projects : p = run[t].project
    BY <1>5, RunOfProject DEF TestsPass
  <2>2. OnTestSuccess(p) \in States /\ run[t].base \in Nat
    BY <1>5, GuardCalls, RunOfProject DEF TestsPass
  <2>3. NoRun \in Runs /\ NoRun.task = "none"
    BY RunRecords DEF NoRun
  <2> QED
    BY <1>5, <2>1, <2>2, <2>3 DEF TestsPass
<1>6. ASSUME NEW t \in Turns, FormatEnds(t) \/ NothingRuns(t)
      PROVE  TypeOK'
  <2>1. NoRun \in Runs /\ NoRun.task = "none"
    BY RunRecords DEF NoRun
  <2> QED
    BY <1>6, <2>1 DEF FormatEnds, NothingRuns
<1>7. CASE Tick
  BY <1>7 DEF Tick
<1>8. CASE UNCHANGED vars
  BY <1>8 DEF vars
<1> QED
  BY <1>1, <1>2, <1>3, <1>4, <1>5, <1>6, <1>7, <1>8 DEF Next, TurnStep

(* The variables keep their types. *)
THEOREM TypeCorrect == Spec => []TypeOK
BY InitType, NextType, PTL DEF Spec

-----------------------------------------------------------------------------
(* The limit                                                               *)

(* What the guard keeps for one project g, and how its calls preserve it.  *)
(* Dropping the state starts it anew.                                      *)
Guarded(g) ==
  g.iterations <= Limit /\ (g.iterations = Limit => ~g.pending)

Owes(g) == g.iterations + (IF g.pending THEN 1 ELSE 0)

LEMMA GuardKeepsLimit ==
  ASSUME TypeOK, NEW p \in Projects, Guarded(guard[p])
  PROVE  /\ WithinLimit(p) => Guarded(OnEdit(p))
         /\ Guarded(OnTestFailure(p))
         /\ Guarded(OnTestSuccess(p))
<1>1. guard[p] \in States /\ clock \in Nat
  BY DEF TypeOK
<1>2. Fresh(p) \in States /\ Guarded(Fresh(p))
  BY <1>1, GuardAssumption DEF Fresh, Blank, States, Guarded
<1>3. WithinLimit(p) => Guarded(OnEdit(p))
  BY <1>2, GuardAssumption DEF WithinLimit, OnEdit, States, Guarded
<1>4. Guarded(OnTestFailure(p))
  BY <1>2, GuardAssumption DEF OnTestFailure, States, Guarded
<1>5. Guarded(OnTestSuccess(p))
  BY <1>1, GuardAssumption DEF OnTestSuccess, Blank, Guarded
<1> QED
  BY <1>3, <1>4, <1>5

(* What is owed grows by one at most with an edit, and never with a run. *)
LEMMA GuardKeepsCharge ==
  ASSUME TypeOK, NEW p \in Projects, Owes(guard[p]) <= calls[p]
  PROVE  /\ Owes(OnEdit(p)) <= CallsNow(p) + 1
         /\ Owes(OnTestFailure(p)) <= CallsNow(p)
         /\ Owes(OnTestSuccess(p)) <= 0
<1>1. guard[p] \in States /\ clock \in Nat /\ calls[p] \in Nat
  BY DEF TypeOK
<1>2. Fresh(p) \in States /\ CallsNow(p) \in Nat /\ Owes(Fresh(p)) <= CallsNow(p)
  BY <1>1 DEF Fresh, CallsNow, Blank, States, Owes
<1>3. Owes(OnEdit(p)) <= CallsNow(p) + 1
  BY <1>2 DEF OnEdit, States, Owes
<1>4. Owes(OnTestFailure(p)) <= CallsNow(p)
  BY <1>2 DEF OnTestFailure, States, Owes
<1>5. Owes(OnTestSuccess(p)) <= 0
  BY DEF OnTestSuccess, Blank, Owes
<1> QED
  BY <1>3, <1>4, <1>5

(* In every step a project keeps its state and its count, or one call of   *)
(* the guard was made for it. *)
LEMMA StepOfProject ==
  ASSUME TypeOK, [Next]_vars, NEW q \in Projects
  PROVE  \/ guard'[q] = guard[q] /\ calls'[q] = calls[q]
         \/ WithinLimit(q) /\ guard'[q] = OnEdit(q) /\ calls'[q] = CallsNow(q) + 1
         \/ guard'[q] = OnTestFailure(q) /\ calls'[q] = CallsNow(q)
         \/ guard'[q] = OnTestSuccess(q) /\ calls'[q] = 0
<1>1. guard = [p \in Projects |-> guard[p]] /\ calls = [p \in Projects |-> calls[p]]
  BY DEF TypeOK
<1>2. ASSUME NEW t \in Turns, NEW p \in Projects, NEW applied \in BOOLEAN, Edit(t, p, applied)
      PROVE  \/ guard'[q] = guard[q] /\ calls'[q] = calls[q]
             \/ WithinLimit(q) /\ guard'[q] = OnEdit(q) /\ calls'[q] = CallsNow(q) + 1
  BY <1>1, <1>2 DEF Edit
<1>3. ASSUME NEW t \in Turns, TestsFail(t)
      PROVE  \/ guard'[q] = guard[q] /\ calls'[q] = calls[q]
             \/ guard'[q] = OnTestFailure(q) /\ calls'[q] = CallsNow(q)
  <2>1. PICK p \in Projects : p = run[t].project
    BY <1>3, RunOfProject DEF TestsFail
  <2> QED
    BY <1>1, <1>3, <2>1 DEF TestsFail
<1>4. ASSUME NEW t \in Turns, TestsPass(t)
      PROVE  \/ guard'[q] = guard[q] /\ calls'[q] = calls[q]
             \/ guard'[q] = OnTestSuccess(q) /\ calls'[q] = 0
  <2>1. PICK p \in Projects : p = run[t].project
    BY <1>4, RunOfProject DEF TestsPass
  <2> QED
    BY <1>1, <1>4, <2>1 DEF TestsPass
<1>5. ASSUME NEW t \in Turns, NEW p \in Projects, NEW k \in {"test", "format"},
             Delete(t, p) \/ StartRun(t, p, k) \/ FormatEnds(t) \/ NothingRuns(t)
      PROVE  guard'[q] = guard[q] /\ calls'[q] = calls[q]
  BY <1>5 DEF Delete, StartRun, FormatEnds, NothingRuns
<1>6. CASE Tick \/ UNCHANGED vars
  BY <1>6 DEF Tick, vars
<1> QED
  BY <1>2, <1>3, <1>4, <1>5, <1>6 DEF Next, TurnStep

(* No project gets past the limit, whatever edits and runs overlap. *)
THEOREM LimitHolds == Spec => []LimitRespected
<1>1. LimitRespected <=> \A p \in Projects : Guarded(guard[p])
  BY DEF LimitRespected, Guarded
<1>2. Init => LimitRespected
  <2> SUFFICES ASSUME Init, NEW p \in Projects
               PROVE  Guarded(guard[p])
    BY <1>1
  <2>1. guard[p] = [iterations |-> 0, pending |-> FALSE, last |-> 0]
    BY DEF Init
  <2> QED
    BY <2>1, GuardAssumption DEF Guarded
<1>3. TypeOK /\ LimitRespected /\ [Next]_vars => LimitRespected'
  <2> SUFFICES ASSUME TypeOK, LimitRespected, [Next]_vars, NEW q \in Projects
               PROVE  Guarded(guard'[q])
    BY DEF LimitRespected, Guarded
  <2>1. Guarded(guard[q])
    BY <1>1
  <2> QED
    BY <2>1, StepOfProject, GuardKeepsLimit
<1> QED
  BY <1>2, <1>3, TypeCorrect, PTL DEF Spec

(* No failing run is charged without a call that edits of its own. *)
THEOREM ChargeHolds == Spec => []ChargedOnce
<1>1. Init => ChargedOnce
  <2> SUFFICES ASSUME Init, NEW p \in Projects
               PROVE  Owes(guard[p]) <= calls[p]
    BY DEF ChargedOnce, Owes
  <2>1. guard[p] = [iterations |-> 0, pending |-> FALSE, last |-> 0] /\ calls[p] = 0
    BY DEF Init
  <2> QED
    BY <2>1 DEF Owes
<1>2. TypeOK /\ ChargedOnce /\ [Next]_vars => ChargedOnce'
  <2> SUFFICES ASSUME TypeOK, ChargedOnce, [Next]_vars, NEW q \in Projects
               PROVE  Owes(guard'[q]) <= calls'[q]
    BY DEF ChargedOnce, Owes
  <2>1. Owes(guard[q]) <= calls[q]
    BY DEF ChargedOnce, Owes
  <2> QED
    BY <2>1, StepOfProject, GuardKeepsCharge
<1> QED
  BY <1>1, <1>2, TypeCorrect, PTL DEF Spec

-----------------------------------------------------------------------------
(* The count                                                               *)

(* Where no edit came while tests ran, a run that is under way tests the   *)
(* last edit, and an edit no run has tested is pending: so a failed run of *)
(* new code finds it pending. *)
UpToDate(p) ==
  \A t \in Turns :
    run[t].task = "test" /\ run[t].project = p => run[t].base = edits[p]

Tracked(p) ==
  /\ cycles[p] <= guard[p].iterations
  /\ tested[p] < edits[p] => guard[p].pending

CountInv == \A p \in Projects \ overlapped : UpToDate(p) /\ Tracked(p)

(* What was forgotten is forgotten on both sides. *)
LEMMA TrackedNow ==
  ASSUME TypeOK, NEW p \in Projects, Tracked(p)
  PROVE  /\ CyclesNow(p) <= Fresh(p).iterations
         /\ TestedNow(p) < edits[p] => Fresh(p).pending
BY DEF TypeOK, Tracked, CyclesNow, TestedNow, Fresh, Blank

(* An edit of p that no test run overlaps leaves p up to date and tracked. *)
LEMMA EditCounts ==
  ASSUME TypeOK, CountInv, NEW t \in Turns, NEW p \in Projects,
         NEW applied \in BOOLEAN, Edit(t, p, applied)
  PROVE  CountInv'
<1> SUFFICES ASSUME NEW q \in Projects, q \notin overlapped'
             PROVE  UpToDate(q)' /\ Tracked(q)'
  BY DEF CountInv
<1>1. run' = run /\ q \notin overlapped
  BY DEF Edit
<1>2. UpToDate(q) /\ Tracked(q)
  BY <1>1 DEF CountInv
<1>3. CASE q # p
  <2>1. edits'[q] = edits[q] /\ cycles'[q] = cycles[q] /\ guard'[q] = guard[q] /\ tested'[q] = tested[q]
    BY <1>3 DEF Edit, TypeOK
  <2> QED
    BY <1>1, <1>2, <2>1 DEF UpToDate, Tracked
<1>4. CASE q = p
  <2>1. ~Testing(p)
    BY <1>4 DEF Edit
  <2>2. UpToDate(p)'
    BY <1>1, <2>1 DEF UpToDate, Testing
  <2>3. CyclesNow(p) <= Fresh(p).iterations /\ Fresh(p) \in States
    BY <1>2, <1>4, TrackedNow, GuardCalls
  <2>4. OnEdit(p).iterations = Fresh(p).iterations /\ OnEdit(p).pending
    BY <2>3 DEF OnEdit, States
  <2>5. Tracked(p)'
    BY <2>3, <2>4 DEF Edit, Tracked, TypeOK
  <2> QED
    BY <1>4, <2>2, <2>5
<1> QED
  BY <1>3, <1>4

(* A run of p that ends leaves the other projects alone, and those under   *)
(* way stay as they are. *)
LEMMA EndOfRun ==
  ASSUME TypeOK, NEW t \in Turns, TestsFail(t) \/ TestsPass(t), NEW q \in Projects, UpToDate(q)
  PROVE  /\ UpToDate(q)'
         /\ q # run[t].project =>
              /\ guard'[q] = guard[q] /\ cycles'[q] = cycles[q]
              /\ tested'[q] = tested[q] /\ edits'[q] = edits[q]
<1>1. run' = [run EXCEPT ![t] = NoRun] /\ edits' = edits
  BY DEF TestsFail, TestsPass
<1>2. NoRun.task = "none"
  BY DEF NoRun
<1>3. UpToDate(q)'
  BY <1>1, <1>2 DEF UpToDate, TypeOK
<1>4. q # run[t].project =>
        /\ guard'[q] = guard[q] /\ cycles'[q] = cycles[q]
        /\ tested'[q] = tested[q] /\ edits'[q] = edits[q]
  BY DEF TestsFail, TestsPass, TypeOK
<1> QED
  BY <1>3, <1>4

LEMMA FailureCounts ==
  ASSUME TypeOK, CountInv, NEW t \in Turns, TestsFail(t)
  PROVE  CountInv'
<1> SUFFICES ASSUME NEW q \in Projects, q \notin overlapped'
             PROVE  UpToDate(q)' /\ Tracked(q)'
  BY DEF CountInv
<1>1. q \notin overlapped /\ UpToDate(q) /\ Tracked(q)
  BY DEF CountInv, TestsFail
<1>2. UpToDate(q)'
  BY <1>1, EndOfRun
<1>3. CASE q # run[t].project
  BY <1>1, <1>2, <1>3, EndOfRun DEF Tracked
<1>4. CASE q = run[t].project
  <2>1. run[t].base = edits[q] /\ edits[q] \in Nat
    BY <1>1, <1>4 DEF UpToDate, TestsFail, TypeOK
  <2>2. /\ CyclesNow(q) <= Fresh(q).iterations
        /\ TestedNow(q) < edits[q] => Fresh(q).pending
        /\ Fresh(q) \in States /\ CyclesNow(q) \in Nat /\ TestedNow(q) \in Nat
    BY <1>1, TrackedNow, GuardCalls
  <2>3. /\ guard'[q] = OnTestFailure(q) /\ edits'[q] = edits[q]
        /\ cycles'[q] = IF edits[q] > TestedNow(q) THEN CyclesNow(q) + 1 ELSE CyclesNow(q)
        /\ tested'[q] = IF edits[q] > TestedNow(q) THEN edits[q] ELSE TestedNow(q)
    BY <1>4, <2>1 DEF TestsFail, TypeOK
  <2>4. Tracked(q)'
    <3>1. CASE Fresh(q).pending
      <4>1. OnTestFailure(q).iterations = Fresh(q).iterations + 1
        BY <3>1 DEF OnTestFailure
      <4> QED
        BY <2>1, <2>2, <2>3, <4>1 DEF Tracked, States
    <3>2. CASE ~Fresh(q).pending
      <4>1. OnTestFailure(q).iterations = Fresh(q).iterations
        BY <2>2, <3>2 DEF OnTestFailure, States
      <4> QED
        BY <2>1, <2>2, <2>3, <3>2, <4>1 DEF Tracked, States
    <3> QED
      BY <3>1, <3>2
  <2> QED
    BY <1>2, <2>4
<1> QED
  BY <1>3, <1>4

LEMMA SuccessCounts ==
  ASSUME TypeOK, CountInv, NEW t \in Turns, TestsPass(t)
  PROVE  CountInv'
<1> SUFFICES ASSUME NEW q \in Projects, q \notin overlapped'
             PROVE  UpToDate(q)' /\ Tracked(q)'
  BY DEF CountInv
<1>1. q \notin overlapped /\ UpToDate(q) /\ Tracked(q)
  BY DEF CountInv, TestsPass
<1>2. UpToDate(q)'
  BY <1>1, EndOfRun
<1>3. CASE q # run[t].project
  BY <1>1, <1>2, <1>3, EndOfRun DEF Tracked
<1>4. CASE q = run[t].project
  <2>1. run[t].base = edits[q] /\ edits[q] \in Nat
    BY <1>1, <1>4 DEF UpToDate, TestsPass, TypeOK
  <2>2. /\ guard'[q].iterations = 0 /\ cycles'[q] = 0
        /\ tested'[q] = edits[q] /\ edits'[q] = edits[q]
    BY <1>4, <2>1 DEF TestsPass, OnTestSuccess, Blank, TypeOK
  <2>3. Tracked(q)'
    BY <2>1, <2>2 DEF Tracked
  <2> QED
    BY <1>2, <2>3
<1> QED
  BY <1>3, <1>4

LEMMA CountStep ==
  ASSUME TypeOK, CountInv, [Next]_vars
  PROVE  CountInv'
<1>1. ASSUME NEW t \in Turns, NEW p \in Projects, NEW k \in {"test", "format"}, StartRun(t, p, k)
      PROVE  CountInv'
  <2>1. ASSUME NEW q \in Projects, UpToDate(q)
        PROVE  UpToDate(q)'
    BY <1>1, <2>1 DEF UpToDate, StartRun, TypeOK
  <2> QED
    BY <1>1, <2>1 DEF StartRun, CountInv, Tracked
<1>2. ASSUME NEW t \in Turns, FormatEnds(t) \/ NothingRuns(t)
      PROVE  CountInv'
  <2>1. ASSUME NEW q \in Projects, UpToDate(q)
        PROVE  UpToDate(q)'
    BY <1>2, <2>1 DEF UpToDate, FormatEnds, NothingRuns, TypeOK, NoRun
  <2> QED
    BY <1>2, <2>1 DEF FormatEnds, NothingRuns, CountInv, Tracked
<1>3. ASSUME NEW t \in Turns, NEW p \in Projects, Delete(t, p)
      PROVE  CountInv'
  BY <1>3 DEF Delete, CountInv, UpToDate, Tracked
<1>4. CASE Tick
  BY <1>4 DEF Tick, CountInv, UpToDate, Tracked
<1>5. CASE UNCHANGED vars
  BY <1>5 DEF vars, CountInv, UpToDate, Tracked
<1> QED
  BY <1>1, <1>2, <1>3, <1>4, <1>5, EditCounts, FailureCounts, SuccessCounts DEF Next, TurnStep

(* For every limit and any number of turns: without an edit while tests    *)
(* run, no failed run of new code goes uncounted (on_edit,                 *)
(* on_test_failure). *)
THEOREM CountHolds == Spec => []UndercountNeedsOverlap
<1>1. Init => CountInv
  <2> SUFFICES ASSUME Init, NEW p \in Projects
               PROVE  UpToDate(p) /\ Tracked(p)
    BY DEF CountInv
  <2>1. \A t \in Turns : run[t].task = "none"
    BY DEF Init, NoRun
  <2>2. cycles[p] = 0 /\ tested[p] = 0 /\ edits[p] = 0 /\ guard[p].iterations = 0
    BY DEF Init
  <2> QED
    BY <2>1, <2>2 DEF UpToDate, Tracked
<1>2. CountInv => UndercountNeedsOverlap
  BY DEF CountInv, Tracked, UndercountNeedsOverlap
<1> QED
  BY <1>1, <1>2, CountStep, TypeCorrect, PTL DEF Spec
=============================================================================
