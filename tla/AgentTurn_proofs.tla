-------------------------- MODULE AgentTurn_proofs --------------------------
(***************************************************************************)
(* For every set of tool names, every limit and every set of files: a turn *)
(* with its effects is a turn of AgentLoop, so that what is proved of the  *)
(* loop holds of it; what a file tool destroys is in a backup unless two   *)
(* backups share a name; and nothing irreversible happens more often than  *)
(* it was approved, which rests on the levels of ToolCatalogue.            *)
(***************************************************************************)
EXTENDS AgentTurn, TLAPS

(***************************************************************************)
(* The loop                                                                *)
(*                                                                         *)
(* For every set of tools and levels, every limit of calls and every bound *)
(* of the model (TurnAssumption is not used): the conversation is well     *)
(* formed whenever the model is called, and no tool use is run twice.      *)
(* Both rest on one invariant of the round in progress: the results answer *)
(* what was handled, except the use that waits, and what is not yet        *)
(* answered has not been run.                                              *)
(***************************************************************************)

(* Calls are left when the model is about to be called, a question is open *)
(* exactly while the user is waited for, and a round that is over has no   *)
(* use left to handle. *)
PhaseOK ==
  /\ phase = "calling" => iteration < MaxIterations /\ pending = 0
  /\ phase = "waiting" => pending # 0
  /\ phase \in {"calling", "waiting"} => handled = Len(uses)

(* What the results of the round answer. *)
Answered ==
  /\ Len(results) = IF pending = 0 THEN handled ELSE handled - 1
  /\ \A i \in 1..handled : i # pending => \E j \in 1..Len(results) : results[j] = i

(* What the round has run. *)
RunOnce ==
  \A i \in Positions :
    /\ runs[i] <= 1
    /\ (i > handled \/ i = pending) => runs[i] = 0

IInv == TypeOK /\ PhaseOK /\ Answered /\ RunOnce

-----------------------------------------------------------------------------

(* Appending adds one element and keeps the others. *)
LEMMA AppendKeeps ==
  ASSUME NEW s \in Seq(Nat), NEW e \in Nat
  PROVE  /\ Append(s, e) \in Seq(Nat)
         /\ Len(Append(s, e)) = Len(s) + 1
         /\ Append(s, e)[Len(s) + 1] = e
         /\ \A j \in 1..Len(s) : Append(s, e)[j] = s[j]
  OBVIOUS

(* A position answered by s is answered by s with one result more, and so  *)
(* is the position that result answers. *)
LEMMA AppendAnswers ==
  ASSUME NEW s \in Seq(Nat), NEW e \in Nat, NEW i,
         i = e \/ \E j \in 1..Len(s) : s[j] = i
  PROVE  \E j \in 1..Len(Append(s, e)) : Append(s, e)[j] = i
<1>1. CASE i = e
  <2>1. Len(s) + 1 \in 1..Len(Append(s, e)) /\ Append(s, e)[Len(s) + 1] = i
    BY <1>1, AppendKeeps
  <2> QED BY <2>1
<1>2. CASE \E j \in 1..Len(s) : s[j] = i
  <2>1. PICK j \in 1..Len(s) : s[j] = i
    BY <1>2
  <2>2. j \in 1..Len(Append(s, e)) /\ Append(s, e)[j] = i
    BY <2>1, AppendKeeps
  <2> QED BY <2>2
<1> QED BY <1>1, <1>2

(* The responses are sequences of at most MaxUses names. *)
LEMMA ResponseIsSeq ==
  ASSUME NEW us \in Responses
  PROVE  us \in Seq(Names) /\ Len(us) \in Nat /\ Len(us) <= MaxUses
<1>1. PICK n \in Positions : us \in [1..n -> Names]
  BY DEF Responses
<1> QED BY <1>1, LoopAssumption DEF Positions, LoopAssumption

(* The next use to be handled is a position of the response. *)
LEMMA NowIsPosition ==
  ASSUME TypeOK, Handle
  PROVE  /\ Now \in Positions /\ Now \in Nat /\ Now > handled /\ Now <= Len(uses)
         /\ Now # pending /\ handled' = Now /\ uses' = uses
  BY LoopAssumption DEF TypeOK, Handle, Now, Positions, LoopAssumption

-----------------------------------------------------------------------------
(* Each step keeps the invariant. *)

LEMMA RespondKeeps ==
  ASSUME IInv, NEW us \in Responses, Respond(us)
  PROVE  IInv'
<1>1. us \in Seq(Names) /\ Len(us) \in Nat /\ Len(us) <= MaxUses
  BY ResponseIsSeq
<1>2. TypeOK'
  BY <1>1, LoopAssumption DEF IInv, TypeOK, PhaseOK, Respond, LoopAssumption
<1>3. PhaseOK' /\ Answered'
  BY <1>1 DEF Respond, PhaseOK, Answered
<1>4. RunOnce'
  BY DEF Respond, RunOnce
<1> QED BY <1>2, <1>3, <1>4 DEF IInv

(* A use that is answered at once: it is run at most once and its result   *)
(* is the next one. *)
LEMMA AnsweredAtOnce ==
  ASSUME IInv, Handle, results' = Append(results, Now), pending' = pending,
         \/ runs' = runs
         \/ runs' = [runs EXCEPT ![Now] = @ + 1]
  PROVE  IInv'
<1>1. /\ Now \in Positions /\ Now \in Nat /\ Now > handled /\ Now <= Len(uses)
      /\ Now # pending /\ handled' = Now /\ uses' = uses
  BY NowIsPosition DEF IInv
<1>2. results \in Seq(Nat) /\ Append(results, Now) \in Seq(Nat)
  BY <1>1, AppendKeeps DEF IInv, TypeOK
<1>3. TypeOK'
  <2>1. runs' \in [Positions -> Nat]
    BY <1>1 DEF IInv, TypeOK
  <2>2. results' \in Seq(Nat)
    BY <1>2
  <2>3. handled' \in 0..Len(uses') /\ pending' \in 0..handled'
    BY <1>1 DEF IInv, TypeOK
  <2> QED BY <1>1, <2>1, <2>2, <2>3 DEF IInv, TypeOK, Handle
<1>4. PhaseOK'
  BY DEF IInv, PhaseOK, Handle
<1>5. Len(results') = IF pending' = 0 THEN handled' ELSE handled' - 1
  BY <1>1, <1>2, AppendKeeps DEF IInv, TypeOK, Answered, Now
<1>6. ASSUME NEW i \in 1..handled', i # pending'
      PROVE  \E j \in 1..Len(results') : results'[j] = i
  <2>1. i = Now \/ i \in 1..handled
    BY <1>1 DEF IInv, TypeOK, Now
  <2>2. i = Now \/ \E j \in 1..Len(results) : results[j] = i
    BY <2>1, <1>6 DEF IInv, Answered
  <2> QED BY <2>2, <1>1, <1>2, AppendAnswers
<1>7. RunOnce'
  BY <1>1 DEF IInv, TypeOK, RunOnce
<1> QED BY <1>3, <1>4, <1>5, <1>6, <1>7 DEF IInv, Answered

LEMMA RunSafeKeeps ==
  ASSUME IInv, RunSafe
  PROVE  IInv'
<1>1. PICK ran \in BOOLEAN : runs' = [runs EXCEPT ![Now] = IF ran THEN @ + 1 ELSE @]
  BY DEF RunSafe
<1>2. CASE ran
  BY <1>1, <1>2, AnsweredAtOnce DEF RunSafe
<1>3. CASE ~ran
  <2>1. runs' = runs
    BY <1>1, <1>3 DEF IInv, TypeOK
  <2> QED BY <2>1, AnsweredAtOnce DEF RunSafe
<1> QED BY <1>2, <1>3

LEMMA AskUserKeeps ==
  ASSUME IInv, AskUser
  PROVE  IInv'
<1>1. /\ Now \in Positions /\ Now \in Nat /\ Now > handled /\ Now <= Len(uses)
      /\ Now # pending /\ handled' = Now /\ uses' = uses
  BY NowIsPosition DEF IInv, AskUser
<1>2. TypeOK'
  BY <1>1, LoopAssumption DEF IInv, TypeOK, AskUser, Handle, Positions, LoopAssumption
<1>3. PhaseOK'
  BY DEF IInv, PhaseOK, AskUser, Handle
<1>4. Answered'
  <2>1. pending = 0 /\ pending' = Now /\ results' = results
    BY DEF AskUser
  <2>2. Len(results) = handled /\ handled' = handled + 1 /\ handled \in Nat
    BY <1>1, <2>1 DEF IInv, TypeOK, Answered, Now
  <2>3. ASSUME NEW i \in 1..handled', i # pending'
        PROVE  i \in 1..handled /\ i # pending
    BY <1>1, <2>1, <2>2, <2>3
  <2>4. \A i \in 1..handled' : i # pending' => \E j \in 1..Len(results') : results'[j] = i
    BY <2>1, <2>3 DEF IInv, Answered
  <2>5. Len(results') = IF pending' = 0 THEN handled' ELSE handled' - 1
    BY <1>1, <2>1, <2>2
  <2> QED BY <2>4, <2>5 DEF Answered
<1>5. RunOnce'
  BY <1>1 DEF IInv, TypeOK, RunOnce, AskUser
<1> QED BY <1>2, <1>3, <1>4, <1>5 DEF IInv

LEMMA EndRoundKeeps ==
  ASSUME IInv, EndRound
  PROVE  IInv'
<1>1. TypeOK'
  BY DEF IInv, TypeOK, EndRound
<1>2. PhaseOK'
  BY DEF IInv, PhaseOK, EndRound, CallsLeft
<1>3. Answered' /\ RunOnce'
  BY DEF IInv, Answered, RunOnce, EndRound
<1> QED BY <1>1, <1>2, <1>3 DEF IInv

LEMMA ResumeKeeps ==
  ASSUME IInv, NEW approved \in BOOLEAN, Resume(approved)
  PROVE  IInv'
<1>1. PICK ran \in BOOLEAN :
        runs' = [runs EXCEPT ![pending] = IF approved /\ ran THEN @ + 1 ELSE @]
  BY DEF Resume
<1>2. pending \in 1..handled /\ pending \in Positions /\ pending \in Nat
  BY LoopAssumption DEF IInv, TypeOK, PhaseOK, Resume, Positions, LoopAssumption
<1>3. results \in Seq(Nat) /\ Append(results, pending) \in Seq(Nat)
  BY <1>2, AppendKeeps DEF IInv, TypeOK
<1>4. TypeOK'
  BY <1>1, <1>2, <1>3, LoopAssumption DEF IInv, TypeOK, Resume, LoopAssumption
<1>5. PhaseOK'
  BY LoopAssumption DEF IInv, PhaseOK, Resume, LoopAssumption
<1>6. Len(results') = handled'
  BY <1>2, <1>3, AppendKeeps DEF IInv, TypeOK, Answered, Resume
<1>7. ASSUME NEW i \in 1..handled'
      PROVE  \E j \in 1..Len(results') : results'[j] = i
  <2>1. i = pending \/ \E j \in 1..Len(results) : results[j] = i
    BY DEF IInv, Answered, Resume
  <2> QED BY <2>1, <1>2, <1>3, AppendAnswers DEF Resume
<1>8. RunOnce'
  <2>1. runs \in [Positions -> Nat] /\ runs[pending] = 0 /\ handled \in Nat
    BY <1>2 DEF IInv, TypeOK, RunOnce
  <2>2. \A i \in Positions : runs'[i] = runs[i] \/ (i = pending /\ runs'[i] = 1)
    <3>1. CASE approved /\ ran
      <4>1. runs' = [runs EXCEPT ![pending] = 1]
        BY <1>1, <1>2, <2>1, <3>1
      <4> QED BY <4>1, <1>2, <2>1
    <3>2. CASE ~(approved /\ ran)
      <4>1. runs' = [runs EXCEPT ![pending] = runs[pending]]
        BY <1>1, <1>2, <2>1, <3>2
      <4> QED BY <4>1, <1>2, <2>1
    <3> QED BY <3>1, <3>2
  <2>3. pending' = 0 /\ handled' = handled
    BY DEF Resume
  <2>4. \A i \in Positions : i \in Nat /\ i # 0
    BY LoopAssumption DEF Positions, LoopAssumption
  <2>5. ASSUME NEW i \in Positions
        PROVE  runs'[i] <= 1 /\ ((i > handled' \/ i = pending') => runs'[i] = 0)
    BY <1>2, <2>1, <2>2, <2>3, <2>4 DEF IInv, RunOnce
  <2> QED BY <2>5 DEF RunOnce
<1> QED BY <1>4, <1>5, <1>6, <1>7, <1>8 DEF IInv, Answered, Resume

LEMMA InitEstablishes == Init => IInv
<1> SUFFICES ASSUME Init PROVE IInv
  OBVIOUS
<1>1. TypeOK /\ PhaseOK
  BY LoopAssumption DEF Init, TypeOK, PhaseOK, LoopAssumption
<1>2. Answered /\ RunOnce
  BY DEF Init, Answered, RunOnce
<1> QED BY <1>1, <1>2 DEF IInv

LEMMA StepKeeps == IInv /\ [Next]_vars => IInv'
<1> SUFFICES ASSUME IInv, [Next]_vars PROVE IInv'
  OBVIOUS
<1>1. CASE \E us \in Responses : Respond(us)
  BY <1>1, RespondKeeps
<1>2. CASE Answer
  <2>1. TypeOK' /\ PhaseOK'
    BY <1>2 DEF IInv, TypeOK, PhaseOK, Answer
  <2> QED BY <1>2, <2>1 DEF IInv, Answered, RunOnce, Answer
<1>3. CASE RunSafe
  BY <1>3, RunSafeKeeps
<1>4. CASE RefuseUnknown
  BY <1>4, AnsweredAtOnce DEF RefuseUnknown
<1>5. CASE AskUser
  BY <1>5, AskUserKeeps
<1>6. CASE RefuseSecond
  BY <1>6, AnsweredAtOnce DEF RefuseSecond
<1>7. CASE EndRound
  BY <1>7, EndRoundKeeps
<1>8. CASE \E approved \in BOOLEAN : Resume(approved)
  BY <1>8, ResumeKeeps
<1>9. CASE UNCHANGED vars
  <2>1. TypeOK' /\ PhaseOK'
    BY <1>9 DEF IInv, TypeOK, PhaseOK, vars
  <2> QED BY <1>9, <2>1 DEF IInv, Answered, RunOnce, vars
<1> QED BY <1>1, <1>2, <1>3, <1>4, <1>5, <1>6, <1>7, <1>8, <1>9 DEF Next, LoopStep

(* The invariant holds in every behaviour. *)
THEOREM InvariantHolds == Spec => []IInv
  BY InitEstablishes, StepKeeps, PTL DEF Spec

(* The variables keep their types; with it, the calls stay within the      *)
(* limit of agent_loop.py:65. *)
THEOREM TypeCorrect == Spec => []TypeOK
  BY InvariantHolds, PTL DEF IInv

(* Whenever the model is called, in the loop or from a snapshot            *)
(* (agent_loop.py:59), every tool use has exactly its result. *)
THEOREM PairingHolds == Spec => []WellPaired
<1>1. IInv => WellPaired
  BY DEF IInv, PhaseOK, Answered, WellPaired, TypeOK
<1> QED BY <1>1, InvariantHolds, PTL

(* No tool use is run twice, in the loop or after its confirmation.        *)
THEOREM RunsOnceHolds == Spec => []NothingRunsTwice
<1>1. IInv => NothingRunsTwice
  BY DEF IInv, RunOnce, NothingRunsTwice
<1> QED BY <1>1, InvariantHolds, PTL

-----------------------------------------------------------------------------
(* The loop comes to an end: a bound on its steps                          *)

(* A call, the uses of its response and the end of the round. *)
Round == MaxUses + 2

(* The steps the loop can at most take before it ends or asks: a round for *)
(* each call that is left, and the rest of the round in progress. *)
StepsLeft ==
  IF phase = "calling" THEN (MaxIterations - iteration) * Round
  ELSE IF phase = "handling"
       THEN (MaxIterations - iteration) * Round + (Len(uses) - handled) + 1
  ELSE 0

(* k rounds are some number of steps, and one more round is Round more. *)
LEMMA RoundsAre ==
  ASSUME NEW k \in Nat
  PROVE  Round \in Nat /\ k * Round \in Nat /\ (k + 1) * Round = k * Round + Round
<1>1. Round \in Nat
  BY LoopAssumption DEF Round, LoopAssumption
<1> QED BY <1>1

(* The bound is a number, and no step of the loop leaves it as it is. *)
LEMMA BoundFalls ==
  ASSUME IInv, IInv', LoopStep
  PROVE  StepsLeft \in Nat /\ StepsLeft' \in Nat /\ StepsLeft' < StepsLeft
<1> DEFINE k == MaxIterations - iteration
<1>1. /\ k \in Nat /\ MaxUses \in Nat /\ Len(uses) \in Nat /\ handled \in 0..Len(uses)
      /\ Len(uses) <= MaxUses /\ k * Round \in Nat /\ Round = MaxUses + 2
  <2>1. /\ MaxUses \in Nat /\ MaxIterations \in Nat /\ iteration \in 0..MaxIterations
        /\ Len(uses) \in Nat /\ handled \in 0..Len(uses) /\ Len(uses) <= MaxUses
    BY LoopAssumption DEF IInv, TypeOK, LoopAssumption
  <2>2. k \in Nat
    BY <2>1
  <2> QED BY <2>1, <2>2, RoundsAre DEF Round
<1>2. CASE \E us \in Responses : Respond(us)
  <2>1. PICK us \in Responses : Respond(us)
    BY <1>2
  <2>2. /\ phase = "calling" /\ phase' = "handling" /\ iteration' = iteration + 1
        /\ uses' = us /\ handled' = 0
    BY <2>1 DEF Respond
  <2>3. Len(us) \in Nat /\ Len(us) <= MaxUses
    BY ResponseIsSeq
  <2> DEFINE j == MaxIterations - (iteration + 1)
  <2>4. j \in Nat /\ k = j + 1
    BY <2>2, LoopAssumption DEF IInv, TypeOK, PhaseOK, LoopAssumption
  <2>5. j * Round \in Nat /\ k * Round = j * Round + Round
    BY <2>4, RoundsAre
  <2>6. StepsLeft = k * Round
    BY <2>2 DEF StepsLeft
  <2>7. StepsLeft' = j * Round + (Len(us) - 0) + 1
    BY <2>2 DEF StepsLeft, Round
  <2> HIDE DEF j, k
  <2> QED BY <1>1, <2>3, <2>5, <2>6, <2>7
<1>3. CASE Answer
  <2>1. phase = "calling" /\ phase' = "ended"
    BY <1>3 DEF Answer
  <2> DEFINE j == MaxIterations - (iteration + 1)
  <2>2. j \in Nat /\ k = j + 1
    BY <2>1, LoopAssumption DEF IInv, TypeOK, PhaseOK, LoopAssumption
  <2>3. j * Round \in Nat /\ k * Round = j * Round + Round
    BY <2>2, RoundsAre
  <2>4. StepsLeft = k * Round /\ StepsLeft' = 0
    BY <2>1 DEF StepsLeft
  <2> HIDE DEF j, k
  <2> QED BY <1>1, <2>3, <2>4
<1>4. CASE Handle
  <2>1. /\ phase = "handling" /\ phase' = "handling" /\ handled < Len(uses)
        /\ handled' = handled + 1 /\ iteration' = iteration /\ uses' = uses
    BY <1>4 DEF Handle
  <2>2. StepsLeft = k * Round + (Len(uses) - handled) + 1
    BY <2>1 DEF StepsLeft
  <2>3. StepsLeft' = k * Round + (Len(uses) - (handled + 1)) + 1
    BY <2>1 DEF StepsLeft, Round
  <2> HIDE DEF k
  <2> QED BY <1>1, <2>1, <2>2, <2>3
<1>5. CASE EndRound
  <2>1. /\ phase = "handling" /\ phase' \in {"waiting", "calling", "ended"}
        /\ iteration' = iteration
    BY <1>5 DEF EndRound
  <2>2. StepsLeft = k * Round + (Len(uses) - handled) + 1
    BY <2>1 DEF StepsLeft
  <2>3. StepsLeft' \in {0, k * Round}
    BY <2>1 DEF StepsLeft, Round
  <2> HIDE DEF k
  <2> QED BY <1>1, <2>2, <2>3
<1> QED BY <1>2, <1>3, <1>4, <1>5 DEF LoopStep, RunSafe, RefuseUnknown, AskUser, RefuseSecond

(* Each step of the loop (agent_loop.py:62-146) uses up one of at most     *)
(* max_agent_iterations rounds, whatever the model asks for: the part of   *)
(* LoopStops that does not depend on fairness. *)
THEOREM LoopRunsDown ==
  Spec => [][LoopStep => StepsLeft \in Nat /\ StepsLeft' \in Nat /\ StepsLeft' < StepsLeft]_vars
<1>1. IInv /\ IInv' /\ [Next]_vars =>
        [LoopStep => StepsLeft \in Nat /\ StepsLeft' \in Nat /\ StepsLeft' < StepsLeft]_vars
  BY BoundFalls
<1> QED BY <1>1, InvariantHolds, PTL DEF Spec

(* Where the bound is used up the loop has ended or asks its user. *)
THEOREM LoopEndsAtTheBound ==
  Spec => [](StepsLeft = 0 => phase \in {"waiting", "ended"})
<1>1. IInv => (StepsLeft = 0 => phase \in {"waiting", "ended"})
  <2> SUFFICES ASSUME IInv, phase \in {"calling", "handling"} PROVE StepsLeft > 0
    BY DEF IInv, TypeOK, StepsLeft
  <2> DEFINE k == MaxIterations - iteration
  <2>1. /\ Len(uses) \in Nat /\ handled \in 0..Len(uses) /\ k \in Nat /\ MaxUses \in Nat
        /\ phase = "calling" => k - 1 \in Nat
    BY LoopAssumption DEF IInv, TypeOK, PhaseOK, LoopAssumption
  <2>2. k * Round \in Nat
    BY <2>1, RoundsAre
  <2>3. CASE phase = "calling"
    <3>1. (k - 1) * Round \in Nat /\ ((k - 1) + 1) * Round = (k - 1) * Round + Round
      BY <2>1, <2>3, RoundsAre
    <3>2. StepsLeft = k * Round
      BY <2>3 DEF StepsLeft
    <3>3. (k - 1) + 1 = k
      BY <2>1
    <3>4. k * Round = (k - 1) * Round + Round
      BY <3>1, <3>3
    <3>5. Round > 0 /\ Round \in Nat
      BY <2>1 DEF Round
    <3> HIDE DEF k
    <3> QED BY <3>1, <3>2, <3>4, <3>5
  <2>4. CASE phase = "handling"
    <3>1. StepsLeft = k * Round + (Len(uses) - handled) + 1
      BY <2>4 DEF StepsLeft
    <3> HIDE DEF k
    <3> QED BY <2>1, <2>2, <3>1
  <2> QED BY <2>3, <2>4
<1> QED BY <1>1, InvariantHolds, PTL

(***************************************************************************)
(* The turn                                                                *)
(***************************************************************************)

(* A content that is gone was backed up at least once under its name. *)
Saved ==
  \A g \in gone : taken[g.backup] >= 1 /\ (backups[g.backup] = g.content \/ taken[g.backup] > 1)

FilesInv == FilesTypeOK /\ Saved

TurnInv == IInv /\ FilesInv /\ RemoteTypeOK /\ EffectsArePressed

-----------------------------------------------------------------------------
(* The turn implements the loop. *)

LEMMA TurnStepIsLoopStep == [TurnNext]_turnVars => [Next]_vars
<1> SUFFICES ASSUME [TurnNext]_turnVars PROVE [Next]_vars
  OBVIOUS
<1>1. CASE TurnRunSafe
  BY <1>1 DEF TurnRunSafe, Next, LoopStep
<1>2. CASE TurnGoesOn
  BY <1>2 DEF TurnGoesOn, Next, LoopStep
<1>3. CASE \E approved \in BOOLEAN : TurnResume(approved)
  BY <1>3 DEF TurnResume, Next
<1>4. CASE Elsewhere \/ UNCHANGED turnVars
  BY <1>4 DEF Elsewhere, turnVars
<1> QED BY <1>1, <1>2, <1>3, <1>4 DEF TurnNext, TurnStep

-----------------------------------------------------------------------------
(* The files *)

LEMMA NameIsBackupName ==
  ASSUME FilesTypeOK, NEW p \in Paths
  PROVE  BackupName(p) \in BackupNames
  BY DEF FilesTypeOK, BackupName, BackupNames

(* What Save and Put do together: the backup holds what is replaced, and   *)
(* the contents that are gone keep theirs or see a second backup. *)
LEMMA SaveThenPutKeeps ==
  ASSUME FilesInv, NEW p \in Paths, NEW content \in -2..MaxVersions,
         Save(p, disk[p]), Put(p, content)
  PROVE  /\ Saved'
         /\ disk' \in [Paths -> -2..MaxVersions]
         /\ backups' \in [BackupNames -> -2..MaxVersions]
         /\ taken' \in [BackupNames -> Nat]
         /\ gone' \subseteq [content : 1..MaxVersions, backup : BackupNames]
<1>1. BackupName(p) \in BackupNames
  BY NameIsBackupName DEF FilesInv
<1> DEFINE n == BackupName(p)
<1>2. disk' \in [Paths -> -2..MaxVersions] /\ disk[p] \in -2..MaxVersions
  BY DEF FilesInv, FilesTypeOK, Put
<1>3. CASE disk[p] = Absent
  <2>1. gone' = gone /\ backups' = backups /\ taken' = taken
    BY <1>3 DEF Save, Put, Whole, Absent
  <2> QED BY <1>2, <2>1 DEF FilesInv, FilesTypeOK, Saved
<1>4. CASE disk[p] # Absent
  <2>1. /\ backups' = [backups EXCEPT ![n] = disk[p]]
        /\ taken' = [taken EXCEPT ![n] = taken[n] + 1]
    BY <1>4 DEF Save
  <2>2. backups' \in [BackupNames -> -2..MaxVersions] /\ taken' \in [BackupNames -> Nat]
    BY <1>1, <1>2, <2>1 DEF FilesInv, FilesTypeOK
  <2>3. taken[n] \in Nat /\ taken'[n] = taken[n] + 1 /\ backups'[n] = disk[p]
    BY <1>1, <2>1 DEF FilesInv, FilesTypeOK
  <2>4. \A m \in BackupNames : m # n => taken'[m] = taken[m] /\ backups'[m] = backups[m]
    BY <2>1 DEF FilesInv, FilesTypeOK
  <2>5. ASSUME NEW g \in gone
        PROVE  taken'[g.backup] >= 1 /\ (backups'[g.backup] = g.content \/ taken'[g.backup] > 1)
    <3>1. g.backup \in BackupNames /\ taken[g.backup] \in Nat /\ taken[g.backup] >= 1
          /\ (backups[g.backup] = g.content \/ taken[g.backup] > 1)
      BY DEF FilesInv, FilesTypeOK, Saved
    <3>2. CASE g.backup = n
      BY <3>1, <3>2, <2>3
    <3>3. CASE g.backup # n
      BY <3>1, <3>3, <2>4
    <3> QED BY <3>2, <3>3
  <2>6. CASE gone' = gone
    BY <1>2, <2>2, <2>5, <2>6 DEF FilesInv, FilesTypeOK, Saved
  <2>7. CASE gone' # gone
    <3> DEFINE lost == [content |-> disk[p], backup |-> n]
    <3>1. gone' = gone \union {lost} /\ Whole(disk[p])
      BY <2>7 DEF Put
    <3>2. disk[p] \in 1..MaxVersions
      BY <3>1, <1>2 DEF Whole
    <3>3. lost \in [content : 1..MaxVersions, backup : BackupNames]
      BY <3>2, <1>1
    <3>4. taken'[lost.backup] >= 1 /\ backups'[lost.backup] = lost.content
      BY <2>3
    <3>5. \A g \in gone' :
            taken'[g.backup] >= 1 /\ (backups'[g.backup] = g.content \/ taken'[g.backup] > 1)
      BY <3>1, <3>4, <2>5
    <3> QED BY <1>2, <2>2, <3>1, <3>3, <3>5 DEF FilesInv, FilesTypeOK, Saved
  <2> QED BY <2>6, <2>7
<1> QED BY <1>3, <1>4

(* A copy that stops half way spoils a backup of the same name, and counts *)
(* as the second of it. *)
LEMMA BackupFailsKeeps ==
  ASSUME FilesInv, NEW p \in Paths, BackupFails(p)
  PROVE  /\ Saved' /\ UNCHANGED <<disk, gone>>
         /\ backups' \in [BackupNames -> -2..MaxVersions]
         /\ taken' \in [BackupNames -> Nat]
<1>1. BackupName(p) \in BackupNames
  BY NameIsBackupName DEF FilesInv
<1> DEFINE n == BackupName(p)
<1>2. /\ backups' = [backups EXCEPT ![n] = Cut]
      /\ taken' = [taken EXCEPT ![n] = taken[n] + 1]
      /\ gone' = gone /\ disk' = disk
  BY DEF BackupFails, Save
<1>3. Cut \in -2..MaxVersions
  BY FilesAssumption DEF Cut, FilesAssumption
<1>4. backups' \in [BackupNames -> -2..MaxVersions] /\ taken' \in [BackupNames -> Nat]
  BY <1>1, <1>2, <1>3 DEF FilesInv, FilesTypeOK
<1>5. ASSUME NEW g \in gone
      PROVE  taken'[g.backup] >= 1 /\ (backups'[g.backup] = g.content \/ taken'[g.backup] > 1)
  <2>1. g.backup \in BackupNames /\ taken[g.backup] \in Nat /\ taken[g.backup] >= 1
        /\ (backups[g.backup] = g.content \/ taken[g.backup] > 1)
    BY DEF FilesInv, FilesTypeOK, Saved
  <2>2. CASE g.backup = n
    BY <2>1, <2>2, <1>1, <1>2 DEF FilesInv, FilesTypeOK
  <2>3. CASE g.backup # n
    BY <2>1, <2>3, <1>1, <1>2 DEF FilesInv, FilesTypeOK
  <2> QED BY <2>2, <2>3
<1> QED BY <1>2, <1>4, <1>5 DEF Saved

LEMMA WriteFileKeeps ==
  ASSUME FilesInv, NEW p \in Paths, WriteFile(p)
  PROVE  FilesInv' /\ deleted' = deleted
<1>1. version' = version + 1 /\ version' \in 0..MaxVersions /\ deleted' = deleted /\ second' = second
  BY FilesAssumption DEF WriteFile, FilesInv, FilesTypeOK, FilesAssumption
<1>2. CASE BackupFails(p)
  BY <1>1, <1>2, BackupFailsKeeps DEF FilesInv, FilesTypeOK
<1>3. CASE Save(p, disk[p]) /\ \E content \in {disk[p], Cut, version + 1} : Put(p, content)
  <2>1. PICK content \in {disk[p], Cut, version + 1} : Put(p, content)
    BY <1>3
  <2>2. content \in -2..MaxVersions
    BY <1>1, FilesAssumption DEF FilesInv, FilesTypeOK, Cut, FilesAssumption
  <2> QED BY <1>1, <1>3, <2>1, <2>2, SaveThenPutKeeps DEF FilesInv, FilesTypeOK
<1> QED BY <1>2, <1>3 DEF WriteFile

LEMMA DeleteFileKeeps ==
  ASSUME FilesInv, NEW p \in Paths, DeleteFile(p)
  PROVE  FilesInv' /\ deleted' \in Nat /\ deleted' <= deleted + 1
<1>1. second' = second /\ version' = version /\ deleted \in Nat
      /\ deleted' \in Nat /\ deleted' <= deleted + 1
  BY DEF DeleteFile, FilesInv, FilesTypeOK
<1>2. CASE BackupFails(p)
  BY <1>1, <1>2, BackupFailsKeeps DEF FilesInv, FilesTypeOK
<1>3. CASE Save(p, disk[p]) /\ \E content \in {disk[p], Absent} : Put(p, content)
  <2>1. PICK content \in {disk[p], Absent} : Put(p, content)
    BY <1>3
  <2>2. content \in -2..MaxVersions
    BY FilesAssumption DEF FilesInv, FilesTypeOK, Absent, FilesAssumption
  <2> QED BY <1>1, <1>3, <2>1, <2>2, SaveThenPutKeeps DEF FilesInv, FilesTypeOK
<1> QED BY <1>2, <1>3 DEF DeleteFile

LEMMA CreateDirectoryKeeps ==
  ASSUME FilesInv, NEW p \in Paths, CreateDirectory(p)
  PROVE  FilesInv' /\ deleted' = deleted
<1>1. Folder \in -2..MaxVersions
  BY FilesAssumption DEF Folder, FilesAssumption
<1>2. FilesTypeOK'
  BY <1>1 DEF FilesInv, FilesTypeOK, CreateDirectory
<1> QED BY <1>2 DEF FilesInv, Saved, CreateDirectory

LEMMA OutsideKeeps ==
  ASSUME FilesInv, NextSecond \/ \E p \in Paths : EditOutside(p)
  PROVE  FilesInv' /\ deleted' = deleted
<1>1. CASE NextSecond
  BY <1>1, FilesAssumption DEF FilesInv, FilesTypeOK, Saved, NextSecond, FilesAssumption
<1>2. CASE \E p \in Paths : EditOutside(p)
  BY <1>2, FilesAssumption DEF FilesInv, FilesTypeOK, Saved, EditOutside, FilesAssumption
<1> QED BY <1>1, <1>2

-----------------------------------------------------------------------------
(* What a tool does, and what a SAFE one cannot do. *)

(* Sums of counters, one of which has grown. *)
LEMMA SumGrowsByOne ==
  ASSUME NEW d \in Nat, NEW a \in Nat, NEW f \in Nat,
         NEW d1 \in Nat, NEW a1 \in Nat, NEW f1 \in Nat,
         d1 <= d + 1, a1 = a, f1 = f
  PROVE  d1 + a1 + f1 <= d + a + f + 1
  OBVIOUS

LEMMA SumStaysBelow ==
  ASSUME NEW d \in Nat, NEW a \in Nat, NEW f \in Nat, NEW p \in Nat,
         NEW d1 \in Nat, NEW a1 \in Nat, NEW f1 \in Nat,
         d + a + f <= p, d1 + a1 + f1 <= d + a + f + 1
  PROVE  d1 + a1 + f1 <= p + 1
  OBVIOUS

(* What somebody else is asked for is done at most once. *)
LEMMA RemoteAddsOne ==
  ASSUME RemoteTypeOK, VpnRequest \/ Command
  PROVE  /\ flying' \in Nat /\ applied' \in Nat /\ told' \in Nat
         /\ applied' + flying' <= applied + flying + 1
  BY DEF RemoteTypeOK, VpnRequest, Command, Done, DoneLater, NotDone

(* So is what a tool does, whichever it is. *)
LEMMA EffectAddsOne ==
  ASSUME FilesInv, RemoteTypeOK, NEW tool, Effect(tool)
  PROVE  /\ FilesInv' /\ deleted' \in Nat /\ flying' \in Nat /\ applied' \in Nat /\ told' \in Nat
         /\ deleted' + applied' + flying' <= deleted + applied + flying + 1
<1>0. deleted \in Nat /\ flying \in Nat /\ applied \in Nat /\ told \in Nat
  BY DEF FilesInv, FilesTypeOK, RemoteTypeOK
<1>1. CASE FileEffect(tool) /\ UNCHANGED <<flying, applied, told>>
  <2>1. PICK p \in Paths : WriteFile(p) \/ DeleteFile(p) \/ CreateDirectory(p)
    BY <1>1 DEF FileEffect
  <2>2. FilesInv' /\ deleted' \in Nat /\ deleted' <= deleted + 1
    BY <1>0, <2>1, WriteFileKeeps, DeleteFileKeeps, CreateDirectoryKeeps
  <2>3. deleted' \in Nat /\ deleted' <= deleted + 1 /\ flying' = flying /\ applied' = applied
    BY <1>1, <2>2
  <2>4. deleted' + applied' + flying' <= deleted + applied + flying + 1
    BY <1>0, <2>3, SumGrowsByOne
  <2> QED BY <1>0, <1>1, <2>2, <2>4
<1>2. CASE (VpnEffect(tool) \/ CommandEffect(tool)) /\ UNCHANGED storage
  <2>1. VpnRequest \/ Command
    BY <1>2 DEF VpnEffect, CommandEffect
  <2>2. FilesInv' /\ deleted' = deleted
    BY <1>2 DEF FilesInv, FilesTypeOK, Saved, storage
  <2> QED BY <1>0, <2>1, <2>2, RemoteAddsOne
<1>3. CASE LooksOnly(tool)
  <2>1. FilesInv' /\ deleted' = deleted
    BY <1>3 DEF FilesInv, FilesTypeOK, Saved, storage, LooksOnly
  <2> QED BY <1>0, <1>3, <2>1 DEF LooksOnly
<1> QED BY <1>1, <1>2, <1>3 DEF Effect

(* Of the tools that act only write_file and create_directory are SAFE. *)
LEMMA SafeToolsAreReversible ==
  ASSUME NEW tool, LevelOf(tool) = "safe"
  PROVE  /\ tool # "delete_file"
         /\ tool \notin VpnChanging
         /\ tool \notin ServiceTools /\ tool \notin DockerChanging /\ tool \notin ProgramTools
<1>1. tool \in Registered /\ tool \notin Critical /\ tool \notin Moderate
  BY DEF LevelOf
<1>2. tool # "delete_file" /\ tool \notin ServiceTools /\ tool \notin ProgramTools
  BY <1>1 DEF Moderate, Critical, ProgramTools
<1>3. tool \notin DockerChanging /\ tool \notin VpnChanging
  BY <1>1 DEF Moderate
<1> QED BY <1>2, <1>3

LEMMA SafeEffect ==
  ASSUME FilesInv, NEW tool, LevelOf(tool) = "safe", Effect(tool)
  PROVE  FilesInv' /\ deleted' = deleted /\ UNCHANGED <<flying, applied, told>>
<1>1. CASE FileEffect(tool) /\ UNCHANGED <<flying, applied, told>>
  <2>1. PICK p \in Paths : WriteFile(p) \/ CreateDirectory(p)
    BY <1>1, SafeToolsAreReversible DEF FileEffect
  <2> QED BY <1>1, <2>1, WriteFileKeeps, CreateDirectoryKeeps
<1>2. CASE VpnEffect(tool) \/ CommandEffect(tool)
  BY <1>2, SafeToolsAreReversible DEF VpnEffect, CommandEffect
<1>3. CASE LooksOnly(tool)
  BY <1>3 DEF FilesInv, FilesTypeOK, Saved, storage, LooksOnly
<1> QED BY <1>1, <1>2, <1>3 DEF Effect

-----------------------------------------------------------------------------
(* Each step keeps the invariant. *)

LEMMA NothingDoneKeeps ==
  ASSUME FilesInv, RemoteTypeOK, EffectsArePressed,
         UNCHANGED <<storage, flying, applied, told>>,
         pressed' = pressed \/ pressed' = pressed + 1
  PROVE  FilesInv' /\ RemoteTypeOK' /\ EffectsArePressed'
<1>1. FilesInv'
  BY DEF FilesInv, FilesTypeOK, Saved, storage
<1>2. RemoteTypeOK' /\ EffectsArePressed'
  BY DEF RemoteTypeOK, EffectsArePressed, storage, FilesInv, FilesTypeOK
<1> QED BY <1>1, <1>2

LEMMA TurnRunSafeKeeps ==
  ASSUME TurnInv, TurnRunSafe
  PROVE  FilesInv' /\ RemoteTypeOK' /\ EffectsArePressed'
<1>1. CASE runs' = runs
  BY <1>1, NothingDoneKeeps DEF TurnInv, TurnRunSafe, IfRun
<1>2. CASE runs' # runs
  <2> DEFINE tool == uses[Now]
  <2>1. Effect(tool) /\ pressed' = pressed
    BY <1>2 DEF TurnRunSafe, IfRun
  <2>2. Now \in 1..Len(uses) /\ uses \in Seq(Names)
    BY NowIsPosition, LoopAssumption DEF TurnInv, IInv, TypeOK, TurnRunSafe, RunSafe, Positions, LoopAssumption
  <2>3. tool \in Names /\ Level[tool] = "safe"
    BY <2>2 DEF TurnRunSafe, RunSafe
  <2>4. LevelOf(tool) = "safe"
    BY <2>3, TurnAssumption DEF TurnAssumption
  <2>5. FilesInv' /\ deleted' = deleted /\ UNCHANGED <<flying, applied, told>>
    BY <2>1, <2>4, SafeEffect DEF TurnInv
  <2> QED BY <2>1, <2>5 DEF TurnInv, RemoteTypeOK, EffectsArePressed
<1> QED BY <1>1, <1>2

LEMMA TurnResumeKeeps ==
  ASSUME TurnInv, NEW approved \in BOOLEAN, TurnResume(approved)
  PROVE  FilesInv' /\ RemoteTypeOK' /\ EffectsArePressed'
<1>1. CASE runs' = runs
  BY <1>1, NothingDoneKeeps DEF TurnInv, TurnResume, IfRun
<1>2. CASE runs' # runs
  <2>1. approved
    <3>1. PICK ran \in BOOLEAN :
            runs' = [runs EXCEPT ![pending] = IF approved /\ ran THEN @ + 1 ELSE @]
      BY DEF TurnResume, Resume
    <3> QED BY <1>2, <3>1 DEF TurnInv, IInv, TypeOK
  <2>2. Effect(uses[pending]) /\ pressed' = pressed + 1
    BY <1>2, <2>1 DEF TurnResume, IfRun
  <2>3. /\ FilesInv' /\ deleted' \in Nat /\ flying' \in Nat /\ applied' \in Nat /\ told' \in Nat
        /\ deleted' + applied' + flying' <= deleted + applied + flying + 1
    BY <2>2, EffectAddsOne DEF TurnInv
  <2>4. /\ deleted \in Nat /\ applied \in Nat /\ flying \in Nat /\ pressed \in Nat
        /\ deleted + applied + flying <= pressed
    BY DEF TurnInv, RemoteTypeOK, EffectsArePressed, FilesInv, FilesTypeOK
  <2>5. deleted' + applied' + flying' <= pressed + 1
    BY <2>3, <2>4, SumStaysBelow
  <2>6. pressed' = pressed + 1 /\ pressed' \in Nat
    BY <2>2, <2>4
  <2>7. RemoteTypeOK'
    BY <2>3, <2>6 DEF RemoteTypeOK
  <2>8. EffectsArePressed'
    BY <2>5, <2>6 DEF EffectsArePressed
  <2> QED BY <2>3, <2>7, <2>8
<1> QED BY <1>1, <1>2

LEMMA ElsewhereKeeps ==
  ASSUME TurnInv, Elsewhere
  PROVE  FilesInv' /\ RemoteTypeOK' /\ EffectsArePressed'
<1>1. CASE (NextSecond \/ \E p \in Paths : EditOutside(p)) /\ UNCHANGED remote
  BY <1>1, OutsideKeeps DEF TurnInv, RemoteTypeOK, EffectsArePressed, remote
<1>2. CASE Settle /\ UNCHANGED storage
  <2>1. FilesInv' /\ deleted' = deleted
    BY <1>2 DEF TurnInv, FilesInv, FilesTypeOK, Saved, storage
  <2> QED BY <1>2, <2>1 DEF TurnInv, RemoteTypeOK, EffectsArePressed, Settle, FilesInv, FilesTypeOK
<1> QED BY <1>1, <1>2 DEF Elsewhere

LEMMA TurnInitEstablishes == TurnInit => TurnInv
<1> SUFFICES ASSUME TurnInit PROVE TurnInv
  OBVIOUS
<1>1. IInv
  BY InitEstablishes DEF TurnInit
<1>2. FilesInv
  BY FilesAssumption DEF TurnInit, FilesInit, FilesInv, FilesTypeOK, Saved, Absent, FilesAssumption
<1>3. RemoteTypeOK /\ EffectsArePressed
  BY DEF TurnInit, FilesInit, RemoteInit, RemoteTypeOK, EffectsArePressed
<1> QED BY <1>1, <1>2, <1>3 DEF TurnInv

LEMMA TurnStepKeeps == TurnInv /\ [TurnNext]_turnVars => TurnInv'
<1> SUFFICES ASSUME TurnInv, [TurnNext]_turnVars PROVE TurnInv'
  OBVIOUS
<1>1. IInv'
  BY TurnStepIsLoopStep, StepKeeps DEF TurnInv
<1>2. CASE TurnRunSafe
  BY <1>1, <1>2, TurnRunSafeKeeps DEF TurnInv
<1>3. CASE TurnGoesOn \/ UNCHANGED turnVars
  <2>1. UNCHANGED <<storage, remote>>
    BY <1>3 DEF TurnGoesOn, turnVars, effects
  <2>2. UNCHANGED <<storage, flying, applied, told>> /\ pressed' = pressed
    BY <2>1 DEF remote
  <2> QED BY <1>1, <2>2, NothingDoneKeeps DEF TurnInv
<1>4. CASE \E approved \in BOOLEAN : TurnResume(approved)
  BY <1>1, <1>4, TurnResumeKeeps DEF TurnInv
<1>5. CASE Elsewhere
  BY <1>1, <1>5, ElsewhereKeeps DEF TurnInv
<1> QED BY <1>2, <1>3, <1>4, <1>5 DEF TurnNext, TurnStep

(* The invariant holds in every behaviour. *)
THEOREM TurnInvariantHolds == TurnSpec => []TurnInv
  BY TurnInitEstablishes, TurnStepKeeps, PTL DEF TurnSpec

(* A turn with its effects is a turn of the loop (agent_loop.py:62-146):   *)
(* whatever the tools do to the server, it takes only the loop's steps. *)
THEOREM TurnImplementsLoop == TurnSpec => Init /\ [][Next]_vars
<1>1. TurnInit => Init
  BY DEF TurnInit
<1> QED BY <1>1, TurnStepIsLoopStep, PTL DEF TurnSpec

(* Whenever the model is called (agent_loop.py:59, 67), every tool use has *)
(* exactly its result, whatever the tools did. *)
THEOREM TurnPairingHolds == TurnSpec => []WellPaired
<1>1. TurnInv => WellPaired
  BY DEF TurnInv, IInv, PhaseOK, Answered, WellPaired, TypeOK
<1> QED BY <1>1, TurnInvariantHolds, PTL

(* No tool use is run twice, in the loop or after its confirmation.        *)
THEOREM TurnRunsOnceHolds == TurnSpec => []NothingRunsTwice
<1>1. TurnInv => NothingRunsTwice
  BY DEF TurnInv, IInv, RunOnce, NothingRunsTwice
<1> QED BY <1>1, TurnInvariantHolds, PTL

(* What write_file and delete_file replace, cut short or remove is in its  *)
(* backup, unless two backups have one name (files.py:52-88). *)
THEOREM LossHolds == TurnSpec => []LossNeedsCollision
<1>1. TurnInv => LossNeedsCollision
  BY DEF TurnInv, FilesInv, Saved, LossNeedsCollision
<1> QED BY <1>1, TurnInvariantHolds, PTL

(* Removals, services, containers, programs and the VPN: nothing happens   *)
(* more often than it was approved, now or after a timeout. *)
THEOREM EffectsHold == TurnSpec => []EffectsArePressed
<1>1. TurnInv => EffectsArePressed
  BY DEF TurnInv
<1> QED BY <1>1, TurnInvariantHolds, PTL
=============================================================================
