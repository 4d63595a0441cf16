----------------------- MODULE CommandExecutor_proofs -----------------------
(***************************************************************************)
(* For every limit and whatever the program and its descendants do: a      *)
(* result without a timeout is whole, and a call that has ended leaves no  *)
(* program running.  The first rests on what the tasks have collected      *)
(* being what left the pipe, cut at the limit, and on a task ending only   *)
(* when nobody is left who could write.                                    *)
(***************************************************************************)
EXTENDS CommandExecutor, TLAPS

(* Nothing runs before the call and after the wait for the program. *)
ExitSeen ==
  /\ phase = "called" => process = "none"
  /\ phase \in {"reading out", "reading err"} \union Ends => process # "running"

(* Before a timeout: where the tasks are needed, and what they have. *)
TasksEnd ==
  /\ \A s \in Streams : drain[s] = "ended" => AtEnd(s)
  /\ phase \notin {"called", "draining"} \union Ends => timedOut
  /\ ~timedOut /\ phase # "draining" => \A s \in Streams : drain[s] = "ended"

Collected ==
  \A s \in Streams :
    /\ unread[s] <= written[s]
    /\ ~timedOut =>
         /\ got[s] = IF written[s] - unread[s] > Limit THEN Limit ELSE written[s] - unread[s]
         /\ got[s] >= Limit => cut[s]

IInv == TypeOK /\ ExitSeen /\ TasksEnd /\ Collected

-----------------------------------------------------------------------------
(* No output of any stream. *)
LEMMA NothingIsTyped == Nothing \in [Streams -> Nat] /\ Uncut \in [Streams -> BOOLEAN]
<1>1. Nothing \in [Streams -> Nat]
  BY DEF Nothing
<1>2. Uncut \in [Streams -> BOOLEAN]
  BY Zenon DEF Uncut
<1> QED BY <1>1, <1>2

(* The steps that move no output. *)

LEMMA StartKeeps ==
  ASSUME IInv, Start
  PROVE  IInv'
<1>1. TypeOK'
  <2>1. drain' \in [Streams -> {"reading", "ended", "cancelled"}]
    BY DEF Start
  <2>2. writers' \in [Streams -> SUBSET {"program", "descendant"}]
    BY DEF Start
  <2> QED BY <2>1, <2>2 DEF IInv, TypeOK, Start, Phases
<1>2. ExitSeen'
  BY DEF ExitSeen, Start, Ends
<1>3. TasksEnd'
  BY DEF TasksEnd, Start
<1>4. Collected'
  BY DEF IInv, Collected, Start
<1> QED BY <1>1, <1>2, <1>3, <1>4 DEF IInv

LEMMA CallKeepsOutput ==
  ASSUME IInv, Refuse \/ Finish \/ Kill \/ Waited
  PROVE  IInv'
<1>1. UNCHANGED <<process, writers, unread, drain, got, cut, timedOut, written, early>>
  BY DEF Refuse, Finish, Kill, Waited
<1>2. phase' \in Phases
  BY DEF Refuse, Finish, Kill, Waited, Phases, Ends
<1>3. TypeOK'
  BY <1>1, <1>2 DEF IInv, TypeOK
<1>4. ExitSeen'
  BY <1>1 DEF IInv, ExitSeen, Refuse, Finish, Kill, Waited, Ends
<1>5. TasksEnd'
  BY <1>1 DEF IInv, TasksEnd, AtEnd, Refuse, Finish, Kill, Waited, Ends
<1>6. Collected'
  BY <1>1 DEF IInv, Collected
<1> QED BY <1>3, <1>4, <1>5, <1>6 DEF IInv

LEMMA TimeoutKeeps ==
  ASSUME IInv, Timeout \/ TimeoutTooLate
  PROVE  IInv'
<1>1. TypeOK'
  <2>1. drain' \in [Streams -> {"reading", "ended", "cancelled"}]
    BY DEF IInv, TypeOK, Timeout, TimeoutTooLate
  <2>2. got' \in [Streams -> Nat] /\ cut' \in [Streams -> BOOLEAN]
    BY NothingIsTyped DEF Timeout, TimeoutTooLate
  <2>3. timedOut' = TRUE /\ phase' \in Phases /\ early' = written
        /\ UNCHANGED <<process, writers, unread, written>>
    BY DEF Timeout, TimeoutTooLate, Phases, Ends
  <2> QED BY <2>1, <2>2, <2>3 DEF IInv, TypeOK
<1>2. ExitSeen'
  BY DEF IInv, ExitSeen, Timeout, TimeoutTooLate, Ends
<1>3. TasksEnd'
  BY DEF IInv, TypeOK, TasksEnd, AtEnd, Timeout, TimeoutTooLate, Ends
<1>4. Collected'
  BY DEF IInv, Collected, Timeout, TimeoutTooLate
<1> QED BY <1>1, <1>2, <1>3, <1>4 DEF IInv

(* What a task collects is what it has taken, cut at the limit. *)
LEMMA DrainKeeps ==
  ASSUME IInv, NEW s \in Streams, Drain(s)
  PROVE  IInv'
<1>1. /\ unread[s] \in Nat /\ unread[s] > 0 /\ got[s] \in Nat /\ written[s] \in Nat
      /\ unread' = [unread EXCEPT ![s] = unread[s] - 1]
      /\ unread \in [Streams -> Nat] /\ got \in [Streams -> Nat]
      /\ cut \in [Streams -> BOOLEAN] /\ Limit \in Nat
  BY ExecutorAssumption DEF IInv, TypeOK, Drain, ExecutorAssumption
<1>2. got' = IF timedOut \/ got[s] >= Limit THEN got ELSE [got EXCEPT ![s] = got[s] + 1]
  <2>1. CASE timedOut
    BY <2>1 DEF Drain
  <2>2. CASE ~timedOut /\ got[s] >= Limit
    BY <2>2, <1>1 DEF Drain, Collect
  <2>3. CASE ~timedOut /\ got[s] < Limit
    BY <2>3, <1>1 DEF Drain, Collect
  <2> QED BY <2>1, <2>2, <2>3, <1>1
<1>3. cut' = [cut EXCEPT ![s] = cut[s] \/ (~timedOut /\ Collect(s)[s] >= Limit)]
  BY DEF Drain
<1>4. UNCHANGED <<process, writers, drain, phase, timedOut, written, early>>
  BY DEF Drain
<1>5. TypeOK'
  <2>1. unread' \in [Streams -> Nat]
    BY <1>1
  <2>2. got' \in [Streams -> Nat]
    BY <1>1, <1>2
  <2>3. cut' \in [Streams -> BOOLEAN]
    BY <1>1, <1>3
  <2>4. ~timedOut' => \A t \in Streams : got'[t] <= Limit
    BY <1>1, <1>2, <1>4 DEF IInv, TypeOK
  <2> QED BY <1>4, <2>1, <2>2, <2>3, <2>4 DEF IInv, TypeOK
<1>6. ExitSeen'
  BY <1>4 DEF IInv, ExitSeen
<1>7. TasksEnd'
  <2>1. \A t \in Streams : drain'[t] = "ended" => AtEnd(t)'
    BY <1>1, <1>4 DEF IInv, TasksEnd, AtEnd, Drain
  <2> QED BY <2>1, <1>4 DEF IInv, TasksEnd
<1>8. ASSUME NEW t \in Streams
      PROVE  /\ unread'[t] <= written'[t]
             /\ ~timedOut' =>
                  /\ got'[t] = IF written'[t] - unread'[t] > Limit
                               THEN Limit ELSE written'[t] - unread'[t]
                  /\ got'[t] >= Limit => cut'[t]
  <2>1. CASE t # s
    <3>1. unread'[t] = unread[t] /\ got'[t] = got[t] /\ cut'[t] = cut[t]
      BY <1>1, <1>2, <1>3, <2>1
    <3> QED BY <3>1, <1>4 DEF IInv, Collected
  <2>2. CASE t = s /\ timedOut
    BY <2>2, <1>1, <1>4 DEF IInv, Collected
  <2>3. CASE t = s /\ ~timedOut
    <3>1. unread'[s] = unread[s] - 1 /\ unread[s] <= written[s]
      BY <1>1 DEF IInv, Collected
    <3>2. got[s] = IF written[s] - unread[s] > Limit THEN Limit ELSE written[s] - unread[s]
      BY <2>3 DEF IInv, Collected
    <3>3. got'[s] = IF got[s] >= Limit THEN got[s] ELSE got[s] + 1
      BY <1>1, <1>2, <2>3
    <3>4. got'[s] = IF written'[s] - unread'[s] > Limit THEN Limit ELSE written'[s] - unread'[s]
      BY <1>1, <1>4, <3>1, <3>2, <3>3
    <3>5. Collect(s)[s] = got'[s]
      BY <1>1, <3>3 DEF Collect
    <3>6. got'[s] >= Limit => cut'[s]
      BY <1>1, <1>3, <2>3, <3>5
    <3> QED BY <2>3, <3>1, <3>4, <3>6, <1>1, <1>4
  <2> QED BY <2>1, <2>2, <2>3
<1> QED BY <1>5, <1>6, <1>7, <1>8 DEF IInv, Collected

LEMMA DrainEndsKeeps ==
  ASSUME IInv, NEW s \in Streams, DrainEnds(s)
  PROVE  IInv'
<1>1. TypeOK' /\ ExitSeen' /\ Collected'
  BY DEF IInv, TypeOK, ExitSeen, Collected, DrainEnds
<1>2. TasksEnd'
  BY DEF IInv, TypeOK, TasksEnd, AtEnd, DrainEnds
<1> QED BY <1>1, <1>2 DEF IInv

(* The reads after the timeout. *)
LEMMA ReadKeeps ==
  ASSUME IInv, NEW s \in Streams, Read(s) \/ ReadEnds(s) \/ ReadRaises(s)
  PROVE  IInv'
<1>1. timedOut /\ phase \in {"reading out", "reading err"}
  BY DEF IInv, TasksEnd, Read, ReadEnds, ReadRaises, Reading, Ends
<1>2. process # "running"
  BY <1>1 DEF IInv, ExitSeen
<1>3. /\ timedOut' /\ process' = process /\ writers' = writers /\ drain' = drain
      /\ written' = written /\ early' = early
  BY <1>1 DEF Read, ReadEnds, ReadRaises
<1>a. /\ unread' \in [Streams -> Nat] /\ got' \in [Streams -> Nat]
      /\ \A t \in Streams : unread'[t] <= unread[t]
  <2>1. CASE Read(s)
    BY <2>1 DEF IInv, TypeOK, Read
  <2>2. CASE ReadEnds(s) \/ ReadRaises(s)
    <3>1. unread' = unread /\ got' = got
      BY <2>2 DEF ReadEnds, ReadRaises
    <3>2. unread \in [Streams -> Nat] /\ got \in [Streams -> Nat]
      BY DEF IInv, TypeOK
    <3> QED BY <3>1, <3>2
  <2> QED BY <2>1, <2>2
<1>b. phase' \in Phases /\ phase' # "called" /\ cut' = cut
  BY <1>1 DEF Read, ReadEnds, ReadRaises, Phases, Ends
<1>4. TypeOK'
  BY <1>3, <1>a, <1>b DEF IInv, TypeOK
<1>5. ExitSeen'
  BY <1>2, <1>3, <1>b DEF ExitSeen
<1>6. \A t \in Streams : unread'[t] \in Nat /\ unread[t] \in Nat /\ unread'[t] <= unread[t]
  BY <1>a DEF IInv, TypeOK
<1>7. TasksEnd'
  <2>1. \A t \in Streams : drain'[t] = "ended" => AtEnd(t)'
    BY <1>3, <1>6 DEF IInv, TasksEnd, AtEnd
  <2> QED BY <1>3, <2>1 DEF TasksEnd
<1>8. Collected'
  BY <1>3, <1>6 DEF IInv, TypeOK, Collected
<1> QED BY <1>4, <1>5, <1>7, <1>8 DEF IInv

(* What the program does: it writes only while a stream is open, and a     *)
(* stream that is at its end stays there. *)
LEMMA ProgramKeeps ==
  ASSUME IInv, ProgramStep
  PROVE  IInv'
<1>1. CASE StartDescendant
  <2>1. \A s \in Streams : writers[s] = {} => writers'[s] = {}
    BY <1>1 DEF StartDescendant
  <2>2. TypeOK' /\ ExitSeen' /\ Collected'
    BY <1>1 DEF IInv, TypeOK, ExitSeen, Collected, StartDescendant
  <2>3. TasksEnd'
    BY <1>1, <2>1 DEF IInv, TasksEnd, AtEnd, StartDescendant
  <2> QED BY <2>2, <2>3 DEF IInv
<1>2. CASE Exit
  <2>1. TypeOK' /\ ExitSeen' /\ Collected'
    BY <1>2 DEF IInv, TypeOK, ExitSeen, Collected, Exit
  <2>2. TasksEnd'
    BY <1>2 DEF IInv, TasksEnd, AtEnd, Exit
  <2> QED BY <2>1, <2>2 DEF IInv
<1>3. ASSUME NEW s \in Streams, Write(s)
      PROVE  IInv'
  <2>a. written' \in [Streams -> Nat] /\ unread' \in [Streams -> Nat]
    BY <1>3 DEF IInv, TypeOK, Write
  <2>1. TypeOK' /\ ExitSeen'
    BY <1>3, <2>a DEF IInv, TypeOK, ExitSeen, Write
  <2>2. TasksEnd'
    BY <1>3 DEF IInv, TypeOK, TasksEnd, AtEnd, Write
  <2>3. Collected'
    BY <1>3 DEF IInv, TypeOK, Collected, Write
  <2> QED BY <2>1, <2>2, <2>3 DEF IInv
<1>4. ASSUME NEW s \in Streams, NEW w \in {"program", "descendant"}, Close(w, s)
      PROVE  IInv'
  <2>1. TypeOK' /\ ExitSeen' /\ Collected'
    BY <1>4 DEF IInv, TypeOK, ExitSeen, Collected, Close
  <2>2. TasksEnd'
    BY <1>4 DEF IInv, TypeOK, TasksEnd, AtEnd, Close
  <2> QED BY <2>1, <2>2 DEF IInv
<1> QED BY <1>1, <1>2, <1>3, <1>4 DEF ProgramStep

LEMMA InitEstablishes == Init => IInv
<1> SUFFICES ASSUME Init PROVE IInv
  OBVIOUS
<1>1. TypeOK
  <2>1. \A s \in Streams : got[s] <= Limit
    BY ExecutorAssumption DEF Init, Nothing, ExecutorAssumption
  <2>2. unread \in [Streams -> Nat] /\ got \in [Streams -> Nat] /\ written \in [Streams -> Nat]
        /\ early \in [Streams -> Nat]
    BY NothingIsTyped DEF Init
  <2>3. cut \in [Streams -> BOOLEAN]
    BY NothingIsTyped DEF Init
  <2> QED BY <2>1, <2>2, <2>3 DEF Init, TypeOK, Phases
<1>2. ExitSeen /\ TasksEnd
  BY DEF Init, ExitSeen, TasksEnd, AtEnd, Nothing, Ends
<1>3. Collected
  BY ExecutorAssumption DEF Init, Collected, Nothing, Uncut, ExecutorAssumption
<1> QED BY <1>1, <1>2, <1>3 DEF IInv

LEMMA StepKeeps == IInv /\ [Next]_vars => IInv'
<1> SUFFICES ASSUME IInv, [Next]_vars PROVE IInv'
  OBVIOUS
<1>1. CASE CallStep
  BY <1>1, StartKeeps, CallKeepsOutput, TimeoutKeeps, DrainKeeps, DrainEndsKeeps, ReadKeeps DEF CallStep
<1>2. CASE ProgramStep
  BY <1>2, ProgramKeeps
<1>3. CASE UNCHANGED vars
  <2>1. TypeOK' /\ ExitSeen'
    BY <1>3 DEF IInv, TypeOK, ExitSeen, vars
  <2>2. TasksEnd' /\ Collected'
    BY <1>3 DEF IInv, TasksEnd, AtEnd, Collected, vars
  <2> QED BY <2>1, <2>2 DEF IInv
<1> QED BY <1>1, <1>2, <1>3 DEF Next

(* The invariant holds in every behaviour. *)
THEOREM InvariantHolds == Spec => []IInv
  BY InitEstablishes, StepKeeps, PTL DEF Spec

(* The variables keep their types; without a timeout no more than          *)
(* max_output_size is kept of a stream. *)
THEOREM TypeCorrect == Spec => []TypeOK
  BY InvariantHolds, PTL DEF IInv

(* A result without a timeout is all that was ever written, or its first   *)
(* max_output_size with the mark that it was cut (_drain, run). *)
THEOREM WholeHolds == Spec => []OutputIsWhole
<1>1. IInv => OutputIsWhole
  BY ExecutorAssumption
  DEF IInv, TypeOK, TasksEnd, AtEnd, Collected, OutputIsWhole, Ends, ExecutorAssumption
<1> QED BY <1>1, InvariantHolds, PTL

(* A call that has ended leaves no program running (terminate, kill, wait  *)
(* in run). *)
THEOREM NothingRunsHolds == Spec => []NothingKeepsRunning
<1>1. IInv => NothingKeepsRunning
  BY DEF IInv, ExitSeen, NothingKeepsRunning
<1> QED BY <1>1, InvariantHolds, PTL
=============================================================================
