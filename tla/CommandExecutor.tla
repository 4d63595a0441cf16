-------------------------- MODULE CommandExecutor --------------------------
(***************************************************************************)
(* CommandExecutor.run (server/executor.py), the one way every tool runs a *)
(* program: two tasks drain its pipes, a timer may cancel the wait for     *)
(* them, and the program is then terminated, killed and what is left in    *)
(* the pipes is read.  The program and what it leaves behind are open:     *)
(* they write, close their pipes and exit when they like, or never.        *)
(*                                                                         *)
(* A pipe with its StreamReader is a number of units of output nobody has  *)
(* read.  Process.wait returns when the program has exited (Python 3.12),  *)
(* and a pipe is at its end when nobody is left who could write.           *)
(***************************************************************************)
EXTENDS Integers

CONSTANTS
  Limit,     \* max_output_size
  MaxOutput  \* bound on the output of a stream

ASSUME ExecutorAssumption == Limit \in Nat \ {0} /\ MaxOutput \in Nat

Streams == {"out", "err"}

VARIABLES
  process,  \* "none", "running", "exited"
  writers,  \* who holds the write end of a stream: the program, something
            \* it has started, or both
  unread,   \* output in the pipe and the StreamReader
  drain,    \* the task _drain of a stream
  got,      \* what the call has of a stream: collected by _drain, or read
            \* after the timeout
  cut,      \* truncated, as _drain has it
  phase,    \* where run is
  timedOut,
  written,  \* history: all the output of a stream
  early     \* history: its output up to the timeout

vars == <<process, writers, unread, drain, got, cut, phase, timedOut, written, early>>

Ends   == {"returned", "raised"}
Phases == {"called", "draining", "terminating", "killing", "reading out", "reading err"} \union Ends

TypeOK ==
  /\ process \in {"none", "running", "exited"}
  /\ writers \in [Streams -> SUBSET {"program", "descendant"}]
  /\ unread \in [Streams -> Nat] /\ written \in [Streams -> Nat]
  /\ early \in [Streams -> Nat]
  /\ drain \in [Streams -> {"reading", "ended", "cancelled"}]
  /\ got \in [Streams -> Nat] /\ (~timedOut => \A s \in Streams : got[s] <= Limit)
  /\ cut \in [Streams -> BOOLEAN]
  /\ phase \in Phases /\ timedOut \in BOOLEAN

Nothing == [s \in Streams |-> 0]
Uncut   == [s \in Streams |-> FALSE]

Init ==
  /\ process = "none" /\ phase = "called" /\ timedOut = FALSE
  /\ writers = [s \in Streams |-> {}]
  /\ drain = [s \in Streams |-> "ended"]
  /\ unread = Nothing /\ got = Nothing /\ written = Nothing /\ early = Nothing
  /\ cut = Uncut

AtEnd(s) == unread[s] = 0 /\ writers[s] = {}

-----------------------------------------------------------------------------
(* The call                                                                *)

Start ==
  /\ phase = "called"
  /\ phase' = "draining" /\ process' = "running"
  /\ writers' = [s \in Streams |-> {"program"}]
  /\ drain' = [s \in Streams |-> "reading"]
  /\ UNCHANGED <<unread, got, cut, timedOut, written, early>>

(* The deny-list raises; no such program gives a result. *)
Refuse ==
  /\ phase = "called"
  /\ phase' \in Ends
  /\ UNCHANGED <<process, writers, unread, drain, got, cut, timedOut, written, early>>

(* Bug: the limit is compared after the fact. *)
CollectPast(s) == [got EXCEPT ![s] = IF @ <= Limit THEN @ + 1 ELSE @]

Collect(s) == [got EXCEPT ![s] = IF @ < Limit THEN @ + 1 ELSE @]

(* A task that the timeout has left behind drains on, for nobody. *)
Drain(s) ==
  /\ drain[s] = "reading" /\ unread[s] > 0
  /\ unread' = [unread EXCEPT ![s] = @ - 1]
  /\ got' = IF timedOut THEN got ELSE Collect(s)
  /\ cut' = [cut EXCEPT ![s] = @ \/ (~timedOut /\ Collect(s)[s] >= Limit)]
  /\ UNCHANGED <<process, writers, drain, phase, timedOut, written, early>>

DrainEnds(s) ==
  /\ drain[s] = "reading" /\ AtEnd(s)
  /\ drain' = [drain EXCEPT ![s] = "ended"]
  /\ UNCHANGED <<process, writers, unread, got, cut, phase, timedOut, written, early>>

(* Bug: the task of the other stream is not awaited. *)
FinishAfterOut ==
  /\ phase = "draining" /\ drain["out"] = "ended" /\ process = "exited"
  /\ phase' = "returned"
  /\ UNCHANGED <<process, writers, unread, drain, got, cut, timedOut, written, early>>

Finish ==
  /\ phase = "draining"
  /\ \A s \in Streams : drain[s] = "ended"
  /\ process = "exited"
  /\ phase' = "returned"
  /\ UNCHANGED <<process, writers, unread, drain, got, cut, timedOut, written, early>>

(* The task that is awaited: stdout's before stderr's. *)
Awaited(s) ==
  drain[s] = "reading" /\ (s = "err" => drain["out"] = "ended")

(* The timer is first: the task that is awaited is cancelled, and what it  *)
(* has collected goes with it; the other one is not. *)
Timeout ==
  /\ phase = "draining"
  /\ timedOut' = TRUE
  /\ drain' = [s \in Streams |-> IF Awaited(s) THEN "cancelled" ELSE drain[s]]
  /\ got' = Nothing /\ cut' = Uncut /\ early' = written
  /\ phase' = "terminating"
  /\ UNCHANGED <<process, writers, unread, written>>

(* It was first by a hair: the transport is gone and terminate raises. *)
TimeoutTooLate ==
  /\ phase = "draining"
  /\ process = "exited" /\ \A s \in Streams : writers[s] = {}
  /\ timedOut' = TRUE
  /\ drain' = [s \in Streams |-> IF Awaited(s) THEN "cancelled" ELSE drain[s]]
  /\ got' = Nothing /\ cut' = Uncut /\ early' = written
  /\ phase' = "raised"
  /\ UNCHANGED <<process, writers, unread, written>>

(* Bug: the program is asked once more instead of killed. *)
KillPolitely ==
  /\ phase = "terminating" /\ process = "running"
  /\ UNCHANGED vars

Kill ==
  /\ phase = "terminating" /\ process = "running"
  /\ phase' = "killing"
  /\ UNCHANGED <<process, writers, unread, drain, got, cut, timedOut, written, early>>

(* Bug: the wait for the killed program is left out. *)
WaitedNotAtAll ==
  /\ phase \in {"terminating", "killing"}
  /\ phase' = "reading out"
  /\ UNCHANGED <<process, writers, unread, drain, got, cut, timedOut, written, early>>

Waited ==
  /\ phase \in {"terminating", "killing"} /\ process = "exited"
  /\ phase' = "reading out"
  /\ UNCHANGED <<process, writers, unread, drain, got, cut, timedOut, written, early>>

Reading(s) == phase = IF s = "out" THEN "reading out" ELSE "reading err"

(* stream.read(), up to the end of the stream and without a limit. *)
Read(s) ==
  /\ Reading(s) /\ unread[s] > 0
  /\ unread' = [unread EXCEPT ![s] = @ - 1]
  /\ got' = [got EXCEPT ![s] = @ + 1]
  /\ UNCHANGED <<process, writers, drain, cut, phase, timedOut, written, early>>

ReadEnds(s) ==
  /\ Reading(s) /\ AtEnd(s)
  /\ phase' = IF s = "out" THEN "reading err" ELSE "returned"
  /\ UNCHANGED <<process, writers, unread, drain, got, cut, timedOut, written, early>>

(* A StreamReader refuses to wait for two readers. *)
ReadRaises(s) ==
  /\ Reading(s) /\ drain[s] = "reading" /\ unread[s] = 0 /\ ~AtEnd(s)
  /\ phase' = "raised"
  /\ UNCHANGED <<process, writers, unread, drain, got, cut, timedOut, written, early>>

-----------------------------------------------------------------------------
(* The program and what it has started                                     *)

Write(s) ==
  /\ writers[s] # {} /\ written[s] < MaxOutput
  /\ written' = [written EXCEPT ![s] = @ + 1]
  /\ unread' = [unread EXCEPT ![s] = @ + 1]
  /\ UNCHANGED <<process, writers, drain, got, cut, phase, timedOut, early>>

(* A child inherits what is open. *)
StartDescendant ==
  /\ process = "running"
  /\ writers' \in [Streams -> SUBSET {"program", "descendant"}]
  /\ \A s \in Streams : \/ writers'[s] = writers[s]
                        \/ writers[s] = {"program"} /\ writers'[s] = {"program", "descendant"}
  /\ writers' # writers
  /\ UNCHANGED <<process, unread, drain, got, cut, phase, timedOut, written, early>>

Close(w, s) ==
  /\ w \in writers[s]
  /\ writers' = [writers EXCEPT ![s] = @ \ {w}]
  /\ UNCHANGED <<process, unread, drain, got, cut, phase, timedOut, written, early>>

(* By itself, by the SIGTERM or by the SIGKILL. *)
Exit ==
  /\ process = "running"
  /\ process' = "exited"
  /\ writers' = [s \in Streams |-> writers[s] \ {"program"}]
  /\ UNCHANGED <<unread, drain, got, cut, phase, timedOut, written, early>>

CallStep ==
  \/ Start \/ Refuse \/ Finish \/ Timeout \/ TimeoutTooLate \/ Kill \/ Waited
  \/ \E s \in Streams : Drain(s) \/ DrainEnds(s) \/ Read(s) \/ ReadEnds(s) \/ ReadRaises(s)

ProgramStep ==
  \/ StartDescendant \/ Exit
  \/ \E s \in Streams : Write(s) \/ \E w \in {"program", "descendant"} : Close(w, s)

Next == CallStep \/ ProgramStep

Spec == Init /\ [][Next]_vars

(* The event loop runs what can run, timers expire, and a killed program   *)
(* dies; nothing makes a program exit or close its pipes before. *)
Fairness ==
  /\ WF_vars(Start \/ Refuse) /\ WF_vars(Finish) /\ WF_vars(Timeout)
  /\ WF_vars(Kill) /\ WF_vars(Waited)
  /\ \A s \in Streams : WF_vars(Drain(s) \/ DrainEnds(s)) /\ WF_vars(Read(s) \/ ReadEnds(s))
  /\ WF_vars(phase = "killing" /\ Exit)

FairSpec == Spec /\ Fairness

-----------------------------------------------------------------------------
(* Properties                                                              *)

(* A result without a timeout has everything both streams ever carried,    *)
(* also what came from descendants and after the exit of the program, up   *)
(* to the limit, and says so when there was more. *)
OutputIsWhole ==
  (phase = "returned" /\ ~timedOut) =>
    \A s \in Streams :
      /\ got[s] = IF written[s] > Limit THEN Limit ELSE written[s]
      /\ got[s] < written[s] => cut[s]

(* However the call ends, the program it has started is not running. *)
NothingKeepsRunning == phase \in Ends => process # "running"

Held == \E s \in Streams : "descendant" \in writers[s]

(* The call comes back whatever the program does, if it ignores SIGTERM    *)
(* and closes nothing: all it may wait for without a limit is a descendant *)
(* that keeps a stream open. *)
EndsOnceReleased == <>[]~Held => <>(phase \in Ends)

(* What the comment at executor.py:86 says: what had been printed when the *)
(* timer was first is read (and not lost): the result is at least as long. *)
(* What _drain had read by then is lost. *)
OutputIsKept ==
  (phase = "returned" /\ timedOut) => \A s \in Streams : got[s] >= early[s]

(* README.md:189: every command has a timeout.  A call waits for ever for  *)
(* the end of a stream that a descendant keeps open. *)
TimeoutEndsCall == <>(phase \in Ends)
=============================================================================
