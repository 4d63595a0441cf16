----------------------------- MODULE AgentLoop -----------------------------
(***************************************************************************)
(* ai/agent_loop.py and the resumption of a turn in callbacks.py: the      *)
(* model is called with the conversation; the tools it uses are handled in *)
(* the order of its response and their results are the next message; one   *)
(* that is not SAFE ends the turn until its user has decided, and the turn *)
(* goes on from a snapshot.  What the model answers is left open.          *)
(*                                                                         *)
(* A tool use is the position of its block in the response, a result the   *)
(* position it answers.  Of the conversation only the last response and    *)
(* the results that follow it are kept: earlier messages never change.     *)
(***************************************************************************)
EXTENDS Integers, Sequences

CONSTANTS
  Names,         \* the names the model uses
  Level,         \* ToolSpec.security_level, "none" for a name no tool has
  Asking,        \* the names that README.md lists as asking for confirmation
  MaxIterations, \* max_agent_iterations
  MaxUses,       \* bound on the tool uses of a response
  MaxResumes     \* bound on the confirmations of a turn

ASSUME LoopAssumption ==
  /\ Level \in [Names -> {"safe", "moderate", "critical", "none"}]
  /\ Asking \subseteq Names
  /\ MaxIterations \in Nat \ {0} /\ MaxUses \in Nat \ {0} /\ MaxResumes \in Nat

VARIABLES
  phase,     \* "calling" the model, "handling" its tool uses, "waiting" for
             \* the user, "ended"
  iteration, \* the calls since the turn began or was resumed
  uses,      \* the tool uses of the last response
  handled,   \* how many of them the loop has handled
  results,   \* tool_results
  pending,   \* the use that waits for its confirmation, 0 if none
  runs,      \* history: how often the tool of a use was run
  resumes    \* history: how often the turn was resumed

vars == <<phase, iteration, uses, handled, results, pending, runs, resumes>>

Positions == 1..MaxUses

TypeOK ==
  /\ phase \in {"calling", "handling", "waiting", "ended"}
  /\ iteration \in 0..MaxIterations
  /\ uses \in Seq(Names) /\ Len(uses) <= MaxUses
  /\ handled \in 0..Len(uses) /\ pending \in 0..handled
  /\ results \in Seq(Nat)
  /\ runs \in [Positions -> Nat]
  /\ resumes \in Nat

Init ==
  /\ phase = "calling" /\ iteration = 0
  /\ uses = << >> /\ handled = 0 /\ results = << >> /\ pending = 0
  /\ runs = [i \in Positions |-> 0]
  /\ resumes = 0

Responses == UNION {[1..n -> Names] : n \in Positions}

(* Bug: the calls are not counted. *)
RespondUncounted(us) ==
  /\ phase = "calling"
  /\ phase' = "handling"
  /\ uses' = us /\ handled' = 0 /\ results' = << >> /\ pending' = 0
  /\ runs' = [i \in Positions |-> 0]
  /\ UNCHANGED <<iteration, resumes>>

(* The model wants tools. *)
Respond(us) ==
  /\ phase = "calling"
  /\ phase' = "handling"
  /\ iteration' = iteration + 1
  /\ uses' = us /\ handled' = 0 /\ results' = << >> /\ pending' = 0
  /\ runs' = [i \in Positions |-> 0]
  /\ UNCHANGED resumes

(* It answers with text, or the call fails. *)
Answer ==
  /\ phase = "calling"
  /\ phase' = "ended"
  /\ UNCHANGED <<iteration, uses, handled, results, pending, runs, resumes>>

(* The use that is handled next. *)
Now == handled + 1

Handle ==
  /\ phase = "handling" /\ handled < Len(uses)
  /\ handled' = handled + 1
  /\ UNCHANGED <<phase, iteration, uses, resumes>>

(* The tool has answered, or its parameters are wrong, it has failed, or a *)
(* rate limit refused it; what is run is run before the loop goes on. *)
RunSafe ==
  /\ Handle /\ Level[uses[Now]] = "safe"
  /\ \E ran \in BOOLEAN :
       runs' = [runs EXCEPT ![Now] = IF ran THEN @ + 1 ELSE @]
  /\ results' = Append(results, Now)
  /\ UNCHANGED pending

RefuseUnknown ==
  /\ Handle /\ Level[uses[Now]] = "none"
  /\ results' = Append(results, Now)
  /\ UNCHANGED <<pending, runs>>

AskUser ==
  /\ Handle /\ Level[uses[Now]] \in {"moderate", "critical"}
  /\ pending = 0
  /\ pending' = Now
  /\ UNCHANGED <<results, runs>>

(* Bug: the second one is passed over. *)
RefuseSecondSilently ==
  /\ Handle /\ Level[uses[Now]] \in {"moderate", "critical"}
  /\ pending # 0
  /\ UNCHANGED <<results, pending, runs>>

(* Only one at a time. *)
RefuseSecond ==
  /\ Handle /\ Level[uses[Now]] \in {"moderate", "critical"}
  /\ pending # 0
  /\ results' = Append(results, Now)
  /\ UNCHANGED <<pending, runs>>

CallsLeft == iteration < MaxIterations

EndRound ==
  /\ phase = "handling" /\ handled = Len(uses)
  /\ phase' = IF pending # 0 THEN "waiting" ELSE IF CallsLeft THEN "calling" ELSE "ended"
  /\ UNCHANGED <<iteration, uses, handled, results, pending, runs, resumes>>

(* Bug: the results that were kept are lost and their uses handled again. *)
ResumeAgain(approved) ==
  /\ phase = "waiting" /\ resumes < MaxResumes
  /\ runs' = [runs EXCEPT ![pending] = IF approved THEN @ + 1 ELSE @]
  /\ handled' = 0 /\ results' = << >> /\ pending' = 0
  /\ phase' = "handling" /\ iteration' = 0
  /\ resumes' = resumes + 1
  /\ UNCHANGED uses

(* The user has decided; the tool is run if it was approved, still exists  *)
(* and its parameters are valid. *)
Resume(approved) ==
  /\ phase = "waiting" /\ resumes < MaxResumes
  /\ \E ran \in BOOLEAN :
       runs' = [runs EXCEPT ![pending] = IF approved /\ ran THEN @ + 1 ELSE @]
  /\ results' = Append(results, pending)
  /\ pending' = 0
  /\ phase' = "calling" /\ iteration' = 0
  /\ resumes' = resumes + 1
  /\ UNCHANGED <<uses, handled>>

LoopStep ==
  \/ \E us \in Responses : Respond(us)
  \/ Answer
  \/ RunSafe \/ RefuseUnknown \/ AskUser \/ RefuseSecond
  \/ EndRound

Next == LoopStep \/ \E approved \in BOOLEAN : Resume(approved)

(* The loop is one coroutine and every call in it has a timeout; nothing   *)
(* makes a user answer. *)
Spec == Init /\ [][Next]_vars /\ WF_vars(LoopStep)

-----------------------------------------------------------------------------
(* Properties                                                              *)

(* Whenever the model is called, each tool use of its last response is     *)
(* answered, and answered once, after a confirmation as well: otherwise    *)
(* the API refuses the conversation. *)
WellPaired ==
  phase = "calling" =>
    /\ Len(results) = Len(uses)
    /\ \A i \in 1..Len(uses) : \E j \in 1..Len(results) : results[j] = i

(* No tool use is run twice, neither in a round nor because a turn is      *)
(* resumed from its snapshot. *)
NothingRunsTwice == \A i \in Positions : runs[i] <= 1

(* The loop comes to an end: with an answer, at the limit of calls, or     *)
(* with a question to the user, whatever the model asks for. *)
LoopStops == phase \in {"calling", "handling"} ~> phase \in {"waiting", "ended"}

(* What README.md:175-177 says: the listed tools run only after a press of *)
(* the button.  write_file and create_directory are SAFE in the code. *)
ListedToolsAsk ==
  [][\A i \in Positions :
       (runs'[i] > runs[i] /\ uses[i] \in Asking) => phase = "waiting"]_vars
=============================================================================
