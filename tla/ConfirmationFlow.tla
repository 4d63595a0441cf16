-------------------------- MODULE ConfirmationFlow --------------------------
(***************************************************************************)
(* The path of a MODERATE or CRITICAL action: the row the agent's turn     *)
(* writes, the card with two buttons, the presses of these buttons, the    *)
(* execution of the tool and its audit entry, and the job that closes the  *)
(* rows nobody answered.                                                   *)
(*                                                                         *)
(* Everything runs on one event loop, so a step below is what the code     *)
(* does between two awaits that let another handler in; a SELECT and the   *)
(* UPDATE after it are two steps (SQLite opens a transaction only at the   *)
(* UPDATE, and an UPDATE with its commit is one).                          *)
(***************************************************************************)
EXTENDS Integers, Sequences

CONSTANTS
  Actions,      \* the action ids secrets.token_urlsafe may draw
  Users,        \* the Telegram users that pass authorization
  Presses,      \* callback queries; each is one press of a button
  TTL,          \* CONFIRMATION_TTL_SECONDS, in clock units
  MaxTime,      \* bound on the clock
  MaxCrashes,   \* bound on the number of process restarts
  NoUser,       \* the owner of an action that was never requested
  NoPress,      \* no press has decided the action
  NoRequest     \* the content of a press that was not made yet

ASSUME ConfirmationAssumption ==
  /\ TTL \in Nat \ {0} /\ MaxTime \in Nat /\ MaxCrashes \in Nat
  /\ NoUser \notin Users /\ NoPress \notin Presses

VARIABLES
  status,    \* pending_confirmations.status, "NONE" while there is no row
  owner,     \* pending_confirmations.telegram_user_id
  expires,   \* pending_confirmations.expires_at
  card,      \* the message that carries the buttons of the action
  clock,     \* the time of day
  req,       \* what a callback query carries
  pc,        \* how far the handler of a callback query has come
  swept,     \* the ids the sweep has selected and not yet updated
  audit,     \* audit_logs, the entries of each action in order
  crashes,   \* restarts so far
  runs,      \* history: how many times the tool of the action was invoked
  winner     \* history: the press whose UPDATE matched the PENDING row

row  == <<status, owner, expires>>
vars == <<status, owner, expires, card, clock, req, pc, swept, audit,
          crashes, runs, winner>>

Statuses == {"NONE", "PENDING", "APPROVED", "DENIED", "EXPIRED"}
Cards    == {"none", "sending", "shown", "cleared", "lost"}
Verdicts == {"APPROVED", "DENIED"}
Entries  == {"succeeded", "failed", "denied"}

(* A handler that has not won the row yet, one that has, and one that is   *)
(* over. *)
Undecided == {"unused", "queued", "selected"}
Deciding  == {"won", "notified", "running", "resuming ok", "resuming error",
              "auditing ok", "auditing error", "delivering"}
Over      == {"rejected", "finished", "aborted", "dead"}
Steps     == Undecided \cup Deciding \cup Over

Requests == [action : Actions, user : Users, newStatus : Verdicts]

ASSUME NoRequestAssumption == NoRequest \notin Requests

Target(p) == req[p].action

TypeOK ==
  /\ status  \in [Actions -> Statuses]
  /\ owner   \in [Actions -> Users \cup {NoUser}]
  /\ expires \in [Actions -> Nat]
  /\ card    \in [Actions -> Cards]
  /\ clock   \in Nat
  /\ req     \in [Presses -> Requests \cup {NoRequest}]
  /\ pc      \in [Presses -> Steps]
  /\ swept   \in SUBSET Actions
  /\ audit   \in [Actions -> Seq(Entries)]
  /\ crashes \in Nat
  /\ runs    \in [Actions -> Nat]
  /\ winner  \in [Actions -> Presses \cup {NoPress}]

Init ==
  /\ status  = [a \in Actions |-> "NONE"]
  /\ owner   = [a \in Actions |-> NoUser]
  /\ expires = [a \in Actions |-> 0]
  /\ card    = [a \in Actions |-> "none"]
  /\ clock   = 0
  /\ req     = [p \in Presses |-> NoRequest]
  /\ pc      = [p \in Presses |-> "unused"]
  /\ swept   = {}
  /\ audit   = [a \in Actions |-> << >>]
  /\ crashes = 0
  /\ runs    = [a \in Actions |-> 0]
  /\ winner  = [a \in Actions |-> NoPress]

-----------------------------------------------------------------------------
(* Asking                                                                  *)

(* A fresh row: the id is drawn at random and never one that exists.       *)
Create(a, u) ==
  /\ status[a] = "NONE"
  /\ clock + TTL <= MaxTime
  /\ status'  = [status EXCEPT ![a] = "PENDING"]
  /\ owner'   = [owner EXCEPT ![a] = u]
  /\ expires' = [expires EXCEPT ![a] = clock + TTL]

(* A user's turn ends in a tool that needs a confirmation. *)
RequestConfirmation(a, u) ==
  /\ Create(a, u)
  /\ card' = [card EXCEPT ![a] = "sending"]
  /\ UNCHANGED <<clock, req, pc, swept, audit, crashes, runs, winner>>

SendCard(a) ==
  /\ card[a] = "sending"
  /\ card' = [card EXCEPT ![a] = "shown"]
  /\ UNCHANGED <<row, clock, req, pc, swept, audit, crashes, runs, winner>>

(* Telegram refuses the text or cannot be reached: the exception leaves    *)
(* the handler and nothing sends the card again. *)
SendCardFails(a) ==
  /\ card[a] = "sending"
  /\ card' = [card EXCEPT ![a] = "lost"]
  /\ UNCHANGED <<row, clock, req, pc, swept, audit, crashes, runs, winner>>

-----------------------------------------------------------------------------
(* Answering: handle_confirm, handle_cancel and _resolve                   *)

(* Somebody who sees the card presses a button. *)
Press(p) ==
  /\ pc[p] = "unused"
  /\ \E r \in Requests : /\ card[r.action] = "shown"
                         /\ req' = [req EXCEPT ![p] = r]
  /\ pc' = [pc EXCEPT ![p] = "queued"]
  /\ UNCHANGED <<row, card, clock, swept, audit, crashes, runs, winner>>

(* Bug: whoever sees the card may answer. *)
MayResolveForAnyone(p) ==
  status[Target(p)] = "PENDING" /\ clock < expires[Target(p)]

MayResolve(p) ==
  /\ status[Target(p)] = "PENDING"
  /\ owner[Target(p)] = req[p].user
  /\ clock < expires[Target(p)]

ResolveSelect(p) ==
  /\ pc[p] = "queued"
  /\ pc' = [pc EXCEPT ![p] = IF MayResolve(p) THEN "selected" ELSE "rejected"]
  /\ UNCHANGED <<row, card, clock, req, swept, audit, crashes, runs, winner>>

(* Bug: the UPDATE relies on the SELECT before it. *)
ResolveUpdateUnguarded(p) ==
  /\ pc[p] = "selected"
  /\ status' = [status EXCEPT ![Target(p)] = req[p].newStatus]
  /\ winner' = [winner EXCEPT ![Target(p)] = p]
  /\ pc' = [pc EXCEPT ![p] = "won"]
  /\ UNCHANGED <<owner, expires, card, clock, req, swept, audit, crashes, runs>>

(* UPDATE ... WHERE status = 'PENDING'; no row matched is "race_lost". *)
ResolveUpdate(p) ==
  /\ pc[p] = "selected"
  /\ \/ /\ status[Target(p)] = "PENDING"
        /\ status' = [status EXCEPT ![Target(p)] = req[p].newStatus]
        /\ winner' = [winner EXCEPT ![Target(p)] = p]
        /\ pc' = [pc EXCEPT ![p] = "won"]
     \/ /\ status[Target(p)] # "PENDING"
        /\ pc' = [pc EXCEPT ![p] = "rejected"]
        /\ UNCHANGED <<status, winner>>
  /\ UNCHANGED <<owner, expires, card, clock, req, swept, audit, crashes, runs>>

(* Bug: the answer of the button is not looked at. *)
NotifyAsApproved(p) ==
  /\ pc[p] = "won"
  /\ card' = [card EXCEPT ![Target(p)] = "cleared"]
  /\ pc' = [pc EXCEPT ![p] = "notified"]
  /\ UNCHANGED <<row, clock, req, swept, audit, crashes, runs, winner>>

(* The buttons disappear and the query is answered ... *)
Notify(p) ==
  /\ pc[p] = "won"
  /\ card' = [card EXCEPT ![Target(p)] = "cleared"]
  /\ pc' = [pc EXCEPT ![p] =
              IF req[p].newStatus = "APPROVED" THEN "notified" ELSE "resuming error"]
  /\ UNCHANGED <<row, clock, req, swept, audit, crashes, runs, winner>>

(* ... or one of the two calls raises, which ends the handler. *)
NotifyFails(p) ==
  /\ pc[p] = "won"
  /\ \/ card' = [card EXCEPT ![Target(p)] = "cleared"]
     \/ UNCHANGED card
  /\ pc' = [pc EXCEPT ![p] = "aborted"]
  /\ UNCHANGED <<row, clock, req, swept, audit, crashes, runs, winner>>

-----------------------------------------------------------------------------
(* Acting: _resolve_agent_loop_confirmation                                *)

StartTool(p) ==
  /\ pc[p] = "notified"
  /\ runs' = [runs EXCEPT ![Target(p)] = @ + 1]
  /\ pc' = [pc EXCEPT ![p] = "running"]
  /\ UNCHANGED <<row, card, clock, req, swept, audit, crashes, winner>>

(* The tool is no longer registered or its arguments do not validate. *)
RefuseTool(p) ==
  /\ pc[p] = "notified"
  /\ pc' = [pc EXCEPT ![p] = "resuming error"]
  /\ UNCHANGED <<row, card, clock, req, swept, audit, crashes, runs, winner>>

FinishTool(p) ==
  /\ pc[p] = "running"
  /\ \E next \in {"resuming ok", "resuming error"} : pc' = [pc EXCEPT ![p] = next]
  /\ UNCHANGED <<row, card, clock, req, swept, audit, crashes, runs, winner>>

(* Bug: an exception of the agent loop ends the handler. *)
ResumeMayRaise(p) ==
  /\ pc[p] \in {"resuming ok", "resuming error"}
  /\ pc' = [pc EXCEPT ![p] = "aborted"]
  /\ UNCHANGED <<row, card, clock, req, swept, audit, crashes, runs, winner>>

(* agent_loop.resume comes back before the entry is written. *)
Resume(p) ==
  /\ \/ /\ pc[p] = "resuming ok"
        /\ pc' = [pc EXCEPT ![p] = "auditing ok"]
     \/ /\ pc[p] = "resuming error"
        /\ pc' = [pc EXCEPT ![p] = "auditing error"]
  /\ UNCHANGED <<row, card, clock, req, swept, audit, crashes, runs, winner>>

Audit(p) ==
  /\ pc[p] \in {"auditing ok", "auditing error"}
  /\ LET entry == IF pc[p] = "auditing ok" THEN "succeeded"
                  ELSE IF req[p].newStatus = "DENIED" THEN "denied" ELSE "failed"
     IN audit' = [audit EXCEPT ![Target(p)] = Append(@, entry)]
  /\ pc' = [pc EXCEPT ![p] = "delivering"]
  /\ UNCHANGED <<row, card, clock, req, swept, crashes, runs, winner>>

(* deliver_outcome: the turn is over, or asks for the next confirmation in *)
(* the name of the user who gave this one. *)
Deliver(p) ==
  /\ pc[p] = "delivering"
  /\ pc' = [pc EXCEPT ![p] = "finished"]
  /\ \/ UNCHANGED <<row, card>>
     \/ \E a \in Actions :
          /\ Create(a, owner[Target(p)])
          /\ card' = [card EXCEPT ![a] = "sending"]
  /\ UNCHANGED <<clock, req, swept, audit, crashes, runs, winner>>

-----------------------------------------------------------------------------
(* The sweep, the clock and the process                                    *)

(* Bugs: the sweep forgets the time, or looks for the exact second. *)
ExpiredAtOnce == {a \in Actions : status[a] = "PENDING"}
ExpiredJustNow == {a \in Actions : status[a] = "PENDING" /\ expires[a] = clock}

Expired == {a \in Actions : status[a] = "PENDING" /\ expires[a] <= clock}

SweepSelect ==
  /\ swept = {}
  /\ Expired # {}
  /\ swept' = Expired
  /\ UNCHANGED <<row, card, clock, req, pc, audit, crashes, runs, winner>>

(* Bug: a status that no other code knows. *)
SweepUpdateLapsed ==
  /\ swept # {}
  /\ status' = [a \in Actions |-> IF a \in swept THEN "LAPSED" ELSE status[a]]
  /\ swept' = {}
  /\ UNCHANGED <<owner, expires, card, clock, req, pc, audit, crashes, runs, winner>>

(* The UPDATE names the ids that were selected and tests nothing else. *)
SweepUpdate ==
  /\ swept # {}
  /\ status' = [a \in Actions |-> IF a \in swept THEN "EXPIRED" ELSE status[a]]
  /\ swept' = {}
  /\ UNCHANGED <<owner, expires, card, clock, req, pc, audit, crashes, runs, winner>>

Tick ==
  /\ clock < MaxTime
  /\ clock' = clock + 1
  /\ UNCHANGED <<row, card, req, pc, swept, audit, crashes, runs, winner>>

(* The database survives a restart, handlers and the sweep do not, and     *)
(* start-up drops the updates that were waiting. *)
Restart ==
  /\ crashes < MaxCrashes
  /\ crashes' = crashes + 1
  /\ pc' = [p \in Presses |->
              IF pc[p] = "unused" \/ pc[p] \in Over THEN pc[p] ELSE "dead"]
  /\ card' = [a \in Actions |-> IF card[a] = "sending" THEN "lost" ELSE card[a]]
  /\ swept' = {}
  /\ UNCHANGED <<row, clock, req, audit, runs, winner>>

-----------------------------------------------------------------------------
PressStep(p) ==
  \/ ResolveSelect(p) \/ ResolveUpdate(p) \/ Notify(p) \/ NotifyFails(p)
  \/ StartTool(p) \/ RefuseTool(p) \/ FinishTool(p) \/ Resume(p)
  \/ Audit(p) \/ Deliver(p)

Next ==
  \/ \E a \in Actions, u \in Users : RequestConfirmation(a, u)
  \/ \E a \in Actions : SendCard(a) \/ SendCardFails(a)
  \/ \E p \in Presses : Press(p) \/ PressStep(p)
  \/ SweepSelect \/ SweepUpdate
  \/ Tick
  \/ Restart

Spec == Init /\ [][Next]_vars

(* A handler goes on, time passes and the job is started every minute.     *)
(* Nobody has to press a button, and the tool a handler waits for need not *)
(* come to an end: a shell command may keep its pipes open for ever (see   *)
(* CommandExecutor). *)
Fairness ==
  /\ \A p \in Presses : WF_vars(pc[p] # "running" /\ PressStep(p))
  /\ WF_vars(SweepSelect) /\ WF_vars(SweepUpdate)
  /\ WF_vars(Tick)

FairSpec == Spec /\ Fairness

-----------------------------------------------------------------------------
(* Properties                                                              *)

(* However many presses race for a card, and whatever the sweep and a      *)
(* restart do meanwhile, the tool of a confirmed action is invoked at most *)
(* once and its outcome is written at most once (the conditional UPDATE of *)
(* ConfirmationService.resolve). *)
AtMostOnce == \A a \in Actions : runs[a] <= 1 /\ Len(audit[a]) <= 1

(* The entry in audit_logs says what happened: a denial is recorded only   *)
(* for a tool that did not run, a success only for one that did, and the   *)
(* answer it records is the one the deciding press carried. *)
AuditTellsTheTruth ==
  \A a \in Actions : audit[a] # << >> =>
    /\ winner[a] # NoPress
    /\ LET answer == req[winner[a]].newStatus
           entry  == Head(audit[a])
       IN /\ entry = "denied" <=> answer = "DENIED"
          /\ entry = "denied" => runs[a] = 0
          /\ entry = "succeeded" => runs[a] = 1

(* A row that is still waiting for an answer is closed by the sweep only   *)
(* once its time is over, also when the clock moved between the SELECT and *)
(* the UPDATE of sweep_expired. *)
LapseOnlyAfterTTL ==
  [][\A a \in Actions :
       status[a] = "PENDING" /\ status'[a] = "EXPIRED" => expires[a] <= clock]_vars

(* What the confirmation promises its user, as a specification of its own: *)
(* the state of a request is the answer that was taken, whatever the sweep *)
(* wrote over it later. *)
RequestState(a) ==
  IF winner[a] # NoPress
  THEN IF req[winner[a]].newStatus = "APPROVED" THEN "granted" ELSE "refused"
  ELSE IF status[a] = "NONE" THEN "unasked"
  ELSE IF status[a] = "PENDING" THEN "open" ELSE "lapsed"

Decider(a) == IF winner[a] # NoPress THEN req[winner[a]].user ELSE NoUser

OneShot == INSTANCE OneShotApproval WITH
  request   <- [a \in Actions |-> RequestState(a)],
  asker     <- owner,
  decider   <- [a \in Actions |-> Decider(a)],
  performed <- runs

(* Every step of the handlers, the sweep and the process is a step of that *)
(* specification or leaves its state alone. *)
ImplementsOneShot == OneShot!Spec

(* Whether the card was delivered or lost, and whether anybody answers or  *)
(* not, no row stays PENDING for ever: the job of                          *)
(* sweep_expired_confirmations closes it in the end. *)
EveryRequestCloses ==
  \A a \in Actions : status[a] = "PENDING" ~> status[a] # "PENDING"

(* Once a confirmed tool has come back, with a result or an error, its     *)
(* entry reaches audit_logs, unless the process dies first: neither the    *)
(* agent's resumption nor anything else between the tool and _audit ends   *)
(* the handler of the press. *)
FinishedToolIsAudited ==
  \A p \in Presses :
    /\ pc[p] \in {"resuming ok", "resuming error"}
    /\ runs[Target(p)] = 1
    ~> pc[p] = "dead" \/ (pc[p] = "finished" /\ audit[Target(p)] # << >>)

(* docs/PLAN.md:60, "Callback проверяет: ... не истёк ли токен" (the       *)
(* callback checks that the token has not expired): no row is decided      *)
(* after its expires_at.  The code reads the clock before the UPDATE. *)
NoDecisionAfterExpiry ==
  [][\A a \in Actions :
       status[a] = "PENDING" /\ status'[a] \in Verdicts => clock < expires[a]]_vars

(* tests/test_confirmations.py:38: what resolve returned as APPROVED (or   *)
(* DENIED) stays so in the table.  The UPDATE of the sweep does not ask    *)
(* whether the rows it selected are still PENDING. *)
DecisionIsFinal ==
  [][\A a \in Actions : status[a] \in Verdicts => status'[a] = status[a]]_vars

(* README.md:193, "каждое подтверждённое действие пишется в audit_logs"    *)
(* (every confirmed action is written to audit_logs): a handler that has   *)
(* taken the confirmation and is over, the process being alive, has left   *)
(* an entry. *)
ConfirmedIsAudited ==
  \A p \in Presses :
    pc[p] \in {"finished", "aborted"} /\ req[p].newStatus = "APPROVED"
      => audit[Target(p)] # << >>
=============================================================================
