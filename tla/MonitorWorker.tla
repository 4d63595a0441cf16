--------------------------- MODULE MonitorWorker ---------------------------
(***************************************************************************)
(* monitoring/monitor.py with the tools that change its rules              *)
(* (monitoring_tools.py) and its job (scheduler.py).  A check loads the    *)
(* enabled rules, then evaluates one after the other, may send an alert    *)
(* for each, and commits the times of the alerts at its end.  It awaits at *)
(* every evaluation and at every alert, so rules are created, deleted and  *)
(* switched in between; there is one check at a time.                      *)
(*                                                                         *)
(* Time is whole minutes, -1 is none.  What the server's state is at an    *)
(* evaluation is not known here: an evaluation finds the condition kept,   *)
(* breached, or fails.                                                     *)
(***************************************************************************)
EXTENDS Integers, FiniteSets

CONSTANTS
  MaxId,      \* bound on rule ids
  Durations,  \* the values duration_minutes may have
  Cooldown,   \* monitor_alert_cooldown_minutes
  Interval,   \* monitor_check_interval_seconds
  MaxGap,     \* bound on the time from one check to the next
  MaxTime,    \* bound on the clock
  MaxEvents   \* bound on the calls of the tools and on restarts

Events == {"create", "delete", "switch", "restart"}

ASSUME MonitorAssumption ==
  /\ MaxId \in Nat /\ Durations \subseteq Nat
  /\ Cooldown \in Nat /\ Interval \in Nat \ {0}
  /\ MaxGap \in Nat /\ Interval <= MaxGap /\ MaxTime \in Nat
  /\ MaxEvents \in [Events -> Nat]

Ids   == 1..MaxId
Times == Nat \union {-1}

VARIABLES
  rules,    \* monitoring_rules; a row that does not exist has exists FALSE
  breach,   \* _breach_started
  check,    \* the check that runs: phase, its now, the rules it still has to
            \* evaluate, the one whose alert is sent, those with a new time,
            \* and what was loaded of them
  clock,
  events,   \* history: how many calls of each kind there were
  since,    \* history: the first evaluation from which on every one found
            \* the rule breached, -1 after one that did not or a check that
            \* passed the rule over
  ground,   \* history: that of the alert that is sent
  alerted,  \* history: the check that sent the last alert of a rule
  due       \* history: the time from which on nothing excuses silence

vars == <<rules, breach, check, clock, events, since, ground, alerted, due>>

RuleRows == [exists : BOOLEAN, enabled : BOOLEAN, duration : Durations, last : Times]
Checks   == [phase : {"idle", "running", "sending"}, now : Nat, todo : SUBSET Ids,
             rule : Ids \union {0}, dirty : SUBSET Ids, loaded : [Ids -> RuleRows]]

TypeOK ==
  /\ rules \in [Ids -> RuleRows]
  /\ breach \in [Ids -> Times]
  /\ check \in Checks
  /\ check.phase = "sending" <=> check.rule \in Ids
  /\ clock \in Nat
  /\ events \in [Events -> Nat]
  /\ since \in [Ids -> Times] /\ ground \in Times /\ alerted \in [Ids -> Times] /\ due \in [Ids -> Times]

NoTimes == [i \in Ids |-> -1]

Init ==
  /\ \E n \in 0..MaxId, d \in [Ids -> Durations] :
       rules = [i \in Ids |-> [exists |-> i <= n, enabled |-> i <= n, duration |-> d[i], last |-> -1]]
  /\ breach = NoTimes
  /\ check = [phase |-> "idle", now |-> 0, todo |-> {}, rule |-> 0, dirty |-> {}, loaded |-> rules]
  /\ clock = 0
  /\ events = [e \in Events |-> 0]
  /\ since = NoTimes /\ ground = -1 /\ alerted = NoTimes /\ due = NoTimes

-----------------------------------------------------------------------------
(* The check                                                               *)

On(i) == rules[i].exists /\ rules[i].enabled

StartCheck ==
  /\ check.phase = "idle"
  /\ clock - check.now >= Interval
  /\ check' = [check EXCEPT !.phase = "running", !.now = clock,
                            !.todo = {i \in Ids : On(i)}, !.dirty = {}, !.loaded = rules]
  /\ since' = [i \in Ids |-> IF On(i) THEN since[i] ELSE -1]
  /\ due' = [i \in Ids |-> IF On(i) THEN due[i] ELSE -1]
  /\ UNCHANGED <<rules, breach, clock, events, ground, alerted>>

(* Bug: the time of the alert is not looked at. *)
CooledDownAlways(i) == TRUE

CooledDown(i) ==
  check.loaded[i].last = -1 \/ check.now - check.loaded[i].last >= Cooldown

(* Bug: every check starts the count again. *)
StartedAnew(i) == check.now

Started(i) == IF breach[i] = -1 THEN check.now ELSE breach[i]

SustainedFor(i) == check.now - Started(i) >= check.loaded[i].duration

(* Bug: a rule that is kept again is passed over like one that failed. *)
FindKeptPasses(i) ==
  /\ check' = [check EXCEPT !.todo = @ \ {i}]
  /\ since' = [since EXCEPT ![i] = -1]
  /\ due' = [due EXCEPT ![i] = -1]
  /\ UNCHANGED <<rules, breach, clock, events, ground, alerted>>

FindKept(i) ==
  /\ check' = [check EXCEPT !.todo = @ \ {i}]
  /\ breach' = [breach EXCEPT ![i] = -1]
  /\ since' = [since EXCEPT ![i] = -1]
  /\ due' = [due EXCEPT ![i] = -1]
  /\ UNCHANGED <<rules, clock, events, ground, alerted>>

FindError(i) ==
  /\ check' = [check EXCEPT !.todo = @ \ {i}]
  /\ due' = [due EXCEPT ![i] = IF @ = -1 THEN -1 ELSE check.now]
  /\ UNCHANGED <<rules, breach, clock, events, since, ground, alerted>>

FindBreached(i) ==
  /\ breach' = [breach EXCEPT ![i] = Started(i)]
  /\ check' = [check EXCEPT !.todo = @ \ {i},
                            !.phase = IF SustainedFor(i) /\ CooledDown(i) THEN "sending" ELSE @,
                            !.rule = IF SustainedFor(i) /\ CooledDown(i) THEN i ELSE @]
  /\ since' = [since EXCEPT ![i] = IF @ = -1 THEN check.now ELSE @]
  /\ ground' = since'[i]
  /\ due' = [due EXCEPT ![i] = IF @ = -1 THEN check.now ELSE @]
  /\ UNCHANGED <<rules, clock, events, alerted>>

Evaluate(i) ==
  /\ check.phase = "running" /\ i \in check.todo
  /\ FindKept(i) \/ FindError(i) \/ FindBreached(i)

Delivered(i) == check.now

Deliver(i) ==
  /\ check.phase = "sending" /\ check.rule = i
  /\ check' = [check EXCEPT !.phase = "running", !.rule = 0, !.dirty = @ \union {i},
                            !.loaded[i].last = Delivered(i)]
  /\ breach' = [breach EXCEPT ![i] = -1]
  /\ alerted' = [alerted EXCEPT ![i] = check.now]
  /\ due' = [due EXCEPT ![i] = check.now]
  /\ UNCHANGED <<rules, clock, events, since, ground>>

DeliveryFails(i) ==
  /\ check.phase = "sending" /\ check.rule = i
  /\ check' = [check EXCEPT !.phase = "running", !.rule = 0]
  /\ due' = [due EXCEPT ![i] = check.now]
  /\ UNCHANGED <<rules, breach, clock, events, since, ground, alerted>>

(* One transaction: the update of a row that is gone raises and none is    *)
(* written. *)
EndCheck ==
  /\ check.phase = "running" /\ check.todo = {}
  /\ check' = [check EXCEPT !.phase = "idle"]
  /\ rules' = [i \in Ids |->
       IF i \in check.dirty /\ \A j \in check.dirty : rules[j].exists
       THEN [rules[i] EXCEPT !.last = check.loaded[i].last]
       ELSE rules[i]]
  /\ UNCHANGED <<breach, clock, events, since, ground, alerted, due>>

-----------------------------------------------------------------------------
(* What else happens                                                       *)

Count(e) ==
  /\ events[e] < MaxEvents[e]
  /\ events' = [events EXCEPT ![e] = @ + 1]

(* The new row gets the largest id in use and one.  If the check that runs *)
(* has loaded the id, it still means the old row. *)
Create(i, d) ==
  /\ Count("create")
  /\ i # 1 => \E j \in Ids : j = i - 1 /\ rules[j].exists
  /\ \A j \in Ids : rules[j].exists => j < i
  /\ rules' = [rules EXCEPT ![i] = [exists |-> TRUE, enabled |-> TRUE, duration |-> d, last |-> -1]]
  /\ since' = [since EXCEPT ![i] = IF i \in check.todo THEN @ ELSE -1]
  /\ due' = [due EXCEPT ![i] = -1]
  /\ alerted' = [alerted EXCEPT ![i] = -1]
  /\ UNCHANGED <<breach, check, clock, ground>>

Delete(i) ==
  /\ Count("delete")
  /\ rules[i].exists
  /\ rules' = [rules EXCEPT ![i].exists = FALSE, ![i].enabled = FALSE]
  /\ UNCHANGED <<breach, check, clock, since, ground, alerted, due>>

SetEnabled(i) ==
  /\ Count("switch")
  /\ rules[i].exists
  /\ rules' = [rules EXCEPT ![i].enabled = ~@]
  /\ UNCHANGED <<breach, check, clock, since, ground, alerted, due>>

(* The process ends, in a check or not, and starts again. *)
Restart ==
  /\ Count("restart")
  /\ breach' = NoTimes
  /\ check' = [check EXCEPT !.phase = "idle", !.rule = 0]
  /\ since' = NoTimes /\ due' = NoTimes
  /\ UNCHANGED <<rules, clock, ground, alerted>>

(* Time passes, but the next check is not later than MaxGap. *)
Tick ==
  /\ clock < MaxTime
  /\ clock - check.now < MaxGap
  /\ clock' = clock + 1
  /\ UNCHANGED <<rules, breach, check, events, since, ground, alerted, due>>

CheckStep ==
  \/ StartCheck \/ EndCheck
  \/ \E i \in Ids : Evaluate(i) \/ Deliver(i) \/ DeliveryFails(i)

ToolStep ==
  \/ \E i \in Ids : (\E d \in Durations : Create(i, d)) \/ Delete(i) \/ SetEnabled(i)

Next == CheckStep \/ ToolStep \/ Restart \/ Tick

Spec == Init /\ [][Next]_vars

-----------------------------------------------------------------------------
(* Properties                                                              *)

Sending == check.phase = "sending"

(* An alert goes out only when every evaluation for as long as the rule    *)
(* asks for (rules.py:35) found it breached, with the rule on all the time *)
(* and the process restarted or not; only switches and ids used again make *)
(* one come early. *)
AlertIsSustained ==
  (Sending /\ events["switch"] = 0 /\ events["delete"] = 0) =>
    ground # -1 /\ check.now - ground >= check.loaded[check.rule].duration

(* No rule's alert is repeated before the cooldown is over (monitor.py:5), *)
(* from check to check. *)
CooldownKept ==
  LET i == check.rule
  IN Sending => alerted[i] = -1 \/ check.now - alerted[i] >= Cooldown

(* Only a deletion or a restart in the middle of a check, which undo its   *)
(* commit, make an alert repeat early. *)
RepeatNeedsLostCommit ==
  (events["delete"] = 0 /\ events["restart"] = 0) => CooldownKept

Larger(a, b) == IF a > b THEN a ELSE b

(* A rule that stays breached is never silent for longer than the cooldown *)
(* or its duration, counted from the check after the last alert, explain;  *)
(* a failed evaluation or delivery starts that time anew.  Neither the     *)
(* reset of the duration nor the cooldown adds up to more. *)
NoSilentBreach ==
  check.phase = "idle" =>
    \A i \in Ids : due[i] # -1 =>
      check.now - due[i] < Larger(Cooldown, rules[i].duration + MaxGap)

(* No alert is begun for a rule that is gone or off: check_all checks the  *)
(* enabled rules (monitor.py:33).  It fails where a rule is switched off   *)
(* while the check runs. *)
OffIsSilent ==
  [][~Sending /\ check'.phase = "sending" => On(check'.rule)]_vars
=============================================================================
