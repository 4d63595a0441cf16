------------------------ MODULE MonitorWorker_proofs ------------------------
(***************************************************************************)
(* Alerts last long enough, keep the cooldown and are not withheld: for    *)
(* any number of rules, durations and cooldown, and any length of run.     *)
(***************************************************************************)
EXTENDS MonitorWorker, TLAPS

Active == check.phase # "idle"

(* Nothing is later than the check that runs or ran last, and the next one *)
(* is not far. *)
TimesInvariant ==
  /\ check.now <= clock /\ clock - check.now <= MaxGap
  /\ \A i \in Ids :
       /\ rules[i].last <= check.now /\ check.loaded[i].last <= check.now
       /\ breach[i] <= check.now /\ since[i] <= check.now

(* A rule is to be evaluated, or its alert is sent, or its alert was sent. *)
ProgressInvariant ==
  Active => /\ check.rule \notin check.todo /\ check.rule \notin check.dirty
            /\ check.todo \intersect check.dirty = {}

(* Where no rule is deleted, an id that is not in use never was. *)
FreshInvariant ==
  events["delete"] = 0 =>
    \A i \in Ids : ~rules[i].exists =>
      /\ breach[i] = -1
      /\ Active => i \notin check.todo /\ i \notin check.dirty /\ check.rule # i

(* Behind every breach that is counted there is an unbroken row of         *)
(* evaluations that began no later. *)
SustainedInvariant ==
  (events["switch"] = 0 /\ events["delete"] = 0) =>
    /\ \A i \in Ids : rules[i].exists => rules[i].enabled
    /\ \A i \in Ids : breach[i] # -1 => since[i] # -1 /\ since[i] <= breach[i]
    /\ AlertIsSustained

(* The last alert of a rule is on its row, or in the check that will write *)
(* it. *)
RecordedInvariant ==
  (events["delete"] = 0 /\ events["restart"] = 0) =>
    /\ \A i \in Ids : (Active /\ i \in check.dirty) \/ rules[i].last = alerted[i]
    /\ Active => \A i \in Ids :
         i \in check.todo \union check.dirty \union {check.rule} => check.loaded[i].last = alerted[i]
    /\ CooldownKept

Explained(i) == check.now - due[i] < Larger(Cooldown, rules[i].duration + MaxGap)

(* Since the time a rule is due there was no alert; its breach is counted  *)
(* from the check after that at the latest; and it was due too recently,   *)
(* or is still to be evaluated, or its alert is being sent. *)
DueOf(i) ==
  due[i] # -1 =>
    /\ rules[i].last <= due[i] /\ due[i] <= check.now
    /\ breach[i] <= due[i] + MaxGap
    /\ IF Active /\ i \in check.todo
       THEN /\ check.loaded[i].duration = rules[i].duration
            /\ breach[i] = -1 => check.now <= due[i] + MaxGap
       ELSE /\ breach[i] = -1 => check.now <= due[i]
            /\ Explained(i) \/ (Sending /\ check.rule = i)
    /\ (Active /\ i \in check.todo \union check.dirty) => check.loaded[i].last <= due[i]

DueInvariant == \A i \in Ids : DueOf(i)

MonitorInvariant ==
  /\ TypeOK /\ TimesInvariant /\ ProgressInvariant /\ FreshInvariant
  /\ SustainedInvariant /\ RecordedInvariant /\ DueInvariant

-----------------------------------------------------------------------------
(* Type correctness                                                        *)

(* The steps, one by one. *)
LEMMA Steps ==
  ASSUME [Next]_vars
  PROVE  \/ StartCheck \/ EndCheck \/ Restart \/ Tick
         \/ \E i \in Ids : Evaluate(i) \/ Deliver(i) \/ DeliveryFails(i) \/ Delete(i) \/ SetEnabled(i)
         \/ \E i \in Ids, d \in Durations : Create(i, d)
         \/ UNCHANGED vars
BY DEF Next, CheckStep, ToolStep

LEMMA Counted ==
  ASSUME events \in [Events -> Nat], NEW e \in Events, Count(e)
  PROVE  events' \in [Events -> Nat] /\ events'[e] # 0
         /\ \A f \in Events \ {e} : events'[f] = events[f]
BY DEF Count

LEMMA StartedTyped ==
  ASSUME TypeOK, NEW i \in Ids
  PROVE  Started(i) \in Nat
BY DEF TypeOK, Started, Times, Checks

LEMMA RowSet ==
  ASSUME NEW r \in RuleRows, NEW t \in Times
  PROVE  /\ [r EXCEPT !.last = t] \in RuleRows
         /\ [r EXCEPT !.last = t].last = t
         /\ [r EXCEPT !.last = t].duration = r.duration
         /\ [r EXCEPT !.last = t].exists = r.exists
         /\ [r EXCEPT !.last = t].enabled = r.enabled
BY DEF RuleRows

LEMMA RowSwitched ==
  ASSUME NEW r \in RuleRows, NEW e \in BOOLEAN, NEW b \in BOOLEAN
  PROVE  /\ [r EXCEPT !.exists = e, !.enabled = b] \in RuleRows
         /\ [r EXCEPT !.exists = e, !.enabled = b].last = r.last
         /\ [r EXCEPT !.exists = e, !.enabled = b].duration = r.duration
         /\ [r EXCEPT !.exists = e, !.enabled = b].exists = e
BY DEF RuleRows

LEMMA DurationsTyped == \A r \in RuleRows : r.duration \in Nat
<1>1. \A d \in Durations : d \in Nat
  BY MonitorAssumption
<1> QED
  BY <1>1 DEF RuleRows

LEMMA NowIsTime == TypeOK => check.now \in Nat /\ check.now \in Times
BY DEF TypeOK, Checks, Times

(* What a check is after the alert of rule i.                              *)
LEMMA DeliverDoes ==
  ASSUME TypeOK, NEW i \in Ids, Deliver(i)
  PROVE  /\ check' \in Checks
         /\ check'.phase = "running" /\ check'.rule = 0 /\ check'.now = check.now
         /\ check'.todo = check.todo /\ check'.dirty = check.dirty \union {i}
         /\ check'.loaded[i].last = check.now
         /\ check'.loaded[i].duration = check.loaded[i].duration
         /\ \A j \in Ids \ {i} : check'.loaded[j] = check.loaded[j]
<1> DEFINE l == [check.loaded EXCEPT ![i].last = check.now]
<1>1. check.loaded \in [Ids -> RuleRows] /\ check.now \in Times
  BY NowIsTime DEF TypeOK, Checks
<1>2. l = [check.loaded EXCEPT ![i] = [check.loaded[i] EXCEPT !.last = check.now]]
  OBVIOUS
<1>3. /\ l \in [Ids -> RuleRows] /\ l[i].last = check.now
      /\ l[i].duration = check.loaded[i].duration
      /\ \A j \in Ids \ {i} : l[j] = check.loaded[j]
  BY <1>1, <1>2, RowSet
<1>4. check' = [check EXCEPT !.phase = "running", !.rule = 0, !.dirty = @ \union {i}, !.loaded = l]
  BY DEF Deliver, Delivered, TypeOK, Checks
<1> HIDE DEF l
<1> QED
  BY <1>3, <1>4 DEF TypeOK, Checks

(* What the rows are after a check.                                        *)
LEMMA EndCheckDoes ==
  ASSUME TypeOK, EndCheck
  PROVE  /\ rules' \in [Ids -> RuleRows]
         /\ \A i \in Ids :
              /\ rules'[i].exists = rules[i].exists /\ rules'[i].enabled = rules[i].enabled
              /\ rules'[i].duration = rules[i].duration
              /\ \/ /\ rules'[i].last = rules[i].last
                    /\ i \in check.dirty => \E j \in check.dirty : ~rules[j].exists
                 \/ rules'[i].last = check.loaded[i].last /\ i \in check.dirty
<1>1. SUFFICES ASSUME NEW i \in Ids
               PROVE  /\ rules'[i] \in RuleRows
                      /\ rules'[i].exists = rules[i].exists /\ rules'[i].enabled = rules[i].enabled
                      /\ rules'[i].duration = rules[i].duration
                      /\ \/ /\ rules'[i].last = rules[i].last
                            /\ i \in check.dirty => \E j \in check.dirty : ~rules[j].exists
                         \/ rules'[i].last = check.loaded[i].last /\ i \in check.dirty
  BY DEF EndCheck
<1>2. rules[i] \in RuleRows /\ check.loaded[i].last \in Times
  BY DEF TypeOK, Checks, RuleRows
<1>3. CASE i \in check.dirty /\ \A j \in check.dirty : rules[j].exists
  <2> DEFINE r == [rules[i] EXCEPT !.last = check.loaded[i].last]
  <2>1. rules'[i] = r
    BY <1>3 DEF EndCheck
  <2>2. /\ r \in RuleRows /\ r.last = check.loaded[i].last /\ r.duration = rules[i].duration
        /\ r.exists = rules[i].exists /\ r.enabled = rules[i].enabled
    BY <1>2, RowSet
  <2> HIDE DEF r
  <2> QED
    BY <1>3, <2>1, <2>2
<1>4. CASE ~(i \in check.dirty /\ \A j \in check.dirty : rules[j].exists)
  <2>1. rules'[i] = rules[i]
    BY <1>4 DEF EndCheck
  <2> QED
    BY <1>2, <1>4, <2>1
<1> QED
  BY <1>3, <1>4

(* A row that is deleted or switched keeps the rest.                       *)
LEMMA DeleteDoes ==
  ASSUME TypeOK, NEW i \in Ids, Delete(i) \/ SetEnabled(i)
  PROVE  /\ rules' \in [Ids -> RuleRows]
         /\ rules'[i].last = rules[i].last /\ rules'[i].duration = rules[i].duration
         /\ Delete(i) \/ rules'[i].exists = rules[i].exists
         /\ \A j \in Ids \ {i} : rules'[j] = rules[j]
<1>1. rules[i] \in RuleRows /\ rules[i].exists \in BOOLEAN /\ (~rules[i].enabled) \in BOOLEAN
  BY DEF TypeOK, RuleRows
<1>2. CASE Delete(i)
  <2>1. rules' = [rules EXCEPT ![i] = [rules[i] EXCEPT !.exists = FALSE, !.enabled = FALSE]]
    BY <1>2 DEF Delete, TypeOK
  <2> QED
    BY <1>1, <1>2, <2>1, RowSwitched DEF TypeOK
<1>3. CASE SetEnabled(i)
  <2> DEFINE b == ~rules[i].enabled
             r == [rules[i] EXCEPT !.exists = rules[i].exists, !.enabled = b]
  <2>1. rules' = [rules EXCEPT ![i] = [rules[i] EXCEPT !.enabled = b]]
    BY <1>3 DEF SetEnabled, TypeOK
  <2>2. [rules[i] EXCEPT !.enabled = b] = r
    BY <1>1 DEF RuleRows
  <2>3. /\ r \in RuleRows /\ r.last = rules[i].last /\ r.duration = rules[i].duration
        /\ r.exists = rules[i].exists
    BY <1>1 DEF RuleRows
  <2> HIDE DEF r, b
  <2> QED
    BY <2>1, <2>2, <2>3 DEF TypeOK
<1> QED
  BY <1>2, <1>3

LEMMA TypeInit == ASSUME Init PROVE TypeOK
<1>0. -1 \in Times /\ 0 \in Nat
  BY DEF Times
<1>1. rules \in [Ids -> RuleRows]
  BY <1>0, MonitorAssumption DEF Init, RuleRows, Ids
<1>2. check \in Checks /\ check.phase = "idle" /\ check.rule = 0
  BY <1>1 DEF Init, Checks
<1>3. 0 \notin Ids
  BY MonitorAssumption DEF Ids
<1> QED
  BY <1>0, <1>1, <1>2, <1>3 DEF Init, TypeOK, NoTimes, Times

LEMMA TypeStep == ASSUME TypeOK, [Next]_vars PROVE TypeOK'
<1>0. 0 \notin Ids /\ -1 \in Times /\ Nat \subseteq Times
  BY MonitorAssumption DEF Ids, Times
<1>1. CASE StartCheck
  BY <1>0, <1>1 DEF StartCheck, TypeOK, Checks
<1>2. CASE EndCheck
  BY <1>0, <1>2, EndCheckDoes DEF EndCheck, TypeOK, Checks
<1>3. CASE Restart
  <2>1. events' \in [Events -> Nat]
    BY <1>3, Counted DEF Restart, TypeOK, Events
  <2> QED
    BY <1>0, <1>3, <2>1 DEF Restart, TypeOK, Checks, NoTimes
<1>4. CASE Tick
  BY <1>4 DEF Tick, TypeOK
<1>5. ASSUME NEW i \in Ids, Evaluate(i) PROVE TypeOK'
  <2>1. check.now \in Nat /\ Started(i) \in Nat
    BY StartedTyped DEF TypeOK, Checks
  <2>2. CASE FindKept(i)
    BY <1>0, <1>5, <2>2 DEF FindKept, TypeOK, Checks
  <2>3. CASE FindError(i)
    BY <1>0, <1>5, <2>1, <2>3 DEF FindError, TypeOK, Checks
  <2>4. CASE FindBreached(i)
    <3>1. check' \in Checks /\ (check'.phase = "sending" <=> check'.rule \in Ids)
      BY <1>0, <1>5, <2>4 DEF Evaluate, FindBreached, TypeOK, Checks
    <3>2. since' \in [Ids -> Times] /\ due' \in [Ids -> Times] /\ breach' \in [Ids -> Times]
      BY <1>0, <2>1, <2>4 DEF FindBreached, TypeOK
    <3> QED
      BY <2>4, <3>1, <3>2 DEF FindBreached, TypeOK
  <2> QED
    BY <1>5, <2>2, <2>3, <2>4 DEF Evaluate
<1>6. ASSUME NEW i \in Ids, Deliver(i) PROVE TypeOK'
  BY <1>0, <1>6, DeliverDoes, NowIsTime DEF Deliver, TypeOK
<1>7. ASSUME NEW i \in Ids, DeliveryFails(i) PROVE TypeOK'
  BY <1>0, <1>7 DEF DeliveryFails, TypeOK, Checks
<1>8. ASSUME NEW i \in Ids, NEW d \in Durations, Create(i, d) PROVE TypeOK'
  <2>1. events' \in [Events -> Nat]
    BY <1>8, Counted DEF Create, TypeOK, Events
  <2>2. rules' \in [Ids -> RuleRows]
    BY <1>0, <1>8 DEF Create, TypeOK, RuleRows
  <2> QED
    BY <1>0, <1>8, <2>1, <2>2 DEF Create, TypeOK
<1>9. ASSUME NEW i \in Ids, Delete(i) \/ SetEnabled(i) PROVE TypeOK'
  <2>1. events' \in [Events -> Nat]
    BY <1>9, Counted DEF Delete, SetEnabled, TypeOK, Events
  <2> QED
    BY <1>9, <2>1, DeleteDoes DEF Delete, SetEnabled, TypeOK
<1>10. CASE UNCHANGED vars
  BY <1>10 DEF vars, TypeOK
<1> QED
  BY <1>1, <1>2, <1>3, <1>4, <1>5, <1>6, <1>7, <1>8, <1>9, <1>10, Steps

-----------------------------------------------------------------------------
(* The invariant                                                           *)

LEMMA MonitorInit == ASSUME Init PROVE MonitorInvariant
<1>1. TypeOK
  BY TypeInit
<1>2. \A i \in Ids : rules[i].last = -1
  BY DEF Init
<1>3. check.phase = "idle" /\ check.now = 0 /\ check.todo = {} /\ check.loaded = rules /\ clock = 0
  BY DEF Init
<1>4. MaxGap \in Nat
  BY MonitorAssumption
<1>5. TimesInvariant
  BY <1>2, <1>3, <1>4 DEF Init, TimesInvariant, NoTimes
<1>6. ProgressInvariant /\ FreshInvariant
  BY <1>3 DEF Init, ProgressInvariant, FreshInvariant, NoTimes, Active
<1>7. SustainedInvariant
  BY <1>3 DEF Init, SustainedInvariant, AlertIsSustained, NoTimes, Sending
<1>8. RecordedInvariant
  BY <1>2, <1>3 DEF Init, RecordedInvariant, CooldownKept, NoTimes, Active, Sending
<1>9. DueInvariant
  BY DEF Init, DueInvariant, DueOf, NoTimes
<1> QED
  BY <1>1, <1>5, <1>6, <1>7, <1>8, <1>9 DEF MonitorInvariant

LEMMA TimesStep == ASSUME TypeOK, TimesInvariant, [Next]_vars PROVE TimesInvariant'
<1> USE DEF TimesInvariant
<1>0. /\ MaxGap \in Nat /\ clock \in Nat /\ check.now \in Nat
      /\ Interval \in Nat \ {0} /\ check \in Checks
      /\ \A i \in Ids : rules[i].last \in Times /\ breach[i] \in Times /\ since[i] \in Times
  BY MonitorAssumption DEF TypeOK, Checks, RuleRows
<1>1. CASE StartCheck
  <2>1. /\ check'.now = clock /\ check'.loaded = rules /\ check.now <= clock
        /\ UNCHANGED <<clock, rules, breach>>
    BY <1>0, <1>1 DEF StartCheck, Checks
  <2>2. \A i \in Ids : since'[i] <= clock
    BY <1>0, <1>1 DEF StartCheck, Times
  <2> QED
    BY <1>0, <2>1, <2>2 DEF Times
<1>2. CASE EndCheck
  <2>1. /\ check'.now = check.now /\ check'.loaded = check.loaded
        /\ UNCHANGED <<clock, breach, since>>
    BY <1>0, <1>2 DEF EndCheck, Checks
  <2>2. \A i \in Ids : \/ rules'[i].last = rules[i].last
                       \/ rules'[i].last = check.loaded[i].last
    BY <1>2, EndCheckDoes
  <2> QED
    BY <2>1, <2>2
<1>3. CASE Restart
  <2>1. check'.now = check.now /\ check'.loaded = check.loaded /\ UNCHANGED <<clock, rules>>
    BY <1>0, <1>3 DEF Restart, Checks
  <2>2. \A i \in Ids : breach'[i] = -1 /\ since'[i] = -1
    BY <1>3 DEF Restart, NoTimes
  <2> QED
    BY <1>0, <2>1, <2>2
<1>4. CASE Tick
  BY <1>0, <1>4 DEF Tick
<1>5. ASSUME NEW i \in Ids, Evaluate(i) PROVE TimesInvariant'
  <2>1. check'.now = check.now /\ check'.loaded = check.loaded /\ UNCHANGED <<clock, rules>>
    BY <1>0, <1>5 DEF Evaluate, FindKept, FindError, FindBreached, Checks
  <2>2. \A j \in Ids : breach'[j] <= check.now
    BY <1>0, <1>5 DEF Evaluate, FindKept, FindError, FindBreached, Started, TypeOK
  <2>3. \A j \in Ids : since'[j] <= check.now
    BY <1>0, <1>5 DEF Evaluate, FindKept, FindError, FindBreached, TypeOK
  <2> QED
    BY <2>1, <2>2, <2>3
<1>6. ASSUME NEW i \in Ids, Deliver(i) PROVE TimesInvariant'
  <2>1. \A j \in Ids : breach'[j] <= check.now
    BY <1>0, <1>6 DEF Deliver, TypeOK
  <2>2. \A j \in Ids : check'.loaded[j].last \in {check.now, check.loaded[j].last}
    BY <1>6, DeliverDoes
  <2>3. check'.now = check.now /\ UNCHANGED <<clock, rules, since>>
    BY <1>6, DeliverDoes DEF Deliver
  <2> QED
    BY <1>0, <2>1, <2>2, <2>3
<1>7. ASSUME NEW i \in Ids, DeliveryFails(i) PROVE TimesInvariant'
  <2>1. /\ check'.now = check.now /\ check'.loaded = check.loaded
        /\ UNCHANGED <<clock, rules, breach, since>>
    BY <1>0, <1>7 DEF DeliveryFails, Checks
  <2> QED
    BY <2>1
<1>8. ASSUME NEW i \in Ids, NEW d \in Durations, Create(i, d) PROVE TimesInvariant'
  <2>1. \A j \in Ids : rules'[j].last <= check.now
    BY <1>0, <1>8 DEF Create, TypeOK
  <2>2. \A j \in Ids : since'[j] <= check.now
    BY <1>0, <1>8 DEF Create, TypeOK
  <2> QED
    BY <1>8, <2>1, <2>2 DEF Create
<1>9. ASSUME NEW i \in Ids, Delete(i) \/ SetEnabled(i) PROVE TimesInvariant'
  <2>1. UNCHANGED <<check, clock, breach, since>>
    BY <1>9 DEF Delete, SetEnabled
  <2> QED
    BY <1>9, <2>1, DeleteDoes
<1>10. CASE UNCHANGED vars
  BY <1>10 DEF vars
<1> QED
  BY <1>1, <1>2, <1>3, <1>4, <1>5, <1>6, <1>7, <1>8, <1>9, <1>10, Steps

LEMMA ProgressStep == ASSUME TypeOK, ProgressInvariant, [Next]_vars PROVE ProgressInvariant'
<1> USE DEF ProgressInvariant, Active
<1>0. 0 \notin Ids /\ check \in Checks /\ check.todo \subseteq Ids /\ check.dirty \subseteq Ids
  BY MonitorAssumption DEF TypeOK, Checks, Ids
<1>1. CASE StartCheck
  <2>1. check'.dirty = {} /\ check'.rule = check.rule /\ check'.todo \subseteq Ids /\ check.rule \notin Ids
    BY <1>0, <1>1 DEF StartCheck, Checks, TypeOK
  <2> QED
    BY <2>1
<1>2. CASE EndCheck \/ Restart
  BY <1>0, <1>2 DEF EndCheck, Restart, Checks
<1>3. ASSUME NEW i \in Ids, Evaluate(i) PROVE ProgressInvariant'
  <2>1. /\ check.phase = "running" /\ i \in check.todo /\ check'.todo = check.todo \ {i}
        /\ check'.dirty = check.dirty /\ check'.rule \in {check.rule, i}
    BY <1>0, <1>3 DEF Evaluate, FindKept, FindError, FindBreached, Checks
  <2> QED
    BY <2>1
<1>4. ASSUME NEW i \in Ids, Deliver(i) PROVE ProgressInvariant'
  <2>1. check.phase = "sending" /\ check.rule = i
    BY <1>4 DEF Deliver
  <2> QED
    BY <1>0, <1>4, <2>1, DeliverDoes
<1>5. ASSUME NEW i \in Ids, DeliveryFails(i) PROVE ProgressInvariant'
  BY <1>0, <1>5 DEF DeliveryFails, Checks
<1>6. CASE UNCHANGED check
  BY <1>6
<1> QED
  BY <1>1, <1>2, <1>3, <1>4, <1>5, <1>6, Steps DEF Create, Delete, SetEnabled, Tick, vars

(* Counts only grow, and every call is counted.                            *)
LEMMA EventsGrow ==
  ASSUME TypeOK, [Next]_vars
  PROVE  /\ \A e \in Events : events'[e] = 0 => events[e] = 0
         /\ Restart => events'["restart"] # 0
         /\ \A i \in Ids : (Delete(i) => events'["delete"] # 0) /\ (SetEnabled(i) => events'["switch"] # 0)
<1>1. events \in [Events -> Nat] /\ Events = {"create", "delete", "switch", "restart"}
  BY DEF TypeOK, Events
<1>2. ASSUME NEW e \in Events, Count(e)
      PROVE  events'[e] # 0 /\ \A f \in Events : events'[f] = 0 => events[f] = 0
  BY <1>1, <1>2, Counted
<1>3. Restart => Count("restart")
  BY DEF Restart
<1>4. /\ \A i \in Ids : Delete(i) => Count("delete")
      /\ \A i \in Ids : SetEnabled(i) => Count("switch")
      /\ \A i \in Ids, d \in Durations : Create(i, d) => Count("create")
  BY DEF Delete, SetEnabled, Create
<1>5. (StartCheck \/ EndCheck \/ Tick \/ UNCHANGED vars) => events' = events
  BY DEF StartCheck, EndCheck, Tick, vars
<1>6. \A i \in Ids : (Evaluate(i) \/ Deliver(i) \/ DeliveryFails(i)) => events' = events
  BY DEF Evaluate, FindKept, FindError, FindBreached, Deliver, DeliveryFails
<1>7. (\E e \in Events : Count(e)) \/ events' = events
  BY <1>1, <1>3, <1>4, <1>5, <1>6, Steps
<1>8. \A e \in Events : events'[e] = 0 => events[e] = 0
  BY <1>2, <1>7
<1>9. Restart => events'["restart"] # 0
  BY <1>1, <1>2, <1>3
<1>10. \A i \in Ids : (Delete(i) => events'["delete"] # 0) /\ (SetEnabled(i) => events'["switch"] # 0)
  BY <1>1, <1>2, <1>4
<1> QED
  BY <1>8, <1>9, <1>10

LEMMA FreshStep == ASSUME TypeOK, FreshInvariant, [Next]_vars PROVE FreshInvariant'
<1>0. SUFFICES ASSUME events'["delete"] = 0, NEW j \in Ids, ~rules'[j].exists
               PROVE  /\ breach'[j] = -1
                      /\ Active' => j \notin check'.todo /\ j \notin check'.dirty /\ check'.rule # j
  BY DEF FreshInvariant
<1>1. events["delete"] = 0 /\ check \in Checks /\ rules \in [Ids -> RuleRows] /\ 0 \notin Ids
  BY <1>0, EventsGrow, MonitorAssumption DEF Events, TypeOK, Ids
<1>2. ASSUME ~rules[j].exists
      PROVE  breach[j] = -1 /\ (Active => j \notin check.todo /\ j \notin check.dirty /\ check.rule # j)
  BY <1>1, <1>2 DEF FreshInvariant
<1>3. CASE StartCheck
  <2>1. ~rules[j].exists /\ breach' = breach /\ ~On(j)
    BY <1>0, <1>3 DEF StartCheck, On
  <2>2. check'.todo = {i \in Ids : On(i)} /\ check'.dirty = {} /\ check'.rule = check.rule /\ check.rule \notin Ids
    BY <1>1, <1>3 DEF StartCheck, Checks, TypeOK
  <2> QED
    BY <1>2, <2>1, <2>2
<1>4. CASE EndCheck
  <2>1. ~rules[j].exists /\ breach' = breach /\ ~Active'
    BY <1>0, <1>1, <1>4, EndCheckDoes DEF EndCheck, Active, Checks
  <2> QED
    BY <1>2, <2>1
<1>5. CASE Restart
  BY <1>1, <1>5 DEF Restart, Active, Checks, NoTimes
<1>6. ASSUME NEW i \in Ids, Evaluate(i)
      PROVE  /\ breach'[j] = -1
             /\ Active' => j \notin check'.todo /\ j \notin check'.dirty /\ check'.rule # j
  <2>1. ~rules[j].exists /\ Active /\ i \in check.todo
    BY <1>0, <1>6 DEF Evaluate, FindKept, FindError, FindBreached, Active
  <2>2. i # j
    BY <1>2, <2>1
  <2>3. check'.todo = check.todo \ {i} /\ check'.dirty = check.dirty /\ check'.rule \in {check.rule, i}
    BY <1>1, <1>6 DEF Evaluate, FindKept, FindError, FindBreached, Checks
  <2>4. breach'[j] = breach[j]
    BY <1>6, <2>2 DEF Evaluate, FindKept, FindError, FindBreached, TypeOK
  <2> QED
    BY <1>2, <2>1, <2>2, <2>3, <2>4
<1>7. ASSUME NEW i \in Ids, Deliver(i)
      PROVE  /\ breach'[j] = -1
             /\ Active' => j \notin check'.todo /\ j \notin check'.dirty /\ check'.rule # j
  <2>1. ~rules[j].exists /\ Active /\ i = check.rule
    BY <1>0, <1>7 DEF Deliver, Active
  <2>2. i # j
    BY <1>2, <2>1
  <2>3. breach'[j] = breach[j]
    BY <1>7, <2>2 DEF Deliver, TypeOK
  <2> QED
    BY <1>1, <1>2, <1>7, <2>1, <2>2, <2>3, DeliverDoes
<1>8. ASSUME NEW i \in Ids, DeliveryFails(i)
      PROVE  /\ breach'[j] = -1
             /\ Active' => j \notin check'.todo /\ j \notin check'.dirty /\ check'.rule # j
  <2>1. ~rules[j].exists /\ Active /\ breach' = breach
    BY <1>0, <1>8 DEF DeliveryFails, Active
  <2>2. check'.todo = check.todo /\ check'.dirty = check.dirty /\ check'.rule = 0
    BY <1>1, <1>8 DEF DeliveryFails, Checks
  <2> QED
    BY <1>1, <1>2, <2>1, <2>2
<1>9. ASSUME NEW i \in Ids, NEW d \in Durations, Create(i, d)
      PROVE  ~rules[j].exists /\ UNCHANGED <<breach, check>>
  BY <1>0, <1>1, <1>9 DEF Create
<1>10. ASSUME NEW i \in Ids, Delete(i) \/ SetEnabled(i)
       PROVE  ~rules[j].exists /\ UNCHANGED <<breach, check>>
  <2>1. ~Delete(i)
    BY <1>0, EventsGrow
  <2>2. rules'[j].exists = rules[j].exists
    BY <1>10, <2>1, DeleteDoes
  <2> QED
    BY <1>0, <1>10, <2>1, <2>2 DEF SetEnabled
<1>11. CASE Tick \/ UNCHANGED vars
  BY <1>0, <1>2, <1>11 DEF Tick, vars, Active
<1> QED
  BY <1>2, <1>3, <1>4, <1>5, <1>6, <1>7, <1>8, <1>9, <1>10, <1>11, Steps DEF Active

LEMMA SustainedStep ==
  ASSUME TypeOK, TimesInvariant, FreshInvariant, SustainedInvariant, [Next]_vars
  PROVE  SustainedInvariant'
<1>0. SUFFICES ASSUME events'["switch"] = 0, events'["delete"] = 0
               PROVE  SustainedInvariant'
  BY DEF SustainedInvariant
<1>1. events["switch"] = 0 /\ events["delete"] = 0
  BY <1>0, EventsGrow DEF Events
<1>2. /\ \A j \in Ids : rules[j].exists => rules[j].enabled
      /\ \A j \in Ids : breach[j] # -1 => since[j] # -1 /\ since[j] <= breach[j]
      /\ Sending => ground # -1 /\ check.now - ground >= check.loaded[check.rule].duration
  BY <1>1 DEF SustainedInvariant, AlertIsSustained
<1>3. /\ check \in Checks /\ rules \in [Ids -> RuleRows] /\ since \in [Ids -> Times]
      /\ breach \in [Ids -> Times]
  BY DEF TypeOK
<1>4. CASE StartCheck
  <2>1. ~Sending' /\ UNCHANGED <<rules, breach>>
    BY <1>3, <1>4 DEF StartCheck, Sending, Checks
  <2>2. ASSUME NEW j \in Ids, breach[j] # -1 PROVE since'[j] = since[j]
    <3>1. rules[j].exists
      BY <1>1, <2>2 DEF FreshInvariant
    <3> QED
      BY <1>2, <1>4, <3>1 DEF StartCheck, On
  <2> QED
    BY <1>2, <2>1, <2>2 DEF SustainedInvariant, AlertIsSustained
<1>5. CASE EndCheck
  <2>1. ~Sending' /\ UNCHANGED <<breach, since>>
    BY <1>3, <1>5 DEF EndCheck, Sending, Checks
  <2>2. \A j \in Ids : rules'[j].exists = rules[j].exists /\ rules'[j].enabled = rules[j].enabled
    BY <1>5, EndCheckDoes
  <2> QED
    BY <1>2, <2>1, <2>2 DEF SustainedInvariant, AlertIsSustained
<1>6. CASE Restart
  BY <1>2, <1>3, <1>6
     DEF Restart, Sending, Checks, NoTimes, SustainedInvariant, AlertIsSustained
<1>7. ASSUME NEW i \in Ids, Evaluate(i), FindKept(i) \/ FindError(i)
      PROVE  SustainedInvariant'
  <2>1. ~Sending' /\ rules' = rules
    BY <1>3, <1>7 DEF Evaluate, FindKept, FindError, Sending, Checks
  <2>2. \A j \in Ids : \/ breach'[j] = -1
                       \/ breach'[j] = breach[j] /\ since'[j] = since[j]
    BY <1>3, <1>7 DEF FindKept, FindError
  <2> QED
    BY <1>2, <2>1, <2>2 DEF SustainedInvariant, AlertIsSustained
<1>8. ASSUME NEW i \in Ids, Evaluate(i), FindBreached(i)
      PROVE  SustainedInvariant'
  <2>1. /\ check.now \in Nat /\ Started(i) \in Nat /\ check.phase = "running"
        /\ check.loaded[i].duration \in Nat
    BY <1>8, StartedTyped, DurationsTyped DEF Evaluate, TypeOK, Checks
  <2>2. since'[i] \in Nat /\ since'[i] <= Started(i)
    BY <1>2, <1>3, <1>8, <2>1 DEF FindBreached, Started, Times, TimesInvariant
  <2>3. /\ breach'[i] = Started(i) /\ rules' = rules /\ ground' = since'[i]
        /\ check'.now = check.now /\ check'.loaded = check.loaded
        /\ Sending' => check'.rule = i /\ SustainedFor(i)
    BY <1>3, <1>8, <2>1 DEF FindBreached, Sending, Checks
  <2>4. \A j \in Ids \ {i} : breach'[j] = breach[j] /\ since'[j] = since[j]
    BY <1>3, <1>8 DEF FindBreached
  <2>5. Sending' => ground' # -1 /\ check'.now - ground' >= check'.loaded[check'.rule].duration
    BY <2>1, <2>2, <2>3 DEF SustainedFor
  <2>6. \A j \in Ids : breach'[j] # -1 => since'[j] # -1 /\ since'[j] <= breach'[j]
    BY <1>2, <2>2, <2>3, <2>4
  <2> QED
    BY <1>2, <2>3, <2>5, <2>6 DEF SustainedInvariant, AlertIsSustained
<1>9. ASSUME NEW i \in Ids, Deliver(i) PROVE SustainedInvariant'
  <2>1. ~Sending' /\ UNCHANGED <<rules, since>>
    BY <1>9, DeliverDoes DEF Deliver, Sending
  <2>2. \A j \in Ids : breach'[j] = -1 \/ breach'[j] = breach[j]
    BY <1>3, <1>9 DEF Deliver
  <2> QED
    BY <1>2, <2>1, <2>2 DEF SustainedInvariant, AlertIsSustained
<1>10. ASSUME NEW i \in Ids, DeliveryFails(i) PROVE SustainedInvariant'
  <2>1. ~Sending' /\ UNCHANGED <<rules, since, breach>>
    BY <1>3, <1>10 DEF DeliveryFails, Sending, Checks
  <2> QED
    BY <1>2, <2>1 DEF SustainedInvariant, AlertIsSustained
<1>11. ASSUME NEW i \in Ids, NEW d \in Durations, Create(i, d) PROVE SustainedInvariant'
  <2>1. ~rules[i].exists /\ rules'[i].enabled /\ UNCHANGED <<breach, check, ground>>
    BY <1>3, <1>11, MonitorAssumption DEF Create, Ids
  <2>2. \A j \in Ids \ {i} : rules'[j] = rules[j] /\ since'[j] = since[j]
    BY <1>3, <1>11 DEF Create
  <2>3. breach[i] = -1
    BY <1>1, <2>1 DEF FreshInvariant
  <2> QED
    BY <1>2, <2>1, <2>2, <2>3 DEF SustainedInvariant, AlertIsSustained, Sending
<1>12. ~\E i \in Ids : Delete(i) \/ SetEnabled(i)
  BY <1>0, EventsGrow
<1>13. CASE Tick \/ UNCHANGED vars
  BY <1>2, <1>13 DEF Tick, vars, Sending, SustainedInvariant, AlertIsSustained
<1> QED
  BY <1>4, <1>5, <1>6, <1>7, <1>8, <1>9, <1>10, <1>11, <1>12, <1>13, Steps
     DEF Evaluate
LEMMA RecordedStep ==
  ASSUME TypeOK, ProgressInvariant, FreshInvariant, RecordedInvariant, [Next]_vars
  PROVE  RecordedInvariant'
<1>0. SUFFICES ASSUME events'["delete"] = 0, events'["restart"] = 0
               PROVE  RecordedInvariant'
  BY DEF RecordedInvariant
<1>1. events["delete"] = 0 /\ events["restart"] = 0
  BY <1>0, EventsGrow DEF Events
<1>2. /\ \A j \in Ids : (Active /\ j \in check.dirty) \/ rules[j].last = alerted[j]
      /\ Active => \A j \in Ids :
           j \in check.todo \union check.dirty \union {check.rule} => check.loaded[j].last = alerted[j]
      /\ CooldownKept
  BY <1>1 DEF RecordedInvariant
<1>3. /\ check \in Checks /\ rules \in [Ids -> RuleRows] /\ alerted \in [Ids -> Times]
      /\ check.todo \subseteq Ids /\ check.dirty \subseteq Ids /\ 0 \notin Ids
      /\ Sending => check.rule \in Ids
  BY MonitorAssumption DEF TypeOK, Checks, Ids, Sending
<1> USE DEF RecordedInvariant, Active
<1>4. CASE StartCheck
  <2>1. /\ check'.phase = "running" /\ check'.dirty = {} /\ check'.loaded = rules
        /\ check.phase = "idle" /\ UNCHANGED <<rules, alerted>>
    BY <1>3, <1>4 DEF StartCheck, Checks
  <2>2. CooldownKept'
    BY <2>1 DEF CooldownKept, Sending
  <2> QED
    BY <1>2, <2>1, <2>2
<1>5. CASE EndCheck
  <2>1. check'.phase = "idle" /\ check.phase = "running" /\ UNCHANGED alerted
    BY <1>3, <1>5 DEF EndCheck, Checks
  <2>2. \A j \in check.dirty : rules[j].exists
    BY <1>1, <1>3, <2>1 DEF FreshInvariant
  <2>3. \A j \in Ids : IF j \in check.dirty THEN rules'[j].last = check.loaded[j].last
                       ELSE rules'[j].last = rules[j].last
    BY <1>5, <2>2, EndCheckDoes
  <2>4. CooldownKept'
    BY <2>1 DEF CooldownKept, Sending
  <2> QED
    BY <1>2, <2>1, <2>3, <2>4
<1>6. ~Restart
  BY <1>0, EventsGrow
<1>7. ASSUME NEW i \in Ids, Evaluate(i) PROVE RecordedInvariant'
  <2>1. /\ check'.todo = check.todo \ {i} /\ check'.dirty = check.dirty
        /\ check'.loaded = check.loaded /\ check'.now = check.now
        /\ check.phase = "running" /\ i \in check.todo
        /\ UNCHANGED <<rules, alerted>>
    BY <1>3, <1>7 DEF Evaluate, FindKept, FindError, FindBreached, Checks
  <2>2. \/ check'.phase = "running" /\ check'.rule = check.rule
        \/ check'.phase = "sending" /\ check'.rule = i /\ CooledDown(i)
    BY <1>3, <1>7, <2>1 DEF Evaluate, FindKept, FindError, FindBreached, Checks
  <2>3. check.loaded[i].last = alerted[i]
    BY <1>2, <2>1
  <2>4. CooldownKept'
    BY <2>1, <2>2, <2>3 DEF CooldownKept, CooledDown, Sending
  <2> QED
    BY <1>2, <2>1, <2>2, <2>4
<1>8. ASSUME NEW i \in Ids, Deliver(i) PROVE RecordedInvariant'
  <2>1. /\ check.phase = "sending" /\ check.rule = i /\ rules' = rules
        /\ alerted'[i] = check.now /\ \A j \in Ids \ {i} : alerted'[j] = alerted[j]
    BY <1>3, <1>8 DEF Deliver
  <2>2. CooldownKept'
    BY <1>8, DeliverDoes DEF CooldownKept, Sending
  <2>3. \A j \in Ids : j \in check'.todo \union check'.dirty \union {check'.rule} =>
           check'.loaded[j].last = alerted'[j]
    BY <1>2, <1>3, <1>8, <2>1, DeliverDoes
  <2>4. \A j \in Ids : (Active' /\ j \in check'.dirty) \/ rules'[j].last = alerted'[j]
    BY <1>2, <1>8, <2>1, DeliverDoes
  <2> QED
    BY <2>2, <2>3, <2>4
<1>9. ASSUME NEW i \in Ids, DeliveryFails(i) PROVE RecordedInvariant'
  <2>1. /\ check'.phase = "running" /\ check'.rule = 0 /\ check'.todo = check.todo
        /\ check'.dirty = check.dirty /\ check'.loaded = check.loaded
        /\ check.phase = "sending" /\ UNCHANGED <<rules, alerted>>
    BY <1>3, <1>9 DEF DeliveryFails, Checks
  <2>2. CooldownKept'
    BY <2>1 DEF CooldownKept, Sending
  <2> QED
    BY <1>2, <1>3, <2>1, <2>2
<1>10. ASSUME NEW i \in Ids, NEW d \in Durations, Create(i, d) PROVE RecordedInvariant'
  <2>1. ~rules[i].exists /\ rules'[i].last = -1 /\ alerted'[i] = -1 /\ check' = check
    BY <1>3, <1>10, MonitorAssumption DEF Create, Ids
  <2>2. \A j \in Ids \ {i} : rules'[j] = rules[j] /\ alerted'[j] = alerted[j]
    BY <1>3, <1>10 DEF Create
  <2>3. Active => i \notin check.todo /\ i \notin check.dirty /\ check.rule # i
    BY <1>1, <2>1 DEF FreshInvariant
  <2>4. CooldownKept'
    BY <1>2, <1>3, <2>1, <2>2, <2>3 DEF CooldownKept, Sending
  <2> QED
    BY <1>2, <2>1, <2>2, <2>3, <2>4
<1>11. ASSUME NEW i \in Ids, Delete(i) \/ SetEnabled(i) PROVE RecordedInvariant'
  <2>1. UNCHANGED <<check, alerted>> /\ \A j \in Ids : rules'[j].last = rules[j].last
    BY <1>11, DeleteDoes DEF Delete, SetEnabled
  <2>2. CooldownKept'
    BY <1>2, <2>1 DEF CooldownKept, Sending
  <2> QED
    BY <1>2, <2>1, <2>2
<1>12. CASE Tick \/ UNCHANGED vars
  <2>1. UNCHANGED <<check, rules, alerted>>
    BY <1>12 DEF Tick, vars
  <2>2. CooldownKept'
    BY <1>2, <2>1 DEF CooldownKept, Sending
  <2> QED
    BY <1>2, <2>1, <2>2
<1> QED
  BY <1>4, <1>5, <1>6, <1>7, <1>8, <1>9, <1>10, <1>11, <1>12, Steps
(* A rule that is due from now on needs no excuse.                         *)
LEMMA NewlyDue ==
  ASSUME NEW r \in RuleRows
  PROVE  Larger(Cooldown, r.duration + MaxGap) \in Nat /\ 0 < Larger(Cooldown, r.duration + MaxGap)
<1>1. r.duration \in Nat /\ Cooldown \in Nat /\ MaxGap \in Nat /\ MaxGap > 0
  BY DurationsTyped, MonitorAssumption
<1> QED
  BY <1>1 DEF Larger

LEMMA DueStep ==
  ASSUME TypeOK, TimesInvariant, ProgressInvariant, DueInvariant, [Next]_vars
  PROVE  DueInvariant'
<1>1. /\ check \in Checks /\ check.now \in Nat /\ clock \in Nat /\ MaxGap \in Nat /\ Cooldown \in Nat
      /\ rules \in [Ids -> RuleRows] /\ breach \in [Ids -> Times] /\ due \in [Ids -> Times]
      /\ check.todo \subseteq Ids /\ check.dirty \subseteq Ids /\ 0 \notin Ids
      /\ check.loaded \in [Ids -> RuleRows]
      /\ check.phase = "sending" <=> check.rule \in Ids
  BY MonitorAssumption DEF TypeOK, Checks, Ids
<1>2. \A j \in Ids : rules[j].last \in Times /\ check.loaded[j].last \in Times
  BY <1>1 DEF RuleRows
<1>3. \A j \in Ids : rules[j].duration \in Nat /\ check.loaded[j].duration \in Nat
  BY <1>1, DurationsTyped
<1>4. \A j \in Ids : rules[j].last <= check.now /\ check.loaded[j].last <= check.now /\ breach[j] <= check.now
  BY DEF TimesInvariant
<1>5. \A j \in Ids : DueOf(j)
  BY DEF DueInvariant
<1>6. CASE StartCheck
  <2>1. /\ check'.phase = "running" /\ check'.dirty = {} /\ check'.loaded = rules /\ check'.now = clock
        /\ check'.todo = {k \in Ids : On(k)}
        /\ check.phase = "idle" /\ UNCHANGED <<rules, breach>>
    BY <1>1, <1>6 DEF StartCheck, Checks
  <2>2. ASSUME NEW j \in Ids, due'[j] # -1 PROVE DueOf(j)'
    <3>1. due'[j] = due[j] /\ On(j)
      BY <1>6, <2>2 DEF StartCheck
    <3>2. /\ rules[j].last <= due[j] /\ due[j] <= check.now
          /\ breach[j] <= due[j] + MaxGap /\ (breach[j] = -1 => check.now <= due[j])
      BY <1>5, <2>1, <2>2, <3>1 DEF DueOf, Active
    <3>3. check.now <= clock /\ clock <= check.now + MaxGap /\ due[j] \in Int
      BY <1>1 DEF TimesInvariant, Times
    <3>4. (breach[j] = -1 => clock <= due[j] + MaxGap) /\ due[j] <= clock
      BY <1>1, <3>2, <3>3
    <3> QED
      BY <2>1, <3>1, <3>2, <3>4 DEF DueOf, Active
  <2> QED
    BY <2>2 DEF DueInvariant, DueOf
<1>7. CASE EndCheck
  <2>1. /\ check'.phase = "idle" /\ check'.now = check.now /\ check.todo = {} /\ check.phase = "running"
        /\ UNCHANGED <<due, breach>>
    BY <1>1, <1>7 DEF EndCheck, Checks
  <2>2. ASSUME NEW j \in Ids, due[j] # -1 PROVE DueOf(j)'
    <3>1. rules'[j].duration = rules[j].duration
      BY <1>7, EndCheckDoes
    <3>2. rules'[j].last <= due[j]
      BY <1>5, <1>7, <2>1, <2>2, EndCheckDoes DEF DueOf, Active
    <3>3. Explained(j) /\ (breach[j] = -1 => check.now <= due[j])
      BY <1>5, <2>1, <2>2 DEF DueOf, Sending
    <3>4. due[j] <= check.now /\ breach[j] <= due[j] + MaxGap
      BY <1>5, <2>2 DEF DueOf
    <3> QED
      BY <2>1, <3>1, <3>2, <3>3, <3>4 DEF DueOf, Active, Explained
  <2> QED
    BY <2>1, <2>2 DEF DueInvariant, DueOf
<1>8. CASE Restart
  BY <1>8 DEF Restart, NoTimes, DueInvariant, DueOf
(* What the evaluation or the alert of one rule leaves to the others.      *)
<1>9. ASSUME NEW i \in Ids, NEW j \in Ids, i # j, Evaluate(i) \/ Deliver(i) \/ DeliveryFails(i)
      PROVE  DueOf(j)'
  <2>1. /\ rules' = rules /\ due'[j] = due[j] /\ breach'[j] = breach[j]
        /\ check'.now = check.now /\ check'.loaded[j] = check.loaded[j]
        /\ Active /\ Active'
        /\ (j \in check'.todo <=> j \in check.todo) /\ (j \in check'.dirty <=> j \in check.dirty)
        /\ ~(Sending /\ check.rule = j)
    <3>1. CASE Evaluate(i)
      <4>1. /\ rules' = rules /\ due'[j] = due[j] /\ breach'[j] = breach[j]
            /\ check.phase = "running"
        BY <1>1, <1>9, <3>1 DEF Evaluate, FindKept, FindError, FindBreached
      <4>2. /\ check'.phase \in {"running", "sending"} /\ check'.now = check.now
            /\ check'.loaded = check.loaded
            /\ check'.todo = check.todo \ {i} /\ check'.dirty = check.dirty
        BY <1>1, <3>1 DEF Evaluate, FindKept, FindError, FindBreached, Checks
      <4> QED
        BY <1>9, <4>1, <4>2 DEF Active, Sending
    <3>2. CASE Deliver(i)
      <4>1. /\ rules' = rules /\ due'[j] = due[j] /\ breach'[j] = breach[j]
            /\ check.phase = "sending" /\ check.rule = i
        BY <1>1, <1>9, <3>2 DEF Deliver
      <4> QED
        BY <1>9, <3>2, <4>1, DeliverDoes DEF Active, Sending
    <3>3. CASE DeliveryFails(i)
      <4>1. /\ rules' = rules /\ due'[j] = due[j] /\ breach' = breach
            /\ check.phase = "sending" /\ check.rule = i
        BY <1>1, <1>9, <3>3 DEF DeliveryFails
      <4>2. /\ check'.phase = "running" /\ check'.now = check.now /\ check'.loaded = check.loaded
            /\ check'.todo = check.todo /\ check'.dirty = check.dirty
        BY <1>1, <3>3 DEF DeliveryFails, Checks
      <4> QED
        BY <1>9, <4>1, <4>2 DEF Active, Sending
    <3> QED
      BY <1>9, <3>1, <3>2, <3>3
  <2>2. due[j] # -1 => (IF Active /\ j \in check.todo THEN TRUE ELSE Explained(j))
    BY <1>5, <2>1 DEF DueOf
  <2> QED
    BY <1>5, <2>1, <2>2 DEF DueOf, Explained
<1>10. ASSUME NEW i \in Ids, due'[i] = check.now, check'.now = check.now, rules' = rules,
              i \notin check'.todo, breach'[i] <= check.now, check'.loaded[i].last <= check.now
       PROVE  DueOf(i)'
  <2>1. Explained(i)'
    BY <1>1, <1>10, NewlyDue DEF Explained
  <2>2. rules'[i].last <= check.now /\ breach'[i] <= check.now + MaxGap
    <3>1. rules[i].last <= check.now /\ breach'[i] \in Times
      BY <1>4, TypeStep DEF TypeOK
    <3> QED
      BY <1>1, <1>10, <3>1 DEF Times
  <2> QED
    BY <1>1, <1>10, <2>1, <2>2 DEF DueOf
<1>11. ASSUME NEW i \in Ids, Evaluate(i) PROVE DueOf(i)'
  <2>1. /\ check.phase = "running" /\ i \in check.todo /\ check'.todo = check.todo \ {i}
        /\ check'.now = check.now /\ check'.loaded = check.loaded /\ check'.dirty = check.dirty
        /\ rules' = rules
    BY <1>1, <1>11 DEF Evaluate, FindKept, FindError, FindBreached, Checks
  <2>2. check.loaded[i].last <= check.now /\ breach[i] <= check.now /\ Started(i) \in Nat /\ Started(i) <= check.now
    BY <1>1, <1>4, StartedTyped DEF Started
  <2>3. CASE FindKept(i)
    BY <1>1, <2>3 DEF FindKept, DueOf
  <2>4. CASE FindError(i)
    <3>1. breach' = breach /\ due'[i] \in {-1, check.now}
      BY <1>1, <2>4 DEF FindError
    <3>2. CASE due'[i] = -1
      BY <3>2 DEF DueOf
    <3>3. CASE due'[i] = check.now
      BY <1>10, <2>1, <2>2, <3>1, <3>3
    <3> QED
      BY <3>1, <3>2, <3>3
  <2>5. CASE FindBreached(i)
    <3>1. /\ breach'[i] = Started(i)
          /\ due'[i] = IF due[i] = -1 THEN check.now ELSE due[i]
          /\ (SustainedFor(i) /\ CooledDown(i)) => check'.phase = "sending" /\ check'.rule = i
      BY <1>1, <2>5 DEF FindBreached, Checks
    <3>2. CASE due[i] = -1
      BY <1>10, <2>1, <2>2, <3>1, <3>2
    <3>3. CASE due[i] # -1
      <4>1. /\ rules[i].last <= due[i] /\ due[i] <= check.now
            /\ breach[i] <= due[i] + MaxGap
            /\ check.loaded[i].duration = rules[i].duration
            /\ breach[i] = -1 => check.now <= due[i] + MaxGap
            /\ check.loaded[i].last <= due[i]
        BY <1>5, <2>1, <3>3 DEF DueOf, Active
      <4>2. due'[i] = due[i] /\ due[i] \in Nat
        BY <1>1, <3>1, <3>3 DEF Times
      <4>3. Started(i) <= due[i] + MaxGap
        BY <4>1 DEF Started
      <4>4. ASSUME ~SustainedFor(i) PROVE Explained(i)
        <5>1. check.now - due[i] < rules[i].duration + MaxGap
          BY <1>1, <1>3, <2>2, <4>1, <4>2, <4>3, <4>4 DEF SustainedFor
        <5> QED
          BY <1>1, <1>3, <4>2, <5>1 DEF Explained, Larger
      <4>5. ASSUME ~CooledDown(i) PROVE Explained(i)
        <5>1. check.now - due[i] < Cooldown
          BY <1>1, <1>2, <4>1, <4>2, <4>5 DEF CooledDown, Times
        <5> QED
          BY <1>1, <1>3, <4>2, <5>1 DEF Explained, Larger
      <4>6. Explained(i)' \/ (Sending /\ check.rule = i)'
        BY <2>1, <3>1, <4>2, <4>4, <4>5 DEF Sending, Explained
      <4>7. breach'[i] # -1 /\ breach'[i] <= due[i] + MaxGap
        BY <2>2, <3>1, <4>3
      <4> QED
        BY <2>1, <4>1, <4>2, <4>6, <4>7 DEF DueOf
    <3> QED
      BY <3>2, <3>3
  <2> QED
    BY <1>11, <2>3, <2>4, <2>5 DEF Evaluate
<1>12. ASSUME NEW i \in Ids, Deliver(i) PROVE DueOf(i)'
  <2>1. rules' = rules /\ due'[i] = check.now /\ breach'[i] = -1 /\ i = check.rule /\ Active
    BY <1>1, <1>12 DEF Deliver, Active
  <2>2. i \notin check.todo
    BY <2>1 DEF ProgressInvariant
  <2> QED
    BY <1>1, <1>10, <1>12, <2>1, <2>2, DeliverDoes
<1>13. ASSUME NEW i \in Ids, DeliveryFails(i) PROVE DueOf(i)'
  <2>1. /\ rules' = rules /\ due'[i] = check.now /\ breach' = breach /\ i = check.rule /\ Active
        /\ check'.todo = check.todo /\ check'.loaded = check.loaded /\ check'.now = check.now
    BY <1>1, <1>13 DEF DeliveryFails, Active, Checks
  <2>2. i \notin check.todo
    BY <2>1 DEF ProgressInvariant
  <2> QED
    BY <1>4, <1>10, <2>1, <2>2
<1>14. ASSUME NEW i \in Ids, Evaluate(i) \/ Deliver(i) \/ DeliveryFails(i) PROVE DueInvariant'
  BY <1>9, <1>11, <1>12, <1>13, <1>14 DEF DueInvariant
<1>15. ASSUME NEW i \in Ids, NEW d \in Durations, Create(i, d) PROVE DueInvariant'
  <2>1. due'[i] = -1 /\ UNCHANGED <<check, breach>>
    BY <1>1, <1>15 DEF Create
  <2>2. \A j \in Ids \ {i} : rules'[j] = rules[j] /\ due'[j] = due[j]
    BY <1>1, <1>15 DEF Create
  <2>3. ASSUME NEW j \in Ids, j # i PROVE DueOf(j)'
    BY <1>5, <2>1, <2>2, <2>3 DEF DueOf, Active, Explained, Sending
  <2>4. DueOf(i)'
    BY <2>1 DEF DueOf
  <2> QED
    BY <2>3, <2>4 DEF DueInvariant
<1>16. ASSUME NEW i \in Ids, Delete(i) \/ SetEnabled(i) PROVE DueInvariant'
  <2>1. UNCHANGED <<check, breach, due>>
    BY <1>16 DEF Delete, SetEnabled
  <2>2. \A j \in Ids : rules'[j].last = rules[j].last /\ rules'[j].duration = rules[j].duration
    BY <1>16, DeleteDoes
  <2>3. ASSUME NEW j \in Ids PROVE DueOf(j)'
    BY <1>5, <2>1, <2>2 DEF DueOf, Active, Explained, Sending
  <2> QED
    BY <2>3 DEF DueInvariant
<1>17. CASE Tick \/ UNCHANGED vars
  <2>1. UNCHANGED <<check, breach, due, rules>>
    BY <1>17 DEF Tick, vars
  <2>2. ASSUME NEW j \in Ids PROVE DueOf(j)'
    BY <1>5, <2>1 DEF DueOf, Active, Explained, Sending
  <2> QED
    BY <2>2 DEF DueInvariant
<1> QED
  BY <1>6, <1>7, <1>8, <1>14, <1>15, <1>16, <1>17, Steps

-----------------------------------------------------------------------------
(* The theorems                                                            *)

(* What the other theorems rest on: how rows, breaches and the check that  *)
(* runs hang together (monitor.py:32-75) is kept by every step.            *)
THEOREM MonitorInvariantHolds == Spec => []MonitorInvariant
<1>1. Init => MonitorInvariant
  BY MonitorInit
<1>2. MonitorInvariant /\ [Next]_vars => MonitorInvariant'
  BY TypeStep, TimesStep, ProgressStep, FreshStep, SustainedStep, RecordedStep, DueStep
     DEF MonitorInvariant
<1> QED
  BY <1>1, <1>2, PTL DEF Spec

(* The rules, the breaches and the check are what their types say.         *)
THEOREM MonitorTyped == Spec => []TypeOK
<1>1. MonitorInvariant => TypeOK
  BY DEF MonitorInvariant
<1> QED
  BY <1>1, MonitorInvariantHolds, PTL

(* An alert rests on a breach that lasted as long as the rule asks for     *)
(* (monitor.py:52-58), where no rule was switched or deleted.              *)
THEOREM AlertsAreSustained == Spec => []AlertIsSustained
<1>1. MonitorInvariant => AlertIsSustained
  BY DEF MonitorInvariant, SustainedInvariant, AlertIsSustained
<1> QED
  BY <1>1, MonitorInvariantHolds, PTL

(* Alerts of a rule are a cooldown apart (monitor.py:60-63), where neither *)
(* a deletion nor a restart undid the commit of a check.                   *)
THEOREM CooldownHolds == Spec => []RepeatNeedsLostCommit
<1>1. MonitorInvariant => RepeatNeedsLostCommit
  BY DEF MonitorInvariant, RecordedInvariant, RepeatNeedsLostCommit
<1> QED
  BY <1>1, MonitorInvariantHolds, PTL

(* A rule that stays breached is silent no longer than its duration and    *)
(* the time between two checks, or the cooldown, explain                   *)
(* (monitor.py:52-71), whatever the tools do and whenever it restarts.     *)
THEOREM NoBreachIsSilent == Spec => []NoSilentBreach
<1>1. MonitorInvariant => NoSilentBreach
  BY DEF MonitorInvariant, DueInvariant, DueOf, NoSilentBreach, Active, Sending, Explained
<1> QED
  BY <1>1, MonitorInvariantHolds, PTL
=============================================================================
