---------------------- MODULE ConfirmationFlow_proofs ----------------------
(***************************************************************************)
(* Theorems about ConfirmationFlow, for all sets of actions, users and     *)
(* presses and all bounds.                                                 *)
(***************************************************************************)
EXTENDS ConfirmationFlow, TLAPS

(* The request of a press names an action and a user; a selected row       *)
(* exists and is its presser's; a handler that goes on has taken the row,  *)
(* and has run the tool if it was told to and has come that far. *)
Approved == {"notified", "running", "resuming ok", "auditing ok"}
HasRun   == {"running", "resuming ok", "auditing ok"}

PressOK(p) ==
  /\ pc[p] # "unused" => req[p] \in Requests
  /\ pc[p] = "selected" =>
       status[Target(p)] # "NONE" /\ owner[Target(p)] = req[p].user
  /\ pc[p] \in Deciding => winner[Target(p)] = p
  /\ pc[p] \in Approved => req[p].newStatus = "APPROVED"
  /\ pc[p] \in HasRun => runs[Target(p)] = 1

(* The press that took the row aimed at it, was its owner's, and nobody    *)
(* can take the row again. *)
WinnerOK(a) ==
  winner[a] # NoPress =>
    /\ status[a] \notin {"NONE", "PENDING"}
    /\ pc[winner[a]] \notin Undecided
    /\ req[winner[a]].action = a
    /\ req[winner[a]].user = owner[a]

(* The tool ran only for that press, and only after it was told to. *)
RunOK(a) ==
  \/ runs[a] = 0
  \/ /\ runs[a] = 1
     /\ winner[a] # NoPress
     /\ pc[winner[a]] \notin {"won", "notified"}
     /\ req[winner[a]].newStatus = "APPROVED"

(* The entry was written at the end of that press. *)
AuditOK(a) ==
  \/ audit[a] = << >>
  \/ /\ winner[a] # NoPress
     /\ pc[winner[a]] \in {"delivering", "finished", "dead"}
     /\ \E entry \in Entries :
          /\ audit[a] = <<entry>>
          /\ entry = "denied" <=> req[winner[a]].newStatus = "DENIED"
          /\ entry = "succeeded" => runs[a] = 1

(* What the sweep has selected had lapsed by then. *)
SweptOK(a) == status[a] # "NONE" /\ expires[a] <= clock

IndInv ==
  /\ TypeOK
  /\ \A p \in Presses : PressOK(p)
  /\ \A a \in Actions : WinnerOK(a) /\ RunOK(a) /\ AuditOK(a)
  /\ \A a \in swept : SweptOK(a)

-----------------------------------------------------------------------------
(* What the steps change                                                   *)

(* The type invariant is kept by every step. *)
LEMMA TypeStep == IndInv /\ [Next]_vars => TypeOK'
<1> SUFFICES ASSUME IndInv, [Next]_vars PROVE TypeOK'
  OBVIOUS
<1>a. TypeOK /\ \A p \in Presses : PressOK(p)
  BY DEF IndInv
<1>b. /\ "queued" \in Steps /\ "selected" \in Steps /\ "rejected" \in Steps
      /\ "won" \in Steps /\ "notified" \in Steps /\ "running" \in Steps
      /\ "resuming ok" \in Steps /\ "resuming error" \in Steps
      /\ "auditing ok" \in Steps /\ "auditing error" \in Steps
      /\ "delivering" \in Steps /\ "finished" \in Steps
      /\ "aborted" \in Steps /\ "dead" \in Steps
  BY DEF Steps, Undecided, Deciding, Over
<1>c. \A p \in Presses : pc[p] # "unused" =>
        /\ Target(p) \in Actions
        /\ req[p].newStatus \in Statuses
  BY <1>a DEF PressOK, Requests, Verdicts, Statuses, Target
<1> USE ConfirmationAssumption, <1>a DEF TypeOK
<1>1. ASSUME NEW a \in Actions, NEW u \in Users, RequestConfirmation(a, u) PROVE TypeOK'
  BY <1>1 DEF RequestConfirmation, Create, Statuses, Cards
<1>2. ASSUME NEW a \in Actions, SendCard(a) \/ SendCardFails(a) PROVE TypeOK'
  BY <1>2 DEF SendCard, SendCardFails, row, Cards
<1>3. ASSUME NEW p \in Presses, Press(p) PROVE TypeOK'
  <2>1. PICK r \in Requests : req' = [req EXCEPT ![p] = r]
    BY <1>3 DEF Press
  <2>2. QED
    BY <1>3, <1>b, <2>1 DEF Press, row
<1>4. ASSUME NEW p \in Presses, ResolveSelect(p) PROVE TypeOK'
  BY <1>4, <1>b DEF ResolveSelect, row
<1>5. ASSUME NEW p \in Presses, ResolveUpdate(p) PROVE TypeOK'
  <2>1. pc' \in [Presses -> Steps]
    BY <1>5, <1>b DEF ResolveUpdate
  <2>2. status' \in [Actions -> Statuses]
    BY <1>5, <1>c DEF ResolveUpdate
  <2>3. winner' \in [Actions -> Presses \cup {NoPress}]
    BY <1>5 DEF ResolveUpdate
  <2>4. QED
    BY <1>5, <2>1, <2>2, <2>3 DEF ResolveUpdate
<1>6. ASSUME NEW p \in Presses, Notify(p) \/ NotifyFails(p) PROVE TypeOK'
  <2>1. pc' \in [Presses -> Steps]
    <3>1. CASE Notify(p)
      BY <3>1, <1>b DEF Notify
    <3>2. CASE NotifyFails(p)
      BY <3>2, <1>b DEF NotifyFails
    <3>3. QED
      BY <1>6, <3>1, <3>2
  <2>2. card' \in [Actions -> Cards]
    BY <1>6 DEF Notify, NotifyFails, Cards
  <2>3. QED
    BY <1>6, <2>1, <2>2 DEF Notify, NotifyFails, row
<1>7. ASSUME NEW p \in Presses, StartTool(p) PROVE TypeOK'
  <2>1. pc' \in [Presses -> Steps]
    BY <1>7, <1>b DEF StartTool
  <2>2. runs' \in [Actions -> Nat]
    BY <1>7, <1>c DEF StartTool
  <2>3. QED
    BY <1>7, <2>1, <2>2 DEF StartTool, row
<1>8. ASSUME NEW p \in Presses, RefuseTool(p) \/ FinishTool(p) \/ Resume(p) PROVE TypeOK'
  <2>1. CASE RefuseTool(p)
    BY <2>1, <1>b DEF RefuseTool, row
  <2>2. CASE FinishTool(p)
    <3>1. pc' \in [Presses -> Steps]
      BY <2>2, <1>b DEF FinishTool
    <3>2. QED
      BY <2>2, <3>1 DEF FinishTool, row
  <2>3. CASE Resume(p)
    <3>1. pc' \in [Presses -> Steps]
      BY <2>3, <1>b DEF Resume
    <3>2. QED
      BY <2>3, <3>1 DEF Resume, row
  <2>4. QED
    BY <1>8, <2>1, <2>2, <2>3
<1>9. ASSUME NEW p \in Presses, Audit(p) PROVE TypeOK'
  <2>1. PICK entry \in Entries : audit' = [audit EXCEPT ![Target(p)] = Append(@, entry)]
    BY <1>9 DEF Audit, Entries
  <2>2. audit' \in [Actions -> Seq(Entries)]
    <3>1. \A a \in Actions : Append(audit[a], entry) \in Seq(Entries)
      OBVIOUS
    <3>2. QED
      BY <2>1, <3>1
  <2>3. QED
    BY <1>9, <1>b, <2>2 DEF Audit, row
<1>10. ASSUME NEW p \in Presses, Deliver(p) PROVE TypeOK'
  <2>1. Target(p) \in Actions
    BY <1>10, <1>c DEF Deliver
  <2>2. CASE UNCHANGED <<row, card>>
    BY <1>10, <1>b, <2>2 DEF Deliver, row
  <2>3. CASE \E a \in Actions : /\ Create(a, owner[Target(p)])
                                /\ card' = [card EXCEPT ![a] = "sending"]
    <3>1. /\ status' \in [Actions -> Statuses]
          /\ owner' \in [Actions -> Users \cup {NoUser}]
          /\ expires' \in [Actions -> Nat]
          /\ card' \in [Actions -> Cards]
      BY <2>1, <2>3 DEF Create, Statuses, Cards
    <3>2. QED
      BY <1>10, <1>b, <3>1 DEF Deliver
  <2>4. QED
    BY <1>10, <2>2, <2>3 DEF Deliver
<1>11. ASSUME SweepSelect PROVE TypeOK'
  BY <1>11 DEF SweepSelect, Expired, row
<1>12. ASSUME SweepUpdate PROVE TypeOK'
  BY <1>12 DEF SweepUpdate, Statuses
<1>13. ASSUME Tick PROVE TypeOK'
  BY <1>13 DEF Tick, row
<1>14. ASSUME Restart PROVE TypeOK'
  <2>1. pc' \in [Presses -> Steps]
    BY <1>14, <1>b DEF Restart
  <2>2. card' \in [Actions -> Cards]
    BY <1>14 DEF Restart, Cards
  <2>3. QED
    BY <1>14, <2>1, <2>2 DEF Restart, row
<1>15. CASE UNCHANGED vars
  BY <1>15 DEF vars
<1>16. QED
  BY <1>1, <1>2, <1>3, <1>4, <1>5, <1>6, <1>7, <1>8, <1>9, <1>10, <1>11, <1>12,
     <1>13, <1>14, <1>15 DEF Next, PressStep

(* What is known of a press stays true.                                    *)
LEMMA PressStepOK ==
  ASSUME IndInv, [Next]_vars, NEW q \in Presses
  PROVE  PressOK(q)'
<1>a. /\ pc \in [Presses -> Steps] /\ req \in [Presses -> Requests \cup {NoRequest}]
      /\ status \in [Actions -> Statuses] /\ runs \in [Actions -> Nat]
      /\ owner \in [Actions -> Users \cup {NoUser}]
      /\ winner \in [Actions -> Presses \cup {NoPress}]
  BY DEF IndInv, TypeOK
<1>b. PressOK(q)
  BY DEF IndInv
<1>c. \A p \in Presses : pc[p] # "unused" =>
        Target(p) \in Actions /\ req[p].newStatus \in {"APPROVED", "DENIED"}
  BY DEF IndInv, PressOK, Requests, Verdicts, Target
<1> USE <1>a, <1>b DEF PressOK, Deciding, Approved, HasRun, Target
<1>1. ASSUME NEW a \in Actions, NEW u \in Users, RequestConfirmation(a, u) PROVE PressOK(q)'
  BY <1>1, <1>c DEF RequestConfirmation, Create
<1>2. ASSUME NEW a \in Actions, SendCard(a) \/ SendCardFails(a) PROVE PressOK(q)'
  BY <1>2 DEF SendCard, SendCardFails, row
<1>3. ASSUME NEW p \in Presses, Press(p) PROVE PressOK(q)'
  BY <1>3 DEF Press, row
<1>4. ASSUME NEW p \in Presses, ResolveSelect(p) PROVE PressOK(q)'
  BY <1>4, <1>c DEF ResolveSelect, MayResolve, row
<1>5. ASSUME NEW p \in Presses, ResolveUpdate(p) PROVE PressOK(q)'
  <2>1. CASE status[Target(p)] # "PENDING"
    BY <1>5, <1>c, <2>1 DEF ResolveUpdate
  <2>2. CASE status[Target(p)] = "PENDING"
    <3>1. winner[Target(p)] = NoPress
      BY <1>5, <1>c, <2>2 DEF ResolveUpdate, IndInv, WinnerOK
    <3>2. CASE q = p
      BY <1>5, <1>c, <2>2, <3>2 DEF ResolveUpdate
    <3>3. CASE q # p
      BY <1>5, <1>c, <2>2, <3>1, <3>3, ConfirmationAssumption DEF ResolveUpdate
    <3>4. QED
      BY <3>2, <3>3
  <2>3. QED
    BY <2>1, <2>2
<1>6. ASSUME NEW p \in Presses, Notify(p) \/ NotifyFails(p) PROVE PressOK(q)'
  BY <1>6, <1>c DEF Notify, NotifyFails, row
<1>7. ASSUME NEW p \in Presses, StartTool(p) PROVE PressOK(q)'
  <2>1. PressOK(p) /\ RunOK(Target(p))
    BY <1>7, <1>c DEF StartTool, IndInv
  <2>2. runs[Target(p)] = 0 /\ winner[Target(p)] = p
    BY <1>7, <2>1 DEF StartTool, RunOK
  <2>3. CASE q = p
    BY <1>7, <1>c, <2>1, <2>2, <2>3 DEF StartTool, row
  <2>4. CASE q # p
    BY <1>7, <1>c, <2>2, <2>4 DEF StartTool, row
  <2>5. QED
    BY <2>3, <2>4
<1>8. ASSUME NEW p \in Presses, RefuseTool(p) PROVE PressOK(q)'
  BY <1>8, <1>c DEF RefuseTool, row
<1>9. ASSUME NEW p \in Presses, FinishTool(p) PROVE PressOK(q)'
  BY <1>9, <1>c DEF FinishTool, row
<1>10. ASSUME NEW p \in Presses, Resume(p) PROVE PressOK(q)'
  BY <1>10, <1>c DEF Resume, row
<1>11. ASSUME NEW p \in Presses, Audit(p) PROVE PressOK(q)'
  BY <1>11, <1>c DEF Audit, row
<1>12. ASSUME NEW p \in Presses, Deliver(p) PROVE PressOK(q)'
  BY <1>12, <1>c DEF Deliver, Create, row
<1>13. ASSUME SweepSelect \/ Tick \/ UNCHANGED vars PROVE PressOK(q)'
  BY <1>13 DEF SweepSelect, Tick, row, vars
<1>14. ASSUME SweepUpdate PROVE PressOK(q)'
  BY <1>14, <1>c DEF SweepUpdate
<1>15. ASSUME Restart PROVE PressOK(q)'
  BY <1>15 DEF Restart, row, Over
<1>16. QED
  BY <1>1, <1>2, <1>3, <1>4, <1>5, <1>6, <1>7, <1>8, <1>9, <1>10, <1>11, <1>12,
     <1>13, <1>14, <1>15 DEF Next, PressStep

(* What is known of the press that took a row stays true.                  *)
LEMMA WinnerStepOK ==
  ASSUME IndInv, [Next]_vars, NEW a \in Actions
  PROVE  WinnerOK(a)'
<1>a. /\ pc \in [Presses -> Steps] /\ req \in [Presses -> Requests \cup {NoRequest}]
      /\ status \in [Actions -> Statuses] /\ runs \in [Actions -> Nat]
      /\ owner \in [Actions -> Users \cup {NoUser}]
      /\ audit \in [Actions -> Seq(Entries)]
      /\ winner \in [Actions -> Presses \cup {NoPress}]
  BY DEF IndInv, TypeOK
<1>b. WinnerOK(a) /\ RunOK(a) /\ AuditOK(a)
  BY DEF IndInv
<1>c. \A p \in Presses :
        /\ pc[p] # "unused" => Target(p) \in Actions /\ req[p].newStatus \in {"APPROVED", "DENIED"}
        /\ pc[p] = "selected" => owner[Target(p)] = req[p].user
        /\ pc[p] \in Deciding => winner[Target(p)] = p
        /\ pc[p] \in Approved => req[p].newStatus = "APPROVED"
        /\ pc[p] \in HasRun => runs[Target(p)] = 1
  BY DEF IndInv, PressOK, Requests, Verdicts, Target
<1> USE ConfirmationAssumption, <1>a, <1>b DEF WinnerOK, Undecided, Target
<1>1. ASSUME NEW b \in Actions, NEW u \in Users, RequestConfirmation(b, u) PROVE WinnerOK(a)'
  BY <1>1, <1>c DEF RequestConfirmation, Create
<1>2. ASSUME NEW b \in Actions, SendCard(b) \/ SendCardFails(b) PROVE WinnerOK(a)'
  BY <1>2, <1>c DEF SendCard, SendCardFails, row
<1>3. ASSUME NEW p \in Presses, Press(p) PROVE WinnerOK(a)'
  BY <1>3, <1>c DEF Press, row
<1>4. ASSUME NEW p \in Presses, ResolveSelect(p) PROVE WinnerOK(a)'
  BY <1>4, <1>c DEF ResolveSelect, row
<1>5. ASSUME NEW p \in Presses, ResolveUpdate(p) PROVE WinnerOK(a)'
  <2>1. CASE winner' = winner
    BY <1>5, <1>c, <2>1 DEF ResolveUpdate
  <2>2. CASE winner' # winner
    <3>1. status[Target(p)] = "PENDING" /\ Target(p) \in Actions
      BY <1>5, <1>c, <2>2 DEF ResolveUpdate
    <3>2. winner[Target(p)] = NoPress
      BY <3>1 DEF IndInv, WinnerOK
    <3>3. CASE a = Target(p)
      BY <1>5, <1>c, <3>1, <3>2, <3>3 DEF ResolveUpdate
    <3>4. CASE a # Target(p)
      BY <1>5, <1>c, <3>1, <3>4 DEF ResolveUpdate
    <3>5. QED
      BY <3>3, <3>4
  <2>3. QED
    BY <2>1, <2>2
<1>6. ASSUME NEW p \in Presses, Notify(p) \/ NotifyFails(p) PROVE WinnerOK(a)'
  <2>1. CASE Notify(p)
    BY <2>1, <1>c DEF Notify, row
  <2>2. CASE NotifyFails(p)
    BY <2>2, <1>c DEF NotifyFails, row
  <2>3. QED
    BY <1>6, <2>1, <2>2
<1>7. ASSUME NEW p \in Presses, StartTool(p) PROVE WinnerOK(a)'
  BY <1>7, <1>c DEF StartTool, row
<1>8. ASSUME NEW p \in Presses, RefuseTool(p) PROVE WinnerOK(a)'
  BY <1>8, <1>c DEF RefuseTool, row
<1>9. ASSUME NEW p \in Presses, FinishTool(p) PROVE WinnerOK(a)'
  BY <1>9, <1>c DEF FinishTool, row
<1>10. ASSUME NEW p \in Presses, Resume(p) PROVE WinnerOK(a)'
  BY <1>10, <1>c DEF Resume, row
<1>11. ASSUME NEW p \in Presses, Audit(p) PROVE WinnerOK(a)'
  BY <1>11, <1>c DEF Audit, row
<1>12. ASSUME NEW p \in Presses, Deliver(p) PROVE WinnerOK(a)'
  BY <1>12, <1>c DEF Deliver, Create, row
<1>13. ASSUME SweepSelect \/ Tick \/ UNCHANGED vars PROVE WinnerOK(a)'
  BY <1>13, <1>c DEF SweepSelect, Tick, row, vars
<1>14. ASSUME SweepUpdate PROVE WinnerOK(a)'
  BY <1>14, <1>c DEF SweepUpdate
<1>15. ASSUME Restart PROVE WinnerOK(a)'
  BY <1>15, <1>c DEF Restart, row, Over
<1>16. QED
  BY <1>1, <1>2, <1>3, <1>4, <1>5, <1>6, <1>7, <1>8, <1>9, <1>10, <1>11, <1>12,
     <1>13, <1>14, <1>15 DEF Next, PressStep

(* What is known of the runs of a tool stays true.                         *)
LEMMA RunStepOK ==
  ASSUME IndInv, [Next]_vars, NEW a \in Actions
  PROVE  RunOK(a)'
<1>a. /\ pc \in [Presses -> Steps] /\ req \in [Presses -> Requests \cup {NoRequest}]
      /\ status \in [Actions -> Statuses] /\ runs \in [Actions -> Nat]
      /\ owner \in [Actions -> Users \cup {NoUser}]
      /\ audit \in [Actions -> Seq(Entries)]
      /\ winner \in [Actions -> Presses \cup {NoPress}]
  BY DEF IndInv, TypeOK
<1>b. WinnerOK(a) /\ RunOK(a) /\ AuditOK(a)
  BY DEF IndInv
<1>c. \A p \in Presses :
        /\ pc[p] # "unused" => Target(p) \in Actions /\ req[p].newStatus \in {"APPROVED", "DENIED"}
        /\ pc[p] = "selected" => owner[Target(p)] = req[p].user
        /\ pc[p] \in Deciding => winner[Target(p)] = p
        /\ pc[p] \in Approved => req[p].newStatus = "APPROVED"
        /\ pc[p] \in HasRun => runs[Target(p)] = 1
  BY DEF IndInv, PressOK, Requests, Verdicts, Target
<1> USE ConfirmationAssumption, <1>a, <1>b DEF RunOK, WinnerOK, Undecided, Deciding, Approved, HasRun, Target
<1>1. ASSUME NEW b \in Actions, NEW u \in Users, RequestConfirmation(b, u) PROVE RunOK(a)'
  BY <1>1, <1>c DEF RequestConfirmation, Create
<1>2. ASSUME NEW b \in Actions, SendCard(b) \/ SendCardFails(b) PROVE RunOK(a)'
  BY <1>2, <1>c DEF SendCard, SendCardFails, row
<1>3. ASSUME NEW p \in Presses, Press(p) PROVE RunOK(a)'
  BY <1>3, <1>c DEF Press, row
<1>4. ASSUME NEW p \in Presses, ResolveSelect(p) PROVE RunOK(a)'
  BY <1>4, <1>c DEF ResolveSelect, row
<1>5. ASSUME NEW p \in Presses, ResolveUpdate(p) PROVE RunOK(a)'
  <2>1. CASE winner' = winner
    BY <1>5, <1>c, <2>1 DEF ResolveUpdate
  <2>2. CASE winner' # winner
    <3>1. status[Target(p)] = "PENDING" /\ Target(p) \in Actions
      BY <1>5, <1>c, <2>2 DEF ResolveUpdate
    <3>2. winner[Target(p)] = NoPress
      BY <3>1 DEF IndInv, WinnerOK
    <3>3. CASE a = Target(p)
      BY <1>5, <1>c, <3>1, <3>2, <3>3 DEF ResolveUpdate
    <3>4. CASE a # Target(p)
      <4>1. winner'[a] = winner[a] /\ winner[a] # p
        BY <1>5, <1>c, <3>1, <3>4 DEF ResolveUpdate
      <4>2. winner[a] # NoPress => pc'[winner[a]] = pc[winner[a]]
        BY <1>5, <4>1 DEF ResolveUpdate
      <4>3. QED
        BY <1>5, <4>1, <4>2 DEF ResolveUpdate
    <3>5. QED
      BY <3>3, <3>4
  <2>3. QED
    BY <2>1, <2>2
<1>6. ASSUME NEW p \in Presses, Notify(p) \/ NotifyFails(p) PROVE RunOK(a)'
  <2>1. CASE Notify(p)
    BY <2>1, <1>c DEF Notify, row
  <2>2. CASE NotifyFails(p)
    BY <2>2, <1>c DEF NotifyFails, row
  <2>3. QED
    BY <1>6, <2>1, <2>2
<1>7. ASSUME NEW p \in Presses, StartTool(p) PROVE RunOK(a)'
  <2>1. CASE a = Target(p)
    <3>1. winner[a] = p /\ req[p].newStatus = "APPROVED"
      BY <1>7, <1>c, <2>1 DEF StartTool
    <3>2. runs[a] = 0
      BY <1>7, <3>1 DEF StartTool
    <3>3. QED
      BY <1>7, <2>1, <3>1, <3>2 DEF StartTool, row
  <2>2. CASE a # Target(p)
    <3>1. runs'[a] = runs[a] /\ winner[a] # p
      BY <1>7, <2>2 DEF StartTool
    <3>2. winner[a] # NoPress => pc'[winner[a]] = pc[winner[a]]
      BY <1>7, <3>1 DEF StartTool
    <3>3. QED
      BY <1>7, <3>1, <3>2 DEF StartTool, row
  <2>3. QED
    BY <2>1, <2>2
<1>8. ASSUME NEW p \in Presses, RefuseTool(p) PROVE RunOK(a)'
  BY <1>8, <1>c DEF RefuseTool, row
<1>9. ASSUME NEW p \in Presses, FinishTool(p) PROVE RunOK(a)'
  BY <1>9, <1>c DEF FinishTool, row
<1>10. ASSUME NEW p \in Presses, Resume(p) PROVE RunOK(a)'
  BY <1>10, <1>c DEF Resume, row
<1>11. ASSUME NEW p \in Presses, Audit(p) PROVE RunOK(a)'
  BY <1>11, <1>c DEF Audit, row
<1>12. ASSUME NEW p \in Presses, Deliver(p) PROVE RunOK(a)'
  <2>1. UNCHANGED <<req, runs, winner>> /\ pc' = [pc EXCEPT ![p] = "finished"]
    BY <1>12 DEF Deliver
  <2>2. QED
    BY <2>1
<1>13. ASSUME SweepSelect \/ Tick \/ UNCHANGED vars PROVE RunOK(a)'
  BY <1>13, <1>c DEF SweepSelect, Tick, row, vars
<1>14. ASSUME SweepUpdate PROVE RunOK(a)'
  BY <1>14, <1>c DEF SweepUpdate
<1>15. ASSUME Restart PROVE RunOK(a)'
  BY <1>15, <1>c DEF Restart, row, Over
<1>16. QED
  BY <1>1, <1>2, <1>3, <1>4, <1>5, <1>6, <1>7, <1>8, <1>9, <1>10, <1>11, <1>12,
     <1>13, <1>14, <1>15 DEF Next, PressStep

(* What is known of the entry of an action stays true.                     *)
LEMMA AuditStepOK ==
  ASSUME IndInv, [Next]_vars, NEW a \in Actions
  PROVE  AuditOK(a)'
<1>a. /\ pc \in [Presses -> Steps] /\ req \in [Presses -> Requests \cup {NoRequest}]
      /\ status \in [Actions -> Statuses] /\ runs \in [Actions -> Nat]
      /\ owner \in [Actions -> Users \cup {NoUser}]
      /\ audit \in [Actions -> Seq(Entries)]
      /\ winner \in [Actions -> Presses \cup {NoPress}]
  BY DEF IndInv, TypeOK
<1>b. WinnerOK(a) /\ RunOK(a) /\ AuditOK(a)
  BY DEF IndInv
<1>c. \A p \in Presses :
        /\ pc[p] # "unused" => Target(p) \in Actions /\ req[p].newStatus \in {"APPROVED", "DENIED"}
        /\ pc[p] = "selected" => owner[Target(p)] = req[p].user
        /\ pc[p] \in Deciding => winner[Target(p)] = p
        /\ pc[p] \in Approved => req[p].newStatus = "APPROVED"
        /\ pc[p] \in HasRun => runs[Target(p)] = 1
  BY DEF IndInv, PressOK, Requests, Verdicts, Target
<1> USE ConfirmationAssumption, <1>a, <1>b DEF AuditOK, WinnerOK, Undecided, Deciding, Approved, HasRun, Target
<1>1. ASSUME NEW b \in Actions, NEW u \in Users, RequestConfirmation(b, u) PROVE AuditOK(a)'
  BY <1>1, <1>c DEF RequestConfirmation, Create
<1>2. ASSUME NEW b \in Actions, SendCard(b) \/ SendCardFails(b) PROVE AuditOK(a)'
  BY <1>2, <1>c DEF SendCard, SendCardFails, row
<1>3. ASSUME NEW p \in Presses, Press(p) PROVE AuditOK(a)'
  BY <1>3, <1>c DEF Press, row
<1>4. ASSUME NEW p \in Presses, ResolveSelect(p) PROVE AuditOK(a)'
  BY <1>4, <1>c DEF ResolveSelect, row
<1>5. ASSUME NEW p \in Presses, ResolveUpdate(p) PROVE AuditOK(a)'
  <2>1. CASE winner' = winner
    BY <1>5, <1>c, <2>1 DEF ResolveUpdate
  <2>2. CASE winner' # winner
    <3>1. status[Target(p)] = "PENDING" /\ Target(p) \in Actions
      BY <1>5, <1>c, <2>2 DEF ResolveUpdate
    <3>2. winner[Target(p)] = NoPress
      BY <3>1 DEF IndInv, WinnerOK
    <3>3. CASE a = Target(p)
      BY <1>5, <1>c, <3>1, <3>2, <3>3 DEF ResolveUpdate
    <3>4. CASE a # Target(p)
      <4>1. winner'[a] = winner[a] /\ winner[a] # p
        BY <1>5, <1>c, <3>1, <3>4 DEF ResolveUpdate
      <4>2. winner[a] # NoPress => pc'[winner[a]] = pc[winner[a]]
        BY <1>5, <4>1 DEF ResolveUpdate
      <4>3. QED
        BY <1>5, <4>1, <4>2 DEF ResolveUpdate
    <3>5. QED
      BY <3>3, <3>4
  <2>3. QED
    BY <2>1, <2>2
<1>6. ASSUME NEW p \in Presses, Notify(p) \/ NotifyFails(p) PROVE AuditOK(a)'
  <2>1. CASE Notify(p)
    BY <2>1, <1>c DEF Notify, row
  <2>2. CASE NotifyFails(p)
    BY <2>2, <1>c DEF NotifyFails, row
  <2>3. QED
    BY <1>6, <2>1, <2>2
<1>7. ASSUME NEW p \in Presses, StartTool(p) PROVE AuditOK(a)'
  BY <1>7, <1>c DEF StartTool, row
<1>8. ASSUME NEW p \in Presses, RefuseTool(p) PROVE AuditOK(a)'
  BY <1>8, <1>c DEF RefuseTool, row
<1>9. ASSUME NEW p \in Presses, FinishTool(p) PROVE AuditOK(a)'
  BY <1>9, <1>c DEF FinishTool, row
<1>10. ASSUME NEW p \in Presses, Resume(p) PROVE AuditOK(a)'
  BY <1>10, <1>c DEF Resume, row
<1>11. ASSUME NEW p \in Presses, Audit(p) PROVE AuditOK(a)'
  <2>1. PICK entry \in Entries :
          /\ audit' = [audit EXCEPT ![Target(p)] = Append(@, entry)]
          /\ pc[p] = "auditing ok" => entry = "succeeded"
          /\ pc[p] = "auditing error" =>
               entry # "succeeded" /\ (entry = "denied" <=> req[p].newStatus = "DENIED")
    BY <1>11 DEF Audit, Entries
  <2>2. CASE a = Target(p)
    <3>1. winner[a] = p
      BY <1>11, <1>c, <2>2 DEF Audit
    <3>2. audit[a] = << >>
      BY <1>11, <3>1 DEF Audit
    <3>3. audit'[a] = <<entry>>
      <4>1. Append(<< >>, entry) = <<entry>>
        OBVIOUS
      <4>2. audit'[a] = Append(audit[a], entry)
        BY <2>1, <2>2
      <4>3. QED
        BY <3>2, <4>1, <4>2
    <3>4. /\ entry = "denied" <=> req[p].newStatus = "DENIED"
          /\ entry = "succeeded" => runs[a] = 1
      BY <1>11, <1>c, <2>1, <2>2 DEF Audit
    <3>5. pc'[p] = "delivering" /\ UNCHANGED <<req, runs, winner>>
      BY <1>11 DEF Audit
    <3>6. QED
      BY <3>1, <3>3, <3>4, <3>5
  <2>3. CASE a # Target(p)
    <3>1. audit'[a] = audit[a] /\ winner[a] # p
      BY <1>11, <2>1, <2>3
    <3>2. winner[a] # NoPress => pc'[winner[a]] = pc[winner[a]]
      BY <1>11, <3>1 DEF Audit
    <3>3. QED
      BY <1>11, <3>1, <3>2 DEF Audit
  <2>4. QED
    BY <2>2, <2>3
<1>12. ASSUME NEW p \in Presses, Deliver(p) PROVE AuditOK(a)'
  BY <1>12, <1>c DEF Deliver, Create, row
<1>13. ASSUME SweepSelect \/ Tick \/ UNCHANGED vars PROVE AuditOK(a)'
  BY <1>13, <1>c DEF SweepSelect, Tick, row, vars
<1>14. ASSUME SweepUpdate PROVE AuditOK(a)'
  BY <1>14, <1>c DEF SweepUpdate
<1>15. ASSUME Restart PROVE AuditOK(a)'
  BY <1>15, <1>c DEF Restart, row, Over
<1>16. QED
  BY <1>1, <1>2, <1>3, <1>4, <1>5, <1>6, <1>7, <1>8, <1>9, <1>10, <1>11, <1>12,
     <1>13, <1>14, <1>15 DEF Next, PressStep

(* What the sweep selected stays lapsed until it is written.               *)
LEMMA SweptStepOK ==
  ASSUME IndInv, [Next]_vars, NEW a \in swept'
  PROVE  SweptOK(a)'
<1>a. /\ status \in [Actions -> Statuses] /\ expires \in [Actions -> Nat]
      /\ swept \subseteq Actions /\ clock \in Nat
  BY DEF IndInv, TypeOK
<1>b. a \in swept => SweptOK(a)
  BY DEF IndInv
<1>c. \A p \in Presses : pc[p] = "selected" => req[p].newStatus \in {"APPROVED", "DENIED"}
  BY DEF IndInv, PressOK, Requests, Verdicts
<1> USE <1>a, <1>b DEF SweptOK
<1>1. ASSUME NEW b \in Actions, NEW u \in Users, RequestConfirmation(b, u) PROVE SweptOK(a)'
  BY <1>1 DEF RequestConfirmation, Create
<1>2. ASSUME NEW b \in Actions, SendCard(b) \/ SendCardFails(b) PROVE SweptOK(a)'
  BY <1>2 DEF SendCard, SendCardFails, row
<1>3. ASSUME NEW p \in Presses, Press(p) \/ ResolveSelect(p) PROVE SweptOK(a)'
  BY <1>3 DEF Press, ResolveSelect, row
<1>4. ASSUME NEW p \in Presses, ResolveUpdate(p) PROVE SweptOK(a)'
  BY <1>4, <1>c DEF ResolveUpdate
<1>5. ASSUME NEW p \in Presses,
             \/ Notify(p) \/ NotifyFails(p) \/ StartTool(p) \/ RefuseTool(p)
             \/ FinishTool(p) \/ Resume(p) \/ Audit(p)
      PROVE  SweptOK(a)'
  <2>1. UNCHANGED <<row, clock, swept>>
    BY <1>5 DEF Notify, NotifyFails, StartTool, RefuseTool, FinishTool, Resume, Audit
  <2>2. QED
    BY <2>1 DEF row
<1>6. ASSUME NEW p \in Presses, Deliver(p) PROVE SweptOK(a)'
  BY <1>6 DEF Deliver, Create, row
<1>7. ASSUME SweepSelect PROVE SweptOK(a)'
  BY <1>7 DEF SweepSelect, Expired, row
<1>8. ASSUME SweepUpdate \/ Restart PROVE SweptOK(a)'
  BY <1>8 DEF SweepUpdate, Restart
<1>9. ASSUME Tick \/ UNCHANGED vars PROVE SweptOK(a)'
  BY <1>9 DEF Tick, row, vars
<1>10. QED
  BY <1>1, <1>2, <1>3, <1>4, <1>5, <1>6, <1>7, <1>8, <1>9 DEF Next, PressStep

-----------------------------------------------------------------------------
(* Theorems                                                                *)

(* The inductive invariant holds in every reachable state.                 *)
LEMMA Inductive == Spec => []IndInv
<1>1. Init => IndInv
  <2> SUFFICES ASSUME Init PROVE IndInv
    OBVIOUS
  <2>1. TypeOK
    BY ConfirmationAssumption
    DEF Init, TypeOK, Statuses, Cards, Steps, Undecided
  <2>2. \A p \in Presses : PressOK(p)
    BY DEF Init, PressOK, Deciding, Approved, HasRun
  <2>3. \A a \in Actions : WinnerOK(a) /\ RunOK(a) /\ AuditOK(a)
    BY DEF Init, WinnerOK, RunOK, AuditOK
  <2>4. QED
    BY <2>1, <2>2, <2>3 DEF IndInv, Init
<1>2. IndInv /\ [Next]_vars => IndInv'
  <2> SUFFICES ASSUME IndInv, [Next]_vars PROVE IndInv'
    OBVIOUS
  <2>1. TypeOK'
    BY TypeStep
  <2>2. \A p \in Presses : PressOK(p)'
    BY PressStepOK
  <2>3. \A a \in Actions : WinnerOK(a)' /\ RunOK(a)' /\ AuditOK(a)'
    BY WinnerStepOK, RunStepOK, AuditStepOK
  <2>4. \A a \in swept' : SweptOK(a)'
    BY SweptStepOK
  <2>5. QED
    BY <2>1, <2>2, <2>3, <2>4 DEF IndInv
<1>3. QED
  BY <1>1, <1>2, PTL DEF Spec

(* The variables keep their types. *)
THEOREM TypeCorrect == Spec => []TypeOK
<1>1. IndInv => TypeOK
  BY DEF IndInv
<1>2. QED
  BY <1>1, Inductive, PTL

(* However many presses race, whatever the sweep and restarts do, the tool *)
(* runs at most once and one entry at most is written. *)
THEOREM AtMostOnceHolds == Spec => []AtMostOnce
<1>1. IndInv => AtMostOnce
  <2> SUFFICES ASSUME IndInv, NEW a \in Actions PROVE runs[a] <= 1 /\ Len(audit[a]) <= 1
    BY DEF AtMostOnce
  <2>1. RunOK(a) /\ AuditOK(a)
    BY DEF IndInv
  <2>2. runs[a] <= 1
    BY <2>1 DEF RunOK
  <2>3. Len(<< >>) = 0 /\ \A entry \in Entries : Len(<<entry>>) = 1
    OBVIOUS
  <2>4. Len(audit[a]) <= 1
    <3>1. CASE audit[a] = << >>
      BY <2>3, <3>1
    <3>2. CASE audit[a] # << >>
      <4>1. PICK entry \in Entries : audit[a] = <<entry>>
        BY <2>1, <3>2 DEF AuditOK
      <4>2. QED
        BY <2>3, <4>1
    <3>3. QED
      BY <3>1, <3>2
  <2>5. QED
    BY <2>2, <2>4
<1>2. QED
  BY <1>1, Inductive, PTL

(* The entry of an action agrees with the answer that was given and with   *)
(* what was run. *)
THEOREM AuditIsTrue == Spec => []AuditTellsTheTruth
<1>1. IndInv => AuditTellsTheTruth
  <2> SUFFICES ASSUME IndInv, NEW a \in Actions, audit[a] # << >>
               PROVE  /\ winner[a] # NoPress
                      /\ Head(audit[a]) = "denied" <=> req[winner[a]].newStatus = "DENIED"
                      /\ Head(audit[a]) = "denied" => runs[a] = 0
                      /\ Head(audit[a]) = "succeeded" => runs[a] = 1
    BY DEF AuditTellsTheTruth
  <2>1. RunOK(a) /\ AuditOK(a)
    BY DEF IndInv
  <2>2. PICK entry \in Entries :
          /\ audit[a] = <<entry>>
          /\ entry = "denied" <=> req[winner[a]].newStatus = "DENIED"
          /\ entry = "succeeded" => runs[a] = 1
    BY <2>1 DEF AuditOK
  <2>3. Head(audit[a]) = entry
    BY <2>2
  <2>4. QED
    BY <2>1, <2>2, <2>3 DEF AuditOK, RunOK
<1>2. QED
  BY <1>1, Inductive, PTL

(* The sweep closes no open row whose time is not over. *)
THEOREM LapseIsLate == Spec => LapseOnlyAfterTTL
<1>1. IndInv /\ [Next]_vars =>
        [\A a \in Actions :
           status[a] = "PENDING" /\ status'[a] = "EXPIRED" => expires[a] <= clock]_vars
  <2> SUFFICES ASSUME IndInv, Next, NEW a \in Actions,
                      status[a] = "PENDING", status'[a] = "EXPIRED"
               PROVE  expires[a] <= clock
    BY DEF vars
  <2>1. /\ status \in [Actions -> Statuses]
        /\ \A p \in Presses : pc[p] = "selected" => req[p].newStatus \in {"APPROVED", "DENIED"}
    BY DEF IndInv, TypeOK, PressOK, Requests, Verdicts
  <2>2. SweepUpdate
    BY <2>1 DEF Next, PressStep, RequestConfirmation, Create, SendCard, SendCardFails,
      Press, ResolveSelect, ResolveUpdate, Notify, NotifyFails, StartTool, RefuseTool,
      FinishTool, Resume, Audit, Deliver, SweepSelect, Tick, Restart, row
  <2>3. a \in swept
    BY <2>2 DEF SweepUpdate
  <2>4. QED
    BY <2>3 DEF IndInv, SweptOK
<1>2. QED
  BY <1>1, Inductive, PTL DEF Spec, LapseOnlyAfterTTL

-----------------------------------------------------------------------------
(* The refinement                                                          *)

(* A step that takes no row, asks for nothing and runs no tool is not seen *)
(* by the abstract specification. *)
LEMMA Unseen ==
  ASSUME UNCHANGED <<status, owner, runs, winner>>,
         \A a \in Actions : winner[a] # NoPress => req'[winner[a]] = req[winner[a]]
  PROVE  UNCHANGED OneShot!vars
<1>1. \A a \in Actions : RequestState(a)' = RequestState(a) /\ Decider(a)' = Decider(a)
  BY DEF RequestState, Decider
<1>2. QED
  BY <1>1 DEF OneShot!vars

(* A new row is a new request. *)
LEMMA CreateAsks ==
  ASSUME IndInv, NEW a \in Actions, NEW u \in Users, Create(a, u),
         UNCHANGED <<req, runs, winner>>
  PROVE  OneShot!Ask(a, u)
<1>1. winner[a] = NoPress /\ status[a] = "NONE"
  BY DEF IndInv, WinnerOK, Create
<1>2. status' = [status EXCEPT ![a] = "PENDING"] /\ owner' = [owner EXCEPT ![a] = u]
  BY DEF Create
<1>3. RequestState(a) = "unasked" /\ RequestState(a)' = "open"
  BY <1>1, <1>2 DEF RequestState, IndInv, TypeOK
<1>4. \A b \in Actions : b # a => RequestState(b)' = RequestState(b)
  BY <1>2 DEF RequestState, IndInv, TypeOK
<1>5. \A b \in Actions : Decider(b)' = Decider(b)
  BY DEF Decider
<1>6. QED
  BY <1>2, <1>3, <1>4, <1>5 DEF OneShot!Ask

(* The UPDATE that matches is the decision, taken by the asker. *)
LEMMA UpdateDecides ==
  ASSUME IndInv, NEW p \in Presses, ResolveUpdate(p)
  PROVE  OneShot!Next \/ UNCHANGED OneShot!vars
<1>a. Target(p) \in Actions /\ req[p].newStatus \in Verdicts /\ owner[Target(p)] = req[p].user
  BY DEF ResolveUpdate, IndInv, PressOK, Requests, Target
<1>1. CASE status[Target(p)] # "PENDING"
  BY <1>1, Unseen DEF ResolveUpdate
<1>2. CASE status[Target(p)] = "PENDING"
  <2>a. PICK a \in Actions : a = Target(p)
    BY <1>a
  <2>b. PICK answer \in {"granted", "refused"} : answer = IF req[p].newStatus = "APPROVED" THEN "granted" ELSE "refused"
    OBVIOUS
  <2>1. winner[a] = NoPress /\ status[a] = "PENDING"
    BY <1>2, <2>a DEF IndInv, WinnerOK
  <2>2. /\ winner' = [winner EXCEPT ![a] = p] /\ UNCHANGED <<owner, req, runs>>
        /\ status' = [status EXCEPT ![a] = req[p].newStatus]
    BY <1>2, <2>a DEF ResolveUpdate
  <2>3. RequestState(a) = "open" /\ RequestState(a)' = answer /\ Decider(a)' = owner[a]
    <3>1. winner'[a] = p /\ p # NoPress
      BY <2>2, ConfirmationAssumption DEF IndInv, TypeOK
    <3>2. RequestState(a) = "open"
      BY <2>1 DEF RequestState
    <3>3. RequestState(a)' = answer
      BY <2>2, <2>b, <3>1 DEF RequestState
    <3>4. Decider(a)' = owner[a]
      BY <1>a, <2>2, <2>a, <3>1 DEF Decider
    <3>5. QED
      BY <3>2, <3>3, <3>4
  <2>4. \A b \in Actions : b # a => RequestState(b)' = RequestState(b) /\ Decider(b)' = Decider(b)
    BY <2>2 DEF RequestState, Decider, IndInv, TypeOK
  <2>5. OneShot!Decide(a, answer)
    <3>1. [b \in Actions |-> RequestState(b)]' = [[b \in Actions |-> RequestState(b)] EXCEPT ![a] = answer]
      BY <2>3, <2>4
    <3>2. [b \in Actions |-> Decider(b)]' = [[b \in Actions |-> Decider(b)] EXCEPT ![a] = owner[a]]
      BY <2>3, <2>4
    <3>3. QED
      BY <2>2, <2>3, <3>1, <3>2 DEF OneShot!Decide
  <2>6. QED
    BY <2>5 DEF OneShot!Next
<1>3. QED
  BY <1>1, <1>2

(* Invoking the tool performs a granted action for the first time.         *)
LEMMA StartPerforms ==
  ASSUME IndInv, NEW p \in Presses, StartTool(p)
  PROVE  OneShot!Next
<1>1. PressOK(p) /\ Target(p) \in Actions
  BY DEF StartTool, IndInv, PressOK, Requests, Target
<1>2. winner[Target(p)] = p /\ req[p].newStatus = "APPROVED"
  BY <1>1 DEF StartTool, PressOK, Deciding, Approved
<1>3. runs[Target(p)] = 0
  BY <1>1, <1>2 DEF StartTool, IndInv, RunOK
<1>4. runs' = [runs EXCEPT ![Target(p)] = 1]
  BY <1>3 DEF StartTool
<1>5. RequestState(Target(p)) = "granted"
  BY <1>2, ConfirmationAssumption DEF RequestState
<1>6. \A a \in Actions : RequestState(a)' = RequestState(a) /\ Decider(a)' = Decider(a)
  BY DEF StartTool, row, RequestState, Decider
<1>7. OneShot!Perform(Target(p))
  BY <1>1, <1>3, <1>4, <1>5, <1>6 DEF OneShot!Perform, StartTool, row
<1>8. QED
  BY <1>1, <1>7 DEF OneShot!Next

(* Of the rows the sweep writes, those that nobody decided lapse. *)
LEMMA SweepLapses ==
  ASSUME IndInv, SweepUpdate
  PROVE  OneShot!Next
<1> DEFINE late == {a \in swept : RequestState(a) = "open"}
<1>1. late \subseteq Actions /\ swept \subseteq Actions
  BY DEF IndInv, TypeOK
<1>2. \A a \in Actions : RequestState(a)' = IF a \in late THEN "lapsed" ELSE RequestState(a)
  BY DEF IndInv, SweptOK, SweepUpdate, RequestState
<1>3. \A a \in Actions : Decider(a)' = Decider(a)
  BY DEF SweepUpdate, Decider
<1>4. OneShot!Lapse(late)
  BY <1>1, <1>2, <1>3 DEF OneShot!Lapse, SweepUpdate
<1>5. QED
  BY <1>1, <1>4 DEF OneShot!Next

(* The confirmation flow implements the one-shot approval. *)
THEOREM Refinement == Spec => ImplementsOneShot
<1>1. Init => OneShot!Init
  BY DEF Init, OneShot!Init, RequestState, Decider
<1>2. IndInv /\ [Next]_vars => [OneShot!Next]_(OneShot!vars)
  <2> SUFFICES ASSUME IndInv, [Next]_vars
               PROVE  OneShot!Next \/ UNCHANGED OneShot!vars
    OBVIOUS
  <2>1. ASSUME NEW a \in Actions, NEW u \in Users, RequestConfirmation(a, u)
        PROVE  OneShot!Next
    BY <2>1, CreateAsks DEF RequestConfirmation, OneShot!Next
  <2>2. ASSUME NEW a \in Actions, SendCard(a) \/ SendCardFails(a)
        PROVE  UNCHANGED OneShot!vars
    BY <2>2, Unseen DEF SendCard, SendCardFails, row
  <2>3. ASSUME NEW p \in Presses, Press(p) PROVE UNCHANGED OneShot!vars
    <3>1. \A a \in Actions : winner[a] # NoPress => winner[a] # p
      BY <2>3 DEF Press, IndInv, WinnerOK, Undecided
    <3>2. PICK r \in Requests : req' = [req EXCEPT ![p] = r]
      BY <2>3 DEF Press
    <3>3. \A a \in Actions : winner[a] # NoPress => req'[winner[a]] = req[winner[a]]
      BY <3>1, <3>2 DEF IndInv, TypeOK
    <3>4. QED
      BY <2>3, <3>3, Unseen DEF Press, row
  <2>4. ASSUME NEW p \in Presses, ResolveUpdate(p)
        PROVE  OneShot!Next \/ UNCHANGED OneShot!vars
    BY <2>4, UpdateDecides
  <2>5. ASSUME NEW p \in Presses, StartTool(p) PROVE OneShot!Next
    BY <2>5, StartPerforms
  <2>6. ASSUME NEW p \in Presses,
               \/ ResolveSelect(p) \/ Notify(p) \/ NotifyFails(p) \/ RefuseTool(p)
               \/ FinishTool(p) \/ Resume(p) \/ Audit(p)
        PROVE  UNCHANGED OneShot!vars
    <3>1. UNCHANGED <<row, req, runs, winner>>
      BY <2>6 DEF ResolveSelect, Notify, NotifyFails, RefuseTool, FinishTool, Resume, Audit
    <3>2. QED
      BY <3>1, Unseen DEF row
  <2>7. ASSUME NEW p \in Presses, Deliver(p)
        PROVE  OneShot!Next \/ UNCHANGED OneShot!vars
    <3>1. CASE UNCHANGED <<row, card>>
      BY <2>7, <3>1, Unseen DEF Deliver, row
    <3>2. CASE \E a \in Actions : Create(a, owner[Target(p)])
      <4>1. owner[Target(p)] \in Users
        <5>1. PressOK(p) /\ req[p] \in Requests /\ winner[Target(p)] = p
          BY <2>7 DEF Deliver, IndInv, PressOK, Deciding
        <5>2. Target(p) \in Actions /\ req[p].user \in Users
          BY <5>1 DEF Requests, Target
        <5>3. QED
          BY <5>1, <5>2, ConfirmationAssumption DEF IndInv, WinnerOK
      <4>2. QED
        BY <2>7, <3>2, <4>1, CreateAsks DEF Deliver, OneShot!Next
    <3>3. QED
      BY <2>7, <3>1, <3>2 DEF Deliver
  <2>8. ASSUME SweepUpdate PROVE OneShot!Next
    BY <2>8, SweepLapses
  <2>9. ASSUME SweepSelect \/ Tick \/ Restart \/ UNCHANGED vars
        PROVE  UNCHANGED OneShot!vars
    BY <2>9, Unseen DEF SweepSelect, Tick, Restart, row, vars
  <2>10. QED
    BY <2>1, <2>2, <2>3, <2>4, <2>5, <2>6, <2>7, <2>8, <2>9 DEF Next, PressStep
<1>3. QED
  BY <1>1, <1>2, Inductive, PTL DEF Spec, ImplementsOneShot, OneShot!Spec
=============================================================================
