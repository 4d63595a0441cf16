--------------------------- MODULE OneShotApproval ---------------------------
(***************************************************************************)
(* What a confirmation is for, without buttons, rows or jobs: an action is *)
(* performed at most once, only after it was granted, and granted only by  *)
(* the user in whose name it was asked; a request that lapsed or was       *)
(* refused can no longer be granted.                                       *)
(***************************************************************************)
EXTENDS Naturals

CONSTANTS Actions, Users, NoUser

VARIABLES request, asker, decider, performed

vars == <<request, asker, decider, performed>>

Init ==
  /\ request   = [a \in Actions |-> "unasked"]
  /\ asker     = [a \in Actions |-> NoUser]
  /\ decider   = [a \in Actions |-> NoUser]
  /\ performed = [a \in Actions |-> 0]

Ask(a, u) ==
  /\ request[a] = "unasked"
  /\ request' = [request EXCEPT ![a] = "open"]
  /\ asker' = [asker EXCEPT ![a] = u]
  /\ UNCHANGED <<decider, performed>>

Decide(a, answer) ==
  /\ request[a] = "open"
  /\ request' = [request EXCEPT ![a] = answer]
  /\ decider' = [decider EXCEPT ![a] = asker[a]]
  /\ UNCHANGED <<asker, performed>>

Lapse(late) ==
  /\ \A a \in late : request[a] = "open"
  /\ request' = [a \in Actions |-> IF a \in late THEN "lapsed" ELSE request[a]]
  /\ UNCHANGED <<asker, decider, performed>>

Perform(a) ==
  /\ request[a] = "granted"
  /\ performed[a] = 0
  /\ performed' = [performed EXCEPT ![a] = 1]
  /\ UNCHANGED <<request, asker, decider>>

Next ==
  \/ \E a \in Actions, u \in Users : Ask(a, u)
  \/ \E a \in Actions : \E answer \in {"granted", "refused"} : Decide(a, answer)
  \/ \E late \in SUBSET Actions : Lapse(late)
  \/ \E a \in Actions : Perform(a)

Spec == Init /\ [][Next]_vars
=============================================================================
