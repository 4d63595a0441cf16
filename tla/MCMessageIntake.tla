-------------------------- MODULE MCMessageIntake --------------------------
(***************************************************************************)
(* An answer that is sent as it is, one that is cut at the end of a line,  *)
(* and a very long one, cut within a line and then at its end, which ends  *)
(* with empty lines.  split_text is compared with its reference for every  *)
(* text of at most eight characters.                                       *)
(***************************************************************************)
EXTENDS MessageIntake, TLC

MCKeys     == {"user_messages", "agent_runs"}
MCMaxCalls == [k \in MCKeys |-> IF k = "user_messages" THEN 2 ELSE 1]
MCWindow   == [k \in MCKeys |-> 1]

LOCAL E == "end of line"
LOCAL Alphabet == <<"a", "b", "c", "d", "e", "f", "g", "h">>

MCLetters == {Alphabet[i] : i \in 1..8}
MCAnswers == {<<"a", E, "b">>, <<"a", E, "b", "c">>, <<"a", "b", "c", E, E, E, E, E, E, E>>}

UpdateSymmetry == Permutations(Updates)

ASSUME SplitAgrees ==
  \A n \in 0..8 : \A ends \in SUBSET (1..n) :
    SplitIsRight([i \in 1..n |-> IF i \in ends THEN E ELSE Alphabet[i]])
=============================================================================
