--------------------------- MODULE AnswerDelivery ---------------------------
(***************************************************************************)
(* The answer of a turn on its way to the chat: deliver_outcome of         *)
(* bot/agent_dispatch.py records it and hands it to bot/formatting.py,     *)
(* which sends it as it is, in parts cut at the ends of lines, or as a     *)
(* head and a file.  A part that fails ends the delivery.                  *)
(*                                                                         *)
(* A text is a sequence of letters and ends of lines.  Telegram (outside   *)
(* this repository) refuses a message that is longer than its limit.       *)
(***************************************************************************)
EXTENDS Integers, SequencesExt

CONSTANTS
  Updates,  \* the updates whose turns are answered
  Limit,    \* TELEGRAM_MESSAGE_LIMIT; a file is sent from three times as much
  Chunk,    \* SAFE_CHUNK_LIMIT
  Letters,  \* the characters of the model's texts that end no line
  Answers   \* the texts a turn may end with

Chars == Letters \union {"note", "end of line"}

ASSUME DeliveryAssumption ==
  /\ Limit \in Nat /\ Chunk \in 1..Limit
  /\ Letters \intersect {"note", "end of line"} = {}
  /\ \A a \in Answers : a \in Seq(Chars)

(* Of every update: stage, where its answer is; text, outcome.text; file,  *)
(* whether the message was handed on, so that a file could be attached;    *)
(* queue, the parts still to be sent; shown, those the chat has received;  *)
(* remembered, whether append_message is committed; and, as history,       *)
(* broken: a commit or a message has failed. *)
VARIABLE post

Stages == {"none", "record", "send", "over"}

DeliveryTypeOK ==
  post \in [Updates -> [stage : Stages, text : Seq(Chars), file : BOOLEAN,
                        queue : Seq(Seq(Chars)), shown : Seq(Seq(Chars)),
                        remembered : BOOLEAN, broken : BOOLEAN]]

NoPost == [stage |-> "none", text |-> << >>, file |-> FALSE, queue |-> << >>,
           shown |-> << >>, remembered |-> FALSE, broken |-> FALSE]

DeliveryInit == post = [u \in Updates |-> NoPost]

-----------------------------------------------------------------------------
(* split_text                                                              *)

(* How many characters the next part has: all up to the last end of a line *)
(* within the limit, unless that is the first character. *)
CutAt(text) ==
  LET ends == {i \in 2..Chunk : text[i] = "end of line"}
  IN IF ends = {} THEN Chunk ELSE Max(ends) - 1

(* lstrip: the ends of lines a text begins with are dropped. *)
Strip(text) ==
  LET kept == {i \in 1..Len(text) : text[i] # "end of line"}
  IN IF kept = {} THEN << >> ELSE SubSeq(text, Min(kept), Len(text))

Rest(text) == Strip(SubSeq(text, CutAt(text) + 1, Len(text)))

Split[text \in Seq(Chars)] ==
  IF text = << >> THEN << >>
  ELSE IF Len(text) <= Chunk THEN <<text>>
  ELSE <<SubSeq(text, 1, CutAt(text))>> \o Split[Rest(text)]

-----------------------------------------------------------------------------
(* deliver_outcome and deliver_long_text                                   *)

(* Stands for the words that are put in place of an empty answer, and for  *)
(* the note that follows the head of a very long one. *)
Note == <<"note">>

(* A head of Limit characters and the note are always longer than          *)
(* Telegram's limit: the file that would follow, and the parts in its      *)
(* place, are never reached. *)
Parts(text, file) ==
  IF text = << >> THEN <<Note>>
  ELSE IF Len(text) <= Limit THEN <<text>>
  ELSE IF Len(text) > 3 * Limit /\ file THEN <<SubSeq(text, 1, Limit) \o Note>>
  ELSE Split[text]

(* The turn has ended with a text. *)
Finish(u, text, file) ==
  /\ post[u].stage = "none"
  /\ post' = [post EXCEPT ![u].stage = "record", ![u].text = text, ![u].file = file]

(* The commit or a message fails, and nothing more is sent. *)
Break(u) ==
  post' = [post EXCEPT ![u].stage = "over", ![u].queue = << >>, ![u].broken = TRUE]

(* Bug: the answer is sent, and recorded when that is done. *)
SendUnrecorded(u) ==
  /\ post[u].stage = "record"
  /\ post' = [post EXCEPT ![u].stage = "send",
                          ![u].queue = Parts(post[u].text, post[u].file)]

Record(u) ==
  /\ post[u].stage = "record"
  /\ \/ post' = [post EXCEPT ![u].stage = "send", ![u].remembered = TRUE,
                             ![u].queue = Parts(post[u].text, post[u].file)]
     \/ Break(u)

(* A message arrives, or is refused, or Telegram cannot be reached. *)
Send(u) ==
  /\ post[u].stage = "send"
  /\ LET part == Head(post[u].queue)
         rest == Tail(post[u].queue)
     IN \/ /\ Len(part) <= Limit
           /\ post' = [post EXCEPT ![u].stage = IF rest = << >> THEN "over" ELSE "send",
                                   ![u].queue = rest, ![u].shown = Append(@, part)]
        \/ Break(u)

-----------------------------------------------------------------------------
(* Properties                                                              *)

Words(text) ==
  FlattenSeq([i \in 1..Len(text) |-> IF text[i] = "end of line" THEN << >> ELSE <<text[i]>>])

Said(u) == IF post[u].text = << >> THEN Note ELSE post[u].text

(* What the chat shows of an answer is the answer from its beginning, in   *)
(* order and nothing twice or left out but ends of lines; all of it, if    *)
(* nothing failed; and it is in the memory, so that the model does not say *)
(* it again. *)
ShownAsRemembered ==
  \A u \in Updates :
    LET text == Words(FlattenSeq(post[u].shown))
    IN /\ IsPrefix(text, Words(Said(u)))
       /\ (post[u].stage = "over" /\ ~post[u].broken) => text = Words(Said(u))
       /\ post[u].shown # << >> => post[u].remembered

(* formatting.py:3-5: a very long answer is sent, and a file besides.  No  *)
(* message is longer than what Telegram takes. *)
MessagesFit ==
  \A u \in Updates : \A i \in 1..Len(post[u].queue) : Len(post[u].queue[i]) <= Limit

(* The n characters that follow the first s are a line of the text. *)
HasLine(text, s, n) ==
  /\ \A i \in (s + 1)..(s + n) : text[i] # "end of line"
  /\ s > 0 => text[s] = "end of line"
  /\ s + n < Len(text) => text[s + n + 1] = "end of line"

(* These are a line of one of its parts as well. *)
StaysWhole(text, s, n) ==
  \E i \in 1..Len(Split[text]) : \E r \in 0..(Len(Split[text][i]) - n) :
    /\ HasLine(Split[text][i], r, n)
    /\ \A k \in 1..n : Split[text][i][r + k] = text[s + k]

(* split_text, for a text: no part is empty or too long, nothing but ends  *)
(* of lines is lost, and no line that would fit is broken, unless the text *)
(* begins with an empty one. *)
SplitIsRight(text) ==
  /\ \A i \in 1..Len(Split[text]) : Len(Split[text][i]) \in 1..Chunk
  /\ Words(FlattenSeq(Split[text])) = Words(text)
  /\ text # << >> /\ text[1] # "end of line" =>
       \A n \in 1..Chunk : \A s \in 0..(Len(text) - n) :
         HasLine(text, s, n) => StaysWhole(text, s, n)
=============================================================================
