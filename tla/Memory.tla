------------------------------- MODULE Memory -------------------------------
(***************************************************************************)
(* ai/memory.py and the handlers that use it: the messages of every chat,  *)
(* the summaries that stand for old ones, and the context a turn of the    *)
(* agent starts from.  A turn appends its message, reads the last summary, *)
(* reads the messages after it, and may have the older ones summarized,    *)
(* which takes a call to the model: turns of one chat and /clear overlap   *)
(* at every await.  Each SELECT sees what is committed by then.            *)
(*                                                                         *)
(* A text is the set of messages it tells of.  A message weighs one token  *)
(* of the budget, but how many fit into the summarizer's input is open:    *)
(* that limit counts characters.  What the model leaves out of what it is  *)
(* given is not modelled.  Row ids are SQLite's: one more than the largest *)
(* in use.                                                                 *)
(***************************************************************************)
EXTENDS Integers, FiniteSets

CONSTANTS
  Chats, Turns,
  Kinds,       \* what users send: "text", "photo" (or a document)
  KeepRecents, \* the values history_keep_recent may have
  Budget,      \* context_token_budget
  HistoryMax,  \* history_max_messages
  Fits,        \* how many messages MAX_SUMMARIZER_INPUT_CHARS may hold in full
  MaxMessages, \* bound on the messages of all chats
  MaxClears    \* bound on the calls of /clear

ASSUME MemoryAssumption ==
  /\ Kinds \subseteq {"text", "photo"}
  /\ KeepRecents \subseteq Nat \ {0}
  /\ Budget \in Nat /\ HistoryMax \in Nat \ {0} /\ Fits \subseteq Nat
  /\ MaxMessages \in Nat /\ MaxClears \in Nat

VARIABLES
  history,    \* conversation_history; num: history, the message's own number
  summaries,  \* conversation_summaries
  turn,       \* what the handler of every turn holds
  said,       \* history: the number of messages so far
  clears,     \* history: the number of calls of /clear
  cleared,    \* history: the last message before the last /clear of a chat
  lost        \* history: the messages some query or some payload was too short for

vars == <<history, summaries, turn, said, clears, cleared, lost>>

Rows      == [id : Nat, chat : Chats, num : Nat, role : {"user", "assistant"}]
Summaries == [chat : Chats, covers : Nat, text : SUBSET Nat]

(* base: the summary that was read; rows: the messages after it; seen: the *)
(* messages of the chat at that time; told, summed: the messages in the    *)
(* context and those its summary tells of; replaced: the message whose     *)
(* place a picture took. *)
Held == [phase : {"idle", "recorded", "reading", "summarizing", "built"},
         chat : Chats, kind : {"text", "photo"}, own : Nat,
         enabled : BOOLEAN, keep : Nat,
         after : Nat, base : SUBSET Nat, rows : SUBSET Rows, seen : SUBSET Nat,
         told : SUBSET Nat, summed : SUBSET Nat, replaced : SUBSET Nat]

TypeOK ==
  /\ history \subseteq Rows
  /\ \A r, s \in history : r.id = s.id => r = s
  /\ summaries \subseteq Summaries
  /\ turn \in [Turns -> Held]
  /\ said \in Nat /\ clears \in Nat
  /\ cleared \in [Chats -> Nat] /\ lost \subseteq Nat

Rest(c) ==
  [phase |-> "idle", chat |-> c, kind |-> "text", own |-> 0, enabled |-> FALSE, keep |-> 1,
   after |-> 0, base |-> {}, rows |-> {}, seen |-> {}, told |-> {}, summed |-> {}, replaced |-> {}]

Init ==
  /\ history = {} /\ summaries = {}
  /\ turn \in [Turns -> {Rest(c) : c \in Chats}]
  /\ said = 0 /\ clears = 0
  /\ cleared = [c \in Chats |-> 0] /\ lost = {}

-----------------------------------------------------------------------------
(* The rows                                                                *)

Nums(rows)    == {r.num : r \in rows}
Before(rows, r) == {s \in rows : s.id < r.id}
Later(rows, r)  == {s \in rows : s.id > r.id}

Oldest(rows, n) == {r \in rows : Cardinality(Before(rows, r)) < n}
Newest(rows, n) == {r \in rows : Cardinality(Later(rows, r)) < n}

NewRow(id, c, role) == [id |-> id, chat |-> c, num |-> said + 1, role |-> role]

(* The row that append_message adds. *)
Append(c, role) ==
  \E id \in 1..(MaxMessages + 1) :
    /\ \A r \in history : r.id < id
    /\ id = 1 \/ \E r \in history : r.id = id - 1
    /\ said < MaxMessages
    /\ history' = history \union {NewRow(id, c, role)}
    /\ said' = said + 1

(* Bug: the messages of every chat. *)
MessagesAfterOfAll(c, after) ==
  Newest({r \in history : r.id > after}, HistoryMax)

(* Bug: the last summarized message is read again. *)
MessagesFrom(c, after) ==
  Newest({r \in history : r.chat = c /\ r.id >= after}, HistoryMax)

(* The messages of a chat after one of them; the query returns the newest. *)
After(c, after) == {r \in history : r.chat = c /\ r.id > after}

MessagesAfter(c, after) == Newest(After(c, after), HistoryMax)

IsLatest(s, c) ==
  s.chat = c /\ \A x \in summaries : x.chat = c => x.covers <= s.covers

-----------------------------------------------------------------------------
(* A turn                                                                  *)

(* The messages that make room: all but the keep_recent last. *)
ToSummarize(h) == Oldest(h.rows, Cardinality(h.rows) - h.keep)

MustSummarize(h) ==
  /\ h.enabled
  /\ Cardinality(h.rows) > Budget
  /\ ToSummarize(h) # {}

(* The context of rows and a summary of the messages in text: with a       *)
(* picture the last element is replaced by it and its caption; a summary   *)
(* is put into the first message where the user sent that one. *)
Context(h, rows, text) ==
  LET lasts == {r \in rows : Later(rows, r) = {}}
      alone == rows = lasts /\ \A r \in rows : r.role = "user"
  IN IF h.kind = "text"
     THEN [h EXCEPT !.phase = "built", !.told = Nums(rows), !.summed = text]
     ELSE [h EXCEPT !.phase = "built", !.told = Nums(rows \ lasts) \union {h.own},
                    !.summed = IF alone THEN {} ELSE text, !.replaced = Nums(lasts)]

Record(t, c, kind) ==
  /\ turn[t].phase = "idle"
  /\ Append(c, "user")
  /\ turn' = [turn EXCEPT ![t] =
       [Rest(c) EXCEPT !.phase = "recorded", !.kind = kind, !.own = said + 1]]
  /\ UNCHANGED <<summaries, clears, cleared, lost>>

(* The settings may have any value by now. *)
ReadSummary(t) ==
  LET c == turn[t].chat
  IN /\ turn[t].phase = "recorded"
     /\ \E enabled \in BOOLEAN, keep \in KeepRecents :
          \/ \E s \in summaries :
               /\ IsLatest(s, c)
               /\ turn' = [turn EXCEPT ![t].phase = "reading", ![t].enabled = enabled,
                             ![t].keep = keep, ![t].after = s.covers, ![t].base = s.text]
          \/ /\ \A s \in summaries : s.chat # c
             /\ turn' = [turn EXCEPT ![t].phase = "reading", ![t].enabled = enabled,
                           ![t].keep = keep]
     /\ UNCHANGED <<history, summaries, said, clears, cleared, lost>>

(* No messages and no summary (the chat was cleared): conversation[-1]     *)
(* raises, and the turn ends. *)
NothingToReplace(h) == h.kind = "photo" /\ h.rows = {} /\ h.base = {}

ReadMessages(t) ==
  LET h == [turn[t] EXCEPT !.rows = MessagesAfter(turn[t].chat, turn[t].after),
                           !.seen = Nums({r \in history : r.chat = turn[t].chat})]
  IN /\ turn[t].phase = "reading"
     /\ ~NothingToReplace(h)
     /\ turn' = [turn EXCEPT ![t] = IF MustSummarize(h)
                                    THEN [h EXCEPT !.phase = "summarizing"]
                                    ELSE Context(h, h.rows, h.base)]
     /\ LET after == After(turn[t].chat, turn[t].after)
        IN lost' = lost \union Nums(after \ Newest(after, HistoryMax))
     /\ UNCHANGED <<history, summaries, said, clears, cleared>>

(* Bug: the new summary replaces the old one instead of going on from it. *)
SummaryTextOfNew(h, n) == Nums(Oldest(ToSummarize(h), n))

(* The payload is the last summary and the old messages, the oldest first; *)
(* n of them come before its end. *)
SummaryText(h, n) == h.base \union Nums(Oldest(ToSummarize(h), n))

(* The summary covers the old messages, those beyond the payload too.      *)
SummarizerAnswers(t) ==
  LET h == turn[t]
      old == ToSummarize(h)
  IN /\ h.phase = "summarizing"
     /\ \E n \in Fits :
          /\ \E r \in old :
               /\ Later(old, r) = {}
               /\ summaries' = summaries \union
                    {[chat |-> h.chat, covers |-> r.id, text |-> SummaryText(h, n)]}
          /\ turn' = [turn EXCEPT ![t] = Context(h, h.rows \ old, SummaryText(h, n))]
          /\ lost' = lost \union Nums(old \ Oldest(old, n))
     /\ UNCHANGED <<history, said, clears, cleared>>

SummarizerFails(t) ==
  /\ turn[t].phase = "summarizing"
  /\ turn' = [turn EXCEPT ![t] = Context(turn[t], turn[t].rows, turn[t].base)]
  /\ UNCHANGED <<history, summaries, said, clears, cleared, lost>>

(* The agent has answered. *)
Answer(t) ==
  /\ turn[t].phase = "built"
  /\ Append(turn[t].chat, "assistant")
  /\ turn' = [turn EXCEPT ![t] = Rest(@.chat)]
  /\ UNCHANGED <<summaries, clears, cleared, lost>>

(* It asks for a confirmation, or something raised. *)
EndTurn(t) ==
  /\ turn[t].phase # "idle"
  /\ turn' = [turn EXCEPT ![t] = Rest(@.chat)]
  /\ UNCHANGED <<history, summaries, said, clears, cleared, lost>>

(* Both tables in one transaction. *)
Clear(c) ==
  /\ clears < MaxClears
  /\ history' = {r \in history : r.chat # c}
  /\ summaries' = {s \in summaries : s.chat # c}
  /\ clears' = clears + 1
  /\ cleared' = [cleared EXCEPT ![c] = said]
  /\ UNCHANGED <<turn, said, lost>>

TurnStep(t) ==
  \/ \E c \in Chats, kind \in Kinds : Record(t, c, kind)
  \/ ReadSummary(t) \/ ReadMessages(t)
  \/ SummarizerAnswers(t) \/ SummarizerFails(t)
  \/ Answer(t) \/ EndTurn(t)

Next == (\E t \in Turns : TurnStep(t)) \/ (\E c \in Chats : Clear(c))

Spec == Init /\ [][Next]_vars

-----------------------------------------------------------------------------
(* Properties                                                              *)

Built(t) == turn[t].phase = "built"

(* text tells of nothing but the messages in all, and of each of them,     *)
(* unless that is in gone. *)
AllBut(text, all, gone) == text \subseteq all /\ all \subseteq text \union gone

(* In a chat that was never cleared a summary tells of the messages it     *)
(* covers and of nothing else, so leaving them out of later contexts loses *)
(* no more than what was too much for a query or for a payload, whatever   *)
(* turns have summarized at the same time and whatever ids were freed in   *)
(* other chats (build_context, memory.py:45). *)
SummaryIsComplete ==
  \A s \in summaries : cleared[s.chat] = 0 =>
    AllBut(s.text, Nums({r \in history : r.chat = s.chat /\ r.id <= s.covers}), lost)

(* In such a chat the agent is told every message the chat had when the    *)
(* turn read them, in full or in the summary, none of them twice, and      *)
(* nothing of another chat; missing are at most those that were too much   *)
(* for history_max_messages or for the summarizer's input.  Its own        *)
(* message is among those that were read for. *)
ContextIsExact ==
  \A t \in Turns :
    (Built(t) /\ turn[t].kind = "text" /\ cleared[turn[t].chat] = 0) =>
      /\ AllBut(turn[t].told \union turn[t].summed, turn[t].seen, lost)
      /\ turn[t].told \intersect turn[t].summed = {}
      /\ turn[t].own \in turn[t].seen

(* With /clear: nothing of another chat ever gets into a context, though   *)
(* ids are used again. *)
ChatsAreSeparate ==
  \A s, t \in Turns :
    (Built(s) /\ Built(t) /\ turn[s].chat # turn[t].chat) =>
      (turn[s].told \union turn[s].summed) \intersect
        (turn[t].told \union turn[t].summed) = {}

(* What the docstring of build_context promises (memory.py:35): the last   *)
(* summary and the messages after it are the history, however long it is   *)
(* and however long its messages are. *)
LongChatsAreTold ==
  \A t \in Turns :
    (Built(t) /\ turn[t].kind = "text" /\ cleared[turn[t].chat] = 0) =>
      turn[t].told \union turn[t].summed = turn[t].seen

(* What clear_history promises (memory.py:105): a turn begun after /clear  *)
(* hears nothing of what was said before it. *)
ClearedIsForgotten ==
  \A t \in Turns :
    (Built(t) /\ turn[t].own > cleared[turn[t].chat]) =>
      \A n \in turn[t].told \union turn[t].summed : n > cleared[turn[t].chat]

(* What record_user_and_build_context promises (memory.py:99): the agent   *)
(* learns the message just recorded, unless /clear came after it. *)
OwnMessageIsTold ==
  \A t \in Turns :
    (Built(t) /\ turn[t].own > cleared[turn[t].chat]) =>
      turn[t].own \in turn[t].told \union turn[t].summed

(* What photo.py:29 says: the last message is the placeholder that was     *)
(* just recorded, and the picture takes its place. *)
PlaceholderIsReplaced ==
  \A t \in Turns :
    (Built(t) /\ turn[t].kind = "photo") => turn[t].replaced = {turn[t].own}

(* Only the placeholder is replaced: the rest of the dialogue stays. *)
PictureKeepsTheDialogue ==
  \A t \in Turns :
    (Built(t) /\ turn[t].kind = "photo") =>
      turn[t].told \union turn[t].summed = turn[t].seen
=============================================================================
