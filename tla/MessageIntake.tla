--------------------------- MODULE MessageIntake ---------------------------
(***************************************************************************)
(* The updates of one operator, from polling to the last reply: aiogram    *)
(* (outside this repository) handles each in a task of its own.  Every one *)
(* passes AuthMiddleware, which looks for the row of its user and writes   *)
(* it, and RateLimitMiddleware; then the first router that takes it has    *)
(* it.  A select and the write it leads to are two steps, and the tasks of *)
(* other updates run in between.                                           *)
(*                                                                         *)
(* The run of the agent is AgentLoop, the context it gets is Memory, and a *)
(* press is taken or refused in ConfirmationFlow; here a run only ends     *)
(* with a text or a card.  One setting stands for the three.               *)
(***************************************************************************)
EXTENDS RateLimiter, AnswerDelivery

ASSUME IntakeAssumption == {"user_messages", "agent_runs"} \subseteq Keys

VARIABLES
  kind,     \* what an update is, "none" before a router has looked at it
  at,       \* how far its task is
  saw,      \* what its last select has found, or that its rows are cleared
  known,    \* the row of the user is there
  setting,  \* the row of the setting: a value, or none
  began,    \* history: the updates for which the agent was run
  told,     \* history: the updates that were given a reply
  raced,    \* history: those whose rows another has written or removed meanwhile
  last      \* history: what the last answer about the setting has said

intake    == <<kind, at, saw, known, setting, began, told, raced, last>>
intakeVars == <<vars, post, intake>>

Values == {"on", "off"}
NoRow  == "no row"

(* Messages whose handler cannot answer.  "caption": Command takes the     *)
(* caption of a picture or a video as well, but handle_settings and        *)
(* handle_command_shortcut read the text, which is none, and raise.        *)
(* "list": /settings without a value; the usage it shows has <...> in it,  *)
(* which the parse mode of the bot makes a tag that Telegram refuses.      *)
(* "unreadable": a document at which its parser raises. *)
Faulty == {"caption", "list", "unreadable"}

(* A text or a command that stands for one; a photo or a document; a       *)
(* press; /start or /help; /clear; /settings with a value, or with reset;  *)
(* a sticker or a voice message. *)
Kinds == {"text", "media", "press", "command", "clear", "set", "reset", "other"} \union Faulty

Places == {"away", "touch", "limit", "route", "charge", "build", "run",
           "write", "say", "over"}

IntakeTypeOK ==
  /\ kind \in [Updates -> Kinds \union {"none"}]
  /\ at \in [Updates -> Places]
  /\ saw \in [Updates -> Values \union {NoRow, "row", "cleared"}]
  /\ known \in BOOLEAN /\ setting \in Values \union {NoRow}
  /\ began \subseteq Updates /\ told \subseteq Updates /\ raced \subseteq Updates
  /\ last \in Values \union {NoRow, "nothing"}

(* A new bot, or one its operator has used before. *)
IntakeInit ==
  /\ Init /\ DeliveryInit
  /\ kind = [u \in Updates |-> "none"] /\ at = [u \in Updates |-> "away"]
  /\ saw = [u \in Updates |-> NoRow]
  /\ known \in BOOLEAN /\ setting \in (IF known THEN {"on", NoRow} ELSE {NoRow})
  /\ began = {} /\ told = {} /\ raced = {} /\ last = "nothing"

-----------------------------------------------------------------------------

GoesTo(u, place) == at[u] # place /\ at' = [at EXCEPT ![u] = place]

Forgets(u) == saw' = [saw EXCEPT ![u] = NoRow]

(* The task is over, with a reply. *)
Replies(u) == GoesTo(u, "over") /\ told' = told \union {u}

(* The task is over without one: no handler, or an exception that aiogram  *)
(* writes to the log. *)
Drops(u) == GoesTo(u, "over") /\ UNCHANGED told

(* Those that have looked for a row, and have not done with it. *)
Between(places) == {u \in Updates : at[u] \in places}

-----------------------------------------------------------------------------
(* The middlewares                                                         *)

(* AuthMiddleware, up to the select of UserRepository.touch; somebody who  *)
(* is not in ALLOWED_TELEGRAM_IDS is told so. *)
Arrive(u) ==
  /\ at[u] = "away"
  /\ \/ Replies(u) /\ UNCHANGED saw
     \/ /\ GoesTo(u, "touch") /\ UNCHANGED told
        /\ saw' = [saw EXCEPT ![u] = IF known THEN "row" ELSE NoRow]
  /\ UNCHANGED <<vars, post, kind, known, setting, began, raced, last>>

(* The commit: telegram_user_id is unique, so the insert of a row that is  *)
(* there by now raises.  A row is never removed. *)
Touch(u) ==
  /\ at[u] = "touch"
  /\ IF saw[u] = NoRow /\ known THEN Drops(u) ELSE GoesTo(u, "limit") /\ UNCHANGED told
  /\ known' = TRUE /\ Forgets(u)
  /\ raced' = IF known THEN raced ELSE raced \union (Between({"touch"}) \ {u})
  /\ UNCHANGED <<vars, post, kind, setting, began, last>>

(* RateLimitMiddleware. *)
TakeMessage(u) ==
  /\ at[u] = "limit"
  /\ \/ Accept("user_messages") /\ GoesTo(u, "route") /\ UNCHANGED told
     \/ Refuse("user_messages") /\ Replies(u)
  /\ UNCHANGED <<post, kind, saw, known, setting, began, raced, last>>

-----------------------------------------------------------------------------
(* The routers and their handlers                                          *)

(* Bug: the router of the documents is not included. *)
RouteWithoutMedia(k) ==
  CASE k = "text"             -> {"charge"}
    [] k = "press"            -> {"run", "reply"}
    [] k = "command"          -> {"reply"}
    [] k = "clear"            -> {"clear"}
    [] k \in {"set", "reset"} -> {"select"}
    [] OTHER                  -> {"nobody"}

(* What the handler does first.  A document may be too large or of a type  *)
(* that is not known; a press may be late, repeated, or for an action that *)
(* is another's: a reply says so.  A press that is taken is answered       *)
(* before the agent is resumed. *)
Route(k) ==
  CASE k = "text"             -> {"charge"}
    [] k = "media"            -> {"build", "reply"}
    [] k = "press"            -> {"run", "reply"}
    [] k = "command"          -> {"reply"}
    [] k = "clear"            -> {"clear"}
    [] k \in {"set", "reset"} -> {"select"}
    [] k \in Faulty           -> {"raise"}
    [] OTHER                  -> {"nobody"}

(* The select of SettingsService.set and reset.  A reset without a row     *)
(* writes nothing. *)
SelectSetting(u, k) ==
  /\ GoesTo(u, IF k = "reset" /\ setting = NoRow THEN "say" ELSE "write")
  /\ saw' = [saw EXCEPT ![u] = setting]

(* handle_clear: the messages that have been recorded for a context that   *)
(* is not built yet are removed with the rest. *)
Clears == saw' = [v \in Updates |-> IF at[v] = "build" THEN "cleared" ELSE saw[v]]

(* The middlewares do not ask what an update is, so it is found out here.  *)
Dispatch(u, k) ==
  /\ at[u] = "route"
  /\ kind' = [kind EXCEPT ![u] = k]
  /\ \E first \in Route(k) :
       CASE first \in {"nobody", "raise"} -> Drops(u) /\ UNCHANGED <<saw, began>>
         [] first = "reply"               -> Replies(u) /\ UNCHANGED <<saw, began>>
         [] first \in {"charge", "build"} -> GoesTo(u, first) /\ UNCHANGED <<told, saw, began>>
         [] first = "run"                 -> /\ GoesTo(u, "run") /\ told' = told \union {u}
                                             /\ began' = began \union {u} /\ UNCHANGED saw
         [] first = "clear"               -> Replies(u) /\ Clears /\ UNCHANGED began
         [] first = "select"              -> SelectSetting(u, k) /\ UNCHANGED <<told, began>>
  /\ raced' = IF k = "clear" THEN raced \union Between({"build"}) ELSE raced
  /\ UNCHANGED <<vars, post, known, setting, last>>

(* Bug: a text is not charged. *)
RunFree(u) ==
  /\ at[u] = "charge"
  /\ GoesTo(u, "build")
  /\ UNCHANGED <<vars, post, kind, saw, known, setting, began, told, raced, last>>

(* process_user_message: the limit of runs is for texts only. *)
TakeRun(u) ==
  /\ at[u] = "charge"
  /\ \/ Accept("agent_runs") /\ GoesTo(u, "build") /\ UNCHANGED told
     \/ Refuse("agent_runs") /\ Replies(u)
  /\ UNCHANGED <<post, kind, saw, known, setting, began, raced, last>>

(* build_context: if nothing is there any more, a photo or a document is   *)
(* put in the place of no message, and raises, and a text is handed to a   *)
(* model that takes no empty conversation.  There may be another message   *)
(* by now, or a summary that was read before. *)
BuildContext(u) ==
  /\ at[u] = "build"
  /\ \/ GoesTo(u, "run") /\ began' = began \union {u} /\ UNCHANGED told
     \/ saw[u] = "cleared" /\ Drops(u) /\ UNCHANGED began
  /\ Forgets(u)
  /\ UNCHANGED <<vars, post, kind, known, setting, raced, last>>

(* The run ends with a text, or with a card that asks for a press.  Only   *)
(* the handlers of photos and documents do not hand the message on. *)
EndRun(u) ==
  /\ at[u] = "run"
  /\ \/ /\ \E text \in Answers : Finish(u, text, kind[u] \in {"text", "press"})
        /\ UNCHANGED <<at, told>>
     \/ Replies(u) /\ post[u].stage = "none" /\ UNCHANGED post
  /\ UNCHANGED <<vars, kind, saw, known, setting, began, raced, last>>

(* The first message that arrives is a reply. *)
Deliver(u) ==
  /\ Record(u) \/ Send(u)
  /\ at' = IF post'[u].stage = "over" THEN [at EXCEPT ![u] = "over"] ELSE at
  /\ told' = IF post'[u].shown # << >> THEN told \union {u} ELSE told
  /\ UNCHANGED <<vars, kind, saw, known, setting, began, raced, last>>

(* A call out of the bot fails, and the handler raises: the file cannot be *)
(* downloaded, nothing can be committed, the model does not answer, a card *)
(* or a reply is refused by Telegram.  At "route" it is a message of which *)
(* there is such a call, neither a faulty one nor one nobody takes. *)
Fail(u) ==
  /\ at[u] \in {"route", "build", "run", "say"} /\ post[u].stage = "none"
  /\ Break(u) /\ Drops(u)
  /\ UNCHANGED <<vars, kind, saw, known, setting, began, raced, last>>

Writes(u, value) ==
  /\ setting' = value
  /\ raced' = raced \union (Between({"write", "say"}) \ {u})

(* Bug: only a new row is committed. *)
WriteUncommitted(u) ==
  /\ at[u] = "write" /\ kind[u] = "set"
  /\ \E value \in Values :
       /\ saw' = [saw EXCEPT ![u] = value]
       /\ IF saw[u] # NoRow THEN UNCHANGED <<setting, raced>> ELSE Writes(u, value)
       /\ GoesTo(u, "say")
  /\ UNCHANGED <<vars, post, kind, known, began, told, last>>

(* The commit of set: the insert of a row that is there by now raises, and *)
(* so does the update of one that is gone; a value that is the one the     *)
(* select found is not written.  An invalid one was refused before. *)
WriteSetting(u) ==
  /\ at[u] = "write" /\ kind[u] = "set"
  /\ \E value \in Values :
       \/ /\ saw[u] = value
          /\ GoesTo(u, "say") /\ UNCHANGED <<saw, setting, raced>>
       \/ /\ saw[u] # value /\ (saw[u] = NoRow <=> setting = NoRow)
          /\ Writes(u, value) /\ GoesTo(u, "say")
          /\ saw' = [saw EXCEPT ![u] = value]
       \/ /\ saw[u] # value /\ ~(saw[u] = NoRow <=> setting = NoRow)
          /\ Drops(u) /\ Forgets(u) /\ UNCHANGED <<setting, raced>>
  /\ UNCHANGED <<vars, post, kind, known, began, told, last>>

(* The commit of reset: no row to delete is no error. *)
DeleteSetting(u) ==
  /\ at[u] = "write" /\ kind[u] = "reset"
  /\ Writes(u, NoRow) /\ GoesTo(u, "say")
  /\ saw' = [saw EXCEPT ![u] = NoRow]
  /\ UNCHANGED <<vars, post, kind, known, began, told, last>>

(* The value that was set, or the default, is told. *)
SaySetting(u) ==
  /\ at[u] = "say"
  /\ Replies(u) /\ last' = saw[u] /\ Forgets(u)
  /\ UNCHANGED <<vars, post, kind, known, setting, began, raced>>

-----------------------------------------------------------------------------

Handle(u) ==
  \/ Arrive(u) \/ Touch(u) \/ TakeMessage(u)
  \/ \E k \in Kinds : Dispatch(u, k)
  \/ TakeRun(u) \/ BuildContext(u) \/ EndRun(u) \/ Deliver(u)
  \/ WriteSetting(u) \/ DeleteSetting(u) \/ SaySetting(u)
  \/ Fail(u)

IntakeNext ==
  \/ \E u \in Updates : Handle(u)
  \/ (Prune \/ Tick) /\ UNCHANGED <<post, intake>>

IntakeSpec == IntakeInit /\ [][IntakeNext]_intakeVars

-----------------------------------------------------------------------------
(* Properties                                                              *)

(* An update that comes to its end without a reply of any kind is a        *)
(* message that no handler takes or one of the three that no handler can   *)
(* answer; or, whatever it was, a call to Telegram, to the model or to the *)
(* database has failed; or, only for what reads rows and writes or uses    *)
(* them later, another update has written or cleared them in between       *)
(* (repository.py:14-26, runtime_settings.py:110-116, photo.py:31). *)
SilenceIsExplained ==
  \A u \in Updates :
    (at[u] = "over" /\ u \notin told) =>
      kind[u] \in Faulty \union {"other"} \/ post[u].broken \/ u \in raced

(* No run of the agent is free, whatever set it off: each has been counted *)
(* against the messages of its user, those of a text against the runs as   *)
(* well. *)
RunsAreCharged ==
  /\ Cardinality(began) <= Len(accepted["user_messages"])
  /\ Cardinality({u \in began : kind[u] = "text"}) <= Len(accepted["agent_runs"])

(* The value of the setting is the one the operator was told last, if each *)
(* of the commands was over before the next one looked for the row, and no *)
(* reply to one was lost. *)
SettingIsAsSaid ==
  \/ setting = last \/ last = "nothing"
  \/ \E u \in Updates :
       kind[u] \in {"set", "reset"} /\ (u \in raced \/ post[u].broken \/ at[u] = "say")

(* settings.py:36-37: /settings shows and changes the settings, /clear     *)
(* clears the memory.  A command ends with a reply, unless a call fails or *)
(* another update comes in between. *)
CommandsAreAnswered ==
  \A u \in Updates :
    (at[u] = "over" /\ kind[u] \in {"command", "clear", "set", "reset", "list", "caption"}) =>
      u \in told \/ post[u].broken \/ u \in raced

(* ratelimit.py:23, README.md:191: the limit of runs is one on all of them. *)
AllRunsAreLimited == Cardinality(began) <= Len(accepted["agent_runs"])
=============================================================================
