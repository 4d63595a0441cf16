--------------------------- MODULE Memory_proofs ---------------------------
(***************************************************************************)
(* For every number of chats, turns and messages and every budget: in a    *)
(* chat that was never cleared, summaries tell of what they cover and      *)
(* contexts of everything once, but for what was too much for a query or   *)
(* for a payload; and no chat ever hears of another.                       *)
(***************************************************************************)
EXTENDS Memory, FiniteSetTheorems, TLAPS

(* Below, H stands for the table of the messages, L for the lost ones. *)

Of(H, c) == {r \in H : r.chat = c}

UpTo(H, c, id) == {r \in Of(H, c) : r.id <= id}
Beyond(H, c, id) == {r \in Of(H, c) : r.id > id}

(* Ids and numbers tell the rows apart; n is the last number. *)
RowsOK(H, n) ==
  /\ IsFiniteSet(H) /\ H \subseteq Rows
  /\ \A r \in H : r.id >= 1 /\ r.num \in 1..n
  /\ \A r, s \in H : (r.id = s.id \/ r.num = s.num) => r = s

(* A point of the history up to which a chat can be told of: its beginning *)
(* or one of its rows.  What comes later has a larger id. *)
IsPoint(H, c, id) == id = 0 \/ \E r \in Of(H, c) : r.id = id

SummaryOK(s, H, L) ==
  IsPoint(H, s.chat, s.covers) /\ AllBut(s.text, Nums(UpTo(H, s.chat, s.covers)), L)

OwnIsThere(h, H) == \E r \in Of(H, h.chat) : r.num = h.own

(* The summary that was read tells of all up to after. *)
BaseOK(h, H, L) ==
  IsPoint(H, h.chat, h.after) /\ AllBut(h.base, Nums(UpTo(H, h.chat, h.after)), L)

(* The rows that were read go on from there; what they leave out is lost. *)
RowsGoOn(h, H, L) ==
  /\ h.rows \subseteq Beyond(H, h.chat, h.after)
  /\ \A r \in Beyond(H, h.chat, h.after) :
       (\E q \in h.rows : r.id <= q.id) => r \in h.rows \/ r.num \in L

IsExact(h, L) ==
  /\ AllBut(h.told \union h.summed, h.seen, L)
  /\ h.told \intersect h.summed = {} /\ h.own \in h.seen

HeldOK(h, H, L) ==
  /\ h.phase \in {"recorded", "reading"} => OwnIsThere(h, H)
  /\ h.phase = "recorded" => h.after = 0 /\ h.base = {}
  /\ h.phase \in {"reading", "summarizing"} => BaseOK(h, H, L)
  /\ h.phase = "summarizing" =>
       RowsGoOn(h, H, L) /\ AllBut(h.base \union Nums(h.rows), h.seen, L) /\ h.own \in h.seen
  /\ h.phase = "built" /\ h.kind = "text" => IsExact(h, L)

Uncleared(c) == cleared[c] = 0

SummaryInv == \A s \in summaries : Uncleared(s.chat) => SummaryOK(s, history, lost)

TurnInv == \A t \in Turns : Uncleared(turn[t].chat) => HeldOK(turn[t], history, lost)

OwnInv == \A t \in Turns : turn[t].phase # "idle" => turn[t].own \in 1..said

IInv == TypeOK /\ RowsOK(history, said) /\ SummaryInv /\ TurnInv /\ OwnInv

-----------------------------------------------------------------------------
(* The oldest rows *)

(* The oldest rows have no gap. *)
LEMMA OldestIsClosed ==
  ASSUME NEW S, IsFiniteSet(S), S \subseteq Rows, NEW n \in Int,
         NEW r \in Oldest(S, n), NEW s \in S, s.id <= r.id
  PROVE  s \in Oldest(S, n)
<1>1. r \in S /\ Cardinality(Before(S, r)) < n
  BY DEF Oldest
<1>2. Before(S, s) \subseteq Before(S, r)
  BY <1>1 DEF Before, Rows
<1>3. IsFiniteSet(Before(S, r))
  BY FS_Subset DEF Before
<1>4. Cardinality(Before(S, s)) <= Cardinality(Before(S, r))
  BY <1>2, <1>3, FS_Subset
<1>5. Cardinality(Before(S, s)) \in Nat /\ Cardinality(Before(S, r)) \in Nat
  BY <1>2, <1>3, FS_Subset, FS_CardinalityType
<1>6. Cardinality(Before(S, s)) < n
  BY <1>1, <1>4, <1>5
<1> QED BY <1>6 DEF Oldest

-----------------------------------------------------------------------------
(* A message is lost, a row is added, or a chat is emptied *)

(* What was right stays right when more is lost. *)
LEMMA LossStays ==
  ASSUME NEW h, NEW H, NEW L, NEW M, L \subseteq M
  PROVE  /\ HeldOK(h, H, L) => HeldOK(h, H, M)
         /\ SummaryOK(h, H, L) => SummaryOK(h, H, M)
<1>1. ASSUME NEW text, NEW all, AllBut(text, all, L) PROVE AllBut(text, all, M)
  BY <1>1 DEF AllBut
<1>2. BaseOK(h, H, L) => BaseOK(h, H, M)
  BY <1>1 DEF BaseOK
<1>3. RowsGoOn(h, H, L) => RowsGoOn(h, H, M)
  BY DEF RowsGoOn
<1>4. IsExact(h, L) => IsExact(h, M)
  BY <1>1 DEF IsExact
<1>5. SummaryOK(h, H, L) => SummaryOK(h, H, M)
  BY <1>1 DEF SummaryOK
<1> QED BY <1>1, <1>2, <1>3, <1>4, <1>5 DEF HeldOK

LEMMA PointStays ==
  ASSUME NEW H, NEW n \in Nat, RowsOK(H, n), NEW new \in Rows, \A r \in H : r.id < new.id,
         new.id >= 1, NEW c, NEW id \in Nat, IsPoint(H, c, id)
  PROVE  /\ IsPoint(H \union {new}, c, id)
         /\ UpTo(H \union {new}, c, id) = UpTo(H, c, id)
<1>1. IsPoint(H \union {new}, c, id)
  BY DEF IsPoint, Of
<1>2. id < new.id
  BY DEF IsPoint, Of, Rows
<1>3. ~ (new.id <= id)
  BY <1>2 DEF Rows
<1> QED BY <1>1, <1>3 DEF UpTo, Of

(* It leaves what a turn holds right. *)
LEMMA HeldStays ==
  ASSUME NEW H, NEW n \in Nat, RowsOK(H, n), NEW new \in Rows, \A r \in H : r.id < new.id,
         new.id >= 1, NEW h \in Held, NEW L, HeldOK(h, H, L)
  PROVE  HeldOK(h, H \union {new}, L)
<1> DEFINE H2 == H \union {new}
<1>0. h.after \in Nat
  BY DEF Held
<1>1. OwnIsThere(h, H) => OwnIsThere(h, H2)
  BY DEF OwnIsThere, Of
<1>2. BaseOK(h, H, L) => BaseOK(h, H2, L)
  BY <1>0, PointStays DEF BaseOK
<1>3. RowsGoOn(h, H, L) => RowsGoOn(h, H2, L)
  <2> SUFFICES ASSUME RowsGoOn(h, H, L) PROVE RowsGoOn(h, H2, L)
    OBVIOUS
  <2>1. h.rows \subseteq Beyond(H, h.chat, h.after) /\ h.rows \subseteq H
    BY DEF RowsGoOn, Beyond, Of
  <2>2. Beyond(H, h.chat, h.after) \subseteq Beyond(H2, h.chat, h.after)
    BY DEF Beyond, Of
  <2>3. ASSUME NEW q \in h.rows, NEW r \in Beyond(H2, h.chat, h.after), r.id <= q.id
        PROVE  r \in h.rows \/ r.num \in L
    <3>1. q.id < new.id /\ q.id \in Nat /\ new.id \in Nat
      BY <2>1 DEF RowsOK, Rows
    <3>2. r # new
      BY <2>3, <3>1
    <3>3. r \in Beyond(H, h.chat, h.after)
      BY <3>2 DEF Beyond, Of
    <3> QED BY <2>3, <3>3 DEF RowsGoOn
  <2> HIDE DEF H2
  <2> QED BY <2>1, <2>2, <2>3 DEF RowsGoOn
<1> HIDE DEF H2
<1>4. HeldOK(h, H2, L)
  BY <1>1, <1>2, <1>3 DEF HeldOK
<1> QED BY <1>4 DEF H2

(* It is one more row among the others. *)
LEMMA RowsStay ==
  ASSUME NEW H, NEW n \in Nat, RowsOK(H, n), NEW new \in Rows, \A r \in H : r.id < new.id,
         new.id >= 1, new.num = n + 1
  PROVE  RowsOK(H \union {new}, n + 1)
<1>1. IsFiniteSet(H \union {new})
  BY FS_AddElement DEF RowsOK
<1>2. H \union {new} \subseteq Rows
  BY DEF RowsOK
<1>3. \A r \in H : r.id >= 1 /\ r.num \in 1..n
  BY DEF RowsOK
<1>4. \A r \in H : r.num # new.num /\ r.id # new.id
  BY <1>2, <1>3 DEF Rows
<1>5. \A r \in H \union {new} : r.id >= 1 /\ r.num \in 1..(n + 1)
  BY <1>3
<1>6. \A r, s \in H : (r.id = s.id \/ r.num = s.num) => r = s
  BY DEF RowsOK
<1>7. \A r, s \in H \union {new} : (r.id = s.id \/ r.num = s.num) => r = s
  BY <1>4, <1>6
<1> QED BY <1>1, <1>2, <1>5, <1>7 DEF RowsOK

(* Nothing of another chat changes. *)
LEMMA OthersStay ==
  ASSUME NEW H, NEW c, NEW d, c # d
  PROVE  Of({r \in H : r.chat # c}, d) = Of(H, d)
BY DEF Of

(* What a turn holds depends on the rows of its chat only. *)
LEMMA HeldOfChat ==
  ASSUME NEW h, NEW H, NEW G, NEW L, Of(H, h.chat) = Of(G, h.chat), HeldOK(h, H, L)
  PROVE  HeldOK(h, G, L)
<1>1. OwnIsThere(h, H) => OwnIsThere(h, G)
  BY DEF OwnIsThere
<1>2. BaseOK(h, H, L) => BaseOK(h, G, L)
  BY DEF BaseOK, IsPoint, UpTo
<1>3. RowsGoOn(h, H, L) => RowsGoOn(h, G, L)
  BY DEF RowsGoOn, Beyond
<1> QED BY <1>1, <1>2, <1>3 DEF HeldOK

-----------------------------------------------------------------------------
(* What the steps do *)

LEMMA AppendDoes ==
  ASSUME TypeOK, RowsOK(history, said), NEW c \in Chats, NEW role \in {"user", "assistant"},
         Append(c, role)
  PROVE  \E new \in Rows :
           /\ new.chat = c /\ new.num = said + 1 /\ new.id >= 1
           /\ \A r \in history : r.id < new.id
           /\ history' = history \union {new} /\ said' = said + 1
<1>1. PICK id \in 1..(MaxMessages + 1) :
        /\ \A r \in history : r.id < id
        /\ history' = history \union {NewRow(id, c, role)}
        /\ said' = said + 1
  BY DEF Append
<1>2. id \in Nat /\ id >= 1 /\ said + 1 \in Nat
  BY MemoryAssumption DEF TypeOK
<1>3. NewRow(id, c, role) \in Rows
  BY <1>2 DEF NewRow, Rows
<1>4. NewRow(id, c, role).id = id /\ NewRow(id, c, role).chat = c
      /\ NewRow(id, c, role).num = said + 1
  BY DEF NewRow
<1> QED BY <1>1, <1>2, <1>3, <1>4

(* A turn that rests holds nothing. *)
LEMMA RestIsHeld ==
  ASSUME NEW c \in Chats
  PROVE  /\ Rest(c) \in Held
         /\ Rest(c).phase = "idle" /\ Rest(c).chat = c /\ Rest(c).after = 0
         /\ Rest(c).base = {} /\ Rest(c).rows = {} /\ Rest(c).told = {} /\ Rest(c).summed = {}
BY DEF Rest, Held

(* The numbers of rows are numbers. *)
LEMMA NumsAreNat ==
  ASSUME NEW S, S \subseteq Rows
  PROVE  Nums(S) \subseteq Nat
BY DEF Nums, Rows

(* What the context x of a turn is made of. *)
IsContext(x, h, rows, text) ==
  /\ x \in Held /\ x.phase = "built"
  /\ x.chat = h.chat /\ x.kind = h.kind /\ x.own = h.own /\ x.seen = h.seen
  /\ x.base = h.base /\ x.rows = h.rows
  /\ x.kind = "text" => x.told = Nums(rows) /\ x.summed = text
  /\ x.told \subseteq Nums(rows) \union {h.own} /\ x.summed \subseteq text

(* What a context is made of. *)
LEMMA ContextIs ==
  ASSUME NEW h \in Held, NEW rows \in SUBSET Rows, NEW text \in SUBSET Nat
  PROVE  IsContext(Context(h, rows, text), h, rows, text)
<1> DEFINE lasts == {r \in rows : Later(rows, r) = {}}
           alone == rows = lasts /\ \A r \in rows : r.role = "user"
           told == Nums(rows \ lasts) \union {h.own}
           summed == IF alone THEN {} ELSE text
           plain == [h EXCEPT !.phase = "built", !.told = Nums(rows), !.summed = text]
           picture == [h EXCEPT !.phase = "built", !.told = told, !.summed = summed,
                                !.replaced = Nums(lasts)]
<1>1. Context(h, rows, text) = IF h.kind = "text" THEN plain ELSE picture
  BY DEF Context
<1>2. Nums(rows) \subseteq Nat /\ Nums(lasts) \subseteq Nat
  BY NumsAreNat
<1>3. told \subseteq Nums(rows) \union {h.own} /\ told \subseteq Nat
  BY <1>2 DEF Nums, Held
<1>4. summed \subseteq text /\ summed \subseteq Nat
  OBVIOUS
<1> HIDE DEF told, summed, lasts, alone
<1>5. plain \in Held /\ picture \in Held
  BY <1>2, <1>3, <1>4 DEF Held
<1>6. /\ plain.phase = "built" /\ plain.chat = h.chat /\ plain.kind = h.kind
      /\ plain.own = h.own /\ plain.seen = h.seen /\ plain.base = h.base
      /\ plain.rows = h.rows /\ plain.told = Nums(rows) /\ plain.summed = text
  BY DEF Held
<1>7. /\ picture.phase = "built" /\ picture.chat = h.chat /\ picture.kind = h.kind
      /\ picture.own = h.own /\ picture.seen = h.seen /\ picture.base = h.base
      /\ picture.rows = h.rows /\ picture.told = told /\ picture.summed = summed
  BY DEF Held
<1> HIDE DEF plain, picture
<1> QED BY <1>1, <1>3, <1>4, <1>5, <1>6, <1>7 DEF IsContext

(* A step of turn t sets what t holds to h. *)
Sets(t, h) ==
  /\ turn' \in [Turns -> Held] /\ turn'[t] = h
  /\ \A u \in Turns : u # t => turn'[u] = turn[u]

(* The other turns are as they were. *)
LEMMA SetsHeld ==
  ASSUME TypeOK, NEW t \in Turns, NEW h \in Held, turn' = [turn EXCEPT ![t] = h]
  PROVE  Sets(t, h)
BY DEF TypeOK, Sets

(* The actions, as far as the proofs need them: the rows, the summaries    *)
(* and what the turn holds. *)
LEMMA RecordDoes ==
  ASSUME TypeOK, NEW t \in Turns, NEW c \in Chats, NEW k \in Kinds, Record(t, c, k)
  PROVE  \E h \in Held :
           /\ Sets(t, h) /\ h.phase = "recorded" /\ h.chat = c /\ h.own = said + 1
           /\ h.after = 0 /\ h.base = {} /\ h.rows = {} /\ h.told = {} /\ h.summed = {}
<1> DEFINE h == [Rest(c) EXCEPT !.phase = "recorded", !.kind = k, !.own = said + 1]
<1>1. h \in Held
  <2>1. k \in {"text", "photo"} /\ said + 1 \in Nat
    BY MemoryAssumption DEF TypeOK
  <2> QED BY <2>1 DEF Rest, Held
<1>2. turn' = [turn EXCEPT ![t] = h]
  BY DEF Record
<1>3. /\ h.phase = "recorded" /\ h.chat = c /\ h.own = said + 1
      /\ h.after = 0 /\ h.base = {} /\ h.rows = {} /\ h.told = {} /\ h.summed = {}
  BY DEF Rest
<1> HIDE DEF h
<1> QED BY <1>1, <1>2, <1>3, SetsHeld

(* The last summary is read, or there is none. *)
LEMMA ReadSummaryDoes ==
  ASSUME TypeOK, NEW t \in Turns, ReadSummary(t)
  PROVE  \E h \in Held :
           /\ Sets(t, h) /\ turn[t].phase = "recorded" /\ h.phase = "reading"
           /\ h.chat = turn[t].chat /\ h.own = turn[t].own /\ h.rows = turn[t].rows
           /\ h.told = turn[t].told /\ h.summed = turn[t].summed
           /\ \/ \E s \in summaries : s.chat = h.chat /\ h.after = s.covers /\ h.base = s.text
              \/ h.after = turn[t].after /\ h.base = turn[t].base
<1>1. turn[t] \in Held
  BY DEF TypeOK
<1>2. PICK enabled \in BOOLEAN, keep \in KeepRecents :
        \/ \E s \in summaries :
             /\ IsLatest(s, turn[t].chat)
             /\ turn' = [turn EXCEPT ![t].phase = "reading", ![t].enabled = enabled,
                           ![t].keep = keep, ![t].after = s.covers, ![t].base = s.text]
        \/ turn' = [turn EXCEPT ![t].phase = "reading", ![t].enabled = enabled,
                      ![t].keep = keep]
  BY DEF ReadSummary
<1>3. keep \in Nat
  BY MemoryAssumption
<1>4. ASSUME NEW s \in summaries, IsLatest(s, turn[t].chat),
             turn' = [turn EXCEPT ![t].phase = "reading", ![t].enabled = enabled,
                        ![t].keep = keep, ![t].after = s.covers, ![t].base = s.text]
      PROVE  \E h \in Held :
               /\ Sets(t, h) /\ h.phase = "reading"
               /\ h.chat = turn[t].chat /\ h.own = turn[t].own /\ h.rows = turn[t].rows
               /\ h.told = turn[t].told /\ h.summed = turn[t].summed
               /\ s.chat = h.chat /\ h.after = s.covers /\ h.base = s.text
  <2> DEFINE h == [turn[t] EXCEPT !.phase = "reading", !.enabled = enabled, !.keep = keep,
                                  !.after = s.covers, !.base = s.text]
  <2>1. turn' = [turn EXCEPT ![t] = h]
    BY <1>4 DEF TypeOK
  <2>2. s.covers \in Nat /\ s.text \subseteq Nat /\ s.chat = turn[t].chat
    BY <1>4 DEF TypeOK, Summaries, IsLatest
  <2>3. h \in Held
    BY <1>1, <1>3, <2>2 DEF Held
  <2>4. /\ h.phase = "reading" /\ h.chat = turn[t].chat /\ h.own = turn[t].own
        /\ h.rows = turn[t].rows /\ h.told = turn[t].told /\ h.summed = turn[t].summed
        /\ h.after = s.covers /\ h.base = s.text
    BY <1>1 DEF Held
  <2> HIDE DEF h
  <2> QED BY <2>1, <2>2, <2>3, <2>4, SetsHeld
<1>5. ASSUME turn' = [turn EXCEPT ![t].phase = "reading", ![t].enabled = enabled,
                        ![t].keep = keep]
      PROVE  \E h \in Held :
               /\ Sets(t, h) /\ h.phase = "reading"
               /\ h.chat = turn[t].chat /\ h.own = turn[t].own /\ h.rows = turn[t].rows
               /\ h.told = turn[t].told /\ h.summed = turn[t].summed
               /\ h.after = turn[t].after /\ h.base = turn[t].base
  <2> DEFINE h == [turn[t] EXCEPT !.phase = "reading", !.enabled = enabled, !.keep = keep]
  <2>1. turn' = [turn EXCEPT ![t] = h]
    BY <1>5 DEF TypeOK
  <2>2. h \in Held
    BY <1>1, <1>3 DEF Held
  <2>3. /\ h.phase = "reading" /\ h.chat = turn[t].chat /\ h.own = turn[t].own
        /\ h.rows = turn[t].rows /\ h.told = turn[t].told /\ h.summed = turn[t].summed
        /\ h.after = turn[t].after /\ h.base = turn[t].base
    BY <1>1 DEF Held
  <2> HIDE DEF h
  <2> QED BY <2>1, <2>2, <2>3, SetsHeld
<1>6. turn[t].phase = "recorded"
  BY DEF ReadSummary
<1>7. CASE \E s \in summaries :
             /\ IsLatest(s, turn[t].chat)
             /\ turn' = [turn EXCEPT ![t].phase = "reading", ![t].enabled = enabled,
                           ![t].keep = keep, ![t].after = s.covers, ![t].base = s.text]
  BY <1>4, <1>6, <1>7, Zenon
<1>8. CASE turn' = [turn EXCEPT ![t].phase = "reading", ![t].enabled = enabled,
                      ![t].keep = keep]
  BY <1>5, <1>6, <1>8, Zenon
<1> QED BY <1>2, <1>7, <1>8, Zenon

(* The rows that were read: those that are left out are lost. *)
LEMMA ReadMessagesDoes ==
  ASSUME TypeOK, RowsOK(history, said), NEW t \in Turns, ReadMessages(t)
  PROVE  LET o == turn[t]
             after == After(o.chat, o.after)
         IN  \E h \in Held :
               /\ Sets(t, h) /\ o.phase = "reading"
               /\ h.chat = o.chat /\ h.own = o.own /\ h.base = o.base
               /\ h.seen = Nums(Of(history, h.chat))
               /\ h.rows \subseteq after
               /\ lost' = lost \union Nums(after \ h.rows)
               /\ \/ h.phase = "summarizing" /\ h.told = o.told /\ h.summed = o.summed
                     /\ h.after = o.after
                  \/ IsContext(h, h, h.rows, h.base)
<1> DEFINE o == turn[t]
           after == After(o.chat, o.after)
           rows == MessagesAfter(o.chat, o.after)
           seen == Nums({r \in history : r.chat = o.chat})
           h == [o EXCEPT !.rows = rows, !.seen = seen]
           x == Context(h, h.rows, h.base)
           y == [h EXCEPT !.phase = "summarizing"]
<1>1. o \in Held
  BY DEF TypeOK
<1>2. after \subseteq history /\ IsFiniteSet(after)
  BY FS_Subset DEF After, RowsOK
<1>3. rows \subseteq after /\ rows \subseteq Rows
  BY <1>2 DEF MessagesAfter, Newest, TypeOK
<1>4. seen = Nums(Of(history, o.chat)) /\ seen \subseteq Nat
  BY NumsAreNat DEF Of, TypeOK
<1>7. lost' = lost \union Nums(after \ rows)
  BY DEF ReadMessages, MessagesAfter
<1>8. turn' = [turn EXCEPT ![t] = IF MustSummarize(h) THEN y ELSE x] /\ o.phase = "reading"
  BY DEF ReadMessages
<1> HIDE DEF o, after, rows, seen
<1>9. /\ h \in Held /\ h.rows = rows /\ h.seen = seen /\ h.chat = o.chat /\ h.own = o.own
      /\ h.base = o.base /\ h.after = o.after /\ h.told = o.told /\ h.summed = o.summed
      /\ h.kind = o.kind /\ h.base \subseteq Nat
  BY <1>1, <1>3, <1>4 DEF Held
<1>10. /\ y \in Held /\ y.rows = rows /\ y.seen = seen /\ y.chat = o.chat /\ y.own = o.own
       /\ y.base = o.base /\ y.after = o.after /\ y.told = o.told /\ y.summed = o.summed
       /\ y.phase = "summarizing"
  BY <1>1, <1>3, <1>4 DEF Held
<1> HIDE DEF h, y
<1>11. IsContext(x, h, rows, o.base)
  BY <1>3, <1>9, ContextIs
<1> HIDE DEF x
<1>12. CASE MustSummarize(h)
  <2>1. Sets(t, y)
    BY <1>8, <1>10, <1>12, SetsHeld
  <2>2. y.seen = Nums(Of(history, y.chat)) /\ y.rows \subseteq after
        /\ lost' = lost \union Nums(after \ y.rows)
    BY <1>3, <1>4, <1>7, <1>10
  <2> QED BY <1>8, <1>10, <2>1, <2>2 DEF o, after
<1>13. CASE ~MustSummarize(h)
  <2>1. Sets(t, x)
    BY <1>8, <1>11, <1>13, SetsHeld DEF IsContext
  <2>2. /\ x \in Held /\ x.chat = o.chat /\ x.own = o.own /\ x.base = o.base
        /\ x.seen = seen /\ x.rows = rows
    BY <1>9, <1>11 DEF IsContext
  <2>3. IsContext(x, x, x.rows, x.base)
    BY <1>11, <2>2 DEF IsContext
  <2>4. x.seen = Nums(Of(history, x.chat)) /\ x.rows \subseteq after
        /\ lost' = lost \union Nums(after \ x.rows)
    BY <1>3, <1>4, <1>7, <2>2
  <2> QED BY <1>8, <2>1, <2>2, <2>3, <2>4 DEF o, after
<1> QED BY <1>12, <1>13

(* A summary up to the last of the old rows, of some of them, and a        *)
(* context with it. *)
LEMMA SummarizerAnswersDoes ==
  ASSUME TypeOK, NEW t \in Turns, SummarizerAnswers(t)
  PROVE  LET o == turn[t]
             old == ToSummarize(o)
         IN  \E h \in Held, r \in old, fit \in SUBSET old, s \in Summaries :
               /\ Sets(t, h) /\ o.phase = "summarizing" /\ Later(old, r) = {}
               /\ s.chat = o.chat /\ s.covers = r.id /\ s.text = o.base \union Nums(fit)
               /\ summaries' = summaries \union {s}
               /\ IsContext(h, o, o.rows \ old, s.text)
               /\ lost' = lost \union Nums(old \ fit)
<1> DEFINE o == turn[t]
           old == ToSummarize(o)
<1>1. o \in Held
  BY DEF TypeOK
<1>2. o.rows \subseteq Rows /\ o.base \subseteq Nat /\ o.chat \in Chats
  BY <1>1 DEF Held
<1>3. old \subseteq o.rows
  BY DEF ToSummarize, Oldest
<1>4. PICK n \in Fits :
        /\ \E r \in old :
             /\ Later(old, r) = {}
             /\ summaries' = summaries \union
                  {[chat |-> o.chat, covers |-> r.id, text |-> SummaryText(o, n)]}
        /\ turn' = [turn EXCEPT ![t] = Context(o, o.rows \ old, SummaryText(o, n))]
        /\ lost' = lost \union Nums(old \ Oldest(old, n))
  BY DEF SummarizerAnswers
<1> DEFINE fit == Oldest(old, n)
           text == o.base \union Nums(fit)
           h == Context(o, o.rows \ old, text)
<1>5. fit \subseteq old
  BY DEF Oldest
<1>6. SummaryText(o, n) = text
  BY DEF SummaryText
<1>7. text \subseteq Nat
  BY <1>2, <1>3, <1>5, NumsAreNat
<1>8. PICK r \in old :
        /\ Later(old, r) = {}
        /\ summaries' = summaries \union {[chat |-> o.chat, covers |-> r.id, text |-> text]}
  BY <1>4, <1>6
<1>9. turn' = [turn EXCEPT ![t] = h]
  BY <1>4, <1>6
<1>10. o.phase = "summarizing"
  BY DEF SummarizerAnswers
<1>11. lost' = lost \union Nums(old \ fit)
  BY <1>4
<1>12. r.id \in Nat
  BY <1>2, <1>3, <1>8 DEF Rows
<1> DEFINE s == [chat |-> o.chat, covers |-> r.id, text |-> text]
<1> HIDE DEF o, old, fit, text
<1>13. s \in Summaries /\ s.chat = o.chat /\ s.covers = r.id /\ s.text = text
  BY <1>2, <1>7, <1>12 DEF Summaries
<1>14. IsContext(h, o, o.rows \ old, text)
  <2>1. o.rows \ old \in SUBSET Rows
    BY <1>2
  <2> QED BY <1>1, <1>7, <2>1, ContextIs
<1> HIDE DEF h
<1>15. h \in Held /\ Sets(t, h)
  BY <1>9, <1>14, SetsHeld DEF IsContext
<1>16. summaries' = summaries \union {s}
  BY <1>8
<1>17. s.text = o.base \union Nums(fit)
  BY <1>13 DEF text
<1> HIDE DEF s
<1> QED BY <1>5, <1>8, <1>10, <1>11, <1>13, <1>14, <1>15, <1>16, <1>17 DEF o, old

(* A context of what was read. *)
LEMMA SummarizerFailsDoes ==
  ASSUME TypeOK, NEW t \in Turns, SummarizerFails(t)
  PROVE  LET o == turn[t]
         IN  \E h \in Held :
               Sets(t, h) /\ o.phase = "summarizing" /\ IsContext(h, o, o.rows, o.base)
<1> DEFINE o == turn[t]
           h == Context(o, o.rows, o.base)
<1>1. o \in Held
  BY DEF TypeOK
<1>2. o.rows \in SUBSET Rows /\ o.base \in SUBSET Nat
  BY <1>1 DEF Held
<1>3. turn' = [turn EXCEPT ![t] = h] /\ o.phase = "summarizing"
  BY DEF SummarizerFails
<1> HIDE DEF o
<1>4. IsContext(h, o, o.rows, o.base)
  BY <1>1, <1>2, ContextIs
<1> HIDE DEF h
<1>5. h \in Held /\ Sets(t, h)
  BY <1>3, <1>4, SetsHeld DEF IsContext
<1> QED BY <1>3, <1>4, <1>5 DEF o

(* Answer and EndTurn. *)
LEMMA RestDoes ==
  ASSUME TypeOK, NEW t \in Turns, turn' = [turn EXCEPT ![t] = Rest(@.chat)]
  PROVE  /\ Sets(t, Rest(turn[t].chat)) /\ Rest(turn[t].chat) \in Held
         /\ turn[t].chat \in Chats
<1>1. turn[t].chat \in Chats
  BY DEF TypeOK, Held
<1>2. turn' = [turn EXCEPT ![t] = Rest(turn[t].chat)]
  OBVIOUS
<1> QED BY <1>1, <1>2, RestIsHeld, SetsHeld

-----------------------------------------------------------------------------
(* The steps keep the invariant *)

(* A step of a turn that neither adds a row nor takes one away. *)
LEMMA TurnKeeps ==
  ASSUME IInv, NEW t \in Turns, NEW h \in Held, Sets(t, h),
         UNCHANGED <<history, said, clears, cleared>>,
         lost \subseteq lost', lost' \subseteq Nat,
         h.phase # "idle" => h.own = turn[t].own /\ turn[t].phase # "idle",
         Uncleared(h.chat) => HeldOK(h, history, lost'),
         summaries' \subseteq Summaries,
         \A s \in summaries' : Uncleared(s.chat) =>
           s \in summaries \/ SummaryOK(s, history, lost')
  PROVE  IInv'
<1>1. TypeOK'
  BY DEF IInv, TypeOK, Sets
<1>2. RowsOK(history, said)'
  BY DEF IInv
<1>4. SummaryInv'
  <2> SUFFICES ASSUME NEW s \in summaries', Uncleared(s.chat)
               PROVE  SummaryOK(s, history, lost')
    BY DEF SummaryInv, Uncleared
  <2>1. CASE s \in summaries
    <3>1. SummaryOK(s, history, lost)
      BY <2>1 DEF IInv, SummaryInv
    <3> QED BY <3>1, LossStays
  <2> QED BY <2>1
<1>5. TurnInv'
  <2> SUFFICES ASSUME NEW u \in Turns, Uncleared(turn'[u].chat)
               PROVE  HeldOK(turn'[u], history, lost')
    BY DEF TurnInv, Uncleared
  <2>1. CASE u = t
    BY <2>1 DEF Sets
  <2>2. CASE u # t
    <3>1. turn'[u] = turn[u]
      BY <2>2 DEF Sets
    <3>2. HeldOK(turn[u], history, lost)
      BY <3>1 DEF IInv, TurnInv
    <3> QED BY <3>1, <3>2, LossStays
  <2> QED BY <2>1, <2>2
<1>6. OwnInv'
  BY DEF OwnInv, IInv, Sets
<1> QED BY <1>1, <1>2, <1>4, <1>5, <1>6 DEF IInv

(* The summary that was read is complete, so the turn has a base. *)
LEMMA ReadSummaryKeeps ==
  ASSUME IInv, NEW t \in Turns, ReadSummary(t)
  PROVE  IInv'
<1> DEFINE o == turn[t]
<1>0. TypeOK /\ o \in Held
  BY DEF IInv, TypeOK
<1>1. PICK h \in Held :
        /\ Sets(t, h) /\ o.phase = "recorded" /\ h.phase = "reading"
        /\ h.chat = o.chat /\ h.own = o.own
        /\ \/ \E s \in summaries : s.chat = h.chat /\ h.after = s.covers /\ h.base = s.text
           \/ h.after = o.after /\ h.base = o.base
  BY <1>0, ReadSummaryDoes
<1>2. UNCHANGED <<history, summaries, said, clears, cleared, lost>>
  BY DEF ReadSummary
<1>3. ASSUME Uncleared(o.chat) PROVE HeldOK(h, history, lost)
  <2>1. HeldOK(o, history, lost)
    BY <1>3 DEF IInv, TurnInv
  <2>2. OwnIsThere(h, history)
    BY <2>1, <1>1 DEF HeldOK, OwnIsThere
  <2>3. ASSUME \E s \in summaries : s.chat = h.chat /\ h.after = s.covers /\ h.base = s.text
        PROVE  BaseOK(h, history, lost)
    BY <1>1, <1>3, <2>3 DEF BaseOK, IInv, SummaryInv, SummaryOK
  <2>4. ASSUME h.after = o.after, h.base = o.base
        PROVE  BaseOK(h, history, lost)
    <3>1. h.after = 0 /\ h.base = {}
      BY <1>1, <2>1, <2>4 DEF HeldOK
    <3>2. \A r \in history : r.id \in Nat /\ r.id >= 1
      BY DEF IInv, RowsOK, Rows
    <3>3. UpTo(history, h.chat, 0) = {}
      BY <3>2 DEF UpTo, Of
    <3>4. Nums({}) = {}
      BY DEF Nums
    <3> QED BY <3>1, <3>3, <3>4 DEF BaseOK, IsPoint, AllBut
  <2>5. BaseOK(h, history, lost)
    BY <1>1, <2>3, <2>4
  <2> QED BY <1>1, <2>2, <2>5 DEF HeldOK
<1>4. summaries' \subseteq Summaries /\ lost' \subseteq Nat
  BY <1>0, <1>2 DEF TypeOK
<1>5. h.chat = o.chat
  BY <1>1
<1> HIDE DEF o
<1> QED BY <1>1, <1>2, <1>3, <1>4, <1>5, TurnKeeps DEF o

(* What there is after the summary goes on from it, and the two are all. *)
LEMMA ReadIsAll ==
  ASSUME NEW n \in Nat, RowsOK(history, n), NEW h \in Held, BaseOK(h, history, lost)
  PROVE  /\ After(h.chat, h.after) = Beyond(history, h.chat, h.after)
         /\ AllBut(h.base \union Nums(After(h.chat, h.after)), Nums(Of(history, h.chat)), lost)
         /\ h.base \intersect Nums(After(h.chat, h.after)) = {}
<1>1. After(h.chat, h.after) = Beyond(history, h.chat, h.after)
  BY DEF After, Beyond, Of
<1>2. h.after \in Nat /\ \A r \in history : r.id \in Nat
  BY DEF Held, RowsOK, Rows
<1>3. Of(history, h.chat) = UpTo(history, h.chat, h.after) \union Beyond(history, h.chat, h.after)
  BY <1>2 DEF UpTo, Beyond, Of
<1>4. \A r \in UpTo(history, h.chat, h.after), s \in Beyond(history, h.chat, h.after) :
        r.num # s.num
  BY <1>2 DEF UpTo, Beyond, Of, RowsOK
<1>5. AllBut(h.base, Nums(UpTo(history, h.chat, h.after)), lost)
  BY DEF BaseOK
<1>6. AllBut(h.base \union Nums(Beyond(history, h.chat, h.after)), Nums(Of(history, h.chat)), lost)
  BY <1>3, <1>5 DEF AllBut, Nums
<1>7. h.base \intersect Nums(Beyond(history, h.chat, h.after)) = {}
  BY <1>4, <1>5 DEF AllBut, Nums
<1> QED BY <1>1, <1>6, <1>7

(* The rows that were read go on from the base. *)
LEMMA ReadMessagesKeeps ==
  ASSUME IInv, NEW t \in Turns, ReadMessages(t)
  PROVE  IInv'
<1> DEFINE o == turn[t]
           after == After(o.chat, o.after)
<1>0. TypeOK /\ o \in Held /\ RowsOK(history, said) /\ said \in Nat
  BY DEF IInv, TypeOK
<1>1. PICK h \in Held :
        /\ Sets(t, h) /\ o.phase = "reading"
        /\ h.chat = o.chat /\ h.own = o.own /\ h.base = o.base
        /\ h.seen = Nums(Of(history, h.chat))
        /\ h.rows \subseteq after
        /\ lost' = lost \union Nums(after \ h.rows)
        /\ \/ h.phase = "summarizing" /\ h.after = o.after
           \/ IsContext(h, h, h.rows, h.base)
  BY <1>0, ReadMessagesDoes
<1>2. UNCHANGED <<history, summaries, said, clears, cleared>>
  BY DEF ReadMessages
<1>3. ASSUME Uncleared(o.chat) PROVE HeldOK(h, history, lost')
  <2>1. HeldOK(o, history, lost)
    BY <1>3 DEF IInv, TurnInv
  <2>2. OwnIsThere(o, history) /\ BaseOK(o, history, lost)
    BY <1>1, <2>1 DEF HeldOK
  <2>3. o.own \in Nums(Of(history, o.chat))
    BY <2>2 DEF OwnIsThere, Nums
  <2>4. /\ after = Beyond(history, o.chat, o.after)
        /\ AllBut(o.base \union Nums(after), Nums(Of(history, o.chat)), lost)
        /\ o.base \intersect Nums(after) = {}
    BY <1>0, <2>2, ReadIsAll
  <2> HIDE DEF after, o
  <2>5. Nums(h.rows) \subseteq Nums(after) /\ Nums(after) \subseteq Nums(h.rows) \union lost'
    BY <1>1 DEF Nums
  <2>6. /\ AllBut(h.base \union Nums(h.rows), h.seen, lost')
        /\ h.base \intersect Nums(h.rows) = {}
    BY <1>1, <2>4, <2>5 DEF AllBut
  <2>7. CASE h.phase = "summarizing" /\ h.after = o.after
    <3>1. BaseOK(h, history, lost')
      BY <1>1, <2>2, <2>7 DEF BaseOK, AllBut
    <3>2. \A r \in after : r \in h.rows \/ r.num \in lost'
      BY <1>1 DEF Nums
    <3>3. RowsGoOn(h, history, lost')
      BY <1>1, <2>4, <2>7, <3>2 DEF RowsGoOn
    <3> QED BY <1>1, <2>3, <2>6, <2>7, <3>1, <3>3 DEF HeldOK
  <2>8. CASE IsContext(h, h, h.rows, h.base)
    <3>1. h.phase = "built"
      BY <2>8 DEF IsContext
    <3>2. h.kind = "text" => h.told = Nums(h.rows) /\ h.summed = h.base
      BY <2>8 DEF IsContext
    <3>3. h.kind = "text" => IsExact(h, lost')
      BY <1>1, <2>3, <2>6, <3>2 DEF IsExact, AllBut
    <3> QED BY <3>1, <3>3 DEF HeldOK
  <2> QED BY <1>1, <2>7, <2>8
<1>4. summaries' \subseteq Summaries
  BY <1>0, <1>2 DEF TypeOK
<1>5. lost' \subseteq Nat
  <2>1. after \ h.rows \subseteq Rows
    BY <1>0 DEF After, TypeOK
  <2>2. lost \subseteq Nat
    BY <1>0 DEF TypeOK
  <2> HIDE DEF after
  <2> QED BY <1>1, <2>1, <2>2, NumsAreNat
<1>6. h.chat = o.chat /\ lost \subseteq lost'
  BY <1>1
<1>7. o.phase # "idle"
  BY <1>1
<1> HIDE DEF o, after
<1> QED BY <1>1, <1>2, <1>3, <1>4, <1>5, <1>6, <1>7, TurnKeeps DEF o

(* The summary that is saved covers the old one's messages and the oldest  *)
(* of the new ones, up to r, and tells of those that fit. *)
LEMMA SavedIsComplete ==
  ASSUME NEW n \in Nat, RowsOK(history, n), NEW h \in Held,
         BaseOK(h, history, lost), RowsGoOn(h, history, lost),
         NEW r \in ToSummarize(h), Later(ToSummarize(h), r) = {},
         NEW fit \in SUBSET ToSummarize(h)
  PROVE  /\ r \in Of(history, h.chat)
         /\ AllBut(h.base \union Nums(fit), Nums(UpTo(history, h.chat, r.id)),
                   lost \union Nums(ToSummarize(h) \ fit))
         /\ ToSummarize(h) \subseteq h.rows
         /\ h.base \intersect Nums(h.rows) = {}
         /\ Nums(h.rows \ ToSummarize(h)) \intersect Nums(ToSummarize(h)) = {}
<1> DEFINE old == ToSummarize(h)
           m == Cardinality(h.rows) - h.keep
<1>1. h.rows \subseteq Beyond(history, h.chat, h.after) /\ h.rows \subseteq history
  BY DEF RowsGoOn, Beyond, Of
<1>2. IsFiniteSet(h.rows) /\ h.rows \subseteq Rows
  BY <1>1, FS_Subset DEF RowsOK
<1>3. m \in Int
  <2>1. Cardinality(h.rows) \in Nat /\ h.keep \in Nat
    BY <1>2, FS_CardinalityType DEF Held
  <2> QED BY <2>1
<1>4. old = Oldest(h.rows, m) /\ old \subseteq h.rows
  BY DEF ToSummarize, Oldest
<1> HIDE DEF m, old
<1>5. \A q \in h.rows : q.id <= r.id => q \in old
  BY <1>2, <1>3, <1>4, OldestIsClosed DEF old
<1>6. r \in old /\ r \in h.rows
  BY <1>4 DEF old
<1>7. h.after \in Nat /\ \A q \in history : q.id \in Nat
  BY DEF Held, RowsOK, Rows
<1>8. \A q \in old : q.id <= r.id
  BY <1>1, <1>4, <1>6, <1>7 DEF Later, old
<1>9. \A q \in Beyond(history, h.chat, h.after) : q.id <= r.id => q \in h.rows \/ q.num \in lost
  BY <1>6 DEF RowsGoOn
<1>10. r.id > h.after /\ r \in Of(history, h.chat)
  BY <1>1, <1>6 DEF Beyond
<1>11. /\ UpTo(history, h.chat, h.after) \union old \subseteq UpTo(history, h.chat, r.id)
       /\ \A q \in UpTo(history, h.chat, r.id) :
            q \in UpTo(history, h.chat, h.after) \/ q \in old \/ q.num \in lost
  <2>1. ASSUME NEW q \in UpTo(history, h.chat, r.id), q \notin UpTo(history, h.chat, h.after)
        PROVE  q \in old \/ q.num \in lost
    <3>1. q \in Beyond(history, h.chat, h.after) /\ q.id <= r.id
      BY <1>7, <2>1 DEF UpTo, Beyond, Of
    <3> QED BY <1>5, <1>9, <3>1
  <2>2. UpTo(history, h.chat, h.after) \subseteq UpTo(history, h.chat, r.id)
    <3> SUFFICES ASSUME NEW q \in UpTo(history, h.chat, h.after)
                 PROVE  q \in UpTo(history, h.chat, r.id)
      OBVIOUS
    <3>1. q \in Of(history, h.chat) /\ q.id <= h.after /\ q.id \in Nat /\ r.id \in Nat
      BY <1>1, <1>6, <1>7 DEF UpTo, Of
    <3> QED BY <1>7, <1>10, <3>1 DEF UpTo
  <2>3. old \subseteq UpTo(history, h.chat, r.id)
    BY <1>1, <1>4, <1>8 DEF UpTo, Beyond
  <2> QED BY <2>1, <2>2, <2>3
<1>12. AllBut(h.base \union Nums(fit), Nums(UpTo(history, h.chat, r.id)),
              lost \union Nums(old \ fit))
  <2> DEFINE up == UpTo(history, h.chat, h.after)
             all == UpTo(history, h.chat, r.id)
             gone == lost \union Nums(old \ fit)
  <2>1. h.base \subseteq Nums(up) /\ Nums(up) \subseteq h.base \union lost
    BY DEF BaseOK, AllBut
  <2>2. fit \subseteq old
    BY DEF old
  <2> HIDE DEF up, all
  <2>3. up \subseteq all /\ old \subseteq all
    BY <1>11 DEF up, all
  <2>4. \A q \in all : q \in up \/ q \in old \/ q.num \in lost
    BY <1>11 DEF up, all
  <2>5. h.base \union Nums(fit) \subseteq Nums(all)
    BY <2>1, <2>2, <2>3 DEF Nums
  <2>6. Nums(all) \subseteq Nums(up) \union Nums(old) \union lost
    BY <2>4 DEF Nums
  <2>7. Nums(old) \subseteq Nums(fit) \union Nums(old \ fit)
    BY DEF Nums
  <2>8. AllBut(h.base \union Nums(fit), Nums(all), gone)
    BY <2>1, <2>5, <2>6, <2>7 DEF AllBut
  <2> QED BY <2>8 DEF all
<1>13. h.base \intersect Nums(h.rows) = {}
  <2>1. h.base \intersect Nums(Beyond(history, h.chat, h.after)) = {}
    BY ReadIsAll
  <2>2. Nums(h.rows) \subseteq Nums(Beyond(history, h.chat, h.after))
    BY <1>1 DEF Nums
  <2> QED BY <2>1, <2>2
<1>14. Nums(h.rows \ old) \intersect Nums(old) = {}
  BY <1>1, <1>4 DEF Nums, RowsOK
<1> QED BY <1>4, <1>10, <1>12, <1>13, <1>14 DEF old

(* The summary that is saved is complete, but for what is lost. *)
LEMMA SummarizerAnswersKeeps ==
  ASSUME IInv, NEW t \in Turns, SummarizerAnswers(t)
  PROVE  IInv'
<1> DEFINE o == turn[t]
           old == ToSummarize(o)
<1>0. TypeOK /\ o \in Held /\ RowsOK(history, said) /\ said \in Nat
  BY DEF IInv, TypeOK
<1>1. PICK h \in Held, r \in old, fit \in SUBSET old, s \in Summaries :
        /\ Sets(t, h) /\ o.phase = "summarizing" /\ Later(old, r) = {}
        /\ s.chat = o.chat /\ s.covers = r.id /\ s.text = o.base \union Nums(fit)
        /\ summaries' = summaries \union {s}
        /\ IsContext(h, o, o.rows \ old, s.text)
        /\ lost' = lost \union Nums(old \ fit)
  BY <1>0, SummarizerAnswersDoes
<1>2. UNCHANGED <<history, said, clears, cleared>>
  BY DEF SummarizerAnswers
<1>4. ASSUME Uncleared(o.chat) PROVE HeldOK(h, history, lost') /\ SummaryOK(s, history, lost')
  <2>1. HeldOK(o, history, lost)
    BY <1>4 DEF IInv, TurnInv
  <2>2. /\ BaseOK(o, history, lost) /\ RowsGoOn(o, history, lost)
        /\ AllBut(o.base \union Nums(o.rows), o.seen, lost) /\ o.own \in o.seen
    BY <1>1, <2>1 DEF HeldOK
  <2> HIDE DEF o
  <2>3. /\ r \in Of(history, o.chat)
        /\ AllBut(s.text, Nums(UpTo(history, o.chat, r.id)), lost')
        /\ old \subseteq o.rows
        /\ o.base \intersect Nums(o.rows) = {}
        /\ Nums(o.rows \ old) \intersect Nums(old) = {}
    BY <1>0, <1>1, <2>2, SavedIsComplete
  <2>4. SummaryOK(s, history, lost')
    BY <1>1, <2>3 DEF SummaryOK, IsPoint
  <2> HIDE DEF old
  <2>5. /\ Nums(o.rows) = Nums(o.rows \ old) \union Nums(old)
        /\ Nums(old) = Nums(fit) \union Nums(old \ fit)
    BY <1>1, <2>3 DEF Nums
  <2>6. ASSUME h.kind = "text" PROVE IsExact(h, lost')
    <3>1. h.told = Nums(o.rows \ old) /\ h.summed = o.base \union Nums(fit)
          /\ h.seen = o.seen /\ h.own = o.own
      BY <1>1, <2>6 DEF IsContext
    <3>2. AllBut(h.told \union h.summed, o.seen, lost')
      BY <1>1, <2>2, <2>5, <3>1 DEF AllBut
    <3>3. h.told \intersect h.summed = {}
      BY <2>3, <2>5, <3>1
    <3> QED BY <2>2, <3>1, <3>2, <3>3 DEF IsExact
  <2> QED BY <1>1, <2>4, <2>6 DEF HeldOK, IsContext
<1>5. summaries' \subseteq Summaries
  BY <1>0, <1>1 DEF TypeOK
<1>6. h.chat = o.chat /\ h.own = o.own /\ o.phase # "idle" /\ lost \subseteq lost'
  BY <1>1 DEF IsContext
<1>7. lost' \subseteq Nat
  <2>1. old \ fit \subseteq Rows
    BY <1>0 DEF ToSummarize, Oldest, Held
  <2>2. lost \subseteq Nat
    BY <1>0 DEF TypeOK
  <2> HIDE DEF old
  <2> QED BY <1>1, <2>1, <2>2, NumsAreNat
<1>8. ASSUME NEW x \in summaries', Uncleared(x.chat)
      PROVE  x \in summaries \/ SummaryOK(x, history, lost')
  <2>1. CASE x \in summaries
    BY <2>1
  <2>2. CASE x = s
    BY <1>1, <1>4, <1>8, <2>2
  <2> QED BY <1>1, <2>1, <2>2
<1> HIDE DEF o, old
<1> QED BY <1>1, <1>2, <1>4, <1>5, <1>6, <1>7, <1>8, TurnKeeps DEF o

(* Without a summary the context is what was read. *)
LEMMA SummarizerFailsKeeps ==
  ASSUME IInv, NEW t \in Turns, SummarizerFails(t)
  PROVE  IInv'
<1> DEFINE o == turn[t]
<1>0. TypeOK /\ o \in Held /\ RowsOK(history, said) /\ said \in Nat
  BY DEF IInv, TypeOK
<1>1. PICK h \in Held :
        Sets(t, h) /\ o.phase = "summarizing" /\ IsContext(h, o, o.rows, o.base)
  BY <1>0, SummarizerFailsDoes
<1>2. UNCHANGED <<history, summaries, said, clears, cleared, lost>>
  BY DEF SummarizerFails
<1>3. ASSUME Uncleared(o.chat) PROVE HeldOK(h, history, lost)
  <2>1. HeldOK(o, history, lost)
    BY <1>3 DEF IInv, TurnInv
  <2>2. /\ BaseOK(o, history, lost) /\ RowsGoOn(o, history, lost)
        /\ AllBut(o.base \union Nums(o.rows), o.seen, lost) /\ o.own \in o.seen
    BY <1>1, <2>1 DEF HeldOK
  <2> HIDE DEF o
  <2>3. o.base \intersect Nums(o.rows) = {}
    <3>1. o.base \intersect Nums(After(o.chat, o.after)) = {}
          /\ After(o.chat, o.after) = Beyond(history, o.chat, o.after)
      BY <1>0, <2>2, ReadIsAll
    <3>2. Nums(o.rows) \subseteq Nums(Beyond(history, o.chat, o.after))
      BY <2>2 DEF RowsGoOn, Nums
    <3> QED BY <3>1, <3>2
  <2>4. h.kind = "text" => IsExact(h, lost)
    BY <1>1, <2>2, <2>3 DEF IsContext, IsExact, AllBut
  <2> QED BY <1>1, <2>4 DEF HeldOK, IsContext
<1>4. summaries' \subseteq Summaries /\ lost' \subseteq Nat
  BY <1>0, <1>2 DEF TypeOK
<1>5. h.chat = o.chat /\ h.own = o.own /\ o.phase # "idle"
  BY <1>1 DEF IsContext
<1> HIDE DEF o
<1> QED BY <1>1, <1>2, <1>3, <1>4, <1>5, TurnKeeps DEF o

(* A turn that ends holds nothing. *)
LEMMA EndTurnKeeps ==
  ASSUME IInv, NEW t \in Turns, EndTurn(t)
  PROVE  IInv'
<1> DEFINE h == Rest(turn[t].chat)
<1>1. turn' = [turn EXCEPT ![t] = Rest(@.chat)]
      /\ UNCHANGED <<history, summaries, said, clears, cleared, lost>>
  BY DEF EndTurn
<1>2. TypeOK
  BY DEF IInv
<1>3. Sets(t, h) /\ h \in Held /\ h.phase = "idle"
  BY <1>1, <1>2, RestDoes, RestIsHeld
<1>4. HeldOK(h, history, lost)
  BY <1>3 DEF HeldOK
<1>5. summaries' \subseteq Summaries /\ lost' \subseteq Nat
  BY <1>1, <1>2 DEF TypeOK
<1> HIDE DEF h
<1> QED BY <1>1, <1>3, <1>4, <1>5, TurnKeeps

(* A step of a turn that adds a row. *)
LEMMA GrowKeeps ==
  ASSUME IInv, NEW t \in Turns, NEW h \in Held, Sets(t, h),
         NEW new \in Rows, new.num = said + 1, new.id >= 1, \A r \in history : r.id < new.id,
         history' = history \union {new}, said' = said + 1,
         UNCHANGED <<summaries, clears, cleared, lost>>,
         h.phase # "idle" => h.own \in 1..said',
         HeldOK(h, history', lost)
  PROVE  IInv'
<1>0. said \in Nat /\ RowsOK(history, said)
  BY DEF IInv, TypeOK
<1>1. RowsOK(history', said')
  BY <1>0, RowsStay
<1>2. TypeOK'
  BY <1>1, <1>0 DEF IInv, TypeOK, RowsOK, Sets
<1>3. SummaryInv'
  <2> SUFFICES ASSUME NEW s \in summaries, cleared[s.chat] = 0
               PROVE  SummaryOK(s, history', lost)
    BY DEF SummaryInv, Uncleared
  <2>1. SummaryOK(s, history, lost)
    BY DEF IInv, SummaryInv, Uncleared
  <2>2. s.covers \in Nat
    BY DEF IInv, TypeOK, Summaries
  <2> QED BY <1>0, <2>1, <2>2, PointStays DEF SummaryOK
<1>4. TurnInv'
  <2> SUFFICES ASSUME NEW u \in Turns, cleared[turn'[u].chat] = 0
               PROVE  HeldOK(turn'[u], history', lost)
    BY DEF TurnInv, Uncleared
  <2>1. CASE u = t
    BY <2>1 DEF Sets
  <2>2. CASE u # t
    <3>1. turn'[u] = turn[u] /\ turn[u] \in Held
      BY <2>2 DEF Sets, IInv, TypeOK
    <3>2. HeldOK(turn[u], history, lost)
      BY <3>1 DEF IInv, TurnInv, Uncleared
    <3> QED BY <1>0, <3>1, <3>2, HeldStays
  <2> QED BY <2>1, <2>2
<1>5. OwnInv'
  <2> SUFFICES ASSUME NEW u \in Turns, turn'[u].phase # "idle" PROVE turn'[u].own \in 1..said'
    BY DEF OwnInv
  <2>1. CASE u = t
    BY <2>1 DEF Sets
  <2>2. CASE u # t
    BY <1>0, <2>2 DEF Sets, IInv, OwnInv
  <2> QED BY <2>1, <2>2
<1> QED BY <1>1, <1>2, <1>3, <1>4, <1>5 DEF IInv

(* The message of a user. *)
LEMMA RecordKeeps ==
  ASSUME IInv, NEW t \in Turns, NEW c \in Chats, NEW k \in Kinds, Record(t, c, k)
  PROVE  IInv'
<1>0. TypeOK /\ RowsOK(history, said) /\ said \in Nat
  BY DEF IInv, TypeOK
<1>1. PICK h \in Held :
        /\ Sets(t, h) /\ h.phase = "recorded" /\ h.chat = c /\ h.own = said + 1
        /\ h.after = 0 /\ h.base = {}
  BY <1>0, RecordDoes
<1>2. Append(c, "user") /\ UNCHANGED <<summaries, clears, cleared, lost>>
  BY DEF Record
<1>3. PICK new \in Rows :
        /\ new.chat = c /\ new.num = said + 1 /\ new.id >= 1
        /\ \A r \in history : r.id < new.id
        /\ history' = history \union {new} /\ said' = said + 1
  BY <1>0, <1>2, AppendDoes
<1>4. OwnIsThere(h, history')
  BY <1>1, <1>3 DEF OwnIsThere, Of
<1>5. HeldOK(h, history', lost)
  BY <1>1, <1>4 DEF HeldOK
<1>6. h.own \in 1..said'
  BY <1>0, <1>1, <1>3
<1> QED BY <1>1, <1>2, <1>3, <1>5, <1>6, GrowKeeps

(* The answer of the agent. *)
LEMMA AnswerKeeps ==
  ASSUME IInv, NEW t \in Turns, Answer(t)
  PROVE  IInv'
<1> DEFINE h == Rest(turn[t].chat)
<1>0. TypeOK /\ RowsOK(history, said) /\ said \in Nat
  BY DEF IInv, TypeOK
<1>1. Sets(t, h) /\ h \in Held /\ turn[t].chat \in Chats
  BY <1>0, RestDoes DEF Answer
<1>2. h.phase = "idle"
  BY <1>1, RestIsHeld
<1>3. Append(turn[t].chat, "assistant") /\ UNCHANGED <<summaries, clears, cleared, lost>>
  BY DEF Answer
<1>4. PICK new \in Rows :
        /\ new.num = said + 1 /\ new.id >= 1
        /\ \A r \in history : r.id < new.id
        /\ history' = history \union {new} /\ said' = said + 1
  BY <1>0, <1>1, <1>3, AppendDoes
<1>5. HeldOK(h, history', lost)
  BY <1>2 DEF HeldOK
<1> HIDE DEF h
<1> QED BY <1>1, <1>2, <1>3, <1>4, <1>5, GrowKeeps

(* The chat that is emptied is a cleared one from now on, unless nothing   *)
(* was ever said. *)
LEMMA ClearKeeps ==
  ASSUME IInv, NEW c \in Chats, Clear(c)
  PROVE  IInv'
<1>0. TypeOK /\ RowsOK(history, said) /\ said \in Nat
  BY DEF IInv, TypeOK
<1>1. /\ history' = {r \in history : r.chat # c}
      /\ summaries' = {s \in summaries : s.chat # c}
      /\ cleared' = [cleared EXCEPT ![c] = said] /\ clears' = clears + 1
      /\ UNCHANGED <<turn, said, lost>>
  BY DEF Clear
<1>2. TypeOK'
  BY <1>0, <1>1 DEF TypeOK
<1>3. RowsOK(history', said')
  <2>1. IsFiniteSet(history')
    <3>1. history' \subseteq history
      BY <1>1
    <3> QED BY <1>0, <3>1, FS_Subset DEF RowsOK
  <2>2. history' \subseteq history /\ said' = said
    BY <1>1
  <2> QED BY <1>0, <2>1, <2>2 DEF RowsOK
<1>4. ASSUME NEW d \in Chats, d # c
      PROVE  cleared'[d] = cleared[d] /\ Of(history', d) = Of(history, d)
  <2>1. cleared'[d] = cleared[d]
    BY <1>0, <1>1, <1>4 DEF TypeOK
  <2>2. Of(history', d) = Of(history, d)
    BY <1>1, <1>4, OthersStay
  <2> QED BY <2>1, <2>2
<1>5. cleared'[c] = said
  BY <1>0, <1>1 DEF TypeOK
<1>6. SummaryInv'
  <2> SUFFICES ASSUME NEW s \in summaries, s.chat # c, cleared'[s.chat] = 0
               PROVE  SummaryOK(s, history', lost)
    BY <1>1 DEF SummaryInv, Uncleared
  <2>1. s.chat \in Chats
    BY <1>0 DEF TypeOK, Summaries
  <2>2. SummaryOK(s, history, lost)
    BY <1>4, <2>1 DEF IInv, SummaryInv, Uncleared
  <2>3. Of(history', s.chat) = Of(history, s.chat)
    BY <1>4, <2>1
  <2> QED BY <2>2, <2>3 DEF SummaryOK, IsPoint, UpTo
<1>7. TurnInv'
  <2> SUFFICES ASSUME NEW t \in Turns, cleared'[turn[t].chat] = 0
               PROVE  HeldOK(turn[t], history', lost)
    BY <1>1 DEF TurnInv, Uncleared
  <2>0. turn[t] \in Held /\ turn[t].chat \in Chats
    BY <1>0 DEF TypeOK, Held
  <2>1. CASE turn[t].chat # c
    <3>1. HeldOK(turn[t], history, lost)
      BY <1>4, <2>0, <2>1 DEF IInv, TurnInv, Uncleared
    <3> QED BY <1>4, <2>0, <2>1, <3>1, HeldOfChat
  <2>2. CASE turn[t].chat = c
    <3>1. turn[t].phase = "idle"
      BY <1>5, <2>2 DEF IInv, OwnInv
    <3> QED BY <3>1 DEF HeldOK
  <2> QED BY <2>1, <2>2
<1>8. OwnInv'
  BY <1>1 DEF IInv, OwnInv
<1> QED BY <1>2, <1>3, <1>6, <1>7, <1>8 DEF IInv

(* Nothing has been said. *)
LEMMA InitEstablishes == Init => IInv
<1> SUFFICES ASSUME Init PROVE IInv
  OBVIOUS
<1>1. \A t \in Turns : turn[t] \in Held /\ turn[t].phase = "idle"
  BY RestIsHeld DEF Init
<1>2. TypeOK
  BY <1>1, RestIsHeld DEF Init, TypeOK
<1>3. RowsOK(history, said)
  BY FS_EmptySet DEF Init, RowsOK
<1>4. TurnInv
  BY <1>1 DEF TurnInv, HeldOK
<1> QED BY <1>1, <1>2, <1>3, <1>4 DEF Init, IInv, SummaryInv, OwnInv

(* Each step keeps the invariant. *)
LEMMA StepKeeps == IInv /\ [Next]_vars => IInv'
<1> SUFFICES ASSUME IInv, [Next]_vars PROVE IInv'
  OBVIOUS
<1>1. ASSUME NEW t \in Turns, TurnStep(t) PROVE IInv'
  BY <1>1, RecordKeeps, ReadSummaryKeeps, ReadMessagesKeeps, SummarizerAnswersKeeps,
     SummarizerFailsKeeps, AnswerKeeps, EndTurnKeeps DEF TurnStep
<1>2. ASSUME NEW c \in Chats, Clear(c) PROVE IInv'
  BY <1>2, ClearKeeps
<1>3. CASE UNCHANGED vars
  <2>1. TypeOK'
    BY <1>3 DEF vars, IInv, TypeOK
  <2>2. RowsOK(history, said)'
    BY <1>3 DEF vars, IInv
  <2>3. SummaryInv'
    BY <1>3 DEF vars, IInv, SummaryInv, Uncleared
  <2>4. TurnInv'
    BY <1>3 DEF vars, IInv, TurnInv, Uncleared
  <2>5. OwnInv'
    BY <1>3 DEF vars, IInv, OwnInv
  <2> QED BY <2>1, <2>2, <2>3, <2>4, <2>5 DEF IInv
<1> QED BY <1>1, <1>2, <1>3 DEF Next

(* The invariant holds in every behaviour: what turns hold between the     *)
(* awaits of build_context (ai/memory.py) is what the rows say. *)
THEOREM InvariantHolds == Spec => []IInv
BY InitEstablishes, StepKeeps, PTL DEF Spec

(* The variables keep their types, and ids tell the rows apart. *)
THEOREM TypeCorrect == Spec => []TypeOK
<1>1. IInv => TypeOK
  BY DEF IInv
<1> QED BY <1>1, InvariantHolds, PTL

(* What a summary stands for is what it tells of, but for what was too     *)
(* much for a query or a payload (memory.py:45, 77, 143). *)
THEOREM SummariesAreComplete == Spec => []SummaryIsComplete
<1>1. IInv => SummaryIsComplete
  <2>1. ASSUME NEW s \in summaries
        PROVE  UpTo(history, s.chat, s.covers)
                 = {r \in history : r.chat = s.chat /\ r.id <= s.covers}
    BY DEF UpTo, Of
  <2> QED BY <2>1 DEF IInv, SummaryInv, SummaryOK, Uncleared, SummaryIsComplete
<1> QED BY <1>1, InvariantHolds, PTL

(* The context of a text is everything once, but for what is lost          *)
(* (memory.py:35). *)
THEOREM ContextsAreExact == Spec => []ContextIsExact
<1>1. IInv => ContextIsExact
  BY DEF IInv, TurnInv, HeldOK, IsExact, Uncleared, ContextIsExact, Built
<1> QED BY <1>1, InvariantHolds, PTL

-----------------------------------------------------------------------------
(* Chats are separate                                                      *)

Tells(h) ==
  h.base \union Nums(h.rows) \union h.told \union h.summed
    \union (IF h.phase = "idle" THEN {} ELSE {h.own})

(* The message n is known in chat c: by a row, a summary or a turn. *)
Knows(c, n) ==
  \/ n \in Nums(Of(history, c))
  \/ \E s \in summaries : s.chat = c /\ n \in s.text
  \/ \E t \in Turns : turn[t].chat = c /\ n \in Tells(turn[t])

Apart ==
  \A c \in Chats : \A n \in Nat : Knows(c, n) =>
    n \in 1..said /\ \A d \in Chats : Knows(d, n) => c = d

(* A step after which nobody knows more. *)
LEMMA NobodyLearns ==
  ASSUME Apart, said' = said,
         \A c \in Chats : \A n \in Nat : Knows(c, n)' => Knows(c, n)
  PROVE  Apart'
<1> SUFFICES ASSUME NEW c \in Chats, NEW n \in Nat, Knows(c, n)'
             PROVE  n \in 1..said' /\ \A d \in Chats : Knows(d, n)' => c = d
  BY DEF Apart
<1> QED BY DEF Apart

(* A turn of a chat may come to know what its chat knows. *)
LEMMA TurnLearns ==
  ASSUME Apart, NEW t \in Turns, NEW h \in Held, Sets(t, h), UNCHANGED <<history, said>>,
         \A n \in Nat : n \in Tells(h) => Knows(h.chat, n),
         \A s \in summaries' : s \in summaries \/ \A n \in Nat : n \in s.text => Knows(s.chat, n)
  PROVE  Apart'
<1>1. ASSUME NEW c \in Chats, NEW n \in Nat, Knows(c, n)' PROVE Knows(c, n)
  <2>1. CASE n \in Nums(Of(history', c))
    BY <2>1 DEF Knows
  <2>2. CASE \E s \in summaries' : s.chat = c /\ n \in s.text
    BY <2>2 DEF Knows
  <2>3. ASSUME NEW u \in Turns, turn'[u].chat = c, n \in Tells(turn'[u]) PROVE Knows(c, n)
    <3>1. CASE u = t
      BY <2>3, <3>1 DEF Sets
    <3>2. CASE u # t
      BY <2>3, <3>2 DEF Sets, Knows
    <3> QED BY <3>1, <3>2
  <2> QED BY <1>1, <2>1, <2>2, <2>3 DEF Knows
<1> QED BY <1>1, NobodyLearns

(* A message is known at first in its own chat only. *)
LEMMA ChatLearns ==
  ASSUME Apart, said \in Nat, NEW c \in Chats, NEW t \in Turns, NEW h \in Held, Sets(t, h),
         h.chat = c, Tells(h) \subseteq {said + 1}, UNCHANGED summaries,
         NEW new, new.chat = c, new.num = said + 1,
         history' = history \union {new}, said' = said + 1
  PROVE  Apart'
<1>1. ASSUME NEW d \in Chats, NEW n \in Nat, Knows(d, n)'
      PROVE  Knows(d, n) \/ (d = c /\ n = said + 1)
  <2>1. CASE n \in Nums(Of(history', d))
    BY <2>1 DEF Knows, Nums, Of
  <2>2. CASE \E s \in summaries : s.chat = d /\ n \in s.text
    BY <2>2 DEF Knows
  <2>3. ASSUME NEW u \in Turns, turn'[u].chat = d, n \in Tells(turn'[u])
        PROVE  Knows(d, n) \/ (d = c /\ n = said + 1)
    <3>1. CASE u = t
      BY <2>3, <3>1 DEF Sets
    <3>2. CASE u # t
      BY <2>3, <3>2 DEF Sets, Knows
    <3> QED BY <3>1, <3>2
  <2> QED BY <1>1, <2>1, <2>2, <2>3 DEF Knows
<1>2. \A d \in Chats : ~Knows(d, said + 1)
  BY DEF Apart
<1>3. ASSUME NEW d \in Chats, NEW n \in Nat, Knows(d, n)',
             NEW e \in Chats, Knows(e, n)'
      PROVE  n \in 1..said' /\ d = e
  <2>1. CASE n = said + 1
    BY <1>1, <1>2, <1>3, <2>1
  <2>2. CASE n # said + 1
    <3>1. Knows(d, n) /\ Knows(e, n)
      BY <1>1, <1>3, <2>2
    <3>2. n \in 1..said /\ d = e
      BY <3>1 DEF Apart
    <3> QED BY <3>2
  <2> QED BY <2>1, <2>2
<1> QED BY <1>3 DEF Apart

(* A turn tells of its own message. *)
LEMMA OwnTells ==
  ASSUME NEW t \in Turns, NEW n \in Tells(turn[t])
  PROVE  Knows(turn[t].chat, n)
BY DEF Knows

(* A new message has a number of its own. *)
LEMMA RecordLearns ==
  ASSUME IInv, Apart, NEW t \in Turns, NEW c \in Chats, NEW k \in Kinds, Record(t, c, k)
  PROVE  Apart'
<1>0. TypeOK /\ RowsOK(history, said) /\ said \in Nat
  BY DEF IInv, TypeOK
<1>1. PICK h \in Held :
        /\ Sets(t, h) /\ h.chat = c /\ h.own = said + 1
        /\ h.base = {} /\ h.rows = {} /\ h.told = {} /\ h.summed = {}
  BY <1>0, RecordDoes
<1>2. Append(c, "user") /\ UNCHANGED summaries
  BY DEF Record
<1>3. PICK new \in Rows :
        /\ new.chat = c /\ new.num = said + 1
        /\ history' = history \union {new} /\ said' = said + 1
  BY <1>0, <1>2, AppendDoes
<1>4. Tells(h) \subseteq {said + 1}
  BY <1>1 DEF Tells, Nums
<1> QED BY <1>0, <1>1, <1>2, <1>3, <1>4, ChatLearns

(* A summary is read by a turn of its chat. *)
LEMMA ReadSummaryLearns ==
  ASSUME IInv, Apart, NEW t \in Turns, ReadSummary(t)
  PROVE  Apart'
<1> DEFINE o == turn[t]
<1>1. PICK h \in Held :
        /\ Sets(t, h) /\ o.phase = "recorded" /\ h.chat = o.chat /\ h.own = o.own
        /\ h.rows = o.rows /\ h.told = o.told /\ h.summed = o.summed
        /\ \/ \E s \in summaries : s.chat = h.chat /\ h.base = s.text
           \/ h.base = o.base
  BY ReadSummaryDoes DEF IInv
<1>2. UNCHANGED <<history, summaries, said>>
  BY DEF ReadSummary
<1>3. ASSUME NEW n \in Nat, n \in Tells(h) PROVE Knows(h.chat, n)
  <2>1. n \in h.base \/ n \in Tells(o)
    BY <1>1, <1>3 DEF Tells
  <2>2. h.base = o.base => (n \in h.base => n \in Tells(o))
    BY DEF Tells
  <2>3. n \in Tells(o) => Knows(h.chat, n)
    BY <1>1, OwnTells
  <2> QED BY <1>1, <2>1, <2>2, <2>3 DEF Knows
<1> HIDE DEF o
<1> QED BY <1>1, <1>2, <1>3, TurnLearns

(* Rows are read by a turn of their chat. *)
LEMMA ReadMessagesLearns ==
  ASSUME IInv, Apart, NEW t \in Turns, ReadMessages(t)
  PROVE  Apart'
<1> DEFINE o == turn[t]
<1>0. TypeOK /\ RowsOK(history, said)
  BY DEF IInv
<1>1. PICK h \in Held :
        /\ Sets(t, h) /\ o.phase = "reading"
        /\ h.chat = o.chat /\ h.own = o.own /\ h.base = o.base
        /\ h.rows \subseteq After(o.chat, o.after)
        /\ \/ h.phase = "summarizing" /\ h.told = o.told /\ h.summed = o.summed
           \/ IsContext(h, h, h.rows, h.base)
  BY <1>0, ReadMessagesDoes
<1>2. UNCHANGED <<history, summaries, said>>
  BY DEF ReadMessages
<1>3. ASSUME NEW n \in Nat, n \in Tells(h) PROVE Knows(h.chat, n)
  <2>1. n \in Nums(h.rows) \/ n \in Tells(o)
    <3>1. h.told \subseteq o.told \union Nums(h.rows) \union {o.own}
          /\ h.summed \subseteq o.summed \union o.base
      BY <1>1 DEF IsContext
    <3> QED BY <1>1, <1>3, <3>1 DEF Tells
  <2>2. Nums(h.rows) \subseteq Nums(Of(history, h.chat))
    BY <1>1 DEF Nums, After, Of
  <2>3. n \in Tells(o) => Knows(h.chat, n)
    BY <1>1, OwnTells
  <2> QED BY <2>1, <2>2, <2>3 DEF Knows
<1> HIDE DEF o
<1> QED BY <1>1, <1>2, <1>3, TurnLearns

(* What a context tells of was read before. *)
LEMMA ContextTells ==
  ASSUME NEW h, NEW o, o.phase # "idle", NEW rows, NEW text, IsContext(h, o, rows, text),
         Nums(rows) \subseteq Nums(o.rows), text \subseteq o.base \union Nums(o.rows)
  PROVE  Tells(h) \subseteq Tells(o)
BY DEF IsContext, Tells

(* A summary tells of what its turn knew. *)
LEMMA SummarizerAnswersLearns ==
  ASSUME IInv, Apart, NEW t \in Turns, SummarizerAnswers(t)
  PROVE  Apart'
<1> DEFINE o == turn[t]
           old == ToSummarize(o)
<1>1. PICK h \in Held, r \in old, fit \in SUBSET old, s \in Summaries :
        /\ Sets(t, h) /\ o.phase = "summarizing"
        /\ s.chat = o.chat /\ s.text = o.base \union Nums(fit)
        /\ summaries' = summaries \union {s}
        /\ IsContext(h, o, o.rows \ old, s.text)
  BY SummarizerAnswersDoes DEF IInv
<1>2. UNCHANGED <<history, said>>
  BY DEF SummarizerAnswers
<1>3. old \subseteq o.rows
  BY DEF ToSummarize, Oldest
<1> HIDE DEF old
<1>4. s.text \subseteq o.base \union Nums(o.rows) /\ Nums(o.rows \ old) \subseteq Nums(o.rows)
  BY <1>1, <1>3 DEF Nums
<1>5. Tells(h) \subseteq Tells(o) /\ s.text \subseteq Tells(o)
  <2>1. s.text \subseteq Tells(o)
    BY <1>4 DEF Tells
  <2> HIDE DEF o
  <2> QED BY <1>1, <1>4, <2>1, ContextTells
<1>6. \A n \in Nat : n \in Tells(o) => Knows(o.chat, n)
  BY OwnTells
<1>7. h.chat = o.chat
  BY <1>1 DEF IsContext
<1>8. ASSUME NEW x \in summaries'
      PROVE  x \in summaries \/ \A n \in Nat : n \in x.text => Knows(x.chat, n)
  <2>1. CASE x \in summaries
    BY <2>1
  <2>2. CASE x = s
    BY <1>1, <1>5, <1>6, <2>2
  <2> QED BY <1>1, <2>1, <2>2
<1> HIDE DEF o
<1> QED BY <1>1, <1>2, <1>5, <1>6, <1>7, <1>8, TurnLearns

(* Nothing is learnt from a summarizer that fails. *)
LEMMA SummarizerFailsLearns ==
  ASSUME IInv, Apart, NEW t \in Turns, SummarizerFails(t)
  PROVE  Apart'
<1> DEFINE o == turn[t]
<1>1. PICK h \in Held :
        Sets(t, h) /\ o.phase = "summarizing" /\ IsContext(h, o, o.rows, o.base)
  BY SummarizerFailsDoes DEF IInv
<1>2. UNCHANGED <<history, summaries, said>>
  BY DEF SummarizerFails
<1>3. \A n \in Nat : n \in Tells(o) => Knows(o.chat, n)
  BY OwnTells
<1>4. h.chat = o.chat
  BY <1>1 DEF IsContext
<1> HIDE DEF o
<1>5. Tells(h) \subseteq Tells(o)
  BY <1>1, ContextTells
<1> QED BY <1>1, <1>2, <1>3, <1>4, <1>5, TurnLearns

(* A turn that rests tells of nothing. *)
LEMMA RestTells ==
  ASSUME NEW c \in Chats
  PROVE  Tells(Rest(c)) = {}
BY RestIsHeld DEF Tells, Nums

(* An answer has a number of its own. *)
LEMMA AnswerLearns ==
  ASSUME IInv, Apart, NEW t \in Turns, Answer(t)
  PROVE  Apart'
<1> DEFINE h == Rest(turn[t].chat)
<1>0. TypeOK /\ RowsOK(history, said) /\ said \in Nat
  BY DEF IInv, TypeOK
<1>1. Sets(t, h) /\ h \in Held /\ turn[t].chat \in Chats
  BY <1>0, RestDoes DEF Answer
<1>2. h.chat = turn[t].chat /\ Tells(h) = {}
  BY <1>1, RestIsHeld, RestTells
<1>3. Append(turn[t].chat, "assistant") /\ UNCHANGED summaries
  BY DEF Answer
<1>4. PICK new \in Rows :
        /\ new.chat = turn[t].chat /\ new.num = said + 1
        /\ history' = history \union {new} /\ said' = said + 1
  BY <1>0, <1>1, <1>3, AppendDoes
<1> HIDE DEF h
<1> QED BY <1>0, <1>1, <1>2, <1>3, <1>4, ChatLearns

(* The end of a turn teaches nobody. *)
LEMMA EndTurnLearns ==
  ASSUME IInv, Apart, NEW t \in Turns, EndTurn(t)
  PROVE  Apart'
<1> DEFINE h == Rest(turn[t].chat)
<1>1. Sets(t, h) /\ h \in Held /\ turn[t].chat \in Chats
  BY RestDoes DEF EndTurn, IInv
<1>2. Tells(h) = {}
  BY <1>1, RestTells
<1>3. UNCHANGED <<history, summaries, said>>
  BY DEF EndTurn
<1> HIDE DEF h
<1> QED BY <1>1, <1>2, <1>3, TurnLearns

(* Neither does an emptied chat. *)
LEMMA ClearLearns ==
  ASSUME Apart, NEW c \in Chats, Clear(c)
  PROVE  Apart'
<1>1. /\ history' \subseteq history /\ summaries' \subseteq summaries
      /\ UNCHANGED <<turn, said>>
  BY DEF Clear
<1>2. \A d \in Chats : Nums(Of(history', d)) \subseteq Nums(Of(history, d))
  BY <1>1 DEF Nums, Of
<1>3. \A d \in Chats : \A n \in Nat : Knows(d, n)' => Knows(d, n)
  BY <1>1, <1>2 DEF Knows
<1> QED BY <1>1, <1>3, NobodyLearns

(* Each step keeps the chats apart. *)
LEMMA StepSeparates == IInv /\ Apart /\ [Next]_vars => Apart'
<1> SUFFICES ASSUME IInv, Apart, [Next]_vars PROVE Apart'
  OBVIOUS
<1>1. ASSUME NEW t \in Turns, TurnStep(t) PROVE Apart'
  BY <1>1, RecordLearns, ReadSummaryLearns, ReadMessagesLearns, SummarizerAnswersLearns,
     SummarizerFailsLearns, AnswerLearns, EndTurnLearns DEF TurnStep
<1>2. ASSUME NEW c \in Chats, Clear(c) PROVE Apart'
  BY <1>2, ClearLearns
<1>3. CASE UNCHANGED vars
  BY <1>3 DEF vars, Apart, Knows
<1> QED BY <1>1, <1>2, <1>3 DEF Next

(* Nobody knows anything yet. *)
LEMMA InitSeparates == Init => Apart
<1> SUFFICES ASSUME Init PROVE Apart
  OBVIOUS
<1>1. \A t \in Turns : Tells(turn[t]) = {}
  BY RestTells DEF Init
<1> QED BY <1>1 DEF Init, Apart, Knows, Nums, Of

(* Nothing of another chat gets into a context, though ids are used again. *)
THEOREM ChatsStaySeparate == Spec => []ChatsAreSeparate
<1>1. Spec => []Apart
  BY InitSeparates, StepSeparates, InvariantHolds, PTL DEF Spec
<1>2. TypeOK /\ Apart => ChatsAreSeparate
  <2> SUFFICES ASSUME TypeOK, Apart, NEW s \in Turns, NEW t \in Turns,
                      turn[s].chat # turn[t].chat,
                      NEW n \in turn[s].told \union turn[s].summed,
                      n \in turn[t].told \union turn[t].summed
               PROVE  FALSE
    BY DEF ChatsAreSeparate
  <2>1. turn[s] \in Held /\ turn[t] \in Held
    BY DEF TypeOK
  <2>2. n \in Nat /\ turn[s].chat \in Chats /\ turn[t].chat \in Chats
    BY <2>1 DEF Held
  <2>3. n \in Tells(turn[s]) /\ n \in Tells(turn[t])
    BY DEF Tells
  <2>4. Knows(turn[s].chat, n) /\ Knows(turn[t].chat, n)
    BY <2>3, OwnTells
  <2> QED BY <2>2, <2>4 DEF Apart
<1> QED BY <1>1, <1>2, TypeCorrect, PTL
=============================================================================
