------------------------ MODULE MessageIntake_proofs ------------------------
(***************************************************************************)
(* The updates of an operator, for every number of them, every limit and   *)
(* any length of run: first the sliding window, which the intake shares    *)
(* with whatever else uses it; then what split_text computes, for every    *)
(* text, and what becomes of an answer; then the intake itself, which      *)
(* keeps the promises of both.                                             *)
(***************************************************************************)
EXTENDS MessageIntake, FiniteSetTheorems, SequenceTheorems, WellFoundedInduction, TLAPS

-----------------------------------------------------------------------------
(* The sliding window                                                      *)

(* A bucket h is the tail of the calls a it has accepted up to now; what   *)
(* comes before the tail is out of the window w; times only grow; the tail *)
(* never exceeds the limit m, which is why a call and the one m before it  *)
(* are a window apart. *)
Recent(h, a, m) ==
  /\ Len(h) <= Len(a) /\ Len(h) <= m
  /\ \A i \in 1..Len(h) : h[i] = a[Len(a) - Len(h) + i]

Past(h, a, now, w) == \A i \in 1..(Len(a) - Len(h)) : a[i] <= now - w

Ordered(a, now) ==
  \A i \in 1..Len(a) : a[i] <= now /\ \A j \in i..Len(a) : a[i] <= a[j]

Apart(a, w, m) == \A i \in 1..(Len(a) - m) : a[i + m] - a[i] >= w

Sliding(h, a, now, w, m) ==
  Recent(h, a, m) /\ Past(h, a, now, w) /\ Ordered(a, now) /\ Apart(a, w, m)

KeyInv(k) == Sliding(hits[k], accepted[k], clock, Window[k], MaxCalls[k])

(* A full bucket that refused a call has room again a second after the     *)
(* time it announced. *)
RetryInv(k) ==
  (retryAt[k] >= 0 /\ Len(hits[k]) >= MaxCalls[k])
    => hits[k][1] + Window[k] <= retryAt[k] + Second

IndInv == TypeOK /\ \A k \in Keys : KeyInv(k) /\ RetryInv(k)

-----------------------------------------------------------------------------
(* Facts about one bucket                                                  *)

(* What is left of a deque after n pops. *)
LEMMA Popped ==
  ASSUME NEW h \in Seq(Nat), NEW n \in 0..Len(h)
  PROVE  /\ SubSeq(h, n + 1, Len(h)) \in Seq(Nat)
         /\ Len(SubSeq(h, n + 1, Len(h))) = Len(h) - n
         /\ \A i \in 1..(Len(h) - n) : SubSeq(h, n + 1, Len(h))[i] = h[n + i]
OBVIOUS

(* What a deque is after a call was added. *)
LEMMA Pushed ==
  ASSUME NEW h \in Seq(Nat), NEW t \in Nat
  PROVE  /\ Append(h, t) \in Seq(Nat)
         /\ Len(Append(h, t)) = Len(h) + 1
         /\ \A i \in 1..Len(h) : Append(h, t)[i] = h[i]
         /\ Append(h, t)[Len(h) + 1] = t
OBVIOUS

(* Rounding down to whole seconds loses less than a second. *)
LEMMA Rounding ==
  ASSUME NEW r \in Nat, NEW s \in Nat \ {0}
  PROVE  Larger(1, r \div s) * s \in Nat /\ r < Larger(1, r \div s) * s + s
BY DEF Larger

(* What is older than the oldest is old enough. *)
LEMMA OlderIsOld ==
  \A first, final, now, age, w \in Nat :
    first <= final /\ final < now - age /\ w <= age => first <= now - w
OBVIOUS

(* After the announced time and a second more the oldest hit is out. *)
LEMMA OutInTime ==
  \A first, now, w, s \in Nat : \A back \in Int :
    first + w <= back + s /\ now >= back + s => first <= now - w
OBVIOUS

(* Hits out of the window may go, whether acquire or prune drops them. *)
LEMMA Drop ==
  ASSUME NEW a \in Seq(Nat), NEW h \in Seq(Nat), NEW b \in Seq(Nat), NEW now \in Nat,
         NEW w \in Nat, NEW m \in Nat, NEW n \in 0..Len(h),
         Sliding(h, a, now, w, m), \A i \in 1..n : h[i] <= now - w,
         Len(b) = Len(h) - n, \A i \in 1..(Len(h) - n) : b[i] = h[n + i]
  PROVE  Sliding(b, a, now, w, m)
<1>1. PICK la \in Nat, lh \in Nat : la = Len(a) /\ lh = Len(h)
  OBVIOUS
<1>2. /\ lh <= la /\ lh <= m /\ n \in 0..lh
      /\ \A i \in 1..lh : h[i] = a[la - lh + i]
      /\ \A i \in 1..(la - lh) : a[i] <= now - w
  BY <1>1 DEF Sliding, Recent, Past
<1>3. Recent(b, a, m)
  <2>1. \A i \in 1..(lh - n) : b[i] = a[la - (lh - n) + i]
    <3> SUFFICES ASSUME NEW i \in 1..(lh - n) PROVE b[i] = a[la - (lh - n) + i]
      OBVIOUS
    <3>1. n + i \in 1..lh /\ la - lh + (n + i) = la - (lh - n) + i
      BY <1>2
    <3>2. QED
      BY <1>1, <1>2, <3>1
  <2>2. QED
    BY <1>1, <1>2, <2>1 DEF Recent
<1>4. Past(b, a, now, w)
  <2> SUFFICES ASSUME NEW i \in 1..(la - (lh - n)) PROVE a[i] <= now - w
    BY <1>1 DEF Past
  <2>1. CASE i <= la - lh
    BY <1>2, <2>1
  <2>2. CASE i > la - lh
    <3>1. i - (la - lh) \in 1..n /\ i - (la - lh) \in 1..lh /\ la - lh + (i - (la - lh)) = i
      BY <1>2, <2>2
    <3>2. h[i - (la - lh)] = a[i]
      BY <1>2, <3>1
    <3>3. QED
      BY <3>1, <3>2
  <2>3. QED
    BY <1>2, <2>1, <2>2
<1>5. QED
  BY <1>3, <1>4 DEF Sliding

(* A call that finds room is a window away from the one m before it,       *)
(* because that one is no longer in the bucket. *)
LEMMA Add ==
  ASSUME NEW a \in Seq(Nat), NEW h \in Seq(Nat), NEW now \in Nat,
         NEW w \in Nat, NEW m \in Nat,
         Sliding(h, a, now, w, m), Len(h) < m
  PROVE  Sliding(Append(h, now), Append(a, now), now, w, m)
<1> DEFINE h1 == Append(h, now)
           a1 == Append(a, now)
<1>1. PICK la \in Nat, lh \in Nat : la = Len(a) /\ lh = Len(h)
  OBVIOUS
<1>2. /\ Len(h1) = lh + 1 /\ h1[lh + 1] = now /\ \A i \in 1..lh : h1[i] = h[i]
      /\ Len(a1) = la + 1 /\ a1[la + 1] = now /\ \A i \in 1..la : a1[i] = a[i]
  BY <1>1, Pushed
<1>3. \A i \in 1..la : a[i] \in Nat
  BY <1>1
<1> HIDE DEF h1, a1
<1>4. /\ lh <= la /\ lh < m
      /\ \A i \in 1..lh : h[i] = a[la - lh + i]
      /\ \A i \in 1..(la - lh) : a[i] <= now - w
      /\ \A i \in 1..la : a[i] <= now /\ \A j \in i..la : a[i] <= a[j]
      /\ \A i \in 1..(la - m) : a[i + m] - a[i] >= w
  BY <1>1 DEF Sliding, Recent, Past, Ordered, Apart
<1>5. Recent(h1, a1, m)
  <2>1. ASSUME NEW i \in 1..(lh + 1) PROVE h1[i] = a1[la + 1 - (lh + 1) + i]
    <3>1. CASE i = lh + 1
      BY <1>2, <1>4, <3>1
    <3>2. CASE i \in 1..lh
      <4>1. la - lh + i \in 1..la /\ la + 1 - (lh + 1) + i = la - lh + i
        BY <1>4, <3>2
      <4>2. QED
        BY <1>2, <1>4, <3>2, <4>1
    <3>3. QED
      BY <3>1, <3>2
  <2>2. QED
    BY <1>2, <1>4, <2>1 DEF Recent
<1>6. Past(h1, a1, now, w)
  <2> SUFFICES ASSUME NEW i \in 1..(la + 1 - (lh + 1)) PROVE a1[i] <= now - w
    BY <1>2 DEF Past
  <2>1. i \in 1..(la - lh) /\ i \in 1..la
    BY <1>4
  <2>2. QED
    BY <1>2, <1>4, <2>1
<1>7. Ordered(a1, now)
  <2> SUFFICES ASSUME NEW i \in 1..(la + 1)
               PROVE  a1[i] <= now /\ \A j \in i..(la + 1) : a1[i] <= a1[j]
    BY <1>2 DEF Ordered
  <2>1. CASE i = la + 1
    BY <1>2, <2>1
  <2>2. CASE i \in 1..la
    <3>1. a1[i] = a[i] /\ a[i] <= now
      BY <1>2, <1>4, <2>2
    <3>2. ASSUME NEW j \in i..(la + 1) PROVE a1[i] <= a1[j]
      <4>1. CASE j = la + 1
        BY <1>2, <3>1, <4>1
      <4>2. CASE j \in i..la
        <5>1. j \in 1..la
          BY <2>2, <4>2
        <5>2. QED
          BY <1>2, <1>4, <2>2, <3>1, <4>2, <5>1
      <4>3. QED
        BY <4>1, <4>2
    <3>3. QED
      BY <3>1, <3>2
  <2>3. QED
    BY <2>1, <2>2
<1>8. Apart(a1, w, m)
  <2> SUFFICES ASSUME NEW i \in 1..(la + 1 - m) PROVE a1[i + m] - a1[i] >= w
    BY <1>2 DEF Apart
  <2>1. CASE i + m <= la
    <3>1. i \in 1..(la - m) /\ i \in 1..la /\ i + m \in 1..la
      BY <2>1
    <3>2. a1[i + m] = a[i + m] /\ a1[i] = a[i]
      BY <1>2, <3>1
    <3>3. QED
      BY <1>4, <3>1, <3>2
  <2>2. CASE i + m = la + 1
    <3>1. i \in 1..(la - lh) /\ i \in 1..la
      BY <1>4, <2>2
    <3>2. a1[i + m] = now /\ a1[i] = a[i] /\ a[i] <= now - w /\ a[i] \in Nat
      BY <1>2, <1>3, <1>4, <2>2, <3>1
    <3>3. QED
      BY <3>2
  <2>3. QED
    BY <2>1, <2>2
<1>9. QED
  BY <1>5, <1>6, <1>7, <1>8 DEF Sliding, h1, a1

(* Time may pass. *)
LEMMA Wait ==
  ASSUME NEW a \in Seq(Nat), NEW h \in Seq(Nat), NEW now \in Nat, NEW later \in Nat,
         NEW w \in Nat, NEW m \in Nat, Sliding(h, a, now, w, m), now <= later
  PROVE  Sliding(h, a, later, w, m)
<1>1. \A i \in 1..Len(a) : a[i] \in Nat
  OBVIOUS
<1>2. Past(h, a, later, w)
  <2> SUFFICES ASSUME NEW i \in 1..(Len(a) - Len(h)) PROVE a[i] <= later - w
    BY DEF Past
  <2>1. a[i] <= now - w /\ i \in 1..Len(a)
    BY DEF Sliding, Past
  <2>2. QED
    BY <1>1, <2>1
<1>3. Ordered(a, later)
  <2> SUFFICES ASSUME NEW i \in 1..Len(a)
               PROVE  a[i] <= later /\ \A j \in i..Len(a) : a[i] <= a[j]
    BY DEF Ordered
  <2>1. a[i] <= now /\ \A j \in i..Len(a) : a[i] <= a[j]
    BY DEF Sliding, Ordered
  <2>2. QED
    BY <1>1, <2>1
<1>4. QED
  BY <1>2, <1>3 DEF Sliding

-----------------------------------------------------------------------------
(* The steps of the limiter                                                *)

(* A bucket that no call touches keeps its invariant. *)
LEMMA Untouched ==
  ASSUME IndInv, NEW k \in Keys, clock' \in Nat, clock <= clock',
         hits'[k] = hits[k], accepted'[k] = accepted[k], retryAt'[k] = retryAt[k]
  PROVE  KeyInv(k)' /\ RetryInv(k)'
<1>1. /\ hits[k] \in Seq(Nat) /\ accepted[k] \in Seq(Nat) /\ clock \in Nat
      /\ Window[k] \in Nat /\ MaxCalls[k] \in Nat
  BY LimiterAssumption DEF IndInv, TypeOK
<1>2. KeyInv(k) /\ RetryInv(k)
  BY DEF IndInv
<1>3. Sliding(hits[k], accepted[k], clock', Window[k], MaxCalls[k])
  BY <1>1, <1>2, Wait DEF KeyInv
<1>4. QED
  BY <1>2, <1>3 DEF KeyInv, RetryInv

(* acquire lets a call in. *)
LEMMA AcceptStep ==
  ASSUME IndInv, NEW k \in Keys, Accept(k)
  PROVE  IndInv'
<1>1. /\ hits[k] \in Seq(Nat) /\ accepted[k] \in Seq(Nat) /\ clock \in Nat
      /\ Window[k] \in Nat /\ MaxCalls[k] \in Nat
  BY LimiterAssumption DEF IndInv, TypeOK
<1>2. PICK n \in 0..Len(hits[k]) :
        /\ Pops(k, n)
        /\ Len(Kept(k, n)) < MaxCalls[k]
        /\ hits' = [hits EXCEPT ![k] = Append(Kept(k, n), clock)]
  BY DEF Accept
<1>3. /\ Kept(k, n) \in Seq(Nat) /\ Len(Kept(k, n)) = Len(hits[k]) - n
      /\ \A i \in 1..(Len(hits[k]) - n) : Kept(k, n)[i] = hits[k][n + i]
  BY <1>1, Popped DEF Kept
<1>4. Sliding(Kept(k, n), accepted[k], clock, Window[k], MaxCalls[k])
  <2>1. Sliding(hits[k], accepted[k], clock, Window[k], MaxCalls[k])
    BY DEF IndInv, KeyInv
  <2>2. \A i \in 1..n : hits[k][i] <= clock - Window[k]
    BY <1>2 DEF Pops
  <2>3. QED
    BY <1>1, <1>3, <2>1, <2>2, Drop
<1>5. Append(Kept(k, n), clock) \in Seq(Nat) /\ Append(accepted[k], clock) \in Seq(Nat)
  BY <1>1, <1>3, Pushed
<1>6. /\ accepted' = [accepted EXCEPT ![k] = Append(@, clock)]
      /\ retryAt' = [retryAt EXCEPT ![k] = -1] /\ clock' = clock
  BY DEF Accept
<1>7. TypeOK'
  BY <1>2, <1>5, <1>6 DEF IndInv, TypeOK
<1>8. KeyInv(k)'
  <2>1. Sliding(Append(Kept(k, n), clock), Append(accepted[k], clock), clock,
                Window[k], MaxCalls[k])
    BY <1>1, <1>2, <1>3, <1>4, Add
  <2>2. /\ hits'[k] = Append(Kept(k, n), clock)
        /\ accepted'[k] = Append(accepted[k], clock)
    BY <1>2, <1>6 DEF IndInv, TypeOK
  <2>3. QED
    BY <1>6, <2>1, <2>2 DEF KeyInv
<1>9. RetryInv(k)'
  BY <1>6 DEF IndInv, TypeOK, RetryInv
<1>10. ASSUME NEW q \in Keys, q # k PROVE KeyInv(q)' /\ RetryInv(q)'
  <2>1. hits'[q] = hits[q] /\ accepted'[q] = accepted[q] /\ retryAt'[q] = retryAt[q]
    BY <1>2, <1>6, <1>10 DEF IndInv, TypeOK
  <2>2. QED
    BY <1>1, <1>6, <2>1, Untouched
<1>11. QED
  BY <1>7, <1>8, <1>9, <1>10 DEF IndInv

(* acquire refuses a call. *)
LEMMA RefuseStep ==
  ASSUME IndInv, NEW k \in Keys, Refuse(k)
  PROVE  IndInv'
<1>1. /\ hits[k] \in Seq(Nat) /\ accepted[k] \in Seq(Nat) /\ clock \in Nat
      /\ Window[k] \in Nat \ {0} /\ MaxCalls[k] \in Nat \ {0} /\ Second \in Nat \ {0}
  BY LimiterAssumption DEF IndInv, TypeOK
<1>2. PICK n \in 0..Len(hits[k]) :
        /\ Pops(k, n)
        /\ Len(Kept(k, n)) >= MaxCalls[k]
        /\ hits' = [hits EXCEPT ![k] = Kept(k, n)]
        /\ retryAt' = [retryAt EXCEPT ![k] = clock + RetryAfter(k, hits[k][n + 1])]
  BY DEF Refuse
<1>3. /\ Kept(k, n) \in Seq(Nat) /\ Len(Kept(k, n)) = Len(hits[k]) - n
      /\ \A i \in 1..(Len(hits[k]) - n) : Kept(k, n)[i] = hits[k][n + i]
  BY <1>1, Popped DEF Kept
<1>4. Sliding(Kept(k, n), accepted[k], clock, Window[k], MaxCalls[k])
  <2>1. Sliding(hits[k], accepted[k], clock, Window[k], MaxCalls[k])
    BY DEF IndInv, KeyInv
  <2>2. \A i \in 1..n : hits[k][i] <= clock - Window[k]
    BY <1>2 DEF Pops
  <2>3. QED
    BY <1>1, <1>3, <2>1, <2>2, Drop
<1>5. UNCHANGED <<clock, accepted>>
  BY DEF Refuse
<1>6. PICK oldest \in Nat : oldest = hits[k][n + 1] /\ oldest = Kept(k, n)[1]
  <2>1. PICK len \in Nat : len = Len(hits[k])
    <3>1. Len(hits[k]) \in Nat
      BY <1>1, LenProperties
    <3>2. QED
      BY <3>1
  <2>2. n \in 0..len /\ len - n >= MaxCalls[k]
    BY <1>2, <1>3, <2>1
  <2>3. n + 1 \in 1..len /\ 1 \in 1..(len - n)
    BY <1>1, <2>1, <2>2
  <2>4. hits[k][n + 1] \in Nat
    BY <1>1, <2>1, <2>3, ElementOfSeq
  <2>5. QED
    BY <1>3, <2>1, <2>3, <2>4
<1>7. PICK wait \in Nat : wait = RetryAfter(k, oldest) /\ oldest + Window[k] <= clock + wait + Second
  <2>1. oldest > clock - Window[k]
    BY <1>1, <1>2, <1>3, <1>6 DEF Pops
  <2>2. PICK r \in Nat : r = Window[k] - (clock - oldest)
    BY <1>1, <2>1
  <2>3. RetryAfter(k, oldest) = Larger(1, r \div Second) * Second
    BY <2>2 DEF RetryAfter
  <2>4. RetryAfter(k, oldest) \in Nat /\ r < RetryAfter(k, oldest) + Second
    BY <1>1, <2>3, Rounding
  <2>5. QED
    BY <1>1, <2>2, <2>4
<1>8. TypeOK'
  <2>1. hits' \in [Keys -> Seq(Nat)]
    BY <1>2, <1>3 DEF IndInv, TypeOK
  <2>2. retryAt' = [retryAt EXCEPT ![k] = clock + wait] /\ clock + wait \in Int
    BY <1>1, <1>2, <1>6, <1>7
  <2>3. retryAt' \in [Keys -> Int]
    BY <2>2 DEF IndInv, TypeOK
  <2>4. QED
    BY <1>5, <2>1, <2>3 DEF IndInv, TypeOK
<1>9. hits'[k] = Kept(k, n) /\ retryAt'[k] = clock + wait
  BY <1>2, <1>6, <1>7 DEF IndInv, TypeOK
<1>10. KeyInv(k)' /\ RetryInv(k)'
  BY <1>4, <1>5, <1>6, <1>7, <1>9 DEF KeyInv, RetryInv
<1>11. ASSUME NEW q \in Keys, q # k PROVE KeyInv(q)' /\ RetryInv(q)'
  <2>1. hits'[q] = hits[q] /\ accepted'[q] = accepted[q] /\ retryAt'[q] = retryAt[q]
    BY <1>2, <1>5, <1>11 DEF IndInv, TypeOK
  <2>2. QED
    BY <1>1, <1>5, <2>1, Untouched
<1>12. QED
  BY <1>8, <1>10, <1>11 DEF IndInv

(* The last hit of a bucket is its newest: when it is stale, all are. *)
LEMMA PruneStep ==
  ASSUME IndInv, Prune
  PROVE  IndInv'
<1>1. UNCHANGED <<clock, accepted, retryAt>>
  BY DEF Prune
<1>2. TypeOK'
  BY DEF Prune, IndInv, TypeOK
<1>3. ASSUME NEW k \in Keys PROVE KeyInv(k)' /\ RetryInv(k)'
  <2>1. /\ hits[k] \in Seq(Nat) /\ accepted[k] \in Seq(Nat) /\ clock \in Nat
        /\ Window[k] \in Nat \ {0} /\ MaxCalls[k] \in Nat \ {0}
        /\ PruneAge \in Nat /\ Window[k] <= PruneAge
    BY LimiterAssumption DEF IndInv, TypeOK
  <2>2. CASE ~Stale(k)
    <3>1. hits'[k] = hits[k]
      BY <2>2 DEF Prune
    <3>2. QED
      BY <1>1, <2>1, <3>1, Untouched
  <2>3. CASE Stale(k)
    <3>1. hits'[k] = << >>
      BY <2>3 DEF Prune
    <3>2. PICK len \in Nat, all \in Nat : len = Len(hits[k]) /\ all = Len(accepted[k])
      BY <2>1
    <3>3. Sliding(hits[k], accepted[k], clock, Window[k], MaxCalls[k])
      BY DEF IndInv, KeyInv
    <3>4. \A i \in 1..len : hits[k][i] <= clock - Window[k]
      <4> SUFFICES ASSUME NEW i \in 1..len PROVE hits[k][i] <= clock - Window[k]
        OBVIOUS
      <4>1. Recent(hits[k], accepted[k], MaxCalls[k])
        BY <3>3 DEF Sliding
      <4>2. len <= all /\ \A j \in 1..len : hits[k][j] = accepted[k][all - len + j]
        BY <3>2, <4>1 DEF Recent
      <4>3. i \in 1..len /\ len \in 1..len
        OBVIOUS
      <4>4. all - len + i \in 1..all /\ all \in (all - len + i)..all /\ all - len + len = all
        BY <4>2
      <4>5. hits[k][i] = accepted[k][all - len + i] /\ hits[k][len] = accepted[k][all]
        BY <4>2, <4>3, <4>4
      <4>6. accepted[k][all - len + i] <= accepted[k][all]
        BY <3>2, <3>3, <4>4 DEF Sliding, Ordered
      <4>7. hits[k][len] < clock - PruneAge
        BY <2>3, <3>2 DEF Stale
      <4>8. hits[k][i] \in Nat /\ hits[k][len] \in Nat
        BY <2>1, <3>2, <4>3
      <4>9. QED
        BY <2>1, <4>5, <4>6, <4>7, <4>8, OlderIsOld
    <3>5. Sliding(<< >>, accepted[k], clock, Window[k], MaxCalls[k])
      <4>1. << >> \in Seq(Nat) /\ Len(<< >>) = len - len /\ len \in 0..Len(hits[k])
        BY <3>2
      <4>2. \A i \in 1..(len - len) : << >>[i] = hits[k][len + i]
        OBVIOUS
      <4>3. QED
        BY <2>1, <3>2, <3>3, <3>4, <4>1, <4>2, Drop
    <3>6. QED
      BY <1>1, <2>1, <3>1, <3>5 DEF KeyInv, RetryInv
  <2>4. QED
    BY <2>2, <2>3
<1>4. QED
  BY <1>2, <1>3 DEF IndInv

(* Time passes. *)
LEMMA TickStep ==
  ASSUME IndInv, Tick \/ UNCHANGED vars
  PROVE  IndInv'
<1>1. /\ UNCHANGED <<hits, accepted, retryAt>> /\ clock \in Nat
      /\ clock' \in Nat /\ clock <= clock'
  BY DEF Tick, vars, IndInv, TypeOK
<1>2. TypeOK'
  BY <1>1 DEF IndInv, TypeOK
<1>3. \A k \in Keys : KeyInv(k)' /\ RetryInv(k)'
  BY <1>1, Untouched
<1>4. QED
  BY <1>2, <1>3 DEF IndInv

-----------------------------------------------------------------------------
(* Theorems about the window                                               *)

(* The inductive invariant holds in every reachable state. *)
LEMMA Inductive == Spec => []IndInv
<1>1. Init => IndInv
  BY LimiterAssumption
  DEF Init, IndInv, TypeOK, KeyInv, RetryInv, Sliding, Recent, Past, Ordered, Apart
<1>2. IndInv /\ [Next]_vars => IndInv'
  BY AcceptStep, RefuseStep, PruneStep, TickStep DEF Next, Acquire
<1>3. QED
  BY <1>1, <1>2, PTL DEF Spec

(* The variables keep their types. *)
THEOREM TypeCorrect == Spec => []TypeOK
<1>1. IndInv => TypeOK
  BY DEF IndInv
<1>2. QED
  BY <1>1, Inductive, PTL

(* No window of a bucket, wherever it starts, holds more than max_calls    *)
(* accepted calls. *)
THEOREM WindowHolds == Spec => []WindowRespected
<1>1. IndInv => WindowRespected
  BY DEF IndInv, KeyInv, Sliding, Apart, WindowRespected
<1>2. QED
  BY <1>1, Inductive, PTL

(* acquire and prune forget only calls that are out of the window. *)
THEOREM ForgettingIsSafe == Spec => []ForgetsOnlyTheOld
<1>1. IndInv => ForgetsOnlyTheOld
  <2> SUFFICES ASSUME IndInv, NEW k \in Keys
      PROVE  /\ Len(accepted[k]) - Len(hits[k]) >= 0
             /\ \A i \in 1..Len(hits[k]) :
                  hits[k][i] = accepted[k][Len(accepted[k]) - Len(hits[k]) + i]
             /\ \A i \in 1..(Len(accepted[k]) - Len(hits[k])) :
                  accepted[k][i] <= clock - Window[k]
    BY DEF ForgetsOnlyTheOld
  <2>1. hits[k] \in Seq(Nat) /\ accepted[k] \in Seq(Nat)
    BY DEF IndInv, TypeOK
  <2>2. Recent(hits[k], accepted[k], MaxCalls[k])
        /\ Past(hits[k], accepted[k], clock, Window[k])
    BY DEF IndInv, KeyInv, Sliding
  <2>3. Len(accepted[k]) - Len(hits[k]) >= 0
    BY <2>1, <2>2 DEF Recent
  <2>4. QED
    BY <2>2, <2>3 DEF Recent, Past
<1>2. QED
  BY <1>1, Inductive, PTL

(* The time a refusal announces is too short by less than a second. *)
THEOREM RetryIsHonest == Spec => []RetryFindsRoom
<1>1. IndInv => RetryFindsRoom
  <2> SUFFICES ASSUME IndInv, NEW k \in Keys, retryAt[k] >= 0,
                      clock >= retryAt[k] + Second, Len(hits[k]) >= MaxCalls[k]
      PROVE  hits[k][Len(hits[k]) - MaxCalls[k] + 1] <= clock - Window[k]
    BY DEF RetryFindsRoom
  <2>1. /\ hits[k] \in Seq(Nat) /\ clock \in Nat /\ retryAt[k] \in Int
        /\ Window[k] \in Nat /\ MaxCalls[k] \in Nat \ {0} /\ Second \in Nat
    BY LimiterAssumption DEF IndInv, TypeOK
  <2>2. Len(hits[k]) = MaxCalls[k]
    <3>1. Recent(hits[k], accepted[k], MaxCalls[k])
      BY DEF IndInv, KeyInv, Sliding
    <3>2. Len(hits[k]) <= MaxCalls[k]
      BY <3>1 DEF Recent
    <3>3. Len(hits[k]) \in Nat
      BY <2>1
    <3>4. QED
      BY <2>1, <3>2, <3>3
  <2>3. hits[k][1] + Window[k] <= retryAt[k] + Second
    BY DEF IndInv, RetryInv
  <2>4. hits[k][1] \in Nat
    BY <2>1, <2>2
  <2>5. hits[k][1] <= clock - Window[k]
    BY <2>1, <2>3, <2>4, OutInTime
  <2>6. QED
    BY <2>1, <2>2, <2>5
<1>2. QED
  BY <1>1, Inductive, PTL

-----------------------------------------------------------------------------
(* Induction                                                               *)

(* A set of numbers that is not empty has a least one. *)
LEMMA Least ==
  ASSUME NEW T, T \subseteq Nat, T # {}
  PROVE  \E x \in T : \A y \in T : x <= y
<1> DEFINE R == OpToRel(<, Nat)
<1>1. IsWellFoundedOn(R, Nat)
  BY NatLessThanWellFounded
<1>2. \A x, y \in Nat : <<y, x>> \in R <=> y < x
  BY DEF OpToRel
<1> HIDE DEF R
<1>3. \E x \in T : \A y \in T : ~ (<<y, x>> \in R)
  BY <1>1, WFMin
<1>4. PICK x \in T : \A y \in T : ~ (<<y, x>> \in R)
  BY <1>3
<1>5. \A y \in T : ~(y < x)
  BY <1>2, <1>4
<1>6. x \in Nat
  OBVIOUS
<1>7. \A y \in T : x <= y
  BY <1>5, <1>6
<1> QED
  BY <1>7

(* Induction, for a set in the place of a predicate. *)
LEMMA SetInduction ==
  ASSUME NEW S, 0 \in S, \A n \in Nat : n \in S => n + 1 \in S
  PROVE  Nat \subseteq S
<1> DEFINE T == {n \in Nat : n \notin S}
<1>1. SUFFICES ASSUME T # {} PROVE FALSE
  OBVIOUS
<1> HIDE DEF T
<1>2. PICK x \in T : \A y \in T : x <= y
  BY <1>1, Least DEF T
<1>3. x \in Nat /\ x # 0 /\ x - 1 \notin T
  BY <1>2 DEF T
<1> QED
  BY <1>2, <1>3 DEF T

-----------------------------------------------------------------------------
(* FlattenSeq of the community modules is the last value of a recursive    *)
(* function on the indices of the sequence: that function exists, and it   *)
(* does to sequences what its name says.                                   *)

FlatStep(s, g, i) == IF i = 1 THEN s[i] ELSE g[i - 1] \o s[i]

(* g flattens the first k elements of s, one after the other, as the       *)
(* recursive function in FlattenSeq does. *)
Flattens(g, s, k) == g = [i \in 1..k |-> FlatStep(s, g, i)]

Flat(s, k) == CHOOSE g : Flattens(g, s, k)

(* FlattenSeq by way of that function. *)
LEMMA FlattenDef ==
  ASSUME NEW s
  PROVE  FlattenSeq(s) = IF Len(s) = 0 THEN s ELSE Flat(s, Len(s))[Len(s)]
BY DEF FlattenSeq, Flat, Flattens, FlatStep

(* The function exists, for every number of elements. *)
LEMMA FlattensExists ==
  ASSUME NEW s, NEW n \in Nat
  PROVE  \E g : Flattens(g, s, n)
<1> DEFINE K == {k \in Nat : \E g : Flattens(g, s, k)}
<1>1. 0 \in K
  <2> DEFINE g == [i \in 1..0 |-> 0]
  <2>1. \A i \in 1..0 : FALSE
    OBVIOUS
  <2>2. Flattens(g, s, 0)
    BY <2>1, Zenon DEF Flattens
  <2> HIDE DEF g
  <2> QED BY <2>2
<1>2. ASSUME NEW k \in Nat, k \in K PROVE k + 1 \in K
  <2>1. PICK g : Flattens(g, s, k)
    BY <1>2
  <2> DEFINE h == [i \in 1..(k + 1) |-> FlatStep(s, g, i)]
  <2>2. \A i \in 1..k : g[i] = FlatStep(s, g, i)
    BY <2>1 DEF Flattens
  <2>3. \A i \in 1..(k + 1) : h[i] = FlatStep(s, g, i)
    OBVIOUS
  <2>4. h = [i \in 1..(k + 1) |-> FlatStep(s, g, i)]
    OBVIOUS
  <2> HIDE DEF h
  <2>5. \A i \in 1..k : h[i] = g[i]
    BY <2>2, <2>3
  <2>6. \A i \in 1..(k + 1) : FlatStep(s, g, i) = FlatStep(s, h, i)
    BY <2>5 DEF FlatStep
  <2>7. h = [i \in 1..(k + 1) |-> FlatStep(s, h, i)]
    BY <2>4, <2>6, Zenon
  <2> QED BY <2>7 DEF Flattens
<1> HIDE DEF K
<1>3. Nat \subseteq K
  BY <1>1, <1>2, SetInduction
<1> QED BY <1>3 DEF K

(* The one that is chosen is one. *)
LEMMA FlatIs ==
  ASSUME NEW s, NEW n \in Nat
  PROVE  Flattens(Flat(s, n), s, n)
BY FlattensExists, Zenon DEF Flat

Agree(s, t, n) == \A i \in 1..n : s[i] = t[i]

(* Adding elements does not change how the first ones are flattened. *)
LEMMA FlattensAgree ==
  ASSUME NEW s, NEW t, NEW m \in Nat, NEW n \in Nat, m <= n, Agree(s, t, m),
         NEW f, NEW g, Flattens(f, s, m), Flattens(g, t, n)
  PROVE  Agree(f, g, m)
<1> DEFINE K == {k \in Nat : k \in 1..m => f[k] = g[k]}
<1>0. /\ \A i \in 1..m : f[i] = FlatStep(s, f, i)
      /\ \A i \in 1..n : g[i] = FlatStep(t, g, i)
  BY DEF Flattens
<1>1. 0 \in K
  OBVIOUS
<1>2. ASSUME NEW k \in Nat, k \in K PROVE k + 1 \in K
  <2> SUFFICES ASSUME k + 1 \in 1..m PROVE f[k + 1] = g[k + 1]
    OBVIOUS
  <2>1. f[k + 1] = FlatStep(s, f, k + 1) /\ g[k + 1] = FlatStep(t, g, k + 1)
    BY <1>0
  <2>2. s[k + 1] = t[k + 1]
    BY DEF Agree
  <2>3. CASE k = 0
    BY <2>1, <2>2, <2>3 DEF FlatStep
  <2>4. CASE k # 0
    <3>1. f[k] = g[k]
      BY <1>2, <2>4
    <3>2. k + 1 # 1 /\ (k + 1) - 1 = k
      BY <2>4
    <3> QED BY <2>1, <2>2, <3>1, <3>2 DEF FlatStep
  <2> QED BY <2>3, <2>4
<1> HIDE DEF K
<1>3. Nat \subseteq K
  BY <1>1, <1>2, SetInduction
<1> QED BY <1>3 DEF K, Agree

(* Nothing is flattened to nothing. *)
LEMMA FlattenEmpty == FlattenSeq(<< >>) = << >>
BY FlattenDef

(* One sequence alone is flattened to itself. *)
LEMMA FlattenOne ==
  ASSUME NEW S, NEW x \in S
  PROVE  FlattenSeq(<<x>>) = x
<1> DEFINE s == <<x>>
           f == Flat(s, 1)
<1>1. s \in Seq(S) /\ Len(s) = 1 /\ s[1] = x
  OBVIOUS
<1> HIDE DEF s
<1>2. FlattenSeq(s) = f[1]
  <2>1. FlattenSeq(s) = IF Len(s) = 0 THEN s ELSE Flat(s, Len(s))[Len(s)]
    BY FlattenDef, Zenon
  <2> QED BY <1>1, <2>1
<1>3. Flattens(f, s, 1)
  BY FlatIs
<1> HIDE DEF f
<1>4. f[1] = s[1]
  BY <1>3 DEF Flattens, FlatStep
<1> QED BY <1>1, <1>2, <1>4 DEF s

(* What is appended comes last. *)
LEMMA FlattenAppend ==
  ASSUME NEW T, NEW s \in Seq(Seq(T)), NEW x \in Seq(T), FlattenSeq(s) \in Seq(T)
  PROVE  FlattenSeq(Append(s, x)) = FlattenSeq(s) \o x
<1> DEFINE t == Append(s, x)
           n == Len(s)
           f == Flat(s, n)
           h == Flat(t, n + 1)
<1>1. n \in Nat /\ Len(t) = n + 1 /\ t[n + 1] = x /\ \A i \in 1..n : t[i] = s[i]
  OBVIOUS
<1>2. CASE n = 0
  <2>1. s = << >> /\ t = <<x>>
    BY <1>2
  <2>2. FlattenSeq(<<x>>) = x
    BY FlattenOne
  <2>3. << >> \o x = x
    OBVIOUS
  <2> QED BY <2>1, <2>2, <2>3, FlattenEmpty
<1>3. CASE n # 0
  <2> HIDE DEF t, n
  <2>1. FlattenSeq(s) = f[n]
    BY <1>3, FlattenDef DEF n
  <2>2. FlattenSeq(t) = h[n + 1]
    BY <1>1, FlattenDef
  <2>3. Flattens(f, s, n) /\ Flattens(h, t, n + 1)
    BY <1>1, FlatIs
  <2> HIDE DEF f, h
  <2>4. f[n] = h[n]
    <3>1. n + 1 \in Nat /\ n <= n + 1 /\ n \in 1..n
      BY <1>1, <1>3
    <3>2. Agree(s, t, n)
      BY <1>1 DEF Agree
    <3>3. Agree(f, h, n)
      BY <1>1, <2>3, <3>1, <3>2, FlattensAgree
    <3> QED BY <3>1, <3>3 DEF Agree
  <2>5. h[n + 1] = FlatStep(t, h, n + 1)
    <3>1. n + 1 \in 1..(n + 1)
      BY <1>1
    <3> QED BY <2>3, <3>1 DEF Flattens
  <2>6. FlatStep(t, h, n + 1) = h[n] \o x
    BY <1>1, <1>3 DEF FlatStep
  <2> QED BY <2>1, <2>2, <2>4, <2>5, <2>6 DEF t
<1> QED BY <1>2, <1>3

(* A sequence that is not empty, without its last element and with it. *)
LEMMA Unappend ==
  ASSUME NEW S, NEW s \in Seq(S), Len(s) # 0
  PROVE  \E r \in Seq(S), x \in S : s = Append(r, x) /\ Len(s) = Len(r) + 1
<1> DEFINE n == Len(s)
           r == SubSeq(s, 1, n - 1)
           x == s[n]
<1>1. n \in Nat /\ n - 1 \in Nat /\ n \in 1..n /\ x \in S
  <2>1. n \in Nat /\ n # 0
    OBVIOUS
  <2> HIDE DEF n
  <2>2. n - 1 \in Nat /\ n \in 1..n
    BY <2>1
  <2>3. x \in S
    BY <2>2 DEF n
  <2> QED BY <2>1, <2>2, <2>3
<1>2. r \in Seq(S) /\ Len(r) = n - 1 /\ \A i \in 1..(n - 1) : r[i] = s[i]
  <2> DEFINE m == n - 1
  <2>1. m \in Nat /\ m <= Len(s)
    BY <1>1
  <2> HIDE DEF m
  <2>2. /\ SubSeq(s, 1, m) \in Seq(S) /\ Len(SubSeq(s, 1, m)) = m
        /\ \A i \in 1..m : SubSeq(s, 1, m)[i] = s[i]
    BY <2>1
  <2> QED BY <2>2 DEF m
<1>3. Append(r, x) \in Seq(S) /\ Len(Append(r, x)) = n
  BY <1>1, <1>2
<1>4. \A i \in 1..n : Append(r, x)[i] = s[i]
  BY <1>1, <1>2
<1>5. s = Append(r, x)
  BY <1>3, <1>4
<1> HIDE DEF r, x
<1> QED BY <1>1, <1>2, <1>5

(* The elements of the elements are the elements of the whole. *)
LEMMA FlattenType ==
  ASSUME NEW T, NEW s \in Seq(Seq(T))
  PROVE  FlattenSeq(s) \in Seq(T)
<1> DEFINE K == {k \in Nat : \A t \in Seq(Seq(T)) : Len(t) = k => FlattenSeq(t) \in Seq(T)}
<1>1. 0 \in K
  <2>1. \A t \in Seq(Seq(T)) : Len(t) = 0 => t = << >>
    OBVIOUS
  <2> QED BY <2>1, FlattenEmpty
<1>2. ASSUME NEW k \in Nat, k \in K PROVE k + 1 \in K
  <2> SUFFICES ASSUME NEW t \in Seq(Seq(T)), Len(t) = k + 1 PROVE FlattenSeq(t) \in Seq(T)
    OBVIOUS
  <2>1. PICK r \in Seq(Seq(T)), x \in Seq(T) : t = Append(r, x) /\ Len(t) = Len(r) + 1
    <3>1. Len(t) # 0
      OBVIOUS
    <3> QED BY <3>1, Unappend, Zenon
  <2>2. FlattenSeq(r) \in Seq(T)
    BY <1>2, <2>1
  <2>3. FlattenSeq(t) = FlattenSeq(r) \o x
    BY <2>1, <2>2, FlattenAppend
  <2> QED BY <2>2, <2>3
<1> HIDE DEF K
<1>3. Nat \subseteq K
  BY <1>1, <1>2, SetInduction
<1> QED BY <1>3 DEF K

(* Two sequences one after the other are flattened one after the other. *)
LEMMA FlattenConcat ==
  ASSUME NEW T, NEW s \in Seq(Seq(T)), NEW t \in Seq(Seq(T))
  PROVE  FlattenSeq(s \o t) = FlattenSeq(s) \o FlattenSeq(t)
<1> DEFINE K == {k \in Nat : \A u \in Seq(Seq(T)) :
                   Len(u) = k => FlattenSeq(s \o u) = FlattenSeq(s) \o FlattenSeq(u)}
<1>1. 0 \in K
  <2> SUFFICES ASSUME NEW u \in Seq(Seq(T)), Len(u) = 0
               PROVE  FlattenSeq(s \o u) = FlattenSeq(s) \o FlattenSeq(u)
    OBVIOUS
  <2>1. u = << >> /\ s \o u = s
    OBVIOUS
  <2>2. FlattenSeq(s) \in Seq(T) /\ FlattenSeq(u) = << >>
    BY <2>1, FlattenType, FlattenEmpty
  <2> QED BY <2>1, <2>2
<1>2. ASSUME NEW k \in Nat, k \in K PROVE k + 1 \in K
  <2> SUFFICES ASSUME NEW u \in Seq(Seq(T)), Len(u) = k + 1
               PROVE  FlattenSeq(s \o u) = FlattenSeq(s) \o FlattenSeq(u)
    OBVIOUS
  <2>1. PICK r \in Seq(Seq(T)), x \in Seq(T) : u = Append(r, x) /\ Len(u) = Len(r) + 1
    <3>1. Len(u) # 0
      OBVIOUS
    <3> QED BY <3>1, Unappend, Zenon
  <2>2. FlattenSeq(s \o r) = FlattenSeq(s) \o FlattenSeq(r)
    BY <1>2, <2>1
  <2>3. s \o u = Append(s \o r, x) /\ s \o r \in Seq(Seq(T))
    BY <2>1
  <2>4. FlattenSeq(s \o u) = FlattenSeq(s \o r) \o x /\ FlattenSeq(u) = FlattenSeq(r) \o x
    BY <2>1, <2>3, FlattenAppend, FlattenType
  <2>5. FlattenSeq(s) \in Seq(T) /\ FlattenSeq(r) \in Seq(T)
    BY FlattenType
  <2> HIDE DEF K
  <2>6. (FlattenSeq(s) \o FlattenSeq(r)) \o x = FlattenSeq(s) \o (FlattenSeq(r) \o x)
    BY <2>5, SMTT(60)
  <2> QED BY <2>2, <2>4, <2>6
<1> HIDE DEF K
<1>3. Nat \subseteq K
  BY <1>1, <1>2, SetInduction
<1> QED BY <1>3 DEF K

(* Empty elements leave nothing. *)
LEMMA FlattenNothing ==
  ASSUME NEW T, NEW s \in Seq(Seq(T)), \A i \in 1..Len(s) : s[i] = << >>
  PROVE  FlattenSeq(s) = << >>
<1> DEFINE K == {k \in Nat : \A t \in Seq(Seq(T)) :
                   (Len(t) = k /\ \A i \in 1..k : t[i] = << >>) => FlattenSeq(t) = << >>}
<1>1. 0 \in K
  <2>1. \A t \in Seq(Seq(T)) : Len(t) = 0 => t = << >>
    OBVIOUS
  <2> QED BY <2>1, FlattenEmpty
<1>2. ASSUME NEW k \in Nat, k \in K PROVE k + 1 \in K
  <2> SUFFICES ASSUME NEW t \in Seq(Seq(T)), Len(t) = k + 1,
                      \A i \in 1..(k + 1) : t[i] = << >>
               PROVE  FlattenSeq(t) = << >>
    OBVIOUS
  <2>1. PICK r \in Seq(Seq(T)), x \in Seq(T) : t = Append(r, x) /\ Len(t) = Len(r) + 1
    <3>1. Len(t) # 0
      OBVIOUS
    <3> QED BY <3>1, Unappend, Zenon
  <2>2. x = << >> /\ Len(r) = k /\ \A i \in 1..k : r[i] = << >>
    BY <2>1
  <2>3. FlattenSeq(r) = << >>
    BY <1>2, <2>2
  <2>4. FlattenSeq(t) = FlattenSeq(r) \o x
    BY <2>1, FlattenAppend, FlattenType
  <2> QED BY <2>2, <2>3, <2>4
<1> HIDE DEF K
<1>3. Nat \subseteq K
  BY <1>1, <1>2, SetInduction
<1>4. Len(s) \in K
  BY <1>3
<1> QED BY <1>4 DEF K

-----------------------------------------------------------------------------
(* The words of a text                                                     *)

Mark(c) == IF c = "end of line" THEN << >> ELSE <<c>>

Marks(text) == [i \in 1..Len(text) |-> Mark(text[i])]

(* A character is a word or nothing. *)
LEMMA MarkIs ==
  ASSUME NEW c \in Chars
  PROVE  Mark(c) \in Seq(Chars)
<1>1. CASE c = "end of line"
  <2>1. Mark(c) = << >>
    BY <1>1 DEF Mark
  <2> QED BY <2>1, EmptySeq
<1>2. CASE c # "end of line"
  <2>1. Mark(c) = <<c>>
    BY <1>2 DEF Mark
  <2> QED BY <2>1
<1> QED BY <1>1, <1>2

(* The marks of a text, one for each of its characters. *)
LEMMA MarksAre ==
  ASSUME NEW text \in Seq(Chars)
  PROVE  /\ Marks(text) \in Seq(Seq(Chars))
         /\ Len(Marks(text)) = Len(text)
         /\ \A i \in 1..Len(text) : Marks(text)[i] = Mark(text[i])
<1> DEFINE n == Len(text)
<1>1. n \in Nat /\ \A i \in 1..n : Mark(text[i]) \in Seq(Chars)
  BY MarkIs, ElementOfSeq, LenProperties
<1>2. Marks(text) = [i \in 1..n |-> Mark(text[i])]
  BY DEF Marks
<1> HIDE DEF n
<1>3. Marks(text) \in [1..n -> Seq(Chars)]
  BY <1>1, <1>2
<1>4. \A i \in 1..n : Marks(text)[i] = Mark(text[i])
  BY <1>2
<1>5. DOMAIN Marks(text) = 1..n
  BY <1>2
<1>6. Marks(text) \in Seq(Seq(Chars))
  BY <1>1, <1>3, SeqDef
<1>7. Len(Marks(text)) = n
  BY <1>1, <1>5, <1>6, LenProperties
<1> QED BY <1>4, <1>6, <1>7 DEF n

(* Words are the marks, flattened. *)
LEMMA WordsAre ==
  ASSUME NEW text \in Seq(Chars)
  PROVE  Words(text) = FlattenSeq(Marks(text)) /\ Words(text) \in Seq(Chars)
<1>1. Words(text) = FlattenSeq(Marks(text))
  BY DEF Words, Marks, Mark
<1> QED BY <1>1, MarksAre, FlattenType

(* The words of two texts are those of the one and then those of the       *)
(* other. *)
LEMMA WordsConcat ==
  ASSUME NEW a \in Seq(Chars), NEW b \in Seq(Chars)
  PROVE  Words(a \o b) = Words(a) \o Words(b)
<1> DEFINE c  == a \o b
           ma == Marks(a)
           mb == Marks(b)
<1>1. /\ c \in Seq(Chars) /\ Len(c) = Len(a) + Len(b)
      /\ \A i \in 1..Len(a) + Len(b) : c[i] = IF i <= Len(a) THEN a[i] ELSE b[i - Len(a)]
  BY ConcatProperties
<1>2. Len(a) \in Nat /\ Len(b) \in Nat
  BY LenProperties
<1> HIDE DEF c
<1>3. /\ ma \in Seq(Seq(Chars)) /\ Len(ma) = Len(a) /\ \A i \in 1..Len(a) : ma[i] = Mark(a[i])
      /\ mb \in Seq(Seq(Chars)) /\ Len(mb) = Len(b) /\ \A i \in 1..Len(b) : mb[i] = Mark(b[i])
      /\ Marks(c) \in Seq(Seq(Chars)) /\ Len(Marks(c)) = Len(c)
      /\ \A i \in 1..Len(c) : Marks(c)[i] = Mark(c[i])
  BY <1>1, MarksAre
<1> HIDE DEF ma, mb
<1>4. /\ ma \o mb \in Seq(Seq(Chars)) /\ Len(ma \o mb) = Len(ma) + Len(mb)
      /\ \A i \in 1..Len(ma) + Len(mb) :
           (ma \o mb)[i] = IF i <= Len(ma) THEN ma[i] ELSE mb[i - Len(ma)]
  <2>1. ma \in Seq(Seq(Chars)) /\ mb \in Seq(Seq(Chars))
    BY <1>3
  <2> QED BY <2>1, ConcatProperties, Zenon
<1>5. ASSUME NEW i \in 1..Len(c)
      PROVE  Marks(c)[i] = (ma \o mb)[i]
  <2>1. CASE i <= Len(a)
    <3>1. i \in 1..Len(a) /\ i \in 1..Len(a) + Len(b)
      BY <1>1, <1>2, <2>1
    <3>2. c[i] = a[i] /\ (ma \o mb)[i] = ma[i]
      BY <1>1, <1>3, <1>4, <2>1, <3>1
    <3> QED BY <1>3, <3>1, <3>2
  <2>2. CASE ~(i <= Len(a))
    <3>1. i - Len(a) \in 1..Len(b) /\ i \in 1..Len(a) + Len(b)
      BY <1>1, <1>2, <2>2
    <3>2. c[i] = b[i - Len(a)] /\ (ma \o mb)[i] = mb[i - Len(a)]
      BY <1>1, <1>3, <1>4, <2>2, <3>1
    <3> QED BY <1>3, <3>1, <3>2
  <2> QED BY <2>1, <2>2
<1>6. Marks(c) = ma \o mb
  BY <1>1, <1>3, <1>4, <1>5, SeqEqual
<1>7. Words(c) = FlattenSeq(ma \o mb) /\ Words(a) = FlattenSeq(ma) /\ Words(b) = FlattenSeq(mb)
  BY <1>1, <1>6, WordsAre DEF ma, mb
<1> QED BY <1>3, <1>7, FlattenConcat DEF c

(* Ends of lines hold no words. *)
LEMMA EndsAreNoWords ==
  ASSUME NEW a \in Seq(Chars), \A i \in 1..Len(a) : a[i] = "end of line"
  PROVE  Words(a) = << >>
<1>1. \A i \in 1..Len(a) : Mark(a[i]) = << >>
  BY DEF Mark
<1>2. Marks(a) \in Seq(Seq(Chars)) /\ \A i \in 1..Len(Marks(a)) : Marks(a)[i] = << >>
  BY <1>1, MarksAre
<1> QED BY <1>2, WordsAre, FlattenNothing

-----------------------------------------------------------------------------
(* split_text                                                              *)

(* Telegram's limit and the length of a part. *)
LEMMA DeliveryBounds == Limit \in Nat /\ Chunk \in 1..Limit
BY DeliveryAssumption

(* Max is the largest of some numbers up to a bound. *)
LEMMA Largest ==
  ASSUME NEW n \in Nat, NEW E \in SUBSET (0..n), E # {}
  PROVE  Max(E) \in E /\ \A y \in E : Max(E) >= y
<1> DEFINE T == {n - i : i \in E}
<1>0. \A i \in E : i \in 0..n
  OBVIOUS
<1>1. T \subseteq Nat /\ T # {}
  <2>1. \A i \in E : n - i \in Nat
    BY <1>0
  <2>2. PICK i \in E : TRUE
    OBVIOUS
  <2>3. n - i \in T
    OBVIOUS
  <2> QED BY <2>1, <2>3
<1>2. \A i \in E : n - i \in T
  OBVIOUS
<1>3. \A y \in T : \E i \in E : y = n - i
  OBVIOUS
<1> HIDE DEF T
<1>4. PICK x \in T : \A y \in T : x <= y
  BY <1>1, Least
<1>5. PICK i \in E : x = n - i
  BY <1>3
<1>6. \A y \in E : n - i <= n - y
  BY <1>2, <1>4, <1>5
<1>7. \A y \in E : i >= y
  BY <1>0, <1>6
<1>8. \E k \in E : \A y \in E : k >= y
  BY <1>7
<1> QED BY <1>8, Zenon DEF Max

(* Min is the smallest of some numbers. *)
LEMMA Smallest ==
  ASSUME NEW E \in SUBSET Nat, E # {}
  PROVE  Min(E) \in E /\ \A y \in E : Min(E) <= y
<1>1. \E k \in E : \A y \in E : k <= y
  BY Least
<1> QED BY <1>1, Zenon DEF Min

Ends(text) == {i \in 2..Chunk : text[i] = "end of line"}

(* A part has at least one character and no more than Chunk. *)
LEMMA CutIsInside ==
  ASSUME NEW text
  PROVE  CutAt(text) \in 1..Chunk
<1>1. Chunk \in Nat /\ Chunk >= 1
  BY DeliveryBounds
<1>2. CutAt(text) = IF Ends(text) = {} THEN Chunk ELSE Max(Ends(text)) - 1
  BY DEF CutAt, Ends
<1>3. CASE Ends(text) = {}
  BY <1>1, <1>2, <1>3
<1>4. CASE Ends(text) # {}
  <2>1. \A i \in Ends(text) : i \in 2..Chunk
    BY DEF Ends
  <2>2. Ends(text) \in SUBSET (0..Chunk)
    BY <1>1, <2>1
  <2>3. Max(Ends(text)) \in Ends(text)
    BY <1>1, <1>4, <2>2, Largest
  <2>4. Max(Ends(text)) \in 2..Chunk
    BY <2>1, <2>3
  <2> QED BY <1>1, <1>2, <1>4, <2>4
<1> QED BY <1>3, <1>4

KeptAt(text) == {i \in 1..Len(text) : text[i] # "end of line"}

(* Strip takes ends of lines off the beginning and nothing else. *)
LEMMA StripIs ==
  ASSUME NEW text \in Seq(Chars)
  PROVE  \E ends \in Seq(Chars) :
           /\ Strip(text) \in Seq(Chars) /\ text = ends \o Strip(text)
           /\ \A i \in 1..Len(ends) : ends[i] = "end of line"
           /\ Len(Strip(text)) > 0 => Strip(text)[1] # "end of line"
<1> DEFINE n == Len(text)
<1>1. n \in Nat
  BY LenProperties
<1>2. Strip(text) = IF KeptAt(text) = {} THEN << >> ELSE SubSeq(text, Min(KeptAt(text)), Len(text))
  BY DEF Strip, KeptAt
<1>3. CASE KeptAt(text) = {}
  <2>1. Strip(text) = << >> /\ ~(Len(<< >>) > 0)
    BY <1>2, <1>3, EmptySeq
  <2>2. text = text \o << >> /\ << >> \in Seq(Chars)
    BY ConcatEmptySeq, EmptySeq
  <2>3. \A i \in 1..Len(text) : text[i] = "end of line"
    BY <1>3 DEF KeptAt
  <2> QED BY <2>1, <2>2, <2>3
<1>4. CASE KeptAt(text) # {}
  <2> DEFINE m == Min(KeptAt(text))
             ends == SubSeq(text, 1, m - 1)
             left == SubSeq(text, m, n)
  <2>1. Strip(text) = left
    BY <1>2, <1>4
  <2>2. KeptAt(text) \in SUBSET Nat
    <3>1. \A i \in KeptAt(text) : i \in 1..n
      BY DEF KeptAt
    <3> HIDE DEF n
    <3> QED BY <1>1, <3>1
  <2>3. m \in KeptAt(text) /\ \A y \in KeptAt(text) : m <= y
    BY <1>4, <2>2, Smallest
  <2>4. m \in 1..n
    BY <2>3 DEF KeptAt
  <2>5. \A i \in 1..n : i < m => text[i] = "end of line"
    <3> SUFFICES ASSUME NEW i \in 1..n, i < m PROVE text[i] = "end of line"
      OBVIOUS
    <3>1. i \notin KeptAt(text)
      <4> HIDE DEF m, n
      <4>1. i \in Nat /\ m \in Nat
        BY <1>1, <2>4
      <4> QED BY <2>3, <4>1
    <3> QED BY <3>1 DEF KeptAt
  <2> HIDE DEF m
  <2>6. /\ \A i \in 1..(m - 1) : text[i] \in Chars /\ i \in 1..n
        /\ \A i \in m..n : text[i] \in Chars
    BY <1>1, <2>4, ElementOfSeq
  <2>7. /\ ends \in Seq(Chars) /\ Len(ends) = (IF 1 <= m - 1 THEN m - 1 - 1 + 1 ELSE 0)
        /\ \A i \in 1..(m - 1) - 1 + 1 : ends[i] = text[1 + i - 1]
    BY <2>4, <2>6, SubSeqProperties
  <2>8. left \in Seq(Chars) /\ left[1] # "end of line"
    <3>1. /\ left \in Seq(Chars)
          /\ \A i \in 1..(n - m + 1) : left[i] = text[m + i - 1]
      BY <1>1, <2>4, <2>6, SubSeqProperties
    <3>2. text[m] # "end of line"
      BY <2>3 DEF KeptAt
    <3> HIDE DEF n, left
    <3>3. 1 \in 1..(n - m + 1) /\ m + 1 - 1 = m
      BY <1>1, <2>4
    <3> QED BY <3>1, <3>2, <3>3
  <2>9. ends \o left = SubSeq(text, 1, n)
    <3>1. 1 \in 1..(n + 1) /\ m - 1 \in (1 - 1)..n /\ n \in (m - 1)..n /\ (m - 1) + 1 = m
      BY <1>1, <2>4
    <3> QED BY <3>1, ConcatAdjacentSubSeq
  <2>10. text = ends \o left
    BY <2>9, SubSeqFull
  <2>11. \A i \in 1..Len(ends) : ends[i] = "end of line"
    <3> SUFFICES ASSUME NEW i \in 1..Len(ends) PROVE ends[i] = "end of line"
      OBVIOUS
    <3> HIDE DEF ends
    <3>1. i \in 1..(m - 1) /\ i \in 1..n /\ i < m /\ 1 + i - 1 = i
      BY <1>1, <2>4, <2>7
    <3>2. ends[i] = text[i]
      BY <2>7, <2>4, <3>1
    <3> QED BY <2>5, <3>1, <3>2
  <2> HIDE DEF ends, left
  <2> QED BY <2>1, <2>7, <2>8, <2>10, <2>11
<1> QED BY <1>3, <1>4

(* The next part, the ends of lines that are dropped, and the rest. *)
LEMMA RestIs ==
  ASSUME NEW text \in Seq(Chars), Len(text) > Chunk
  PROVE  LET part == SubSeq(text, 1, CutAt(text)) IN
         /\ part \in Seq(Chars) /\ Len(part) \in 1..Chunk
         /\ Rest(text) \in Seq(Chars) /\ Len(Rest(text)) < Len(text)
         /\ Words(text) = Words(part) \o Words(Rest(text))
<1> DEFINE n    == Len(text)
           c    == CutAt(text)
           part == SubSeq(text, 1, c)
           left == SubSeq(text, c + 1, n)
<1>1. n \in Nat /\ Chunk \in Nat /\ c \in 1..Chunk /\ n > Chunk
  BY LenProperties, CutIsInside, DeliveryBounds
<1>2. Rest(text) = Strip(left)
  BY DEF Rest
<1>3. SubSeq(text, 1, n) = text
  BY SubSeqFull
<1>4. \A i \in 1..n : text[i] \in Chars
  BY ElementOfSeq
<1> HIDE DEF n, c
<1>5. /\ \A i \in 1..c : text[i] \in Chars
      /\ \A i \in (c + 1)..n : text[i] \in Chars
  BY <1>1, <1>4
<1>6. part \in Seq(Chars) /\ Len(part) = (IF 1 <= c THEN c - 1 + 1 ELSE 0)
  BY <1>1, <1>5, SubSeqProperties
<1>7. left \in Seq(Chars) /\ Len(left) = (IF c + 1 <= n THEN n - (c + 1) + 1 ELSE 0)
  BY <1>1, <1>5, SubSeqProperties
<1>8. part \o left = text
  <2>1. 1 \in 1..(n + 1) /\ c \in (1 - 1)..n /\ n \in c..n
    BY <1>1
  <2>2. part \o left = SubSeq(text, 1, n)
    BY <2>1, ConcatAdjacentSubSeq DEF n
  <2> QED BY <1>3, <2>2
<1>9. Len(part) = c /\ Len(left) = n - c
  BY <1>1, <1>6, <1>7
<1> HIDE DEF part, left
<1>10. PICK ends \in Seq(Chars) :
         /\ Strip(left) \in Seq(Chars) /\ left = ends \o Strip(left)
         /\ \A i \in 1..Len(ends) : ends[i] = "end of line"
  BY <1>7, StripIs
<1>11. Len(ends) \in Nat /\ Len(Strip(left)) \in Nat /\ Len(left) = Len(ends) + Len(Strip(left))
  BY <1>10, ConcatProperties, LenProperties
<1>12. Words(text) = Words(part) \o (Words(ends) \o Words(Strip(left)))
  <2>1. Words(part \o left) = Words(part) \o Words(left)
    BY <1>6, <1>7, WordsConcat
  <2>2. Words(ends \o Strip(left)) = Words(ends) \o Words(Strip(left))
    BY <1>10, WordsConcat
  <2>3. Words(left) = Words(ends \o Strip(left)) /\ Words(text) = Words(part \o left)
    BY <1>8, <1>10, Zenon
  <2> QED BY <2>1, <2>2, <2>3
<1>13. Words(ends) \o Words(Strip(left)) = Words(Strip(left))
  BY <1>10, EndsAreNoWords, WordsAre, ConcatEmptySeq
<1>14. Len(Strip(left)) < n
  BY <1>1, <1>9, <1>11
<1> QED BY <1>1, <1>2, <1>6, <1>9, <1>10, <1>12, <1>13, <1>14 DEF part, c, n

SplitStep(f, text) ==
  IF text = << >> THEN << >>
  ELSE IF Len(text) <= Chunk THEN <<text>>
  ELSE <<SubSeq(text, 1, CutAt(text))>> \o f[Rest(text)]

(* f splits the texts of S as Split does, all the way down. *)
Splits(f, S) == f = [text \in S |-> SplitStep(f, text)]

(* Split is the function that is one step of split_text after the other. *)
LEMMA SplitDef == Split = CHOOSE f : Splits(f, Seq(Chars))
BY DEF Split, Splits, SplitStep

Short(n) == {text \in Seq(Chars) : Len(text) <= n}

SplitShort(n) == CHOOSE f : Splits(f, Short(n))

(* A step looks at no other text than the rest. *)
LEMMA StepsAgree ==
  ASSUME NEW f, NEW g, NEW text \in Seq(Chars),
         Len(text) > Chunk => f[Rest(text)] = g[Rest(text)]
  PROVE  SplitStep(f, text) = SplitStep(g, text)
<1>1. Len(text) \in Nat /\ Chunk \in Nat
  BY LenProperties, DeliveryBounds
<1>2. CASE Len(text) > Chunk
  BY <1>2 DEF SplitStep
<1>3. CASE Len(text) <= Chunk
  BY <1>3 DEF SplitStep
<1> QED BY <1>1, <1>2, <1>3

(* The rest is shorter than the text. *)
LEMMA RestIsShort ==
  ASSUME NEW k \in Nat, NEW text \in Short(k + 1), Len(text) > Chunk
  PROVE  Rest(text) \in Short(k)
<1>1. text \in Seq(Chars) /\ Len(text) <= k + 1
  BY DEF Short
<1>2. Rest(text) \in Seq(Chars) /\ Len(Rest(text)) < Len(text)
  BY <1>1, RestIs
<1>3. Len(text) \in Nat /\ Len(Rest(text)) \in Nat
  BY <1>1, <1>2, LenProperties
<1> QED BY <1>1, <1>2, <1>3 DEF Short

(* The texts up to some length have a function that splits them. *)
LEMMA ShortSplits ==
  ASSUME NEW n \in Nat
  PROVE  Splits(SplitShort(n), Short(n))
<1> DEFINE K == {k \in Nat : \E f : Splits(f, Short(k))}
<1>1. 0 \in K
  <2> DEFINE f == [text \in Short(0) |-> << >>]
  <2>1. ASSUME NEW text \in Short(0) PROVE SplitStep(f, text) = << >>
    <3>1. text \in Seq(Chars) /\ Len(text) <= 0
      BY DEF Short
    <3>2. text = << >>
      BY <3>1, EmptySeq
    <3> QED BY <3>2 DEF SplitStep
  <2>2. f = [text \in Short(0) |-> SplitStep(f, text)]
    BY <2>1, Zenon
  <2>3. Splits(f, Short(0))
    BY <2>2 DEF Splits
  <2> HIDE DEF f
  <2> QED BY <2>3
<1>2. ASSUME NEW k \in Nat, k \in K PROVE k + 1 \in K
  <2>1. PICK f : Splits(f, Short(k))
    BY <1>2
  <2> DEFINE g == [text \in Short(k + 1) |-> SplitStep(f, text)]
  <2>2. ASSUME NEW text \in Short(k) PROVE text \in Short(k + 1) /\ g[text] = f[text]
    <3>1. text \in Short(k + 1)
      <4>1. text \in Seq(Chars) /\ Len(text) <= k
        BY DEF Short
      <4>2. Len(text) \in Nat
        BY <4>1, LenProperties
      <4> QED BY <4>1, <4>2 DEF Short
    <3>2. g[text] = SplitStep(f, text)
      BY <3>1
    <3>3. f[text] = SplitStep(f, text)
      BY <2>1 DEF Splits
    <3> QED BY <3>1, <3>2, <3>3
  <2>3. ASSUME NEW text \in Short(k + 1) PROVE SplitStep(f, text) = SplitStep(g, text)
    <3>1. text \in Seq(Chars)
      BY DEF Short
    <3>2. ASSUME Len(text) > Chunk PROVE f[Rest(text)] = g[Rest(text)]
      <4>1. Rest(text) \in Short(k)
        BY <3>2, RestIsShort
      <4> HIDE DEF g
      <4> QED BY <2>2, <4>1
    <3> HIDE DEF g
    <3> QED BY <3>1, <3>2, StepsAgree
  <2>4. g = [text \in Short(k + 1) |-> SplitStep(f, text)]
    OBVIOUS
  <2> HIDE DEF g
  <2>5. g = [text \in Short(k + 1) |-> SplitStep(g, text)]
    BY <2>3, <2>4, Zenon
  <2>6. Splits(g, Short(k + 1))
    BY <2>5 DEF Splits
  <2> QED BY <2>6
<1> HIDE DEF K
<1>3. Nat \subseteq K
  BY <1>1, <1>2, SetInduction
<1>4. \E f : Splits(f, Short(n))
  BY <1>3 DEF K
<1> QED BY <1>4, Zenon DEF SplitShort

(* However far a text is from the longest one, it is split the same way. *)
LEMMA ShortSplitsAgree ==
  ASSUME NEW m \in Nat, NEW n \in Nat, NEW text \in Seq(Chars),
         Len(text) <= m, Len(text) <= n
  PROVE  SplitShort(m)[text] = SplitShort(n)[text]
<1> DEFINE f == SplitShort(m)
           g == SplitShort(n)
           K == {k \in Nat : \A t \in Short(k) :
                   (Len(t) <= m /\ Len(t) <= n) => f[t] = g[t]}
<1>1. /\ \A t \in Short(m) : f[t] = SplitStep(f, t)
      /\ \A t \in Short(n) : g[t] = SplitStep(g, t)
  BY ShortSplits DEF Splits
<1> HIDE DEF f, g
<1>2. ASSUME NEW t \in Seq(Chars), Len(t) <= m, Len(t) <= n,
             Len(t) > Chunk => f[Rest(t)] = g[Rest(t)]
      PROVE  f[t] = g[t]
  <2>1. t \in Short(m) /\ t \in Short(n)
    BY <1>2 DEF Short
  <2>2. SplitStep(f, t) = SplitStep(g, t)
    BY <1>2, StepsAgree
  <2> QED BY <1>1, <2>1, <2>2
<1>3. 0 \in K
  <2> SUFFICES ASSUME NEW t \in Short(0), Len(t) <= m, Len(t) <= n PROVE f[t] = g[t]
    OBVIOUS
  <2>1. t \in Seq(Chars) /\ Len(t) <= 0
    BY DEF Short
  <2>2. ~(Len(t) > Chunk)
    BY <2>1, LenProperties, DeliveryBounds
  <2> QED BY <1>2, <2>1, <2>2
<1>4. ASSUME NEW k \in Nat, k \in K PROVE k + 1 \in K
  <2> SUFFICES ASSUME NEW t \in Short(k + 1), Len(t) <= m, Len(t) <= n PROVE f[t] = g[t]
    OBVIOUS
  <2>1. t \in Seq(Chars)
    BY DEF Short
  <2>2. ASSUME Len(t) > Chunk PROVE f[Rest(t)] = g[Rest(t)]
    <3>1. Rest(t) \in Short(k)
      BY <2>2, RestIsShort
    <3>2. Len(Rest(t)) < Len(t) /\ Rest(t) \in Seq(Chars)
      BY <2>1, <2>2, RestIs
    <3>3. Len(t) \in Nat /\ Len(Rest(t)) \in Nat
      BY <2>1, <3>2, LenProperties
    <3>4. Len(Rest(t)) <= m /\ Len(Rest(t)) <= n
      BY <3>2, <3>3
    <3> QED BY <1>4, <3>1, <3>4
  <2> QED BY <1>2, <2>1, <2>2
<1> HIDE DEF K
<1>5. Nat \subseteq K
  BY <1>3, <1>4, SetInduction
<1>6. m \in K /\ text \in Short(m)
  BY <1>5 DEF Short
<1> QED BY <1>6 DEF K, f, g

(* The function split_text computes exists: every step leaves a shorter    *)
(* text. *)
LEMMA SplitIs ==
  ASSUME NEW text \in Seq(Chars)
  PROVE  Split[text] = SplitStep(Split, text)
<1> DEFINE F == [t \in Seq(Chars) |-> SplitShort(Len(t))[t]]
<1>1. ASSUME NEW t \in Seq(Chars)
      PROVE  SplitShort(Len(t))[t] = SplitStep(F, t)
  <2> DEFINE f == SplitShort(Len(t))
  <2>1. Len(t) \in Nat
    BY LenProperties
  <2>2. f[t] = SplitStep(f, t)
    <3>1. t \in Short(Len(t))
      BY <2>1 DEF Short
    <3>2. Splits(f, Short(Len(t)))
      BY <2>1, ShortSplits
    <3> HIDE DEF f
    <3> QED BY <3>1, <3>2 DEF Splits
  <2>3. ASSUME Len(t) > Chunk PROVE f[Rest(t)] = F[Rest(t)]
    <3>1. Rest(t) \in Seq(Chars) /\ Len(Rest(t)) < Len(t)
      BY <2>3, RestIs
    <3>2. Len(Rest(t)) \in Nat
      BY <3>1, LenProperties
    <3>3. F[Rest(t)] = SplitShort(Len(Rest(t)))[Rest(t)]
      BY <3>1
    <3>4. Len(Rest(t)) <= Len(t) /\ Len(Rest(t)) <= Len(Rest(t))
      BY <2>1, <3>1, <3>2
    <3>5. f[Rest(t)] = SplitShort(Len(Rest(t)))[Rest(t)]
      BY <2>1, <3>1, <3>2, <3>4, ShortSplitsAgree
    <3> QED BY <3>3, <3>5
  <2> HIDE DEF f, F
  <2>4. SplitStep(f, t) = SplitStep(F, t)
    BY <2>3, StepsAgree
  <2> QED BY <2>2, <2>4 DEF f
<1>2. F = [t \in Seq(Chars) |-> SplitShort(Len(t))[t]]
  OBVIOUS
<1> HIDE DEF F
<1>3. F = [t \in Seq(Chars) |-> SplitStep(F, t)]
  BY <1>1, <1>2, Zenon
<1>4. \E f : Splits(f, Seq(Chars))
  BY <1>3 DEF Splits
<1>5. Splits(Split, Seq(Chars))
  BY <1>4, SplitDef, Zenon
<1> QED BY <1>5, Zenon DEF Splits

(* The parts of a text are none of them empty or too long, and they hold   *)
(* all of its words in order: nothing but ends of lines is lost. *)
SplitsWell(text) ==
  /\ Split[text] \in Seq(Seq(Chars))
  /\ \A i \in 1..Len(Split[text]) : Len(Split[text][i]) \in 1..Chunk
  /\ Words(FlattenSeq(Split[text])) = Words(text)
  /\ text # << >> => Split[text] # << >>

(* split_text (bot/formatting.py), for every text and every limit: it      *)
(* comes to an end, none of the parts is empty or too long, and together   *)
(* they hold all the words of the text in order. *)
LEMMA TextsAreSplitWell ==
  ASSUME NEW text \in Seq(Chars)
  PROVE  SplitsWell(text)
<1> DEFINE K == {k \in Nat : \A t \in Short(k) : SplitsWell(t)}
<1>0. Chunk \in Nat /\ \A t \in Seq(Chars) : Len(t) \in Nat
  BY DeliveryBounds, LenProperties
<1>1. SplitsWell(<< >>)
  <2>1. << >> \in Seq(Chars) /\ << >> \in Seq(Seq(Chars)) /\ Len(<< >>) = 0
    BY EmptySeq
  <2>2. Split[<< >>] = << >>
    BY <2>1, SplitIs DEF SplitStep
  <2>3. Words(<< >>) = << >>
    <3> DEFINE t == << >>
    <3>1. t \in Seq(Chars) /\ \A i \in 1..Len(t) : t[i] = "end of line"
      BY <2>1
    <3> HIDE DEF t
    <3>2. Words(t) = << >>
      BY <3>1, EndsAreNoWords
    <3> QED BY <3>2 DEF t
  <2> QED BY <2>1, <2>2, <2>3, FlattenEmpty DEF SplitsWell
<1>2. ASSUME NEW t \in Seq(Chars), t # << >>, Len(t) <= Chunk
      PROVE  SplitsWell(t)
  <2>1. Split[t] = <<t>>
    BY <1>2, SplitIs DEF SplitStep
  <2>2. FlattenSeq(<<t>>) = t
    BY FlattenOne
  <2>3. Len(t) \in 1..Chunk
    BY <1>0, <1>2, EmptySeq
  <2>4. <<t>> \in Seq(Seq(Chars)) /\ Len(<<t>>) = 1 /\ <<t>>[1] = t
    OBVIOUS
  <2>5. \A i \in 1..Len(<<t>>) : Len(<<t>>[i]) \in 1..Chunk
    BY <2>3, <2>4
  <2>6. Split[t] # << >>
    BY <2>1
  <2> QED BY <2>1, <2>2, <2>4, <2>5, <2>6 DEF SplitsWell
<1>3. ASSUME NEW t \in Seq(Chars), Len(t) > Chunk, SplitsWell(Rest(t))
      PROVE  SplitsWell(t)
  <2> DEFINE part == SubSeq(t, 1, CutAt(t))
             more == Split[Rest(t)]
  <2>1. /\ part \in Seq(Chars) /\ Len(part) \in 1..Chunk
        /\ Words(t) = Words(part) \o Words(Rest(t))
    BY <1>3, RestIs
  <2>2. t # << >>
    BY <1>0, <1>3, EmptySeq
  <2>3. Split[t] = <<part>> \o more
    <3>1. ~(Len(t) <= Chunk)
      BY <1>0, <1>3
    <3> QED BY <2>2, <3>1, SplitIs DEF SplitStep
  <2>4. /\ more \in Seq(Seq(Chars)) /\ \A i \in 1..Len(more) : Len(more[i]) \in 1..Chunk
        /\ Words(FlattenSeq(more)) = Words(Rest(t))
    BY <1>3 DEF SplitsWell
  <2> HIDE DEF part, more
  <2>5. <<part>> \in Seq(Seq(Chars)) /\ Len(<<part>>) = 1 /\ <<part>>[1] = part
    BY <2>1
  <2>6. /\ <<part>> \o more \in Seq(Seq(Chars)) /\ Len(<<part>> \o more) = 1 + Len(more)
        /\ \A i \in 1..1 + Len(more) :
             (<<part>> \o more)[i] = IF i <= 1 THEN <<part>>[i] ELSE more[i - 1]
    BY <2>4, <2>5, ConcatProperties
  <2>7. Len(more) \in Nat
    BY <2>4, LenProperties
  <2>8. \A i \in 1..Len(<<part>> \o more) : Len((<<part>> \o more)[i]) \in 1..Chunk
    <3> SUFFICES ASSUME NEW i \in 1..1 + Len(more)
                 PROVE  Len((<<part>> \o more)[i]) \in 1..Chunk
      BY <2>6
    <3>1. CASE i <= 1
      <4>1. i = 1
        BY <2>7, <3>1
      <4> QED BY <2>1, <2>5, <2>6, <4>1
    <3>2. CASE ~(i <= 1)
      <4>1. i - 1 \in 1..Len(more)
        BY <2>7, <3>2
      <4> QED BY <2>4, <2>6, <3>2, <4>1
    <3> QED BY <3>1, <3>2
  <2>9. FlattenSeq(<<part>> \o more) = part \o FlattenSeq(more)
    <3>1. FlattenSeq(<<part>> \o more) = FlattenSeq(<<part>>) \o FlattenSeq(more)
      BY <2>4, <2>5, FlattenConcat
    <3>2. FlattenSeq(<<part>>) = part
      BY FlattenOne
    <3> QED BY <3>1, <3>2
  <2>10. Words(part \o FlattenSeq(more)) = Words(part) \o Words(FlattenSeq(more))
    BY <2>1, <2>4, FlattenType, WordsConcat
  <2>11. Words(FlattenSeq(Split[t])) = Words(t)
    BY <2>1, <2>3, <2>4, <2>9, <2>10
  <2>12. <<part>> \o more # << >>
    BY <2>6, <2>7, EmptySeq
  <2> QED BY <2>3, <2>6, <2>8, <2>11, <2>12 DEF SplitsWell
<1>4. 0 \in K
  <2> SUFFICES ASSUME NEW t \in Short(0) PROVE SplitsWell(t)
    OBVIOUS
  <2>1. t \in Seq(Chars) /\ Len(t) <= 0
    BY DEF Short
  <2>2. t = << >>
    BY <2>1, EmptySeq
  <2> QED BY <1>1, <2>2
<1>5. ASSUME NEW k \in Nat, k \in K PROVE k + 1 \in K
  <2> SUFFICES ASSUME NEW t \in Short(k + 1) PROVE SplitsWell(t)
    OBVIOUS
  <2>1. t \in Seq(Chars)
    BY DEF Short
  <2>2. CASE t = << >>
    BY <1>1, <2>2
  <2>3. CASE t # << >> /\ Len(t) <= Chunk
    BY <1>2, <2>1, <2>3
  <2>4. CASE Len(t) > Chunk
    <3>1. Rest(t) \in Short(k)
      BY <2>4, RestIsShort
    <3>2. SplitsWell(Rest(t))
      BY <1>5, <3>1
    <3> QED BY <1>3, <2>1, <2>4, <3>2
  <2> QED BY <1>0, <2>1, <2>2, <2>3, <2>4
<1> HIDE DEF K
<1>6. Nat \subseteq K
  BY <1>4, <1>5, SetInduction
<1>7. Len(text) \in K /\ text \in Short(Len(text))
  BY <1>0, <1>6 DEF Short
<1> QED BY <1>7 DEF K

-----------------------------------------------------------------------------
(* No line is broken                                                       *)

(* Where the characters of a text go: the first CutAt(text) to the part, a *)
(* few ends of lines nowhere, the others to the rest. *)
LEMMA RestPlaces ==
  ASSUME NEW text \in Seq(Chars), Len(text) > Chunk
  PROVE  \E e \in Nat :
           /\ Len(text) = CutAt(text) + e + Len(Rest(text))
           /\ \A i \in 1..e : text[CutAt(text) + i] = "end of line"
           /\ \A i \in 1..Len(Rest(text)) : Rest(text)[i] = text[CutAt(text) + e + i]
           /\ Len(Rest(text)) > 0 => Rest(text)[1] # "end of line"
<1> DEFINE n    == Len(text)
           c    == CutAt(text)
           left == SubSeq(text, c + 1, n)
<1>1. n \in Nat /\ Chunk \in Nat /\ c \in 1..Chunk /\ n > Chunk
  BY LenProperties, CutIsInside, DeliveryBounds
<1>2. Rest(text) = Strip(left)
  BY DEF Rest
<1>3. \A i \in 1..n : text[i] \in Chars
  BY ElementOfSeq
<1> HIDE DEF n, c
<1>4. \A i \in (c + 1)..n : text[i] \in Chars
  BY <1>1, <1>3
<1>5. /\ left \in Seq(Chars) /\ Len(left) = (IF c + 1 <= n THEN n - (c + 1) + 1 ELSE 0)
      /\ \A i \in 1..(n - (c + 1) + 1) : left[i] = text[(c + 1) + i - 1]
  BY <1>1, <1>4, SubSeqProperties
<1> HIDE DEF left
<1>6. PICK ends \in Seq(Chars) :
        /\ Strip(left) \in Seq(Chars) /\ left = ends \o Strip(left)
        /\ \A i \in 1..Len(ends) : ends[i] = "end of line"
        /\ Len(Strip(left)) > 0 => Strip(left)[1] # "end of line"
  BY <1>5, StripIs
<1> DEFINE e == Len(ends)
           m == Len(Strip(left))
<1>7. /\ e \in Nat /\ m \in Nat /\ Len(left) = e + m
      /\ \A i \in 1..(e + m) : left[i] = IF i <= e THEN ends[i] ELSE Strip(left)[i - e]
  <2>1. /\ Len(ends \o Strip(left)) = Len(ends) + Len(Strip(left))
        /\ \A i \in 1..(Len(ends) + Len(Strip(left))) :
             (ends \o Strip(left))[i] = IF i <= Len(ends) THEN ends[i] ELSE Strip(left)[i - Len(ends)]
    BY <1>6, ConcatProperties
  <2>2. Len(ends) \in Nat /\ Len(Strip(left)) \in Nat
    BY <1>6, LenProperties
  <2>3. left = ends \o Strip(left)
    BY <1>6
  <2> QED BY <2>1, <2>2, <2>3
<1> HIDE DEF e, m
<1>8. e + m = n - c
  BY <1>1, <1>5, <1>7
<1>9. \A i \in 1..(e + m) : left[i] = text[c + i]
  <2> SUFFICES ASSUME NEW i \in 1..(e + m) PROVE left[i] = text[c + i]
    OBVIOUS
  <2>1. i \in 1..(n - (c + 1) + 1) /\ (c + 1) + i - 1 = c + i
    BY <1>1, <1>7, <1>8
  <2> QED BY <1>5, <2>1
<1>10. \A i \in 1..e : text[c + i] = "end of line"
  <2> SUFFICES ASSUME NEW i \in 1..e PROVE text[c + i] = "end of line"
    OBVIOUS
  <2>1. i \in 1..(e + m) /\ i <= e
    BY <1>7
  <2>2. text[c + i] = ends[i]
    BY <1>7, <1>9, <2>1
  <2> QED BY <1>6, <2>2 DEF e
<1>11. \A i \in 1..m : Strip(left)[i] = text[c + e + i]
  <2> SUFFICES ASSUME NEW i \in 1..m PROVE Strip(left)[i] = text[c + e + i]
    OBVIOUS
  <2>1. e + i \in 1..(e + m) /\ ~(e + i <= e) /\ (e + i) - e = i /\ c + (e + i) = c + e + i
    BY <1>1, <1>7
  <2> QED BY <1>7, <1>9, <2>1
<1>12. n = c + e + m
  BY <1>1, <1>7, <1>8
<1>13. /\ Len(text) = CutAt(text) + e + Len(Rest(text))
       /\ \A i \in 1..e : text[CutAt(text) + i] = "end of line"
       /\ \A i \in 1..Len(Rest(text)) : Rest(text)[i] = text[CutAt(text) + e + i]
       /\ Len(Rest(text)) > 0 => Rest(text)[1] # "end of line"
  BY <1>2, <1>6, <1>10, <1>11, <1>12 DEF n, c, m
<1> QED BY <1>7, <1>13

EndAt(text, i) == text[i] = "end of line"

(* What a line is and where the cut is, in terms of the ends of lines. *)
LEMMA LineIs ==
  ASSUME NEW text, NEW s, NEW n
  PROVE  HasLine(text, s, n) <=> /\ \A i \in (s + 1)..(s + n) : ~EndAt(text, i)
                                 /\ s > 0 => EndAt(text, s)
                                 /\ s + n < Len(text) => EndAt(text, s + n + 1)
BY Zenon DEF HasLine, EndAt

(* The ends of lines a part may be cut at, and the cut. *)
LEMMA EndsAre ==
  ASSUME NEW text
  PROVE  /\ \A i \in Ends(text) : i \in 2..Chunk /\ EndAt(text, i)
         /\ \A i \in 2..Chunk : EndAt(text, i) => i \in Ends(text)
         /\ CutAt(text) = IF Ends(text) = {} THEN Chunk ELSE Max(Ends(text)) - 1
<1>1. CutAt(text) = IF Ends(text) = {} THEN Chunk ELSE Max(Ends(text)) - 1
  BY DEF CutAt, Ends
<1>2. /\ \A i \in Ends(text) : i \in 2..Chunk /\ EndAt(text, i)
      /\ \A i \in 2..Chunk : EndAt(text, i) => i \in Ends(text)
  BY Zenon DEF Ends, EndAt
<1> QED BY <1>1, <1>2

(* A line that would fit is before the cut or behind it. *)
LEMMA LinesAreOnOneSide ==
  ASSUME NEW text \in Seq(Chars), Len(text) > Chunk, ~EndAt(text, 1),
         NEW n \in 1..Chunk, NEW s \in 0..(Len(text) - n), HasLine(text, s, n)
  PROVE  s + n <= CutAt(text) \/ s > CutAt(text)
<1> DEFINE c == CutAt(text)
           m == Len(text)
<1>1. c \in 1..Chunk /\ m \in Nat /\ Chunk \in Nat
  <2>1. c \in 1..Chunk /\ m \in Nat
    BY LenProperties, CutIsInside
  <2> HIDE DEF c, m
  <2> QED BY <2>1, DeliveryBounds
<1>2. n \in Nat /\ s \in Nat /\ s + n <= m /\ n >= 1 /\ n <= Chunk /\ c \in Nat /\ c >= 1
  <2>1. s \in 0..(m - n)
    OBVIOUS
  <2> HIDE DEF c, m
  <2> QED BY <1>1, <2>1
<1>3. /\ \A i \in (s + 1)..(s + n) : ~EndAt(text, i)
      /\ s > 0 => EndAt(text, s)
  BY LineIs
<1>4. CASE Ends(text) = {}
  <2>1. c = Chunk /\ \A i \in 2..Chunk : ~EndAt(text, i)
    BY <1>4, EndsAre
  <2> HIDE DEF c, m
  <2>2. s \notin 1..Chunk
    <3>1. CASE s = 1
      BY <1>3, <3>1
    <3>2. CASE s \in 2..Chunk
      BY <1>2, <1>3, <2>1, <3>2
    <3> QED BY <1>1, <1>2, <3>1, <3>2
  <2>3. s + n <= c \/ s > c
    BY <1>1, <1>2, <2>1, <2>2
  <2> QED BY <2>3 DEF c
<1>5. CASE Ends(text) # {}
  <2>1. Ends(text) \in SUBSET (0..Chunk)
    <3>1. \A i \in Ends(text) : i \in 2..Chunk
      BY EndsAre
    <3> HIDE DEF c, m
    <3> QED BY <1>1, <3>1
  <2>2. Max(Ends(text)) \in Ends(text)
    BY <1>1, <1>5, <2>1, Largest
  <2>3. c = Max(Ends(text)) - 1 /\ Max(Ends(text)) \in 2..Chunk /\ EndAt(text, Max(Ends(text)))
    BY <1>5, <2>2, EndsAre
  <2> HIDE DEF c, m
  <2>4. Max(Ends(text)) = c + 1
    BY <1>1, <2>3
  <2>5. c + 1 \notin (s + 1)..(s + n)
    BY <1>3, <2>3, <2>4
  <2>6. s + n <= c \/ s > c
    BY <1>2, <2>5
  <2> QED BY <2>6 DEF c
<1> QED BY <1>4, <1>5

(* The characters after the first s of a text, and those of another. *)
Same(a, r, text, s, n) == \A k \in 1..n : a[r + k] = text[s + k]

(* The same characters with the same neighbours are a line again. *)
LEMMA SameLine ==
  ASSUME NEW a, NEW text, NEW r \in Nat, NEW s \in Nat, NEW n \in Nat,
         HasLine(text, s, n), Same(a, r, text, s, n),
         r > 0 => s > 0 /\ a[r] = text[s],
         r + n < Len(a) => s + n < Len(text) /\ a[r + n + 1] = text[s + n + 1]
  PROVE  HasLine(a, r, n)
<1>1. /\ \A i \in (s + 1)..(s + n) : ~EndAt(text, i)
      /\ s > 0 => EndAt(text, s)
      /\ s + n < Len(text) => EndAt(text, s + n + 1)
  BY LineIs
<1>2. \A i, j : a[i] = text[j] => (EndAt(a, i) <=> EndAt(text, j))
  BY DEF EndAt
<1>3. \A k \in 1..n : a[r + k] = text[s + k]
  BY DEF Same
<1>4. \A i \in (r + 1)..(r + n) : ~EndAt(a, i)
  <2> SUFFICES ASSUME NEW i \in (r + 1)..(r + n) PROVE ~EndAt(a, i)
    OBVIOUS
  <2> DEFINE k == i - r
  <2>1. k \in 1..n /\ r + k = i /\ s + k \in (s + 1)..(s + n)
    OBVIOUS
  <2> HIDE DEF k
  <2>2. a[i] = text[s + k]
    BY <1>3, <2>1
  <2> QED BY <1>1, <1>2, <2>1, <2>2
<1>5. r > 0 => EndAt(a, r)
  BY <1>1, <1>2
<1>6. r + n < Len(a) => EndAt(a, r + n + 1)
  BY <1>1, <1>2
<1> QED BY <1>4, <1>5, <1>6, LineIs

(* A line before the cut is one of the part. *)
LEMMA PartHasLine ==
  ASSUME NEW text \in Seq(Chars), Len(text) > Chunk,
         NEW n \in 1..Chunk, NEW s \in 0..(Len(text) - n), HasLine(text, s, n),
         s + n <= CutAt(text)
  PROVE  LET part == SubSeq(text, 1, CutAt(text)) IN
         s \in 0..(Len(part) - n) /\ HasLine(part, s, n) /\ Same(part, s, text, s, n)
<1> DEFINE c    == CutAt(text)
           m    == Len(text)
           part == SubSeq(text, 1, c)
<1>1. c \in 1..Chunk /\ m \in Nat /\ \A i \in 1..m : text[i] \in Chars
  BY LenProperties, CutIsInside, ElementOfSeq
<1>2. n \in Nat /\ s \in Nat /\ s + n <= c /\ n >= 1 /\ c \in Nat /\ c >= 1 /\ c < m
  <2>1. s \in 0..(m - n) /\ m > Chunk /\ s + n <= c
    OBVIOUS
  <2> HIDE DEF c, m
  <2> QED BY <1>1, <2>1, DeliveryBounds
<1>3. Len(part) = c /\ \A i \in 1..c : part[i] = text[i]
  <2> HIDE DEF c, m
  <2>1. \A i \in 1..c : text[i] \in Chars
    BY <1>1, <1>2
  <2>2. /\ Len(part) = (IF 1 <= c THEN c - 1 + 1 ELSE 0)
        /\ \A i \in 1..(c - 1 + 1) : part[i] = text[1 + i - 1]
    BY <1>2, <2>1, SubSeqProperties
  <2> QED BY <1>2, <2>2
<1> HIDE DEF part, c, m
<1>4. Same(part, s, text, s, n)
  <2>1. \A k \in 1..n : s + k \in 1..c
    BY <1>2
  <2> QED BY <1>3, <2>1 DEF Same
<1>5. s > 0 => s > 0 /\ part[s] = text[s]
  BY <1>2, <1>3
<1>6. s + n < Len(part) => s + n < Len(text) /\ part[s + n + 1] = text[s + n + 1]
  BY <1>2, <1>3 DEF m
<1>7. HasLine(part, s, n)
  BY <1>2, <1>4, <1>5, <1>6, SameLine
<1>8. s \in 0..(Len(part) - n)
  BY <1>2, <1>3
<1> QED BY <1>4, <1>7, <1>8 DEF part, c

(* A line behind the cut is one of the rest, which begins with a line. *)
LEMMA RestHasLine ==
  ASSUME NEW text \in Seq(Chars), Len(text) > Chunk,
         NEW n \in 1..Chunk, NEW s \in 0..(Len(text) - n), HasLine(text, s, n),
         s > CutAt(text)
  PROVE  /\ Len(Rest(text)) > 0 /\ ~EndAt(Rest(text), 1)
         /\ \E r \in 0..(Len(Rest(text)) - n) :
              HasLine(Rest(text), r, n) /\ Same(Rest(text), r, text, s, n)
<1> DEFINE c    == CutAt(text)
           m    == Len(text)
           rest == Rest(text)
           q    == Len(rest)
<1>1. c \in 1..Chunk /\ m \in Nat /\ q \in Nat
  BY LenProperties, CutIsInside, RestIs
<1>2. PICK e \in Nat :
        /\ m = c + e + q
        /\ \A i \in 1..e : text[c + i] = "end of line"
        /\ \A i \in 1..q : rest[i] = text[c + e + i]
        /\ q > 0 => rest[1] # "end of line"
  BY RestPlaces
<1>3. /\ \A i \in 1..e : EndAt(text, c + i)
      /\ q > 0 => ~EndAt(rest, 1)
  BY <1>2, Zenon DEF EndAt
<1>4. \A i \in 1..q : rest[i] = text[c + e + i]
  BY <1>2
<1>5. m = c + e + q
  BY <1>2
<1>6. n \in Nat /\ s \in Nat /\ s > c /\ n >= 1 /\ c \in Nat /\ s + n <= m
  <2>1. s \in 0..(m - n) /\ s > c
    OBVIOUS
  <2> HIDE DEF c, m, rest, q
  <2> QED BY <1>1, <2>1, DeliveryBounds
<1>7. \A i \in (s + 1)..(s + n) : ~EndAt(text, i)
  BY LineIs
<1> HIDE DEF c, m, rest, q
<1>8. s >= c + e
  <2> SUFFICES ASSUME s < c + e PROVE FALSE
    BY <1>6
  <2>1. s + 1 \in (s + 1)..(s + n) /\ (s + 1) - c \in 1..e /\ c + ((s + 1) - c) = s + 1
    BY <1>6
  <2> QED BY <1>3, <1>7, <2>1
<1> DEFINE r == s - (c + e)
<1>9. r \in Nat /\ r + n <= q /\ c + e + r = s
  BY <1>1, <1>5, <1>6, <1>8
<1> HIDE DEF r
<1>10. \A i \in 1..q : i + (c + e) = c + e + i
  BY <1>1, <1>6
<1>11. Same(rest, r, text, s, n)
  <2> SUFFICES ASSUME NEW k \in 1..n PROVE rest[r + k] = text[s + k]
    BY DEF Same
  <2>1. r + k \in 1..q /\ c + e + (r + k) = s + k
    BY <1>1, <1>6, <1>9
  <2> QED BY <1>4, <2>1
<1>12. r > 0 => s > 0 /\ rest[r] = text[s]
  <2> SUFFICES ASSUME r > 0 PROVE rest[r] = text[s]
    BY <1>1, <1>6
  <2>1. r \in 1..q
    BY <1>1, <1>6, <1>9
  <2> QED BY <1>4, <1>9, <2>1
<1>13. r + n < Len(rest) => s + n < Len(text) /\ rest[r + n + 1] = text[s + n + 1]
  <2> SUFFICES ASSUME r + n < q PROVE s + n < m /\ rest[r + n + 1] = text[s + n + 1]
    BY DEF q, m
  <2>1. r + n + 1 \in 1..q /\ c + e + (r + n + 1) = s + n + 1 /\ s + n < m
    BY <1>1, <1>5, <1>6, <1>9
  <2> QED BY <1>4, <2>1
<1>14. HasLine(rest, r, n)
  BY <1>6, <1>9, <1>11, <1>12, <1>13, SameLine
<1>15. r \in 0..(q - n) /\ q > 0
  BY <1>1, <1>6, <1>9
<1> QED BY <1>3, <1>11, <1>14, <1>15 DEF q, rest

(* The parts of a long text: its first part, and those of the rest. *)
LEMMA PartsOf ==
  ASSUME NEW text \in Seq(Chars), Len(text) > Chunk
  PROVE  /\ Len(Split[text]) = 1 + Len(Split[Rest(text)]) /\ Len(Split[Rest(text)]) \in Nat
         /\ Split[text][1] = SubSeq(text, 1, CutAt(text))
         /\ \A i \in 1..Len(Split[Rest(text)]) : Split[text][1 + i] = Split[Rest(text)][i]
<1> DEFINE part == SubSeq(text, 1, CutAt(text))
           more == Split[Rest(text)]
<1>1. part \in Seq(Chars) /\ Rest(text) \in Seq(Chars)
  BY RestIs
<1>2. more \in Seq(Seq(Chars))
  BY <1>1, TextsAreSplitWell DEF SplitsWell
<1>3. Split[text] = <<part>> \o more
  <2>1. ~(Len(text) <= Chunk) /\ text # << >>
    BY LenProperties, DeliveryBounds, EmptySeq
  <2> QED BY <2>1, SplitIs DEF SplitStep
<1> HIDE DEF part, more
<1>4. <<part>> \in Seq(Seq(Chars)) /\ Len(<<part>>) = 1 /\ <<part>>[1] = part
  BY <1>1
<1>5. /\ Len(<<part>> \o more) = 1 + Len(more)
      /\ \A i \in 1..1 + Len(more) :
           (<<part>> \o more)[i] = IF i <= 1 THEN <<part>>[i] ELSE more[i - 1]
  BY <1>2, <1>4, ConcatProperties
<1>6. Len(more) \in Nat
  BY <1>2, LenProperties
<1>7. Split[text][1] = part
  <2>1. 1 \in 1..1 + Len(more)
    BY <1>6
  <2> QED BY <1>3, <1>4, <1>5, <2>1
<1>8. ASSUME NEW i \in 1..Len(more) PROVE Split[text][1 + i] = more[i]
  <2>1. 1 + i \in 1..1 + Len(more) /\ ~(1 + i <= 1) /\ (1 + i) - 1 = i
    BY <1>6
  <2> QED BY <1>3, <1>5, <2>1
<1> QED BY <1>3, <1>5, <1>6, <1>7, <1>8 DEF part, more

(* The lines of a text that would fit are lines of its parts. *)
LinesStay(text) ==
  Len(text) > 0 /\ ~EndAt(text, 1) =>
    \A n \in 1..Chunk : \A s \in 0..(Len(text) - n) :
      HasLine(text, s, n) => StaysWhole(text, s, n)

(* One step of split_text breaks none of them. *)
LEMMA LinesStayOn ==
  ASSUME NEW text \in Seq(Chars), Len(text) > Chunk, LinesStay(Rest(text))
  PROVE  LinesStay(text)
<1> SUFFICES ASSUME ~EndAt(text, 1), NEW n \in 1..Chunk, NEW s \in 0..(Len(text) - n),
                    HasLine(text, s, n)
             PROVE  StaysWhole(text, s, n)
  BY DEF LinesStay
<1> DEFINE L == Len(Split[Rest(text)])
<1>1. /\ Len(Split[text]) = 1 + L /\ L \in Nat
      /\ Split[text][1] = SubSeq(text, 1, CutAt(text))
      /\ \A i \in 1..L : Split[text][1 + i] = Split[Rest(text)][i]
  BY PartsOf
<1>2. CASE s + n <= CutAt(text)
  <2>1. /\ s \in 0..(Len(Split[text][1]) - n)
        /\ HasLine(Split[text][1], s, n) /\ Same(Split[text][1], s, text, s, n)
    BY <1>1, <1>2, PartHasLine
  <2>2. 1 \in 1..Len(Split[text])
    <3> HIDE DEF L
    <3> QED BY <1>1
  <2> QED BY <2>1, <2>2, Zenon DEF StaysWhole, Same
<1>3. CASE s > CutAt(text)
  <2>1. Len(Rest(text)) > 0 /\ ~EndAt(Rest(text), 1)
    BY <1>3, RestHasLine
  <2>2. PICK r \in 0..(Len(Rest(text)) - n) :
          HasLine(Rest(text), r, n) /\ Same(Rest(text), r, text, s, n)
    BY <1>3, RestHasLine
  <2>3. StaysWhole(Rest(text), r, n)
    BY <2>1, <2>2 DEF LinesStay
  <2>4. PICK i \in 1..L : \E q \in 0..(Len(Split[Rest(text)][i]) - n) :
          /\ HasLine(Split[Rest(text)][i], q, n)
          /\ \A k \in 1..n : Split[Rest(text)][i][q + k] = Rest(text)[r + k]
    BY <2>3 DEF StaysWhole
  <2>5. PICK q \in 0..(Len(Split[Rest(text)][i]) - n) :
          /\ HasLine(Split[Rest(text)][i], q, n)
          /\ \A k \in 1..n : Split[Rest(text)][i][q + k] = Rest(text)[r + k]
    BY <2>4
  <2>6. Split[text][1 + i] = Split[Rest(text)][i]
    BY <1>1
  <2>7. 1 + i \in 1..Len(Split[text])
    <3> HIDE DEF L
    <3> QED BY <1>1
  <2>8. \A k \in 1..n : Split[text][1 + i][q + k] = text[s + k]
    BY <2>2, <2>5, <2>6 DEF Same
  <2>9. q \in 0..(Len(Split[text][1 + i]) - n) /\ HasLine(Split[text][1 + i], q, n)
    BY <2>5, <2>6
  <2> QED BY <2>7, <2>8, <2>9, Zenon DEF StaysWhole
<1> QED BY <1>2, <1>3, LinesAreOnOneSide

(* A text of one part is that part. *)
LEMMA ShortLinesStay ==
  ASSUME NEW text \in Seq(Chars), Len(text) <= Chunk
  PROVE  LinesStay(text)
<1> SUFFICES ASSUME Len(text) > 0, NEW n \in 1..Chunk, NEW s \in 0..(Len(text) - n),
                    HasLine(text, s, n)
             PROVE  StaysWhole(text, s, n)
  BY DEF LinesStay
<1>1. Split[text] = <<text>>
  <2>1. text # << >>
    BY EmptySeq
  <2> QED BY <2>1, SplitIs DEF SplitStep
<1>2. Len(Split[text]) = 1 /\ Split[text][1] = text /\ 1 \in 1..1
  BY <1>1
<1> QED BY <1>2, Zenon DEF StaysWhole

(* split_text (bot/formatting.py), for every text and every limit: it      *)
(* comes to an end, none of the parts is empty or too long, together they  *)
(* hold all the words of the text in order, and no line that fits into a   *)
(* part is broken, unless the text begins with an empty one. *)
THEOREM TextsAreSplitRight ==
  ASSUME NEW text \in Seq(Chars)
  PROVE  SplitIsRight(text)
<1> DEFINE K == {k \in Nat : \A t \in Short(k) : LinesStay(t)}
<1>0. Chunk \in Nat /\ \A t \in Seq(Chars) : Len(t) \in Nat
  BY DeliveryBounds, LenProperties
<1>1. 0 \in K
  <2> SUFFICES ASSUME NEW t \in Short(0) PROVE LinesStay(t)
    OBVIOUS
  <2>1. t \in Seq(Chars) /\ Len(t) <= 0
    BY DEF Short
  <2>2. Len(t) <= Chunk
    BY <1>0, <2>1
  <2> QED BY <2>1, <2>2, ShortLinesStay
<1>2. ASSUME NEW k \in Nat, k \in K PROVE k + 1 \in K
  <2> SUFFICES ASSUME NEW t \in Short(k + 1) PROVE LinesStay(t)
    OBVIOUS
  <2>1. t \in Seq(Chars)
    BY DEF Short
  <2>2. CASE Len(t) <= Chunk
    BY <2>1, <2>2, ShortLinesStay
  <2>3. CASE Len(t) > Chunk
    <3>1. Rest(t) \in Short(k)
      BY <2>3, RestIsShort
    <3>2. LinesStay(Rest(t))
      BY <1>2, <3>1
    <3> QED BY <2>1, <2>3, <3>2, LinesStayOn
  <2> QED BY <1>0, <2>1, <2>2, <2>3
<1> HIDE DEF K
<1>3. Nat \subseteq K
  BY <1>1, <1>2, SetInduction
<1>4. Len(text) \in K /\ text \in Short(Len(text))
  BY <1>0, <1>3 DEF Short
<1>5. LinesStay(text)
  BY <1>4 DEF K
<1>6. text # << >> /\ text[1] # "end of line" => Len(text) > 0 /\ ~EndAt(text, 1)
  <2>1. text # << >> => Len(text) > 0
    BY <1>0, EmptySeq
  <2>2. text[1] # "end of line" => ~EndAt(text, 1)
    BY DEF EndAt
  <2> QED BY <2>1, <2>2, Zenon
<1>7. text # << >> /\ text[1] # "end of line" =>
        \A n \in 1..Chunk : \A s \in 0..(Len(text) - n) :
          HasLine(text, s, n) => StaysWhole(text, s, n)
  BY <1>5, <1>6, Zenon DEF LinesStay
<1>8. /\ \A i \in 1..Len(Split[text]) : Len(Split[text][i]) \in 1..Chunk
      /\ Words(FlattenSeq(Split[text])) = Words(text)
  BY TextsAreSplitWell DEF SplitsWell
<1> QED BY <1>7, <1>8, Zenon DEF SplitIsRight

-----------------------------------------------------------------------------
(* The delivery of an answer                                               *)

VeryLong(text, file) == Len(text) > 3 * Limit /\ file

Told(text) == IF text = << >> THEN Note ELSE text

(* The words in place of an empty answer are a text. *)
LEMMA NoteIs == Note \in Seq(Chars) /\ Len(Note) = 1
<1>1. "note" \in Chars
  BY DEF Chars
<1> QED BY <1>1 DEF Note

(* No text, no words. *)
LEMMA NothingIsSaid == Words(<< >>) = << >>
<1> DEFINE text == << >>
<1>1. text \in Seq(Chars) /\ \A i \in 1..Len(text) : text[i] = "end of line"
  BY EmptySeq
<1> HIDE DEF text
<1>2. Words(text) = << >>
  BY <1>1, EndsAreNoWords
<1> QED BY <1>2 DEF text

(* There is always a part to send; the parts say what the answer says, or  *)
(* the first is more than Telegram takes. *)
LEMMA PartsAre ==
  ASSUME NEW text \in Seq(Chars), NEW file \in BOOLEAN
  PROVE  /\ Parts(text, file) \in Seq(Seq(Chars)) /\ Parts(text, file) # << >>
         /\ ~VeryLong(text, file) => Words(FlattenSeq(Parts(text, file))) = Words(Told(text))
         /\ VeryLong(text, file) => Len(Head(Parts(text, file))) > Limit
<1>1. Len(text) \in Nat /\ Limit \in Nat /\ (text = << >> <=> Len(text) = 0)
  BY LenProperties, EmptySeq, DeliveryBounds
<1>2. Note \in Seq(Chars) /\ Len(Note) = 1
  BY NoteIs
<1>3. ASSUME NEW x \in Seq(Chars)
      PROVE  /\ <<x>> \in Seq(Seq(Chars)) /\ <<x>> # << >> /\ Head(<<x>>) = x
             /\ FlattenSeq(<<x>>) = x
  BY FlattenOne
<1>4. CASE text = << >>
  <2>1. ~VeryLong(text, file)
    BY <1>1, <1>4 DEF VeryLong
  <2>2. Parts(text, file) = <<Note>> /\ Told(text) = Note
    BY <1>4 DEF Parts, Told
  <2> QED BY <1>2, <1>3, <2>1, <2>2
<1>5. CASE text # << >> /\ Len(text) <= Limit
  <2>1. ~VeryLong(text, file)
    BY <1>1, <1>5 DEF VeryLong
  <2>2. Parts(text, file) = <<text>> /\ Told(text) = text
    BY <1>5 DEF Parts, Told
  <2> QED BY <1>3, <2>1, <2>2
<1>6. CASE text # << >> /\ ~(Len(text) <= Limit) /\ VeryLong(text, file)
  <2> DEFINE head == SubSeq(text, 1, Limit)
  <2>1. Parts(text, file) = <<head \o Note>>
    BY <1>6 DEF Parts, VeryLong
  <2>2. \A i \in 1..Limit : text[i] \in Chars
    BY <1>1, <1>6, ElementOfSeq
  <2>3. head \in Seq(Chars) /\ Len(head) = (IF 1 <= Limit THEN Limit - 1 + 1 ELSE 0)
    BY <1>1, <2>2, SubSeqProperties
  <2> HIDE DEF head
  <2>4. head \o Note \in Seq(Chars) /\ Len(head \o Note) = Len(head) + Len(Note)
    BY <1>2, <2>3, ConcatProperties
  <2>5. Len(head \o Note) > Limit
    BY <1>1, <1>2, <2>3, <2>4
  <2> QED BY <1>3, <1>6, <2>1, <2>4, <2>5
<1>7. CASE text # << >> /\ ~(Len(text) <= Limit) /\ ~VeryLong(text, file)
  <2>1. Parts(text, file) = Split[text] /\ Told(text) = text
    BY <1>7 DEF Parts, Told, VeryLong
  <2> QED BY <1>7, <2>1, TextsAreSplitWell DEF SplitsWell
<1> QED BY <1>4, <1>5, <1>6, <1>7

Posts == [stage : Stages, text : Seq(Chars), file : BOOLEAN,
          queue : Seq(Seq(Chars)), shown : Seq(Seq(Chars)),
          remembered : BOOLEAN, broken : BOOLEAN]

(* An answer on its way: the parts that were shown are the first of those  *)
(* it has, those in the queue the others; a very long one is never shown. *)
OnItsWay(p) ==
  /\ p \in Posts
  /\ p.stage \in {"none", "record"} => p.shown = << >>
  /\ p.stage = "send" => /\ p.queue # << >> /\ p.remembered
                         /\ p.shown \o p.queue = Parts(p.text, p.file)
  /\ p.stage = "over" => \/ p.shown = Parts(p.text, p.file)
                         \/ p.broken /\ \E left \in Seq(Seq(Chars)) :
                                          p.shown \o left = Parts(p.text, p.file)
  /\ VeryLong(p.text, p.file) => p.shown = << >>
  /\ p.shown # << >> => p.remembered

DeliveryInv == post \in [Updates -> Posts] /\ \A u \in Updates : OnItsWay(post[u])

(* What a step does to the answer of an update. *)
Becomes(u, p) == post' = [post EXCEPT ![u] = p]

(* One answer goes its way and the others stay. *)
LEMMA BecomesKeeps ==
  ASSUME DeliveryInv, NEW u \in Updates, NEW p, Becomes(u, p), OnItsWay(p)
  PROVE  DeliveryInv'
<1>1. p \in Posts /\ post \in [Updates -> Posts]
  BY DEF OnItsWay, DeliveryInv
<1>2. post' = [post EXCEPT ![u] = p]
  BY DEF Becomes
<1>3. post' \in [Updates -> Posts]
  BY <1>1, <1>2
<1>4. ASSUME NEW v \in Updates PROVE OnItsWay(post'[v])
  <2>1. post'[v] = IF v = u THEN p ELSE post[v]
    BY <1>1, <1>2
  <2>2. OnItsWay(post[v])
    BY DEF DeliveryInv
  <2> QED BY <2>1, <2>2
<1> QED BY <1>3, <1>4 DEF DeliveryInv

(* A turn ends with a text. *)
LEMMA FinishDoes ==
  ASSUME DeliveryInv, NEW u \in Updates, NEW text \in Seq(Chars), NEW file \in BOOLEAN,
         Finish(u, text, file)
  PROVE  DeliveryInv'
<1> DEFINE o == post[u]
           p == [o EXCEPT !.stage = "record", !.text = text, !.file = file]
<1>1. OnItsWay(o) /\ o \in Posts /\ o.stage = "none"
  BY DEF DeliveryInv, OnItsWay, Finish
<1>2. Becomes(u, p)
  BY DEF Finish, Becomes
<1> HIDE DEF o
<1>3. /\ p \in Posts /\ p.stage = "record" /\ p.shown = o.shown
  BY <1>1 DEF Posts, Stages
<1>4. o.shown = << >>
  BY <1>1 DEF OnItsWay
<1> HIDE DEF p
<1>5. OnItsWay(p)
  BY <1>3, <1>4 DEF OnItsWay
<1> QED BY <1>2, <1>5, BecomesKeeps

(* A commit or a message fails. *)
LEMMA BreakDoes ==
  ASSUME DeliveryInv, NEW u \in Updates, Break(u), post[u].stage # "over"
  PROVE  DeliveryInv'
<1> DEFINE o == post[u]
           p == [o EXCEPT !.stage = "over", !.queue = << >>, !.broken = TRUE]
<1>1. OnItsWay(o) /\ o \in Posts /\ o.stage # "over"
  BY DEF DeliveryInv, OnItsWay
<1>2. Becomes(u, p)
  BY DEF Break, Becomes
<1> HIDE DEF o
<1>3. /\ p \in Posts /\ p.stage = "over" /\ p.broken /\ p.shown = o.shown
      /\ p.text = o.text /\ p.file = o.file /\ p.remembered = o.remembered
  <2>1. p \in Posts
    <3>1. << >> \in Seq(Seq(Chars)) /\ "over" \in Stages
      BY EmptySeq DEF Stages
    <3> QED BY <1>1, <3>1 DEF Posts
  <2>2. p.stage = "over" /\ p.shown = o.shown /\ p.text = o.text
    BY <1>1 DEF Posts, Stages
  <2>3. p.file = o.file /\ p.remembered = o.remembered
    BY <1>1 DEF Posts, Stages
  <2>4. p.broken
    BY <1>1 DEF Posts, Stages
  <2> QED BY <2>1, <2>2, <2>3, <2>4
<1>4. o.text \in Seq(Chars) /\ o.file \in BOOLEAN /\ o.stage \in {"none", "record", "send"}
      /\ o.queue \in Seq(Seq(Chars)) /\ o.shown \in Seq(Seq(Chars))
  BY <1>1 DEF Posts, Stages
<1>5. \E left \in Seq(Seq(Chars)) : o.shown \o left = Parts(o.text, o.file)
  <2>1. CASE o.stage = "send"
    BY <1>1, <1>4, <2>1 DEF OnItsWay
  <2>2. CASE o.stage \in {"none", "record"}
    <3>1. o.shown = << >>
      BY <1>1, <2>2 DEF OnItsWay
    <3>2. Parts(o.text, o.file) \in Seq(Seq(Chars))
      BY <1>4, PartsAre
    <3>3. o.shown \o Parts(o.text, o.file) = Parts(o.text, o.file)
      BY <3>1, <3>2, ConcatEmptySeq
    <3> QED BY <3>2, <3>3
  <2> QED BY <1>4, <2>1, <2>2
<1>6. /\ VeryLong(o.text, o.file) => o.shown = << >>
      /\ o.shown # << >> => o.remembered
  BY <1>1 DEF OnItsWay
<1> HIDE DEF p
<1>7. OnItsWay(p)
  BY <1>3, <1>5, <1>6 DEF OnItsWay
<1> QED BY <1>2, <1>7, BecomesKeeps

(* The answer is recorded, or not. *)
LEMMA RecordDoes ==
  ASSUME DeliveryInv, NEW u \in Updates, Record(u)
  PROVE  DeliveryInv'
<1> DEFINE o == post[u]
           p == [o EXCEPT !.stage = "send", !.remembered = TRUE, !.queue = Parts(o.text, o.file)]
<1>1. OnItsWay(o) /\ o \in Posts /\ o.stage = "record"
  BY DEF DeliveryInv, OnItsWay, Record
<1>2. Becomes(u, p) \/ Break(u)
  BY DEF Record, Becomes
<1>3. CASE Break(u)
  BY <1>1, <1>3, BreakDoes
<1>4. CASE Becomes(u, p)
  <2> HIDE DEF o
  <2>1. o.text \in Seq(Chars) /\ o.file \in BOOLEAN
    BY <1>1 DEF Posts
  <2>2. Parts(o.text, o.file) \in Seq(Seq(Chars)) /\ Parts(o.text, o.file) # << >>
    BY <2>1, PartsAre
  <2>3. /\ p \in Posts /\ p.stage = "send" /\ p.remembered /\ p.shown = o.shown
        /\ p.text = o.text /\ p.file = o.file /\ p.queue = Parts(o.text, o.file)
    BY <1>1, <2>2 DEF Posts, Stages
  <2>4. o.shown = << >>
    BY <1>1 DEF OnItsWay
  <2>5. << >> \o Parts(o.text, o.file) = Parts(o.text, o.file)
    BY <2>2, ConcatEmptySeq
  <2> HIDE DEF p
  <2>6. OnItsWay(p)
    BY <2>2, <2>3, <2>4, <2>5 DEF OnItsWay
  <2> QED BY <1>4, <2>6, BecomesKeeps
<1> QED BY <1>2, <1>3, <1>4

(* A part is sent, or not. *)
LEMMA SendDoes ==
  ASSUME DeliveryInv, NEW u \in Updates, Send(u)
  PROVE  DeliveryInv'
<1> DEFINE o == post[u]
           part == Head(o.queue)
           rest == Tail(o.queue)
           p == [o EXCEPT !.stage = IF rest = << >> THEN "over" ELSE "send",
                          !.queue = rest, !.shown = Append(o.shown, part)]
<1>1. OnItsWay(o) /\ o \in Posts /\ o.stage = "send"
  BY DEF DeliveryInv, OnItsWay, Send
<1>2. (Len(part) <= Limit /\ Becomes(u, p)) \/ Break(u)
  BY DEF Send, Becomes
<1>3. CASE Break(u)
  BY <1>1, <1>3, BreakDoes
<1>4. CASE Len(part) <= Limit /\ Becomes(u, p)
  <2> HIDE DEF o
  <2>1. /\ o.text \in Seq(Chars) /\ o.file \in BOOLEAN
        /\ o.queue \in Seq(Seq(Chars)) /\ o.shown \in Seq(Seq(Chars))
    BY <1>1 DEF Posts
  <2>2. /\ o.queue # << >> /\ o.remembered
        /\ o.shown \o o.queue = Parts(o.text, o.file)
    BY <1>1 DEF OnItsWay
  <2>3. part \in Seq(Chars) /\ rest \in Seq(Seq(Chars)) /\ o.queue = <<part>> \o rest
    BY <2>1, <2>2
  <2> HIDE DEF part, rest
  <2>4. Append(o.shown, part) \in Seq(Seq(Chars))
    BY <2>1, <2>3
  <2>5. Append(o.shown, part) \o rest = Parts(o.text, o.file)
    <3>1. <<part>> \in Seq(Seq(Chars)) /\ Append(o.shown, part) = o.shown \o <<part>>
      BY <2>1, <2>3, AppendIsConcat
    <3>2. (o.shown \o <<part>>) \o rest = o.shown \o (<<part>> \o rest)
      <4>1. \A a, b, c \in Seq(Seq(Chars)) : (a \o b) \o c = a \o (b \o c)
        BY ConcatAssociative
      <4> QED BY <2>1, <2>3, <3>1, <4>1
    <3> QED BY <2>2, <2>3, <3>1, <3>2
  <2>6. /\ p \in Posts /\ p.stage = (IF rest = << >> THEN "over" ELSE "send")
        /\ p.queue = rest /\ p.shown = Append(o.shown, part)
        /\ p.text = o.text /\ p.file = o.file /\ p.remembered = o.remembered
    BY <1>1, <2>3, <2>4 DEF Posts, Stages
  <2>7. ~VeryLong(o.text, o.file)
    <3> SUFFICES ASSUME VeryLong(o.text, o.file) PROVE FALSE
      OBVIOUS
    <3>1. o.shown = << >>
      BY <1>1 DEF OnItsWay
    <3>2. o.queue = Parts(o.text, o.file)
      BY <2>1, <2>2, <3>1, ConcatEmptySeq
    <3>3. Len(Head(o.queue)) > Limit
      BY <2>1, <3>2, PartsAre
    <3>4. Len(part) \in Nat /\ Limit \in Nat
      BY <2>3, LenProperties, DeliveryBounds
    <3> QED BY <1>4, <3>3, <3>4 DEF part
  <2>8. rest = << >> => Append(o.shown, part) = Parts(o.text, o.file)
    BY <2>4, <2>5, ConcatEmptySeq
  <2> HIDE DEF p
  <2>9. OnItsWay(p)
    <3>1. CASE rest = << >>
      <4>1. p.stage = "over" /\ p.shown = Parts(p.text, p.file)
        BY <2>6, <2>8, <3>1
      <4> QED BY <2>2, <2>6, <2>7, <4>1 DEF OnItsWay
    <3>2. CASE rest # << >>
      <4>1. p.stage = "send" /\ p.shown \o p.queue = Parts(p.text, p.file)
        BY <2>5, <2>6, <3>2
      <4> QED BY <2>2, <2>6, <2>7, <3>2, <4>1 DEF OnItsWay
    <3> QED BY <3>1, <3>2
  <2> QED BY <1>4, <2>9, BecomesKeeps
<1> QED BY <1>2, <1>3, <1>4

(* No turn has ended. *)
LEMMA DeliveryStarts ==
  ASSUME DeliveryInit
  PROVE  DeliveryInv
<1>1. NoPost \in Posts /\ NoPost.stage = "none" /\ NoPost.shown = << >>
  <2>1. << >> \in Seq(Chars) /\ << >> \in Seq(Seq(Chars))
    BY EmptySeq
  <2> QED BY <2>1 DEF NoPost, Posts, Stages
<1>2. OnItsWay(NoPost)
  BY <1>1 DEF OnItsWay
<1>3. post = [u \in Updates |-> NoPost]
  BY DEF DeliveryInit
<1> QED BY <1>1, <1>2, <1>3 DEF DeliveryInv

(* An answer on its way is shown as it is remembered. *)
LEMMA DeliveryIsFaithful ==
  ASSUME DeliveryInv
  PROVE  DeliveryTypeOK /\ ShownAsRemembered
<1>1. DeliveryTypeOK
  BY DEF DeliveryInv, DeliveryTypeOK, Posts
<1>2. ASSUME NEW u \in Updates
      PROVE  LET text == Words(FlattenSeq(post[u].shown)) IN
             /\ IsPrefix(text, Words(Said(u)))
             /\ (post[u].stage = "over" /\ ~post[u].broken) => text = Words(Said(u))
             /\ post[u].shown # << >> => post[u].remembered
  <2> DEFINE p == post[u]
             flat == FlattenSeq(p.shown)
             said == Told(p.text)
  <2>1. OnItsWay(p) /\ p \in Posts /\ Said(u) = said
    BY DEF DeliveryInv, OnItsWay, Said, Told
  <2> HIDE DEF p
  <2>2. /\ p.text \in Seq(Chars) /\ p.file \in BOOLEAN /\ p.shown \in Seq(Seq(Chars))
        /\ p.queue \in Seq(Seq(Chars)) /\ p.stage \in {"none", "record", "send", "over"}
    BY <2>1 DEF Posts, Stages
  <2>3. said \in Seq(Chars)
    BY <2>2, NoteIs DEF Told
  <2> HIDE DEF said
  <2>4. Words(said) \in Seq(Chars) /\ flat \in Seq(Chars) /\ Words(flat) \in Seq(Chars)
    BY <2>2, <2>3, WordsAre, FlattenType
  <2>5. /\ Parts(p.text, p.file) \in Seq(Seq(Chars)) /\ Parts(p.text, p.file) # << >>
        /\ ~VeryLong(p.text, p.file) => Words(FlattenSeq(Parts(p.text, p.file))) = Words(said)
    BY <2>2, PartsAre DEF said
  <2>6. p.shown = << >> => Words(flat) = << >>
    <3> SUFFICES ASSUME p.shown = << >> PROVE Words(flat) = << >>
      OBVIOUS
    <3>1. flat = << >>
      BY FlattenEmpty
    <3> QED BY <3>1, NothingIsSaid
  <2> DEFINE Begins == \E left \in Seq(Seq(Chars)) : p.shown \o left = Parts(p.text, p.file)
  <2>7. ASSUME Begins, ~VeryLong(p.text, p.file)
        PROVE  \E more \in Seq(Chars) : Words(said) = Words(flat) \o more
    <3>1. PICK left \in Seq(Seq(Chars)) : p.shown \o left = Parts(p.text, p.file)
      BY <2>7
    <3>2. FlattenSeq(Parts(p.text, p.file)) = flat \o FlattenSeq(left)
      BY <2>2, <3>1, FlattenConcat
    <3>3. FlattenSeq(left) \in Seq(Chars)
      BY FlattenType
    <3>4. Words(flat \o FlattenSeq(left)) = Words(flat) \o Words(FlattenSeq(left))
      BY <2>4, <3>3, WordsConcat
    <3>5. Words(FlattenSeq(left)) \in Seq(Chars)
      BY <3>3, WordsAre
    <3> QED BY <2>5, <2>7, <3>2, <3>4, <3>5
  <2>8. p.shown = << >> \/ (Begins /\ ~VeryLong(p.text, p.file))
    <3>1. CASE p.stage \in {"none", "record"}
      BY <2>1, <3>1 DEF OnItsWay
    <3>2. CASE p.stage = "send"
      BY <2>1, <2>2, <3>2 DEF OnItsWay
    <3>3. CASE p.stage = "over"
      <4>1. CASE p.shown = Parts(p.text, p.file)
        <5>1. << >> \in Seq(Seq(Chars)) /\ p.shown \o << >> = p.shown
          BY <2>2, EmptySeq, ConcatEmptySeq
        <5>2. Begins
          BY <4>1, <5>1
        <5> QED BY <2>1, <5>2 DEF OnItsWay
      <4>2. CASE p.shown # Parts(p.text, p.file)
        BY <2>1, <3>3, <4>2 DEF OnItsWay
      <4> QED BY <4>1, <4>2
    <3> QED BY <2>2, <3>1, <3>2, <3>3
  <2> HIDE DEF Begins, flat
  <2>9. IsPrefix(Words(flat), Words(said))
    <3>1. \E more \in Seq(Chars) : Words(said) = Words(flat) \o more
      <4>1. CASE p.shown = << >>
        <5>1. Words(said) = << >> \o Words(said)
          BY <2>4, ConcatEmptySeq
        <5> QED BY <2>4, <2>6, <4>1, <5>1
      <4> QED BY <2>7, <2>8, <4>1
    <3>2. PICK more \in Seq(Chars) : Words(said) = Words(flat) \o more
      BY <3>1
    <3> DEFINE a == Words(flat)
               b == Words(said)
    <3>3. a \in Seq(Chars) /\ b = a \o more
      BY <2>4, <3>2
    <3> HIDE DEF a, b
    <3>4. Len(a) <= Len(b) /\ \A i \in 1..Len(a) : a[i] = b[i]
      BY <3>3, LenProperties, ConcatProperties
    <3>5. IsPrefix(a, b)
      BY <3>3, <3>4, SubSeqFull, SubSeqProperties, LenProperties DEF IsPrefix
    <3> QED BY <3>5 DEF a, b
  <2>10. (p.stage = "over" /\ ~p.broken) => Words(flat) = Words(said)
    <3> SUFFICES ASSUME p.stage = "over", ~p.broken PROVE Words(flat) = Words(said)
      OBVIOUS
    <3>1. p.shown = Parts(p.text, p.file)
      BY <2>1 DEF OnItsWay
    <3>2. ~VeryLong(p.text, p.file)
      BY <2>1, <2>5, <3>1 DEF OnItsWay
    <3> QED BY <2>5, <3>1, <3>2 DEF flat
  <2>11. p.shown # << >> => p.remembered
    BY <2>1 DEF OnItsWay
  <2> QED BY <2>1, <2>9, <2>10, <2>11 DEF flat, p
<1> QED BY <1>1, <1>2 DEF ShownAsRemembered

-----------------------------------------------------------------------------
(* The intake and the limiter                                              *)

(* What the intake does is for the limiter a call, time, or nothing. *)
LEMMA IntakeStepLimits == IntakeNext => [Next]_vars
<1>1. ASSUME NEW u \in Updates, Handle(u) PROVE [Next]_vars
  <2>1. CASE TakeMessage(u) \/ TakeRun(u)
    <3>1. "user_messages" \in Keys /\ "agent_runs" \in Keys
      BY IntakeAssumption
    <3> QED BY <2>1, <3>1 DEF TakeMessage, TakeRun, Next, Acquire
  <2>2. CASE ~(TakeMessage(u) \/ TakeRun(u))
    <3>1. UNCHANGED vars
      BY <1>1, <2>2 DEF Handle, Arrive, Touch, Dispatch, BuildContext, EndRun, Deliver,
         WriteSetting, DeleteSetting, SaySetting, Fail
    <3> QED BY <3>1
  <2> QED BY <2>1, <2>2
<1> QED BY <1>1 DEF IntakeNext, Next

(* RateLimitMiddleware and process_user_message call the limiter the way   *)
(* it is specified, so that whatever is true of the limiter is true of the *)
(* intake. *)
THEOREM IntakeImplementsLimiter == IntakeSpec => Spec
<1>1. IntakeInit => Init
  BY DEF IntakeInit
<1>2. [IntakeNext]_intakeVars => [Next]_vars
  BY IntakeStepLimits DEF intakeVars, vars
<1> QED BY <1>1, <1>2, PTL DEF IntakeSpec, Spec

-----------------------------------------------------------------------------
(* The invariant of the intake                                             *)

PlaceOK(u) ==
  /\ at[u] \in {"away", "touch", "limit", "route"} => kind[u] = "none"
  /\ at[u] = "charge" => kind[u] = "text"
  /\ at[u] = "build" => kind[u] \in {"text", "media"}
  /\ at[u] = "run" => kind[u] \in {"text", "media", "press"}
  /\ at[u] \in {"write", "say"} => kind[u] \in {"set", "reset"}
  /\ u \in began => at[u] \in {"run", "over"}
  /\ post[u].stage \in {"record", "send"} => at[u] = "run"

(* Whose rows are not what its select has found, or are gone, has been     *)
(* raced. *)
RowOK(u) ==
  /\ at[u] \in {"limit", "route", "charge"} => saw[u] = NoRow
  /\ (at[u] = "build" /\ saw[u] = "cleared") => u \in raced
  /\ (at[u] = "touch" /\ saw[u] = NoRow /\ known) => u \in raced
  /\ at[u] \in {"write", "say"} => /\ saw[u] \in Values \union {NoRow}
                                   /\ u \notin raced => saw[u] = setting

SilenceOK(u) ==
  (at[u] = "over" /\ u \notin told) =>
    kind[u] \in Faulty \union {"other"} \/ post[u].broken \/ u \in raced

UpdateOK(u) == PlaceOK(u) /\ RowOK(u) /\ SilenceOK(u)

(* Those a message has been counted for, and those a run. *)
Charged == {u \in Updates : u \in began \/ at[u] \in {"route", "charge", "build"}}

TextRuns == {u \in Updates : kind[u] = "text" /\ (u \in began \/ at[u] = "build")}

Covered(S, n) == IsFiniteSet(S) /\ Cardinality(S) <= n

ChargesOK ==
  /\ Covered(Charged, Len(accepted["user_messages"]))
  /\ Covered(TextRuns, Len(accepted["agent_runs"]))

IntakeInv ==
  /\ IntakeTypeOK /\ DeliveryInv
  /\ \A u \in Updates : UpdateOK(u)
  /\ ChargesOK /\ SettingIsAsSaid

-----------------------------------------------------------------------------
(* What the step of an update does, to itself and to the others            *)

Frame(u) ==
  /\ \A v \in Updates : v # u =>
       at'[v] = at[v] /\ kind'[v] = kind[v] /\ post'[v] = post[v]
  /\ \A v \in Updates : v # u =>
       saw'[v] = saw[v] \/ (at[v] = "build" /\ v \in raced')
  /\ \A v \in Updates : v # u => (v \in began' <=> v \in began) /\ (v \in told' <=> v \in told)
  /\ \A v \in Updates : v \in raced => v \in raced'
  /\ known' = known \/ \A v \in Updates : (v # u /\ at[v] = "touch") => v \in raced'
  /\ setting' = setting \/ \A v \in Updates : (v # u /\ at[v] \in {"write", "say"}) => v \in raced'

(* Who is charged for the first time has been counted in this step. *)
Counts(u) ==
  /\ Len(accepted'["user_messages"])
       \in {Len(accepted["user_messages"]), Len(accepted["user_messages"]) + 1}
  /\ Len(accepted'["agent_runs"])
       \in {Len(accepted["agent_runs"]), Len(accepted["agent_runs"]) + 1}
  /\ (u \in Charged' /\ u \notin Charged)
       => Len(accepted'["user_messages"]) = Len(accepted["user_messages"]) + 1
  /\ (u \in TextRuns' /\ u \notin TextRuns)
       => Len(accepted'["agent_runs"]) = Len(accepted["agent_runs"]) + 1

Steps(u) ==
  IntakeTypeOK' /\ DeliveryInv' /\ Frame(u) /\ UpdateOK(u)' /\ Counts(u) /\ SettingIsAsSaid'

(* The updates that take no step are as they were, or have been raced. *)
LEMMA OthersKeep ==
  ASSUME NEW u \in Updates, NEW v \in Updates, v # u, UpdateOK(v), Frame(u)
  PROVE  UpdateOK(v)'
<1>1. /\ at'[v] = at[v] /\ kind'[v] = kind[v] /\ post'[v] = post[v]
      /\ saw'[v] = saw[v] \/ (at[v] = "build" /\ v \in raced')
      /\ (v \in began' <=> v \in began) /\ (v \in told' <=> v \in told)
      /\ v \in raced => v \in raced'
  BY DEF Frame
<1>2. PlaceOK(v)' /\ SilenceOK(v)'
  BY <1>1 DEF UpdateOK, PlaceOK, SilenceOK
<1>3. RowOK(v)'
  BY <1>1 DEF UpdateOK, RowOK, Frame
<1> QED BY <1>2, <1>3 DEF UpdateOK

(* One more is covered by one more call. *)
LEMMA CoverOne ==
  ASSUME NEW S, NEW T, NEW x, NEW m \in Nat, NEW n \in Nat,
         Covered(S, m), T \subseteq S \union {x}, n \in {m, m + 1},
         (x \in T /\ x \notin S) => n = m + 1
  PROVE  Covered(T, n)
<1>1. IsFiniteSet(S) /\ Cardinality(S) \in Nat /\ Cardinality(S) <= m
  BY FS_CardinalityType DEF Covered
<1>2. CASE x \in T /\ x \notin S
  <2>1. IsFiniteSet(S \union {x}) /\ Cardinality(S \union {x}) = Cardinality(S) + 1
    BY <1>1, <1>2, FS_AddElement
  <2>2. IsFiniteSet(T) /\ Cardinality(T) <= Cardinality(S \union {x})
    BY <2>1, FS_Subset
  <2>3. Cardinality(T) \in Nat
    BY <2>2, FS_CardinalityType
  <2> QED BY <1>1, <1>2, <2>1, <2>2, <2>3 DEF Covered
<1>3. CASE ~(x \in T /\ x \notin S)
  <2>1. T \in SUBSET S
    BY <1>3
  <2>2. IsFiniteSet(T) /\ Cardinality(T) <= Cardinality(S)
    BY <1>1, <2>1, FS_Subset
  <2>3. Cardinality(T) \in Nat
    BY <2>2, FS_CardinalityType
  <2> QED BY <1>1, <2>2, <2>3 DEF Covered
<1> QED BY <1>2, <1>3

(* A step of an update keeps the invariant. *)
LEMMA StepsKeep ==
  ASSUME IntakeInv, TypeOK, TypeOK', NEW u \in Updates, Steps(u)
  PROVE  IntakeInv'
<1>1. ASSUME NEW v \in Updates PROVE UpdateOK(v)'
  <2>1. CASE v = u
    BY <2>1 DEF Steps
  <2>2. CASE v # u
    BY <2>2, OthersKeep DEF Steps, IntakeInv
  <2> QED BY <2>1, <2>2
<1>2. /\ Len(accepted["user_messages"]) \in Nat /\ Len(accepted["agent_runs"]) \in Nat
      /\ Len(accepted'["user_messages"]) \in Nat /\ Len(accepted'["agent_runs"]) \in Nat
  BY IntakeAssumption DEF TypeOK
<1>4. ASSUME NEW v \in Updates, v # u
      PROVE  (v \in Charged' <=> v \in Charged) /\ (v \in TextRuns' <=> v \in TextRuns)
  <2>1. at'[v] = at[v] /\ kind'[v] = kind[v] /\ (v \in began' <=> v \in began)
    BY <1>4 DEF Steps, Frame
  <2> QED BY <2>1 DEF Charged, TextRuns
<1>5. Charged' \subseteq Charged \union {u} /\ TextRuns' \subseteq TextRuns \union {u}
  <2>1. \A v \in Charged' : v \in Updates
    BY DEF Charged
  <2>2. \A v \in TextRuns' : v \in Updates
    BY DEF TextRuns
  <2> QED BY <1>4, <2>1, <2>2
<1>6. Covered(Charged', Len(accepted'["user_messages"]))
  <2>1. Covered(Charged, Len(accepted["user_messages"]))
    BY DEF IntakeInv, ChargesOK
  <2>2. /\ Len(accepted'["user_messages"])
             \in {Len(accepted["user_messages"]), Len(accepted["user_messages"]) + 1}
        /\ (u \in Charged' /\ u \notin Charged)
             => Len(accepted'["user_messages"]) = Len(accepted["user_messages"]) + 1
    BY DEF Steps, Counts
  <2> QED BY <1>2, <1>5, <2>1, <2>2, CoverOne
<1>7. Covered(TextRuns', Len(accepted'["agent_runs"]))
  <2>1. Covered(TextRuns, Len(accepted["agent_runs"]))
    BY DEF IntakeInv, ChargesOK
  <2>2. /\ Len(accepted'["agent_runs"])
             \in {Len(accepted["agent_runs"]), Len(accepted["agent_runs"]) + 1}
        /\ (u \in TextRuns' /\ u \notin TextRuns)
             => Len(accepted'["agent_runs"]) = Len(accepted["agent_runs"]) + 1
    BY DEF Steps, Counts
  <2> QED BY <1>2, <1>5, <2>1, <2>2, CoverOne
<1>8. ChargesOK'
  BY <1>6, <1>7 DEF ChargesOK, Covered
<1> QED BY <1>1, <1>8 DEF IntakeInv, Steps

-----------------------------------------------------------------------------
(* The steps of an update                                                  *)

(* The calls of the limiter, as the intake sees them. *)
LEMMA AcceptCounts ==
  ASSUME TypeOK, NEW k \in Keys, Accept(k)
  PROVE  /\ Len(accepted'[k]) = Len(accepted[k]) + 1
         /\ \A j \in Keys : j # k => accepted'[j] = accepted[j]
<1>1. accepted \in [Keys -> Seq(Nat)] /\ clock \in Nat
  BY DEF TypeOK
<1>2. accepted' = [accepted EXCEPT ![k] = Append(accepted[k], clock)]
  BY DEF Accept
<1>3. accepted'[k] = Append(accepted[k], clock) /\ \A j \in Keys : j # k => accepted'[j] = accepted[j]
  BY <1>1, <1>2
<1> QED BY <1>1, <1>3

(* A step that has nothing to do with answers. *)
LEMMA SameDelivery ==
  ASSUME DeliveryInv, post' = post
  PROVE  DeliveryInv'
BY DEF DeliveryInv

(* Nothing is counted, and nobody has to be. *)
LEMMA NothingCounts ==
  ASSUME NEW u \in Updates, IntakeTypeOK, TypeOK, UNCHANGED accepted,
         u \in Charged' => u \in Charged, u \in TextRuns' => u \in TextRuns
  PROVE  Counts(u)
BY DEF Counts

(* AuthMiddleware, up to its select. *)
LEMMA ArriveSteps ==
  ASSUME IntakeInv, TypeOK, NEW u \in Updates, Arrive(u)
  PROVE  Steps(u)
<1>1. /\ IntakeTypeOK /\ DeliveryInv /\ UpdateOK(u) /\ SettingIsAsSaid
      /\ u \notin began
  BY DEF IntakeInv, Arrive, UpdateOK, PlaceOK
<1>2. /\ at[u] = "away"
      /\ UNCHANGED <<vars, post, kind, known, setting, began, raced, last>>
  BY DEF Arrive
<1>3. CASE Replies(u) /\ saw' = saw
  <2>1. at' = [at EXCEPT ![u] = "over"] /\ told' = told \union {u} /\ saw' = saw
    BY <1>3 DEF Replies, GoesTo
  <2>2. IntakeTypeOK'
    BY <1>1, <1>2, <2>1 DEF IntakeTypeOK, Places
  <2>3. /\ at'[u] = "over" /\ u \in told'
        /\ \A v \in Updates : v # u => at'[v] = at[v]
    BY <1>1, <2>1 DEF IntakeTypeOK
  <2>4. Frame(u)
    BY <1>2, <2>1, <2>3 DEF Frame
  <2>5. UpdateOK(u)'
    BY <1>1, <1>2, <2>3 DEF UpdateOK, PlaceOK, RowOK, SilenceOK
  <2>6. Counts(u)
    BY <1>1, <1>2, <2>3, NothingCounts DEF Charged, TextRuns, vars
  <2>7. SettingIsAsSaid'
    BY <1>1, <1>2, <2>3 DEF SettingIsAsSaid, UpdateOK, PlaceOK
  <2> QED BY <1>1, <1>2, <2>2, <2>4, <2>5, <2>6, <2>7, SameDelivery DEF Steps
<1>4. CASE ~(Replies(u) /\ saw' = saw)
  <2>1. /\ at' = [at EXCEPT ![u] = "touch"] /\ told' = told
        /\ saw' = [saw EXCEPT ![u] = IF known THEN "row" ELSE NoRow]
    BY <1>4 DEF Arrive, GoesTo
  <2>2. IntakeTypeOK'
    BY <1>1, <1>2, <2>1 DEF IntakeTypeOK, Places
  <2>3. /\ at'[u] = "touch" /\ saw'[u] = (IF known THEN "row" ELSE NoRow)
        /\ \A v \in Updates : v # u => at'[v] = at[v] /\ saw'[v] = saw[v]
    BY <1>1, <2>1 DEF IntakeTypeOK
  <2>4. Frame(u)
    BY <1>2, <2>1, <2>3 DEF Frame
  <2>5. UpdateOK(u)'
    BY <1>1, <1>2, <2>3 DEF UpdateOK, PlaceOK, RowOK, SilenceOK, NoRow
  <2>6. Counts(u)
    BY <1>1, <1>2, <2>3, NothingCounts DEF Charged, TextRuns, vars
  <2>7. SettingIsAsSaid'
    BY <1>1, <1>2, <2>3 DEF SettingIsAsSaid, UpdateOK, PlaceOK
  <2> QED BY <1>1, <1>2, <2>2, <2>4, <2>5, <2>6, <2>7, SameDelivery DEF Steps
<1> QED BY <1>3, <1>4

(* The commit of UserRepository.touch. *)
LEMMA TouchSteps ==
  ASSUME IntakeInv, TypeOK, NEW u \in Updates, Touch(u)
  PROVE  Steps(u)
<1>1. /\ IntakeTypeOK /\ DeliveryInv /\ UpdateOK(u) /\ SettingIsAsSaid
  BY DEF IntakeInv
<1>2. /\ at[u] = "touch" /\ known' = TRUE /\ saw' = [saw EXCEPT ![u] = NoRow]
      /\ raced' = (IF known THEN raced ELSE raced \union (Between({"touch"}) \ {u}))
      /\ UNCHANGED <<vars, post, kind, setting, began, last>>
      /\ told' = told
      /\ at' = [at EXCEPT ![u] = IF saw[u] = NoRow /\ known THEN "over" ELSE "limit"]
  BY DEF Touch, Forgets, Drops, GoesTo
<1>3. IntakeTypeOK'
  <2>1. Between({"touch"}) \subseteq Updates
    BY DEF Between
  <2> QED BY <1>1, <1>2, <2>1 DEF IntakeTypeOK, Places
<1>4. /\ at'[u] = (IF saw[u] = NoRow /\ known THEN "over" ELSE "limit")
      /\ \A v \in Updates : v # u => at'[v] = at[v] /\ saw'[v] = saw[v]
  BY <1>1, <1>2 DEF IntakeTypeOK
<1>5. Frame(u)
  <2>1. \A v \in Updates : v \in raced => v \in raced'
    BY <1>2
  <2>2. known' = known \/ \A v \in Updates : (v # u /\ at[v] = "touch") => v \in raced'
    BY <1>1, <1>2 DEF Between, IntakeTypeOK
  <2> QED BY <1>2, <1>4, <2>1, <2>2 DEF Frame
<1>6. UpdateOK(u)'
  <2>1. /\ u \notin began /\ post[u].stage \notin {"record", "send"}
        /\ kind[u] = "none"
        /\ (saw[u] = NoRow /\ known) => u \in raced
    BY <1>1, <1>2 DEF UpdateOK, PlaceOK, RowOK
  <2>2. /\ at'[u] \in {"over", "limit"}
        /\ at'[u] = "over" => (u \in raced /\ raced' = raced)
    <3>1. CASE saw[u] = NoRow /\ known
      <4>1. at'[u] = "over" /\ raced' = raced
        BY <1>2, <1>4, <3>1
      <4> QED BY <2>1, <3>1, <4>1
    <3>2. CASE ~(saw[u] = NoRow /\ known)
      <4>1. at'[u] = "limit"
        BY <1>4, <3>2
      <4> QED BY <4>1
    <3> QED BY <3>1, <3>2
  <2>3. PlaceOK(u)'
    <3>1. kind' = kind /\ post' = post /\ began' = began
      BY <1>2
    <3> QED BY <2>1, <2>2, <3>1 DEF PlaceOK
  <2>4. RowOK(u)'
    <3>1. saw'[u] = NoRow
      BY <1>1, <1>2 DEF IntakeTypeOK
    <3> QED BY <2>2, <3>1 DEF RowOK
  <2>5. SilenceOK(u)'
    BY <2>2 DEF SilenceOK
  <2> QED BY <2>3, <2>4, <2>5 DEF UpdateOK
<1>7. Counts(u)
  BY <1>1, <1>2, <1>4, NothingCounts DEF Charged, TextRuns, vars
<1>8. SettingIsAsSaid'
  BY <1>1, <1>2, <1>4 DEF SettingIsAsSaid
<1> QED BY <1>1, <1>2, <1>3, <1>5, <1>6, <1>7, <1>8, SameDelivery DEF Steps

(* RateLimitMiddleware. *)
LEMMA TakeMessageSteps ==
  ASSUME IntakeInv, TypeOK, NEW u \in Updates, TakeMessage(u)
  PROVE  Steps(u)
<1>1. /\ IntakeTypeOK /\ DeliveryInv /\ UpdateOK(u) /\ SettingIsAsSaid
  BY DEF IntakeInv
<1>2. /\ at[u] = "limit" /\ "user_messages" \in Keys /\ "agent_runs" \in Keys
      /\ UNCHANGED <<post, kind, saw, known, setting, began, raced, last>>
      /\ \/ Accept("user_messages") /\ at' = [at EXCEPT ![u] = "route"] /\ told' = told
         \/ /\ Refuse("user_messages")
            /\ at' = [at EXCEPT ![u] = "over"] /\ told' = told \union {u}
  BY IntakeAssumption DEF TakeMessage, Replies, GoesTo
<1>3. IntakeTypeOK'
  BY <1>1, <1>2 DEF IntakeTypeOK, Places
<1>4. /\ at'[u] = "route" \/ (at'[u] = "over" /\ u \in told')
      /\ \A v \in Updates : v # u => at'[v] = at[v]
  BY <1>1, <1>2 DEF IntakeTypeOK
<1>5. Frame(u)
  BY <1>2, <1>4 DEF Frame
<1>6. UpdateOK(u)'
  BY <1>1, <1>2, <1>4 DEF UpdateOK, PlaceOK, RowOK, SilenceOK
<1>7. Counts(u)
  <2>1. u \in TextRuns' => u \in TextRuns
    BY <1>2, <1>4 DEF TextRuns
  <2>2. CASE Accept("user_messages")
    BY <1>2, <2>1, <2>2, AcceptCounts DEF Counts
  <2>3. CASE Refuse("user_messages") /\ at' = [at EXCEPT ![u] = "over"]
    <3>1. accepted' = accepted
      BY <2>3 DEF Refuse
    <3>2. at'[u] = "over"
      BY <1>1, <2>3 DEF IntakeTypeOK
    <3> QED BY <1>1, <1>2, <2>1, <3>1, <3>2, NothingCounts DEF Charged
  <2> QED BY <1>2, <2>2, <2>3
<1>8. SettingIsAsSaid'
  BY <1>1, <1>2, <1>4 DEF SettingIsAsSaid
<1> QED BY <1>1, <1>2, <1>3, <1>5, <1>6, <1>7, <1>8, SameDelivery DEF Steps

(* The limit of runs in process_user_message. *)
LEMMA TakeRunSteps ==
  ASSUME IntakeInv, TypeOK, NEW u \in Updates, TakeRun(u)
  PROVE  Steps(u)
<1>1. /\ IntakeTypeOK /\ DeliveryInv /\ UpdateOK(u) /\ SettingIsAsSaid
  BY DEF IntakeInv
<1>2. /\ at[u] = "charge" /\ "user_messages" \in Keys /\ "agent_runs" \in Keys
      /\ UNCHANGED <<post, kind, saw, known, setting, began, raced, last>>
      /\ \/ Accept("agent_runs") /\ at' = [at EXCEPT ![u] = "build"] /\ told' = told
         \/ /\ Refuse("agent_runs")
            /\ at' = [at EXCEPT ![u] = "over"] /\ told' = told \union {u}
  BY IntakeAssumption DEF TakeRun, Replies, GoesTo
<1>3. IntakeTypeOK'
  BY <1>1, <1>2 DEF IntakeTypeOK, Places
<1>4. /\ (at'[u] = "build" \/ (at'[u] = "over" /\ u \in told'))
      /\ \A v \in Updates : v # u => at'[v] = at[v]
  BY <1>1, <1>2 DEF IntakeTypeOK
<1>5. Frame(u)
  BY <1>2, <1>4 DEF Frame
<1>6. UpdateOK(u)'
  <2>1. PlaceOK(u)'
    BY <1>1, <1>2, <1>4 DEF UpdateOK, PlaceOK
  <2>2. saw[u] # "cleared"
    BY <1>1, <1>2 DEF UpdateOK, RowOK, NoRow
  <2> QED BY <1>2, <1>4, <2>1, <2>2 DEF UpdateOK, RowOK, SilenceOK
<1>7. Counts(u)
  <2>1. u \in Charged
    BY <1>2 DEF Charged
  <2>2. CASE Accept("agent_runs")
    BY <1>2, <2>1, <2>2, AcceptCounts DEF Counts
  <2>3. CASE Refuse("agent_runs") /\ at' = [at EXCEPT ![u] = "over"]
    <3>1. accepted' = accepted
      BY <2>3 DEF Refuse
    <3>2. at'[u] = "over"
      BY <1>1, <2>3 DEF IntakeTypeOK
    <3>3. u \in TextRuns' => u \in TextRuns
      BY <1>2, <3>2 DEF TextRuns
    <3> QED BY <1>1, <2>1, <3>1, <3>3, NothingCounts
  <2> QED BY <1>2, <2>2, <2>3
<1>8. SettingIsAsSaid'
  BY <1>1, <1>2, <1>4 DEF SettingIsAsSaid
<1> QED BY <1>1, <1>2, <1>3, <1>5, <1>6, <1>7, <1>8, SameDelivery DEF Steps

(* build_context, and the run or the exception that follows. *)
LEMMA BuildContextSteps ==
  ASSUME IntakeInv, TypeOK, NEW u \in Updates, BuildContext(u)
  PROVE  Steps(u)
<1>1. /\ IntakeTypeOK /\ DeliveryInv /\ UpdateOK(u) /\ SettingIsAsSaid
  BY DEF IntakeInv
<1>2. /\ at[u] = "build" /\ saw' = [saw EXCEPT ![u] = NoRow]
      /\ UNCHANGED <<vars, post, kind, known, setting, told, raced, last>>
      /\ \/ at' = [at EXCEPT ![u] = "run"] /\ began' = began \union {u}
         \/ saw[u] = "cleared" /\ at' = [at EXCEPT ![u] = "over"] /\ began' = began
  BY DEF BuildContext, Drops, GoesTo, Forgets
<1>3. IntakeTypeOK'
  BY <1>1, <1>2 DEF IntakeTypeOK, Places
<1>4. /\ at'[u] = "run" \/ (at'[u] = "over" /\ saw[u] = "cleared" /\ began' = began)
      /\ \A v \in Updates : v # u => at'[v] = at[v] /\ saw'[v] = saw[v]
  BY <1>1, <1>2 DEF IntakeTypeOK
<1>5. Frame(u)
  BY <1>2, <1>4 DEF Frame
<1>6. UpdateOK(u)'
  <2>1. saw[u] = "cleared" => u \in raced
    BY <1>1, <1>2 DEF UpdateOK, RowOK
  <2>2. PlaceOK(u)'
    BY <1>1, <1>2, <1>4 DEF UpdateOK, PlaceOK
  <2> QED BY <1>2, <1>4, <2>1, <2>2 DEF UpdateOK, RowOK, SilenceOK
<1>7. Counts(u)
  <2>1. u \in Charged
    BY <1>2 DEF Charged
  <2>2. u \in TextRuns' => u \in TextRuns
    BY <1>2 DEF TextRuns
  <2> QED BY <1>1, <1>2, <2>1, <2>2, NothingCounts DEF vars
<1>8. SettingIsAsSaid'
  <2>1. kind[u] \notin {"set", "reset"}
    BY <1>1, <1>2 DEF UpdateOK, PlaceOK
  <2> QED BY <1>1, <1>2, <1>4, <2>1 DEF SettingIsAsSaid
<1> QED BY <1>1, <1>2, <1>3, <1>5, <1>6, <1>7, <1>8, SameDelivery DEF Steps

(* Which handlers run the agent, which look at rows, and which do not      *)
(* answer. *)
LEMMA RouteIs ==
  ASSUME NEW k \in Kinds
  PROVE  /\ Route(k) \subseteq {"charge", "build", "run", "reply", "clear", "select",
                                "raise", "nobody"}
         /\ "charge" \in Route(k) => k = "text"
         /\ "build" \in Route(k) => k = "media"
         /\ "run" \in Route(k) => k = "press"
         /\ "clear" \in Route(k) => k = "clear"
         /\ k = "clear" => Route(k) = {"clear"}
         /\ "select" \in Route(k) => k \in {"set", "reset"}
         /\ "raise" \in Route(k) => k \in Faulty
         /\ "nobody" \in Route(k) => k = "other"
<1>1. k \in {"text", "media", "press", "command", "clear", "set", "reset", "other"} \union Faulty
  BY DEF Kinds
<1>2. CASE k = "text"
  BY <1>2 DEF Route
<1>3. CASE k = "media"
  BY <1>3 DEF Route
<1>4. CASE k = "press"
  BY <1>4 DEF Route
<1>5. CASE k = "command"
  BY <1>5 DEF Route
<1>6. CASE k = "clear"
  BY <1>6 DEF Route, Faulty
<1>7. CASE k \in {"set", "reset"}
  BY <1>7 DEF Route
<1>8. CASE k \in Faulty
  BY <1>8 DEF Route, Faulty
<1>9. CASE k = "other"
  BY <1>9 DEF Route, Faulty
<1> QED BY <1>1, <1>2, <1>3, <1>4, <1>5, <1>6, <1>7, <1>8, <1>9

(* The handler begins. *)
LEMMA DispatchSteps ==
  ASSUME IntakeInv, TypeOK, NEW u \in Updates, NEW k \in Kinds, Dispatch(u, k)
  PROVE  Steps(u)
<1>1. /\ IntakeTypeOK /\ DeliveryInv /\ UpdateOK(u) /\ SettingIsAsSaid
  BY DEF IntakeInv
<1>2. /\ at[u] = "route" /\ kind' = [kind EXCEPT ![u] = k]
      /\ raced' = (IF k = "clear" THEN raced \union Between({"build"}) ELSE raced)
      /\ UNCHANGED <<vars, post, known, setting, last>>
  BY DEF Dispatch
<1>3. /\ kind[u] = "none" /\ u \notin began
      /\ post[u].stage \notin {"record", "send"}
      /\ kind'[u] = k /\ \A v \in Updates : v # u => kind'[v] = kind[v]
  BY <1>1, <1>2 DEF UpdateOK, PlaceOK, IntakeTypeOK
<1>4. PICK first \in Route(k) :
        CASE first \in {"nobody", "raise"} -> Drops(u) /\ UNCHANGED <<saw, began>>
          [] first = "reply"               -> Replies(u) /\ UNCHANGED <<saw, began>>
          [] first \in {"charge", "build"} -> GoesTo(u, first) /\ UNCHANGED <<told, saw, began>>
          [] first = "run"                 -> /\ GoesTo(u, "run") /\ told' = told \union {u}
                                              /\ began' = began \union {u} /\ UNCHANGED saw
          [] first = "clear"               -> Replies(u) /\ Clears /\ UNCHANGED began
          [] first = "select"              -> SelectSetting(u, k) /\ UNCHANGED <<told, began>>
  BY DEF Dispatch
<1> DEFINE Goes(place, said, begins, s) ==
             /\ at' = [at EXCEPT ![u] = place]
             /\ told' = IF said THEN told \union {u} ELSE told
             /\ began' = IF begins THEN began \union {u} ELSE began
             /\ saw' = [saw EXCEPT ![u] = s]
<1>5. ASSUME NEW place \in {"over", "charge", "build", "run", "write", "say"},
             NEW said \in BOOLEAN, NEW begins \in BOOLEAN,
             NEW s \in Values \union {NoRow, "row", "cleared"},
             Goes(place, said, begins, s), raced' = raced,
             begins <=> place = "run",
             place = "over" => said \/ k \in Faulty \union {"other"},
             place = "charge" => k = "text" /\ s = NoRow,
             place = "build" => k = "media" /\ s # "cleared",
             place = "run" => k = "press",
             place \in {"write", "say"} => k \in {"set", "reset"} /\ s = setting
      PROVE  Steps(u)
  <2>1. IntakeTypeOK'
    BY <1>1, <1>2, <1>5 DEF IntakeTypeOK, Places
  <2>2. /\ at'[u] = place /\ saw'[u] = s
        /\ \A v \in Updates : v # u => at'[v] = at[v] /\ saw'[v] = saw[v]
    BY <1>1, <1>5 DEF IntakeTypeOK
  <2>3. Frame(u)
    BY <1>2, <1>3, <1>5, <2>2 DEF Frame
  <2>4. PlaceOK(u)' /\ RowOK(u)'
    <3>1. PlaceOK(u)'
      BY <1>2, <1>3, <1>5, <2>2 DEF PlaceOK
    <3>2. /\ setting \in Values \union {NoRow} /\ setting' = setting
          /\ place = "charge" => s = NoRow
      BY <1>1, <1>2, <1>5 DEF IntakeTypeOK
    <3>3. RowOK(u)'
      BY <1>5, <2>2, <3>2 DEF RowOK
    <3> QED BY <3>1, <3>3
  <2>5. SilenceOK(u)'
    BY <1>2, <1>3, <1>5, <2>2 DEF SilenceOK
  <2>6. Counts(u)
    <3>1. u \in Charged
      BY <1>2 DEF Charged
    <3>2. u \in TextRuns' => u \in TextRuns
      <4>1. k = "text" => (at'[u] # "build" /\ began' = began)
        BY <1>5, <2>2
      <4> QED BY <1>3, <4>1 DEF TextRuns
    <3> QED BY <1>1, <1>2, <3>1, <3>2, NothingCounts DEF vars
  <2>7. SettingIsAsSaid'
    BY <1>1, <1>2, <1>3, <1>5, <2>2 DEF SettingIsAsSaid
  <2> QED BY <1>1, <1>2, <2>1, <2>3, <2>4, <2>5, <2>6, <2>7, SameDelivery DEF Steps, UpdateOK
<1>6. /\ saw = [saw EXCEPT ![u] = saw[u]]
      /\ saw[u] \in Values \union {NoRow, "row", "cleared"}
  BY <1>1 DEF IntakeTypeOK
<1>7. /\ first \in {"charge", "build", "run", "reply", "clear", "select", "raise", "nobody"}
      /\ first # "clear" => raced' = raced
  <2>1. first # "clear" => k # "clear"
    BY <1>3, <1>4, RouteIs
  <2>2. first \in {"charge", "build", "run", "reply", "clear", "select", "raise", "nobody"}
    BY <1>3, RouteIs
  <2> QED BY <1>2, <2>1, <2>2
<1>8. CASE first \in {"nobody", "raise"}
  <2>1. Drops(u) /\ saw' = saw /\ began' = began
    BY <1>4, <1>8
  <2>2. Goes("over", FALSE, FALSE, saw[u])
    BY <1>6, <2>1 DEF Drops, GoesTo
  <2>3. k \in Faulty \union {"other"}
    BY <1>3, <1>4, <1>8, RouteIs
  <2>4. raced' = raced
    BY <1>7, <1>8
  <2> HIDE DEF Goes
  <2> QED BY <1>5, <1>6, <2>2, <2>3, <2>4
<1>9. CASE first = "reply"
  <2>1. Replies(u) /\ saw' = saw /\ began' = began
    BY <1>4, <1>9
  <2>2. Goes("over", TRUE, FALSE, saw[u])
    BY <1>6, <2>1 DEF Replies, GoesTo
  <2>3. raced' = raced
    BY <1>7, <1>9
  <2> HIDE DEF Goes
  <2> QED BY <1>5, <1>6, <2>2, <2>3
<1>10. CASE first \in {"charge", "build"}
  <2>1. GoesTo(u, first) /\ told' = told /\ saw' = saw /\ began' = began
    BY <1>4, <1>10
  <2>2. Goes(first, FALSE, FALSE, saw[u])
    BY <1>6, <2>1 DEF GoesTo
  <2>3. (first = "charge" => k = "text") /\ (first = "build" => k = "media")
    BY <1>3, <1>4, RouteIs
  <2>4. raced' = raced /\ saw[u] = NoRow /\ NoRow # "cleared"
    BY <1>1, <1>2, <1>7, <1>10 DEF UpdateOK, RowOK, NoRow
  <2> HIDE DEF Goes
  <2> QED BY <1>5, <1>6, <1>10, <2>2, <2>3, <2>4
<1>11. CASE first = "run"
  <2>1. GoesTo(u, "run") /\ told' = told \union {u} /\ began' = began \union {u} /\ saw' = saw
    BY <1>4, <1>11
  <2>2. Goes("run", TRUE, TRUE, saw[u])
    BY <1>6, <2>1 DEF GoesTo
  <2>3. k = "press" /\ raced' = raced
    BY <1>3, <1>4, <1>7, <1>11, RouteIs
  <2> HIDE DEF Goes
  <2> QED BY <1>5, <1>6, <2>2, <2>3
<1>12. CASE first = "select"
  <2> DEFINE place == IF k = "reset" /\ setting = NoRow THEN "say" ELSE "write"
  <2>1. SelectSetting(u, k) /\ told' = told /\ began' = began
    BY <1>4, <1>12
  <2>2. Goes(place, FALSE, FALSE, setting)
    BY <2>1 DEF SelectSetting, GoesTo
  <2>3. k \in {"set", "reset"} /\ raced' = raced
    BY <1>3, <1>4, <1>7, <1>12, RouteIs
  <2>4. setting \in Values \union {NoRow, "row", "cleared"} /\ place \in {"write", "say"}
    BY <1>1 DEF IntakeTypeOK
  <2> HIDE DEF Goes, place
  <2> QED BY <1>5, <2>2, <2>3, <2>4
<1>13. CASE first = "clear"
  <2>1. Replies(u) /\ Clears /\ began' = began /\ k = "clear"
    BY <1>3, <1>4, <1>13, RouteIs
  <2>2. /\ at' = [at EXCEPT ![u] = "over"] /\ told' = told \union {u}
        /\ saw' = [v \in Updates |-> IF at[v] = "build" THEN "cleared" ELSE saw[v]]
        /\ raced' = raced \union Between({"build"})
    BY <1>2, <2>1 DEF Replies, GoesTo, Clears
  <2>3. IntakeTypeOK'
    <3>1. Between({"build"}) \subseteq Updates
      BY DEF Between
    <3>2. saw' \in [Updates -> Values \union {NoRow, "row", "cleared"}]
      BY <1>1, <2>2 DEF IntakeTypeOK
    <3> QED BY <1>1, <1>2, <2>1, <2>2, <3>1, <3>2 DEF IntakeTypeOK, Places
  <2>4. at'[u] = "over" /\ \A v \in Updates : v # u => at'[v] = at[v]
    BY <1>1, <2>2 DEF IntakeTypeOK
  <2>5. \A v \in Updates : saw'[v] = saw[v] \/ (at[v] = "build" /\ v \in raced')
    BY <2>2 DEF Between
  <2>6. Frame(u)
    BY <1>2, <1>3, <2>1, <2>2, <2>4, <2>5 DEF Frame
  <2>7. PlaceOK(u)' /\ RowOK(u)' /\ SilenceOK(u)'
    <3>1. PlaceOK(u)'
      BY <1>2, <1>3, <2>1, <2>4 DEF PlaceOK
    <3> QED BY <2>2, <2>4, <3>1 DEF RowOK, SilenceOK
  <2>8. Counts(u)
    BY <1>1, <1>2, <1>3, <2>1, <2>4, NothingCounts DEF Charged, TextRuns, vars
  <2>9. SettingIsAsSaid'
    BY <1>1, <1>2, <1>3, <2>1, <2>2, <2>4 DEF SettingIsAsSaid
  <2> QED BY <1>1, <1>2, <2>3, <2>6, <2>7, <2>8, <2>9, SameDelivery DEF Steps, UpdateOK
<1> QED BY <1>7, <1>8, <1>9, <1>10, <1>11, <1>12, <1>13

(* The agent has run. *)
LEMMA EndRunSteps ==
  ASSUME IntakeInv, TypeOK, NEW u \in Updates, EndRun(u)
  PROVE  Steps(u)
<1>1. /\ IntakeTypeOK /\ DeliveryInv /\ UpdateOK(u) /\ SettingIsAsSaid
  BY DEF IntakeInv
<1>2. /\ at[u] = "run" /\ post[u].stage = "none"
      /\ UNCHANGED <<vars, kind, saw, known, setting, began, raced, last>>
      /\ \/ /\ \E text \in Answers : Finish(u, text, kind[u] \in {"text", "press"})
            /\ at' = at /\ told' = told
         \/ at' = [at EXCEPT ![u] = "over"] /\ told' = told \union {u} /\ post' = post
  BY DEF EndRun, Replies, GoesTo, Finish
<1>3. CASE \E text \in Answers : Finish(u, text, kind[u] \in {"text", "press"})
           /\ at' = at /\ told' = told
  <2>1. PICK text \in Answers : Finish(u, text, kind[u] \in {"text", "press"})
                                /\ at' = at /\ told' = told
    BY <1>3
  <2>2. text \in Seq(Chars) /\ (kind[u] \in {"text", "press"}) \in BOOLEAN
    <3>1. text \in Seq(Chars)
      BY DeliveryAssumption, Zenon
    <3> QED BY <3>1
  <2>3. DeliveryInv'
    BY <1>1, <2>1, <2>2, FinishDoes
  <2>4. \A v \in Updates : v # u => post'[v] = post[v]
    BY <1>1, <2>1 DEF Finish, DeliveryInv
  <2>5. IntakeTypeOK'
    BY <1>1, <1>2, <2>1 DEF IntakeTypeOK
  <2>6. Frame(u)
    BY <1>2, <2>1, <2>4 DEF Frame
  <2>7. UpdateOK(u)'
    BY <1>1, <1>2, <2>1 DEF UpdateOK, PlaceOK, RowOK, SilenceOK
  <2>8. Counts(u)
    BY <1>1, <1>2, <2>1, NothingCounts DEF Charged, TextRuns, vars
  <2>9. SettingIsAsSaid'
    <3>1. kind[u] \notin {"set", "reset"}
      BY <1>1, <1>2 DEF UpdateOK, PlaceOK
    <3> QED BY <1>1, <1>2, <2>1, <2>4, <3>1 DEF SettingIsAsSaid
  <2> QED BY <2>3, <2>5, <2>6, <2>7, <2>8, <2>9 DEF Steps
<1>4. CASE at' = [at EXCEPT ![u] = "over"] /\ told' = told \union {u} /\ post' = post
  <2>1. at'[u] = "over" /\ \A v \in Updates : v # u => at'[v] = at[v]
    BY <1>1, <1>4 DEF IntakeTypeOK
  <2>2. IntakeTypeOK'
    BY <1>1, <1>2, <1>4 DEF IntakeTypeOK, Places
  <2>3. Frame(u)
    BY <1>2, <1>4, <2>1 DEF Frame
  <2>4. UpdateOK(u)'
    BY <1>1, <1>2, <1>4, <2>1 DEF UpdateOK, PlaceOK, RowOK, SilenceOK
  <2>5. Counts(u)
    BY <1>1, <1>2, <2>1, NothingCounts DEF Charged, TextRuns, vars
  <2>6. SettingIsAsSaid'
    BY <1>1, <1>2, <1>4, <2>1 DEF SettingIsAsSaid
  <2> QED BY <1>1, <1>4, <2>2, <2>3, <2>4, <2>5, <2>6, SameDelivery DEF Steps
<1> QED BY <1>2, <1>3, <1>4

(* The answer is recorded, or a part of it sent. *)
LEMMA DeliverSteps ==
  ASSUME IntakeInv, TypeOK, NEW u \in Updates, Deliver(u)
  PROVE  Steps(u)
<1>1. /\ IntakeTypeOK /\ DeliveryInv /\ UpdateOK(u) /\ SettingIsAsSaid
  BY DEF IntakeInv
<1>2. /\ Record(u) \/ Send(u)
      /\ UNCHANGED <<vars, kind, saw, known, setting, began, raced, last>>
      /\ at' = IF post'[u].stage = "over" THEN [at EXCEPT ![u] = "over"] ELSE at
      /\ told' = IF post'[u].shown # << >> THEN told \union {u} ELSE told
  BY DEF Deliver
<1>3. /\ at[u] = "run" /\ post[u].stage \in {"record", "send"}
      /\ kind[u] \in {"text", "media", "press"}
  BY <1>1, <1>2 DEF Record, Send, UpdateOK, PlaceOK
<1>4. DeliveryInv'
  BY <1>1, <1>2, RecordDoes, SendDoes
<1>5. \A v \in Updates : v # u => post'[v] = post[v]
  BY <1>1, <1>2 DEF Record, Send, Break, DeliveryInv
<1>6. /\ at'[u] \in {"run", "over"} /\ (at'[u] = "over" <=> post'[u].stage = "over")
      /\ \A v \in Updates : v # u => at'[v] = at[v]
  BY <1>1, <1>2, <1>3 DEF IntakeTypeOK
<1>7. IntakeTypeOK'
  BY <1>1, <1>2 DEF IntakeTypeOK, Places
<1>8. Frame(u)
  BY <1>2, <1>5, <1>6 DEF Frame
<1>9. UpdateOK(u)'
  <2> DEFINE p == post'[u]
  <2>1. OnItsWay(p) /\ p \in Posts
    BY <1>4 DEF DeliveryInv, OnItsWay
  <2>2. p.stage \in {"none", "record", "send", "over"}
    BY <2>1 DEF Posts, Stages
  <2>3. p.stage = "over" => p.broken \/ p.shown # << >>
    <3>1. Parts(p.text, p.file) # << >>
      BY <2>1, PartsAre DEF Posts
    <3> QED BY <2>1, <3>1 DEF OnItsWay
  <2>4. p.shown # << >> => u \in told'
    BY <1>2
  <2>5. PlaceOK(u)'
    BY <1>2, <1>3, <1>6, <2>2 DEF PlaceOK
  <2>6. RowOK(u)'
    BY <1>6 DEF RowOK
  <2>7. SilenceOK(u)'
    BY <1>6, <2>3, <2>4 DEF SilenceOK
  <2> QED BY <2>5, <2>6, <2>7 DEF UpdateOK
<1>10. Counts(u)
  BY <1>1, <1>2, <1>6, NothingCounts DEF Charged, TextRuns, vars
<1>11. SettingIsAsSaid'
  BY <1>1, <1>2, <1>3, <1>5, <1>6 DEF SettingIsAsSaid
<1> QED BY <1>4, <1>7, <1>8, <1>9, <1>10, <1>11 DEF Steps

(* A call out of the bot fails. *)
LEMMA FailSteps ==
  ASSUME IntakeInv, TypeOK, NEW u \in Updates, Fail(u)
  PROVE  Steps(u)
<1>1. /\ IntakeTypeOK /\ DeliveryInv /\ UpdateOK(u) /\ SettingIsAsSaid
  BY DEF IntakeInv
<1>2. /\ at[u] \in {"route", "build", "run", "say"} /\ post[u].stage = "none" /\ Break(u)
      /\ at' = [at EXCEPT ![u] = "over"] /\ told' = told
      /\ UNCHANGED <<vars, kind, saw, known, setting, began, raced, last>>
  BY DEF Fail, Drops, GoesTo
<1>3. DeliveryInv'
  BY <1>1, <1>2, BreakDoes
<1>4. \A v \in Updates : v # u => post'[v] = post[v]
  BY <1>1, <1>2 DEF Break, DeliveryInv
<1>5. post'[u].broken /\ post'[u].stage = "over"
  <2> DEFINE o == post[u]
             p == [o EXCEPT !.stage = "over", !.queue = << >>, !.broken = TRUE]
  <2>1. post' = [post EXCEPT ![u] = p] /\ post \in [Updates -> Posts]
    BY <1>1, <1>2 DEF Break, DeliveryInv
  <2>2. post'[u] = p /\ o \in Posts
    BY <2>1
  <2> HIDE DEF o
  <2>3. p.stage = "over"
    BY <2>2 DEF Posts
  <2>4. p.broken
    BY <2>2 DEF Posts
  <2> HIDE DEF p
  <2> QED BY <2>2, <2>3, <2>4
<1>6. at'[u] = "over" /\ \A v \in Updates : v # u => at'[v] = at[v]
  BY <1>1, <1>2 DEF IntakeTypeOK
<1>7. IntakeTypeOK'
  BY <1>1, <1>2 DEF IntakeTypeOK, Places
<1>8. Frame(u)
  BY <1>2, <1>4, <1>6 DEF Frame
<1>9. UpdateOK(u)'
  BY <1>1, <1>2, <1>5, <1>6 DEF UpdateOK, PlaceOK, RowOK, SilenceOK
<1>10. Counts(u)
  BY <1>1, <1>2, <1>6, NothingCounts DEF Charged, TextRuns, vars
<1>11. SettingIsAsSaid'
  BY <1>1, <1>2, <1>4, <1>5, <1>6 DEF SettingIsAsSaid
<1> QED BY <1>3, <1>7, <1>8, <1>9, <1>10, <1>11 DEF Steps

(* A row of the setting is written, and who has looked at it and is not    *)
(* through is raced. *)
LEMMA WriteSteps ==
  ASSUME IntakeInv, TypeOK, NEW u \in Updates, NEW value \in Values \union {NoRow},
         at[u] = "write", Writes(u, value), GoesTo(u, "say"),
         saw' = [saw EXCEPT ![u] = value],
         UNCHANGED <<vars, post, kind, known, began, told, last>>
  PROVE  Steps(u)
<1>1. /\ IntakeTypeOK /\ DeliveryInv /\ UpdateOK(u) /\ SettingIsAsSaid
  BY DEF IntakeInv
<1>2. /\ at' = [at EXCEPT ![u] = "say"] /\ setting' = value
      /\ raced' = raced \union (Between({"write", "say"}) \ {u})
  BY DEF GoesTo, Writes
<1>3. /\ at'[u] = "say" /\ saw'[u] = value
      /\ \A v \in Updates : v # u => at'[v] = at[v] /\ saw'[v] = saw[v]
  BY <1>1, <1>2 DEF IntakeTypeOK
<1>4. IntakeTypeOK'
  <2>1. Between({"write", "say"}) \subseteq Updates
    BY DEF Between
  <2> QED BY <1>1, <1>2, <2>1 DEF IntakeTypeOK, Places
<1>5. Frame(u)
  BY <1>2, <1>3 DEF Frame, Between
<1>6. UpdateOK(u)'
  <2>1. PlaceOK(u)'
    BY <1>1, <1>3 DEF UpdateOK, PlaceOK
  <2>2. RowOK(u)'
    BY <1>2, <1>3 DEF RowOK
  <2>3. SilenceOK(u)'
    BY <1>3 DEF SilenceOK
  <2> QED BY <2>1, <2>2, <2>3 DEF UpdateOK
<1>7. Counts(u)
  BY <1>1, <1>3, NothingCounts DEF Charged, TextRuns, vars
<1>8. SettingIsAsSaid'
  BY <1>1, <1>3 DEF SettingIsAsSaid, UpdateOK, PlaceOK
<1> QED BY <1>1, <1>4, <1>5, <1>6, <1>7, <1>8, SameDelivery DEF Steps

(* The commit of set. *)
LEMMA WriteSettingSteps ==
  ASSUME IntakeInv, TypeOK, NEW u \in Updates, WriteSetting(u)
  PROVE  Steps(u)
<1>1. /\ IntakeTypeOK /\ DeliveryInv /\ UpdateOK(u) /\ SettingIsAsSaid
  BY DEF IntakeInv
<1>2. /\ at[u] = "write" /\ kind[u] = "set"
      /\ UNCHANGED <<vars, post, kind, known, began, told, last>>
  BY DEF WriteSetting, Drops
<1>3. PICK value \in Values :
       \/ /\ saw[u] = value
          /\ GoesTo(u, "say") /\ UNCHANGED <<saw, setting, raced>>
       \/ /\ saw[u] # value /\ (saw[u] = NoRow <=> setting = NoRow)
          /\ Writes(u, value) /\ GoesTo(u, "say")
          /\ saw' = [saw EXCEPT ![u] = value]
       \/ /\ saw[u] # value /\ ~(saw[u] = NoRow <=> setting = NoRow)
          /\ Drops(u) /\ Forgets(u) /\ UNCHANGED <<setting, raced>>
  BY DEF WriteSetting
<1>4. CASE GoesTo(u, "say") /\ UNCHANGED <<saw, setting, raced>>
  <2>1. at' = [at EXCEPT ![u] = "say"]
    BY <1>4 DEF GoesTo
  <2>2. at'[u] = "say" /\ \A v \in Updates : v # u => at'[v] = at[v]
    BY <1>1, <2>1 DEF IntakeTypeOK
  <2>3. IntakeTypeOK'
    BY <1>1, <1>2, <1>4, <2>1 DEF IntakeTypeOK, Places
  <2>4. Frame(u)
    BY <1>2, <1>4, <2>2 DEF Frame
  <2>5. UpdateOK(u)'
    BY <1>1, <1>2, <1>4, <2>2 DEF UpdateOK, PlaceOK, RowOK, SilenceOK
  <2>6. Counts(u)
    BY <1>1, <1>2, <2>2, NothingCounts DEF Charged, TextRuns, vars
  <2>7. SettingIsAsSaid'
    BY <1>1, <1>2, <1>4, <2>2 DEF SettingIsAsSaid
  <2> QED BY <1>1, <1>2, <2>3, <2>4, <2>5, <2>6, <2>7, SameDelivery DEF Steps
<1>5. CASE Writes(u, value) /\ GoesTo(u, "say") /\ saw' = [saw EXCEPT ![u] = value]
  BY <1>2, <1>5, WriteSteps
<1>6. CASE /\ ~(saw[u] = NoRow <=> setting = NoRow)
           /\ Drops(u) /\ Forgets(u) /\ UNCHANGED <<setting, raced>>
  <2>1. at' = [at EXCEPT ![u] = "over"] /\ saw' = [saw EXCEPT ![u] = NoRow]
    BY <1>6 DEF Drops, GoesTo, Forgets
  <2>2. /\ at'[u] = "over"
        /\ \A v \in Updates : v # u => at'[v] = at[v] /\ saw'[v] = saw[v]
    BY <1>1, <2>1 DEF IntakeTypeOK
  <2>3. IntakeTypeOK'
    BY <1>1, <1>2, <1>6, <2>1 DEF IntakeTypeOK, Places
  <2>4. Frame(u)
    BY <1>2, <1>6, <2>2 DEF Frame
  <2>5. u \in raced'
    BY <1>1, <1>2, <1>6 DEF UpdateOK, RowOK
  <2>6. UpdateOK(u)'
    BY <1>1, <1>2, <2>2, <2>5 DEF UpdateOK, PlaceOK, RowOK, SilenceOK
  <2>7. Counts(u)
    BY <1>1, <1>2, <2>2, NothingCounts DEF Charged, TextRuns, vars
  <2>8. SettingIsAsSaid'
    BY <1>1, <1>2, <1>6, <2>2 DEF SettingIsAsSaid
  <2> QED BY <1>1, <1>2, <2>3, <2>4, <2>6, <2>7, <2>8, SameDelivery DEF Steps
<1> QED BY <1>3, <1>4, <1>5, <1>6

(* The commit of reset. *)
LEMMA DeleteSettingSteps ==
  ASSUME IntakeInv, TypeOK, NEW u \in Updates, DeleteSetting(u)
  PROVE  Steps(u)
BY WriteSteps DEF DeleteSetting

(* The reply to the command. *)
LEMMA SaySettingSteps ==
  ASSUME IntakeInv, TypeOK, NEW u \in Updates, SaySetting(u)
  PROVE  Steps(u)
<1>1. /\ IntakeTypeOK /\ DeliveryInv /\ UpdateOK(u) /\ SettingIsAsSaid
  BY DEF IntakeInv
<1>2. /\ at[u] = "say" /\ last' = saw[u] /\ saw' = [saw EXCEPT ![u] = NoRow]
      /\ at' = [at EXCEPT ![u] = "over"] /\ told' = told \union {u}
      /\ UNCHANGED <<vars, post, kind, known, setting, began, raced>>
  BY DEF SaySetting, Replies, GoesTo, Forgets
<1>3. /\ at'[u] = "over"
      /\ \A v \in Updates : v # u => at'[v] = at[v] /\ saw'[v] = saw[v]
  BY <1>1, <1>2 DEF IntakeTypeOK
<1>4. /\ kind[u] \in {"set", "reset"} /\ (u \notin raced => saw[u] = setting)
      /\ saw[u] \in Values \union {NoRow}
  BY <1>1, <1>2 DEF UpdateOK, PlaceOK, RowOK
<1>5. IntakeTypeOK'
  <2>1. saw[u] \in Values \union {NoRow, "nothing"}
    BY <1>1, <1>4 DEF IntakeTypeOK
  <2> QED BY <1>1, <1>2, <2>1 DEF IntakeTypeOK, Places
<1>6. Frame(u)
  BY <1>2, <1>3 DEF Frame
<1>7. UpdateOK(u)'
  BY <1>1, <1>2, <1>3 DEF UpdateOK, PlaceOK, RowOK, SilenceOK
<1>8. Counts(u)
  BY <1>1, <1>2, <1>3, NothingCounts DEF Charged, TextRuns, vars
<1>9. SettingIsAsSaid'
  <2>1. CASE u \in raced
    BY <1>2, <1>4, <2>1 DEF SettingIsAsSaid
  <2>2. CASE u \notin raced
    BY <1>2, <1>4, <2>2 DEF SettingIsAsSaid
  <2> QED BY <2>1, <2>2
<1> QED BY <1>1, <1>2, <1>5, <1>6, <1>7, <1>8, <1>9, SameDelivery DEF Steps

-----------------------------------------------------------------------------
(* The induction                                                           *)

(* The invariant of the intake holds when the bot starts. *)
LEMMA IntakeStarts == IntakeInit => IntakeInv
<1> SUFFICES ASSUME IntakeInit PROVE IntakeInv
  OBVIOUS
<1>1. IntakeTypeOK
  BY DEF IntakeInit, IntakeTypeOK, Kinds, Places, Values, NoRow
<1>2. DeliveryInv
  BY DeliveryStarts DEF IntakeInit
<1>3. \A u \in Updates : UpdateOK(u)
  BY DEF IntakeInit, DeliveryInit, NoPost, UpdateOK, PlaceOK, RowOK, SilenceOK
<1>4. ChargesOK
  <2>1. Charged = {} /\ TextRuns = {}
    BY DEF IntakeInit, Charged, TextRuns
  <2>2. accepted["user_messages"] = << >> /\ accepted["agent_runs"] = << >>
    BY IntakeAssumption DEF IntakeInit, Init
  <2> QED BY <2>1, <2>2, FS_EmptySet DEF ChargesOK, Covered
<1>5. SettingIsAsSaid
  BY DEF IntakeInit, SettingIsAsSaid
<1> QED BY <1>1, <1>2, <1>3, <1>4, <1>5 DEF IntakeInv

(* Time and pruning leave it alone. *)
LEMMA IntakeStays ==
  ASSUME IntakeInv, UNCHANGED <<accepted, post, intake>>
  PROVE  IntakeInv'
<1>1. UNCHANGED <<accepted, post, kind, at, saw, known, setting, began, told, raced, last>>
  BY DEF intake
<1>2. IntakeTypeOK' /\ DeliveryInv' /\ SettingIsAsSaid'
  BY <1>1 DEF IntakeInv, IntakeTypeOK, DeliveryInv, SettingIsAsSaid
<1>3. \A u \in Updates : UpdateOK(u)'
  BY <1>1 DEF IntakeInv, UpdateOK, PlaceOK, RowOK, SilenceOK
<1>4. Charged' = Charged /\ TextRuns' = TextRuns
  BY <1>1 DEF Charged, TextRuns
<1>5. ChargesOK'
  BY <1>1, <1>4 DEF IntakeInv, ChargesOK, Covered
<1> QED BY <1>2, <1>3, <1>5 DEF IntakeInv

(* Every step keeps it. *)
LEMMA IntakeKeeps ==
  ASSUME IntakeInv, TypeOK, TypeOK', [IntakeNext]_intakeVars
  PROVE  IntakeInv'
<1>1. ASSUME NEW u \in Updates, Handle(u) PROVE IntakeInv'
  <2>1. Steps(u)
    BY <1>1, ArriveSteps, TouchSteps, TakeMessageSteps, DispatchSteps, TakeRunSteps,
       BuildContextSteps, EndRunSteps, DeliverSteps, WriteSettingSteps, DeleteSettingSteps, SaySettingSteps,
       FailSteps DEF Handle
  <2> QED BY <2>1, StepsKeep
<1>2. CASE (Prune \/ Tick) /\ UNCHANGED <<post, intake>>
  BY <1>2, IntakeStays DEF Prune, Tick
<1>3. CASE UNCHANGED intakeVars
  BY <1>3, IntakeStays DEF intakeVars, vars
<1> QED BY <1>1, <1>2, <1>3 DEF IntakeNext

(* So it holds always. *)
LEMMA IntakeInduction == IntakeSpec => []IntakeInv
<1>1. IntakeInv /\ TypeOK /\ TypeOK' /\ [IntakeNext]_intakeVars => IntakeInv'
  BY IntakeKeeps
<1> QED BY IntakeStarts, <1>1, IntakeImplementsLimiter, TypeCorrect, PTL DEF IntakeSpec

(* The variables of the intake and of the delivery have the values their   *)
(* declarations say. *)
THEOREM IntakeTypeCorrect == IntakeSpec => [](IntakeTypeOK /\ DeliveryTypeOK)
<1>1. IntakeInv => IntakeTypeOK /\ DeliveryTypeOK
  BY DeliveryIsFaithful DEF IntakeInv
<1> QED BY <1>1, IntakeInduction, PTL

(* For every number of updates in flight: one that ends without a reply is *)
(* a message that no handler takes or can answer, or a call out of the bot *)
(* has failed, or another update has written or cleared the rows it had    *)
(* looked at. *)
THEOREM SilencesAreExplained == IntakeSpec => []SilenceIsExplained
<1>1. IntakeInv => SilenceIsExplained
  BY DEF IntakeInv, UpdateOK, SilenceOK, SilenceIsExplained
<1> QED BY <1>1, IntakeInduction, PTL

(* For every limit and every number of updates: each run of the agent has  *)
(* been counted as a message of its user, and each run of a text as a run  *)
(* too. *)
THEOREM NoRunIsFree == IntakeSpec => []RunsAreCharged
<1>1. ASSUME IntakeInv, TypeOK PROVE RunsAreCharged
  <2>1. /\ IsFiniteSet(Charged) /\ Cardinality(Charged) <= Len(accepted["user_messages"])
        /\ IsFiniteSet(TextRuns) /\ Cardinality(TextRuns) <= Len(accepted["agent_runs"])
    BY <1>1 DEF IntakeInv, ChargesOK, Covered
  <2>2. began \in SUBSET Charged
    BY <1>1 DEF IntakeInv, IntakeTypeOK, Charged
  <2>3. IsFiniteSet(began) /\ Cardinality(began) <= Cardinality(Charged)
    BY <2>1, <2>2, FS_Subset
  <2>4. Cardinality(began) \in Nat /\ Cardinality(Charged) \in Nat
    BY <2>1, <2>3, FS_CardinalityType
  <2>5. Len(accepted["user_messages"]) \in Nat /\ Len(accepted["agent_runs"]) \in Nat
    BY <1>1, IntakeAssumption DEF TypeOK
  <2> DEFINE runs == {u \in began : kind[u] = "text"}
  <2>6. runs \in SUBSET TextRuns
    BY <1>1 DEF IntakeInv, IntakeTypeOK, TextRuns
  <2>7. IsFiniteSet(runs) /\ Cardinality(runs) <= Cardinality(TextRuns)
    BY <2>1, <2>6, FS_Subset
  <2>8. Cardinality(runs) \in Nat /\ Cardinality(TextRuns) \in Nat
    BY <2>1, <2>7, FS_CardinalityType
  <2>9. Cardinality(runs) <= Len(accepted["agent_runs"])
    BY <2>1, <2>5, <2>7, <2>8
  <2> QED BY <2>1, <2>3, <2>4, <2>5, <2>9 DEF RunsAreCharged
<1> QED BY <1>1, IntakeInduction, IntakeImplementsLimiter, TypeCorrect, PTL

(* The value of the setting is the one that was told last, unless commands *)
(* have overlapped or a reply was lost. *)
THEOREM SettingsAreAsSaid == IntakeSpec => []SettingIsAsSaid
<1>1. IntakeInv => SettingIsAsSaid
  BY DEF IntakeInv
<1> QED BY <1>1, IntakeInduction, PTL

(* For every answer, limit and failure: the chat shows the beginning of    *)
(* what is remembered, and all of it if nothing failed. *)
THEOREM AnswersAreShownAsRemembered == IntakeSpec => []ShownAsRemembered
<1>1. IntakeInv => ShownAsRemembered
  BY DeliveryIsFaithful DEF IntakeInv
<1> QED BY <1>1, IntakeInduction, PTL

(* The intake keeps the promises of the limiter. *)
THEOREM IntakeRespectsWindow == IntakeSpec => []WindowRespected
BY IntakeImplementsLimiter, WindowHolds, PTL
=============================================================================
