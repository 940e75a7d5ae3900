------------------------- MODULE PartsEventsProofs --------------------------
(***************************************************************************)
(* The parts that follow what was sent to what comes of it: the invariant  *)
(* of each and its proof.                                                  *)
(***************************************************************************)
EXTENDS PartsEvents, FiniteSetTheorems, WellFoundedInduction, SequenceTheorems, TLAPS
-----------------------------------------------------------------------------
(* The transfers in flight, by their timeouts.                             *)
LEMMA FlyingMin ==
  ASSUME NEW S \in SUBSET Nat, S # {}
  PROVE  F!Min(S) \in S /\ \A m \in S : F!Min(S) =< m
  <1>1. \E n \in S : \A m \in S : ~(<<m, n>> \in OpToRel(<, Nat))
    BY NatLessThanWellFounded, WFMin
  <1>2. PICK n \in S : \A m \in S : ~(m < n) BY <1>1 DEF OpToRel
  <1>3. \A m \in S : n =< m BY <1>2
  <1> QED BY <1>3 DEF F!Min

(* A sequence with one more element, or with one less.                     *)
IsInserted(r, s, k, t) ==
  /\ r \in Seq(Transfers) /\ Len(r) = Len(s) + 1
  /\ \A i \in 1 .. k - 1 : r[i] = s[i]
  /\ r[k] = t /\ \A i \in k .. Len(s) : r[i + 1] = s[i]

LEMMA Inserted ==
  ASSUME NEW s \in Seq(Transfers), NEW k \in 1 .. Len(s) + 1, NEW t \in Transfers,
         NEW r, r = F!InsertAt(s, k, t)
  PROVE  IsInserted(r, s, k, t)
  <1> DEFINE a == SubSeq(s, 1, k - 1)
             b == SubSeq(s, k, Len(s))
             c == a \o <<t>>
  <1>1. /\ a \in Seq(Transfers) /\ Len(a) = k - 1
        /\ \A i \in 1 .. k - 1 : a[i] = s[i]
    OBVIOUS
  <1>2. /\ b \in Seq(Transfers) /\ Len(b) = Len(s) + 1 - k
        /\ \A i \in 1 .. Len(s) + 1 - k : b[i] = s[k + i - 1]
    OBVIOUS
  <1>3. r = c \o b BY DEF F!InsertAt
  <1> HIDE DEF a, b
  <1>4. /\ c \in Seq(Transfers) /\ Len(c) = k
        /\ \A i \in 1 .. k : c[i] = IF i < k THEN s[i] ELSE t
    BY <1>1
  <1> HIDE DEF c
  <1>5. /\ c \o b \in Seq(Transfers) /\ Len(c \o b) = Len(c) + Len(b)
        /\ \A i \in 1 .. Len(c) + Len(b) : (c \o b)[i] = IF i <= Len(c) THEN c[i] ELSE b[i - Len(c)]
    BY <1>2, <1>4, ConcatProperties
  <1>6. r \in Seq(Transfers) /\ Len(r) = Len(s) + 1 BY <1>2, <1>3, <1>4, <1>5
  <1>7. /\ \A i \in 1 .. k - 1 : r[i] = s[i]
        /\ r[k] = t
    BY <1>2, <1>3, <1>4, <1>5
  <1>8. ASSUME NEW i \in k .. Len(s) PROVE r[i + 1] = s[i]
    <2>1. r[i + 1] = b[i + 1 - k] BY <1>2, <1>3, <1>4, <1>5
    <2>2. b[i + 1 - k] = s[k + (i + 1 - k) - 1] /\ k + (i + 1 - k) - 1 = i BY <1>2
    <2> QED BY <2>1, <2>2
  <1> QED BY <1>6, <1>7, <1>8 DEF IsInserted

LEMMA Removed ==
  ASSUME NEW t, flying \in Seq(Transfers)
  PROVE  \/ F!Without(t) = flying /\ \A i \in DOMAIN flying : flying[i] # t
         \/ \E k \in DOMAIN flying :
              /\ flying[k] = t /\ F!Without(t) \in Seq(Transfers)
              /\ Len(F!Without(t)) = Len(flying) - 1
              /\ \A i \in DOMAIN F!Without(t) :
                   F!Without(t)[i] = IF i < k THEN flying[i] ELSE flying[i + 1]
  <1> DEFINE I == {i \in DOMAIN flying : flying[i] = t}
  <1>1. CASE I = {} BY <1>1 DEF F!Without
  <1>2. CASE I # {}
    <2>1. F!Without(t) = F!RemoveAt(flying, F!Min(I)) BY <1>2 DEF F!Without
    <2>2. DOMAIN flying = 1 .. Len(flying) /\ Len(flying) \in Nat OBVIOUS
    <2>3. F!Min(I) \in I
      <3>1. I \in SUBSET Nat BY <2>2
      <3> QED BY <1>2, <3>1, FlyingMin
    <2> DEFINE k == F!Min(I)
               a == SubSeq(flying, 1, k - 1)
               b == SubSeq(flying, k + 1, Len(flying))
               r == a \o b
    <2>4. k \in 1 .. Len(flying) /\ flying[k] = t BY <2>2, <2>3
    <2>5. F!Without(t) = r BY <2>1 DEF F!RemoveAt
    <2> HIDE DEF k
    <2>6. /\ a \in Seq(Transfers) /\ Len(a) = k - 1
          /\ \A i \in 1 .. k - 1 : a[i] = flying[i]
      BY <2>4
    <2>7. /\ b \in Seq(Transfers) /\ Len(b) = Len(flying) - k
          /\ \A i \in 1 .. Len(flying) - k : b[i] = flying[k + i]
      BY <2>4
    <2> HIDE DEF a, b
    <2>8. /\ r \in Seq(Transfers) /\ Len(r) = Len(a) + Len(b)
          /\ \A i \in 1 .. Len(a) + Len(b) : r[i] = IF i <= Len(a) THEN a[i] ELSE b[i - Len(a)]
      BY <2>6, <2>7, ConcatProperties
    <2> HIDE DEF r
    <2>9. Len(r) = Len(flying) - 1 BY <2>4, <2>6, <2>7, <2>8
    <2>10. ASSUME NEW i \in 1 .. Len(flying) - 1
           PROVE  r[i] = IF i < k THEN flying[i] ELSE flying[i + 1]
      <3>1. CASE i < k
        <4>1. i \in 1 .. Len(a) + Len(b) /\ i <= Len(a) /\ i \in 1 .. k - 1
          BY <3>1, <2>4, <2>6, <2>7
        <4> QED BY <3>1, <4>1, <2>6, <2>8
      <3>2. CASE i >= k
        <4>1. r[i] = b[i - (k - 1)]
          <5>1. i \in 1 .. Len(a) + Len(b) /\ ~(i <= Len(a)) BY <3>2, <2>4, <2>6, <2>7
          <5> QED BY <5>1, <2>6, <2>8
        <4>2. b[i - (k - 1)] = flying[k + (i - (k - 1))] /\ k + (i - (k - 1)) = i + 1
          BY <3>2, <2>4, <2>7
        <4> QED BY <3>2, <2>4, <4>1, <4>2
      <3> QED BY <2>4, <3>1, <3>2
    <2>11. DOMAIN r = 1 .. Len(flying) - 1 BY <2>8, <2>9
    <2> QED BY <2>2, <2>4, <2>5, <2>8, <2>9, <2>10, <2>11
  <1> QED BY <1>1, <1>2

(* The first transfer that may time out, if there is one, as arm_timerfd_  *)
(* for_next_timeout finds it: in a sorted list it is one that has a        *)
(* timeout, if any has.                                                    *)
Within(s, t) == \E i \in DOMAIN s : s[i] = t
SortedBy(s, d) ==
  \A i, j \in DOMAIN s : i < j =>
    s[i] # s[j] /\ (d[s[j]] # 0 => d[s[i]] \in 1 .. d[s[j]])
MayTimeOut(s, out, d) == \E i \in DOMAIN s : ~out[s[i]] /\ d[s[i]] # 0
NextIn(s, out, e, d) ==
  LET others == {i \in DOMAIN s : ~out[s[i]]}
      next == s[F!Min(others)]
  IN  CASE others = {} -> 0 [] others # {} /\ e[next] -> -1 [] OTHER -> d[next]

LEMMA NextIs ==
  ASSUME NEW s \in Seq(Transfers), NEW out \in [Transfers -> BOOLEAN],
         NEW e \in [Transfers -> BOOLEAN], NEW d \in [Transfers -> Nat],
         SortedBy(s, d), \A t \in Transfers : ~e[t]
  PROVE  /\ NextIn(s, out, e, d) \in Nat
         /\ NextIn(s, out, e, d) # 0 <=> MayTimeOut(s, out, d)
  <1> DEFINE I == {i \in DOMAIN s : ~out[s[i]]}
             k == F!Min(I)
  <1>0. DOMAIN s = 1 .. Len(s) /\ Len(s) \in Nat /\ \A i \in DOMAIN s : s[i] \in Transfers OBVIOUS
  <1>1. CASE I = {} BY <1>1 DEF NextIn, MayTimeOut
  <1>2. CASE I # {}
    <2>1. I \in SUBSET Nat BY <1>0
    <2>2. k \in I /\ \A m \in I : k =< m BY <1>2, <2>1, FlyingMin
    <2>3. NextIn(s, out, e, d) = IF e[s[k]] THEN -1 ELSE d[s[k]] BY <1>2 DEF NextIn
    <2> HIDE DEF k
    <2>4. k \in DOMAIN s /\ ~out[s[k]] /\ s[k] \in Transfers BY <1>0, <2>2
    <2>5. NextIn(s, out, e, d) = d[s[k]] /\ d[s[k]] \in Nat BY <2>3, <2>4
    <2>6. ASSUME NEW i \in DOMAIN s, ~out[s[i]], d[s[i]] # 0 PROVE d[s[k]] # 0
      <3>1. k =< i BY <2>2, <2>6
      <3>2. CASE k = i BY <3>2, <2>6
      <3>3. CASE k < i BY <3>3, <2>4, <2>6 DEF SortedBy
      <3> QED BY <1>0, <2>4, <3>1, <3>2, <3>3
    <2> QED BY <2>4, <2>5, <2>6 DEF MayTimeOut
  <1> QED BY <1>1, <1>2

(* The transfers in flight.                                                *)
Completing == epc \in {"complete", "disarm", "callback"}
Tidying == epc \in {"disarm", "callback"}
InTheList == {"submit", "arm", "fail", "sent"}

FlyingTypes ==
  /\ F!TypeOK /\ timerfd \in BOOLEAN /\ present \in BOOLEAN /\ orderly \in BOOLEAN
  /\ exact \in [Transfers -> BOOLEAN] /\ timedOut \in [Transfers -> BOOLEAN]
  /\ first \subseteq Transfers /\ cur \in Transfers \cup {0}
  /\ cur = 0 <=> epc \in {"poll", "timeouts", "scan", "disconnect"}
  /\ why # "none" <=> Completing

(* The list is sorted by timeouts, and has the transfers of which the      *)
(* threads know that they are in it.                                       *)
Sorted == SortedBy(flying, deadline)
Members ==
  /\ \A t \in Transfers : pc[t] \in InTheList <=> Within(flying, t) \/ (Tidying /\ cur = t)
  /\ Tidying => ~Within(flying, cur)

(* What is set to time out, and what is known of what has timed out.       *)
Timed ==
  /\ \A t \in Transfers : /\ ~exact[t]
                          /\ timedOut[t] => deadline[t] \in 1 .. now
                          /\ pc[t] = "arm" => deadline[t] # 0
  /\ \A t \in first : pc[t] = "submit" /\ deadline[t] # 0
  /\ why = "timed out" => deadline[cur] \in 1 .. now
  /\ todo # {} => epc = "scan"
  /\ \A t \in todo : deadline[t] \in 1 .. now /\ pc[t] \in {"submit", "arm", "sent"}

(* What the kernel has, and what the event thread has of it.               *)
Had ==
  /\ cur # 0 => pc[cur] = "sent"
  /\ \A t \in Transfers : urb[t] # "none" => pc[t] \in {"arm", "sent"} /\ ~(Completing /\ cur = t)
  /\ F!Disconnecting => \A t \in Transfers : pc[t] # "add" /\ ~F!Locked(t)

(* Who remembers the next timeout.                                         *)
Remembered ==
  timerfd /\ MayTimeOut(flying, timedOut, deadline) =>
    \/ timer # 0 \/ epc \in {"timeouts", "scan", "complete"}
    \/ \E t \in Transfers : pc[t] \in {"arm", "fail"} \/ t \in first
    \/ \E t \in Transfers : Within(flying, t) /\ timedOut[t]

Orderly == Sorted /\ Members /\ Timed /\ Had /\ Remembered
FlyingInv == FlyingTypes /\ (orderly => Orderly)

LEMMA MoreSorted ==
  ASSUME NEW s \in Seq(Transfers), NEW k \in 1 .. Len(s) + 1, NEW t \in Transfers,
         NEW d \in [Transfers -> Nat], SortedBy(s, d), ~Within(s, t),
         \A i \in 1 .. k - 1 : d[t] # 0 => d[s[i]] \in 1 .. d[t],
         \A i \in k .. Len(s) : d[s[i]] # 0 => d[t] \in 1 .. d[s[i]],
         NEW r, r = F!InsertAt(s, k, t)
  PROVE  /\ r \in Seq(Transfers) /\ SortedBy(r, d)
         /\ \A u \in Transfers : Within(r, u) <=> Within(s, u) \/ u = t
  <1>0. IsInserted(r, s, k, t) BY Inserted
  <1>1. r \in Seq(Transfers) /\ Len(r) = Len(s) + 1 BY <1>0 DEF IsInserted
  <1>2. \A i \in 1 .. k - 1 : r[i] = s[i] BY <1>0 DEF IsInserted
  <1>3. r[k] = t BY <1>0 DEF IsInserted
  <1>4. \A i \in k .. Len(s) : r[i + 1] = s[i] BY <1>0 DEF IsInserted
  <1>5. Len(s) \in Nat /\ DOMAIN s = 1 .. Len(s) /\ DOMAIN r = 1 .. Len(s) + 1 /\ k \in Nat \ {0}
    BY <1>1
  <1>6. ASSUME NEW i \in DOMAIN r
        PROVE  \/ i \in 1 .. k - 1 /\ i \in DOMAIN s /\ r[i] = s[i]
               \/ i = k /\ r[i] = t
               \/ \E j \in k .. Len(s) : i = j + 1 /\ j \in DOMAIN s /\ r[i] = s[j]
    <2>1. CASE i < k BY <2>1, <1>2, <1>5
    <2>2. CASE i = k BY <2>2, <1>3
    <2>3. CASE i > k
      <3>1. i - 1 \in k .. Len(s) /\ i = (i - 1) + 1 BY <2>3, <1>5
      <3>2. r[(i - 1) + 1] = s[i - 1] BY <3>1, <1>4
      <3> QED BY <3>1, <3>2, <1>5
    <2> QED BY <1>5, <2>1, <2>2, <2>3
  <1>7. SortedBy(r, d)
    <2> SUFFICES ASSUME NEW i \in DOMAIN r, NEW j \in DOMAIN r, i < j
                 PROVE  r[i] # r[j] /\ (d[r[j]] # 0 => d[r[i]] \in 1 .. d[r[j]])
      BY DEF SortedBy
    <2>1. CASE i \in 1 .. k - 1 /\ i \in DOMAIN s /\ r[i] = s[i]
      <3>1. CASE j \in 1 .. k - 1 /\ j \in DOMAIN s /\ r[j] = s[j] BY <2>1, <3>1 DEF SortedBy
      <3>2. CASE j = k /\ r[j] = t BY <2>1, <3>2 DEF Within
      <3>3. ASSUME NEW b \in k .. Len(s), j = b + 1, b \in DOMAIN s, r[j] = s[b]
            PROVE  r[i] # r[j] /\ (d[r[j]] # 0 => d[r[i]] \in 1 .. d[r[j]])
        <4>1. i < b BY <2>1, <3>3, <1>5
        <4> QED BY <2>1, <3>3, <4>1 DEF SortedBy
      <3> QED BY <1>6, <3>1, <3>2, <3>3
    <2>2. CASE i = k /\ r[i] = t
      <3>1. ASSUME NEW b \in k .. Len(s), j = b + 1, b \in DOMAIN s, r[j] = s[b]
            PROVE  r[i] # r[j] /\ (d[r[j]] # 0 => d[r[i]] \in 1 .. d[r[j]])
        BY <2>2, <3>1 DEF Within
      <3>2. ~(j \in 1 .. k - 1) /\ j # k BY <2>2, <1>5
      <3> QED BY <1>6, <3>1, <3>2
    <2>3. ASSUME NEW a \in k .. Len(s), i = a + 1, a \in DOMAIN s, r[i] = s[a]
          PROVE  r[i] # r[j] /\ (d[r[j]] # 0 => d[r[i]] \in 1 .. d[r[j]])
      <3>1. ~(j \in 1 .. k - 1) /\ j # k BY <2>3, <1>5
      <3>2. PICK b \in k .. Len(s) : j = b + 1 /\ b \in DOMAIN s /\ r[j] = s[b] BY <1>6, <3>1
      <3>3. a < b BY <2>3, <3>2, <1>5
      <3> QED BY <2>3, <3>2, <3>3 DEF SortedBy
    <2> QED BY <1>6, <2>1, <2>2, <2>3
  <1>8. ASSUME NEW u \in Transfers PROVE Within(r, u) <=> Within(s, u) \/ u = t
    <2>1. ASSUME NEW i \in DOMAIN r, r[i] = u PROVE Within(s, u) \/ u = t
      BY <2>1, <1>6 DEF Within
    <2>2. ASSUME NEW i \in DOMAIN s, s[i] = u PROVE Within(r, u)
      <3>1. CASE i < k
        <4>1. i \in DOMAIN r /\ r[i] = u BY <2>2, <3>1, <1>2, <1>5
        <4> QED BY <4>1 DEF Within
      <3>2. CASE i >= k
        <4>1. i + 1 \in DOMAIN r /\ r[i + 1] = u BY <2>2, <3>2, <1>4, <1>5
        <4> QED BY <4>1 DEF Within
      <3> QED BY <1>5, <3>1, <3>2
    <2>3. k \in DOMAIN r /\ r[k] = t BY <1>3, <1>5
    <2> QED BY <2>1, <2>2, <2>3 DEF Within
  <1> QED BY <1>1, <1>7, <1>8

LEMMA LessSorted ==
  ASSUME flying \in Seq(Transfers), NEW t, NEW d \in [Transfers -> Nat], SortedBy(flying, d)
  PROVE  /\ F!Without(t) \in Seq(Transfers) /\ SortedBy(F!Without(t), d)
         /\ \A u \in Transfers : Within(F!Without(t), u) <=> Within(flying, u) /\ u # t
  <1>1. CASE F!Without(t) = flying /\ \A i \in DOMAIN flying : flying[i] # t
    BY <1>1 DEF Within
  <1>2. CASE \E k \in DOMAIN flying :
              /\ flying[k] = t /\ F!Without(t) \in Seq(Transfers)
              /\ Len(F!Without(t)) = Len(flying) - 1
              /\ \A i \in DOMAIN F!Without(t) :
                   F!Without(t)[i] = IF i < k THEN flying[i] ELSE flying[i + 1]
    <2> DEFINE r == F!Without(t)
    <2> HIDE DEF r
    <2>1. PICK k \in DOMAIN flying :
            /\ flying[k] = t /\ r \in Seq(Transfers)
            /\ Len(r) = Len(flying) - 1
            /\ \A i \in DOMAIN r : r[i] = IF i < k THEN flying[i] ELSE flying[i + 1]
      BY <1>2 DEF r
    <2>2. Len(flying) \in Nat /\ DOMAIN flying = 1 .. Len(flying) /\ DOMAIN r = 1 .. Len(flying) - 1
      BY <2>1
    <2>3. \A i \in DOMAIN r : \E j \in DOMAIN flying :
            j # k /\ j = (IF i < k THEN i ELSE i + 1) /\ r[i] = flying[j]
      <3> TAKE i \in DOMAIN r
      <3>1. i \in Nat \ {0} /\ i =< Len(flying) - 1 /\ k \in Nat BY <2>2
      <3>2. PICK j : j = (IF i < k THEN i ELSE i + 1) OBVIOUS
      <3>3. j \in 1 .. Len(flying) /\ j # k BY <2>2, <3>1, <3>2
      <3>4. r[i] = flying[j] BY <2>1, <3>2
      <3> QED BY <2>2, <3>2, <3>3, <3>4
    <2>4. SortedBy(r, d)
      <3> SUFFICES ASSUME NEW i \in DOMAIN r, NEW j \in DOMAIN r, i < j
                   PROVE  r[i] # r[j] /\ (d[r[j]] # 0 => d[r[i]] \in 1 .. d[r[j]])
        BY DEF SortedBy
      <3>1. PICK a \in DOMAIN flying : a = (IF i < k THEN i ELSE i + 1) /\ r[i] = flying[a] BY <2>3
      <3>2. PICK b \in DOMAIN flying : b = (IF j < k THEN j ELSE j + 1) /\ r[j] = flying[b] BY <2>3
      <3>3. a < b BY <2>2, <3>1, <3>2
      <3> QED BY <3>1, <3>2, <3>3 DEF SortedBy
    <2>5. ASSUME NEW u \in Transfers PROVE Within(r, u) <=> Within(flying, u) /\ u # t
      <3>1. ASSUME NEW i \in DOMAIN r, r[i] = u PROVE Within(flying, u) /\ u # t
        <4>1. PICK j \in DOMAIN flying : j # k /\ r[i] = flying[j] BY <2>3
        <4>2. j < k \/ k < j BY <2>2, <4>1
        <4>3. flying[j] # flying[k] BY <4>2 DEF SortedBy
        <4> QED BY <2>1, <3>1, <4>1, <4>3 DEF Within
      <3>2. ASSUME NEW j \in DOMAIN flying, flying[j] = u, u # t PROVE Within(r, u)
        <4>1. j # k BY <2>1, <3>2
        <4>2. CASE j < k
          <5>1. j \in DOMAIN r /\ r[j] = u BY <2>1, <2>2, <3>2, <4>2
          <5> QED BY <5>1 DEF Within
        <4>3. CASE j > k
          <5>0. j - 1 \in 1 .. Len(flying) - 1 /\ ~(j - 1 < k) /\ (j - 1) + 1 = j BY <2>2, <4>3
          <5>1. j - 1 \in DOMAIN r /\ r[j - 1] = u BY <5>0, <2>1, <2>2, <3>2
          <5> QED BY <5>1 DEF Within
        <4> QED BY <2>2, <4>1, <4>2, <4>3
      <3> QED BY <3>1, <3>2 DEF Within
    <2> QED BY <2>1, <2>4, <2>5 DEF r
  <1> QED BY <1>1, <1>2, Removed

LEMMA NextTimeouts ==
  ASSUME FlyingTypes, Sorted, Timed, NEW s \in Seq(Transfers), SortedBy(s, deadline)
  PROVE  /\ F!NextTimeout(s) \in Nat
         /\ F!NextTimeout(s) # 0 <=> MayTimeOut(s, timedOut, deadline)
  <1>1. F!NextTimeout(s) = NextIn(s, timedOut, exact, deadline) BY DEF F!NextTimeout, NextIn
  <1>2. deadline \in [Transfers -> 0 .. MaxTime] BY DEF FlyingTypes, F!TypeOK
  <1>3. deadline \in [Transfers -> Nat] BY <1>2, FlyingAssumption
  <1>4. timedOut \in [Transfers -> BOOLEAN] /\ exact \in [Transfers -> BOOLEAN] BY DEF FlyingTypes
  <1>5. \A t \in Transfers : ~exact[t] BY DEF Timed
  <1> QED BY <1>1, <1>3, <1>4, <1>5, NextIs

LEMMA FlyingInit == F!Init => FlyingInv
  <1> SUFFICES ASSUME F!Init PROVE FlyingInv OBVIOUS
  <1> USE DEF F!Init
  <1>1. F!TypeOK BY FlyingAssumption DEF F!TypeOK
  <1>2. FlyingTypes BY <1>1 DEF FlyingTypes, Completing
  <1>3. flying = <<>> /\ DOMAIN flying = {} OBVIOUS
  <1>4. Sorted BY <1>3 DEF Sorted, SortedBy
  <1>5. Members BY <1>3 DEF Members, Within, Tidying, InTheList
  <1>6. Timed BY DEF Timed
  <1>7. Had BY DEF Had, Completing, F!Disconnecting
  <1>8. Remembered BY <1>3 DEF Remembered, MayTimeOut
  <1> QED BY <1>2, <1>4, <1>5, <1>6, <1>7, <1>8 DEF FlyingInv, Orderly

(* Where a transfer is put: behind those that time out before, and before  *)
(* those that time out later, or never.                                    *)
LEMMA Placed ==
  ASSUME FlyingTypes, Sorted, Members, NEW t \in Transfers, F!AddToFlyingList(t)
  PROVE  /\ flying' \in Seq(Transfers) /\ SortedBy(flying', deadline)
         /\ \A u \in Transfers : Within(flying', u) <=> Within(flying, u) \/ u = t
         /\ deadline[t] = 0 => first' = first \ {t}
         /\ deadline[t] # 0 =>
              \/ first' = first \cup {t}
              \/ first' = first \ {t} /\ \E i \in DOMAIN flying : deadline[flying[i]] # 0
  <1> DEFINE n == Len(flying)
             place == IF deadline[t] = 0 \/ F!Later(t) = {} THEN n + 1 ELSE F!Min(F!Later(t))
  <1>1. /\ flying \in Seq(Transfers) /\ n \in Nat /\ DOMAIN flying = 1 .. n
        /\ \A i \in 1 .. n : flying[i] \in Transfers /\ deadline[flying[i]] \in Nat
        /\ deadline \in [Transfers -> Nat]
    <2>1. flying \in Seq(Transfers) /\ deadline \in [Transfers -> 0 .. MaxTime]
      BY DEF FlyingTypes, F!TypeOK
    <2>2. deadline \in [Transfers -> Nat] BY <2>1, FlyingAssumption
    <2>3. n \in Nat /\ DOMAIN flying = 1 .. n /\ \A i \in 1 .. n : flying[i] \in Transfers BY <2>1
    <2> QED BY <2>1, <2>2, <2>3
  <1>2. ~Within(flying, t) BY DEF F!AddToFlyingList, Members, InTheList
  <1>3. /\ flying' = F!InsertAt(flying, place, t)
        /\ first' = IF deadline[t] # 0 /\ place = 1 THEN first \cup {t} ELSE first \ {t}
    BY DEF F!AddToFlyingList
  <1>4. /\ place \in 1 .. n + 1
        /\ \A i \in 1 .. place - 1 : deadline[t] # 0 => deadline[flying[i]] \in 1 .. deadline[t]
        /\ \A i \in place .. n : deadline[flying[i]] # 0 => deadline[t] \in 1 .. deadline[flying[i]]
    <2>1. CASE deadline[t] = 0
      <3>1. place = n + 1 BY <2>1
      <3> QED BY <1>1, <2>1, <3>1
    <2>2. CASE deadline[t] # 0 /\ F!Later(t) = {}
      <3>1. place = n + 1 BY <2>2
      <3>2. \A i \in 1 .. n : deadline[flying[i]] \in 1 .. deadline[t] BY <1>1, <2>2 DEF F!Later
      <3> QED BY <1>1, <3>1, <3>2
    <2>3. CASE deadline[t] # 0 /\ F!Later(t) # {}
      <3>0. place = F!Min(F!Later(t)) BY <2>3
      <3> HIDE DEF place
      <3>1. F!Later(t) \in SUBSET Nat BY <1>1 DEF F!Later
      <3>2. place \in F!Later(t) /\ \A m \in F!Later(t) : place =< m BY <2>3, <3>0, <3>1, FlyingMin
      <3>3. place \in 1 .. n /\ (deadline[flying[place]] = 0 \/ deadline[flying[place]] > deadline[t])
        BY <1>1, <3>2 DEF F!Later
      <3>4. ASSUME NEW i \in 1 .. place - 1 PROVE deadline[flying[i]] \in 1 .. deadline[t]
        <4>1. i \in 1 .. n /\ i \notin F!Later(t) BY <1>1, <3>2, <3>3
        <4> QED BY <1>1, <4>1 DEF F!Later
      <3>5. ASSUME NEW i \in place .. n, deadline[flying[i]] # 0
            PROVE  deadline[t] \in 1 .. deadline[flying[i]]
        <4>1. i \in 1 .. n /\ (i = place \/ place < i) BY <1>1, <3>3
        <4>2. deadline[flying[place]] \in 1 .. deadline[flying[i]]
          BY <1>1, <3>3, <3>5, <4>1 DEF Sorted, SortedBy
        <4> QED BY <1>1, <2>3, <3>3, <4>1, <4>2
      <3> QED BY <1>1, <3>3, <3>4, <3>5
    <2> QED BY <2>1, <2>2, <2>3
  <1>5. deadline[t] # 0 /\ place # 1 => \E i \in DOMAIN flying : deadline[flying[i]] # 0
    <2> HIDE DEF place
    <2> SUFFICES ASSUME deadline[t] # 0, place # 1
                 PROVE  \E i \in DOMAIN flying : deadline[flying[i]] # 0
      OBVIOUS
    <2>1. 1 \in 1 .. place - 1 /\ 1 \in DOMAIN flying BY <1>1, <1>4
    <2>2. deadline[flying[1]] \in 1 .. deadline[t] BY <1>4, <2>1
    <2> QED BY <1>1, <2>1, <2>2
  <1>6. /\ flying' \in Seq(Transfers) /\ SortedBy(flying', deadline)
        /\ \A u \in Transfers : Within(flying', u) <=> Within(flying, u) \/ u = t
    <2> HIDE DEF place, n
    <2> DEFINE d == deadline
               s == flying
               r == flying'
    <2>1. s \in Seq(Transfers) /\ d \in [Transfers -> Nat] /\ SortedBy(s, d) BY <1>1 DEF Sorted
    <2>2. /\ place \in 1 .. Len(s) + 1
          /\ \A i \in 1 .. place - 1 : d[t] # 0 => d[s[i]] \in 1 .. d[t]
          /\ \A i \in place .. Len(s) : d[s[i]] # 0 => d[t] \in 1 .. d[s[i]]
      BY <1>4 DEF n
    <2>3. r = F!InsertAt(s, place, t) /\ ~Within(s, t) BY <1>2, <1>3
    <2> HIDE DEF d, s, r
    <2>4. /\ r \in Seq(Transfers) /\ SortedBy(r, d)
          /\ \A u \in Transfers : Within(r, u) <=> Within(s, u) \/ u = t
      BY <2>1, <2>2, <2>3, MoreSorted
    <2> QED BY <2>4 DEF r, s, d
  <1> QED BY <1>3, <1>5, <1>6

(* What every state and every step has the types of.                       *)
LEMMA FlyingTypesKept == FlyingTypes /\ [F!Next]_F!vars => FlyingTypes'
  <1> SUFFICES ASSUME FlyingTypes, [F!Next]_F!vars PROVE FlyingTypes' OBVIOUS
  <1>0. /\ now \in 1 .. MaxTime /\ timer \in 0 .. MaxTime /\ MaxTime \in Nat \ {0} /\ 0 \notin Transfers
        /\ flying \in Seq(Transfers) /\ deadline \in [Transfers -> 0 .. MaxTime]
    BY FlyingAssumption DEF FlyingTypes, F!TypeOK
  <1>a. ASSUME NEW t PROVE F!Without(t) \in Seq(Transfers) BY <1>0, Removed
  <1>b. ASSUME NEW s \in Seq(Transfers), F!NextTimeout(s) > 0 PROVE F!NextTimeout(s) \in 0 .. MaxTime
    <2> DEFINE I == {i \in DOMAIN s : ~timedOut[s[i]]}
               k == F!Min(I)
    <2>1. CASE I = {} BY <2>1, <1>0 DEF F!NextTimeout
    <2>2. CASE I # {}
      <3>1. I \in SUBSET Nat OBVIOUS
      <3>2. k \in I BY <2>2, <3>1, FlyingMin
      <3>3. F!NextTimeout(s) = IF exact[s[k]] THEN -1 ELSE deadline[s[k]] BY <2>2 DEF F!NextTimeout
      <3> HIDE DEF k
      <3>4. s[k] \in Transfers BY <3>2
      <3> QED BY <1>0, <1>b, <3>3, <3>4
    <2> QED BY <2>1, <2>2
  <1>c. \A i \in DOMAIN flying : flying[i] \in Transfers BY <1>0
  <1> USE DEF F!events, F!transfer, F!Goto
  <1>1. ASSUME NEW t \in Transfers, NEW timeout \in Timeouts[t], F!Submit(t, timeout) PROVE FlyingTypes'
    <2>1. /\ pc' = [pc EXCEPT ![t] = "add"] /\ now + timeout <= MaxTime
          /\ UNCHANGED <<timerfd, now, timer, present, flying, first, urb, F!events>>
          /\ timedOut' = [timedOut EXCEPT ![t] = FALSE] /\ orderly' \in BOOLEAN
          /\ deadline' = [deadline EXCEPT ![t] = IF timeout = 0 THEN deadline[t] ELSE now + timeout]
      BY <1>1 DEF F!Submit, F!Disorder
    <2>2. PICK e \in BOOLEAN : exact' = [exact EXCEPT ![t] = IF timeout = 0 THEN @ ELSE e]
      BY <1>1 DEF F!Submit
    <2>3. now + timeout \in 0 .. MaxTime
      <3>1. timeout \in Nat BY FlyingAssumption
      <3> QED BY <1>0, <2>1, <3>1
    <2>4. deadline' \in [Transfers -> 0 .. MaxTime] BY <1>0, <2>1, <2>3
    <2> QED BY <2>1, <2>2, <2>4 DEF FlyingTypes, F!TypeOK, Completing
  <1>2. ASSUME NEW t \in Transfers, F!AddToFlyingList(t) PROVE FlyingTypes'
    <2>0. DOMAIN flying = 1 .. Len(flying) /\ Len(flying) \in Nat BY <1>0
    <2>1. flying' \in Seq(Transfers)
      <3>1. PICK k \in 1 .. Len(flying) + 1 : flying' = F!InsertAt(flying, k, t)
        <4>1. CASE deadline[t] = 0 \/ F!Later(t) = {}
          <5>1. flying' = F!InsertAt(flying, Len(flying) + 1, t) BY <1>2, <4>1 DEF F!AddToFlyingList
          <5>2. Len(flying) + 1 \in 1 .. Len(flying) + 1 BY <2>0
          <5> QED BY <5>1, <5>2
        <4>2. CASE ~(deadline[t] = 0 \/ F!Later(t) = {})
          <5>1. flying' = F!InsertAt(flying, F!Min(F!Later(t)), t) BY <1>2, <4>2
              DEF F!AddToFlyingList
          <5>2. F!Later(t) \in SUBSET DOMAIN flying BY DEF F!Later
          <5>3. F!Later(t) \in SUBSET Nat BY <2>0, <5>2
          <5>4. F!Min(F!Later(t)) \in F!Later(t) BY <4>2, <5>3, FlyingMin
          <5>5. F!Min(F!Later(t)) \in 1 .. Len(flying) + 1 BY <2>0, <5>2, <5>4
          <5> QED BY <5>1, <5>5
        <4> QED BY <4>1, <4>2
      <3> QED BY <1>0, <3>1, Inserted DEF IsInserted
    <2> QED BY <1>2, <2>1 DEF F!AddToFlyingList, FlyingTypes, F!TypeOK, Completing
  <1>3. ASSUME NEW t \in Transfers, F!Submitted(t) PROVE FlyingTypes'
    BY <1>3 DEF F!Submitted, FlyingTypes, F!TypeOK, Completing
  <1>4. ASSUME NEW t \in Transfers, F!SubmitFails(t) PROVE FlyingTypes'
    BY <1>4 DEF F!SubmitFails, F!Disorder, FlyingTypes, F!TypeOK, Completing
  <1>5. ASSUME NEW t \in Transfers, F!Arm(t) PROVE FlyingTypes'
    <2>1. timer' \in 0 .. MaxTime BY <1>0, <1>5 DEF F!Arm
    <2> QED BY <1>5, <2>1 DEF F!Arm, FlyingTypes, F!TypeOK, Completing
  <1>6. ASSUME NEW t \in Transfers, F!Cancel(t) \/ F!GiveUp(t) \/ F!Answer(t) PROVE FlyingTypes'
    BY <1>6 DEF F!Cancel, F!Cancelled, F!GiveUp, F!Disorder, F!Answer, FlyingTypes, F!TypeOK,
       Completing
  <1>7. ASSUME NEW t \in Transfers, F!DeleteFailed(t) PROVE FlyingTypes'
    BY <1>7, <1>a DEF F!DeleteFailed, F!Disorder, FlyingTypes, F!TypeOK, Completing
  <1>8. ASSUME NEW t \in Transfers, F!Reap(t) PROVE FlyingTypes'
    BY <1>0, <1>8 DEF F!Reap, FlyingTypes, F!TypeOK, Completing
  <1>9. ASSUME NEW t \in Transfers, NEW freed \in BOOLEAN, F!Called(t, freed) PROVE FlyingTypes'
    <2>1. deadline' \in [Transfers -> 0 .. MaxTime] BY <1>0, <1>9 DEF F!Called
    <2>2. /\ timedOut' \in [Transfers -> BOOLEAN] /\ exact' \in [Transfers -> BOOLEAN]
          /\ pc' \in {[pc EXCEPT ![t] = "freed"], [pc EXCEPT ![t] = "idle"]}
          /\ UNCHANGED <<timerfd, now, timer, present, flying, first, urb, F!events, orderly>>
      BY <1>9 DEF F!Called, FlyingTypes
    <2> QED BY <2>1, <2>2 DEF FlyingTypes, F!TypeOK, Completing
  <1>10. CASE F!Tick
    <2>1. now' \in 1 .. MaxTime BY <1>0, <1>10 DEF F!Tick
    <2> QED BY <1>10, <2>1 DEF F!Tick, FlyingTypes, F!TypeOK, Completing
  <1>11. CASE F!Unplug BY <1>11 DEF F!Unplug, FlyingTypes, F!TypeOK, Completing
  <1>12. CASE F!Complete
    <2>1. /\ flying' = F!Without(cur) /\ epc = "complete"
          /\ UNCHANGED <<timerfd, now, present, F!transfer, pc, urb, todo, orderly>>
      BY <1>12 DEF F!Complete
    <2>2. flying' \in Seq(Transfers) BY <2>1, <1>a
    <2>3. \/ epc' \in {"callback", "disarm"} /\ UNCHANGED <<timer, cur, why>>
          \/ epc' = "poll" /\ cur' = 0 /\ why' = "none" /\ UNCHANGED timer
          \/ epc' = "callback" /\ timer' \in 0 .. MaxTime /\ UNCHANGED <<cur, why>>
      BY <1>12, <2>2, <1>b DEF F!Complete
    <2> QED BY <2>1, <2>2, <2>3 DEF FlyingTypes, F!TypeOK, Completing
  <1>13. CASE F!Disarm
    <2>1. timer' \in 0 .. MaxTime BY <1>0, <1>13 DEF F!Disarm
    <2> QED BY <1>13, <2>1 DEF F!Disarm, F!Disorder, FlyingTypes, F!TypeOK, Completing
  <1>14. CASE F!Callback BY <1>14 DEF F!Callback, FlyingTypes, F!TypeOK, Completing
  <1>15. CASE F!Trigger
    <2>1. timer' \in 0 .. MaxTime BY <1>0, <1>15 DEF F!Trigger
    <2> QED BY <1>15, <2>1 DEF F!Trigger, FlyingTypes, F!TypeOK, Completing
  <1>16. CASE F!TimedOut
    <2>1. /\ epc = "poll" /\ epc' = "timeouts"
          /\ UNCHANGED <<timerfd, now, timer, present, flying, F!transfer, pc, urb, cur, why, todo, orderly>>
      BY <1>16 DEF F!TimedOut
    <2> QED BY <2>1 DEF FlyingTypes, F!TypeOK, Completing
  <1>17. CASE F!HandleTimeouts
    <2>1. todo' \subseteq Transfers BY <1>c, <1>17 DEF F!HandleTimeouts, F!Range
    <2> QED BY <1>17, <2>1 DEF F!HandleTimeouts, F!Disorder, FlyingTypes, F!TypeOK, Completing
  <1>18. CASE F!HandleTimeout
    BY <1>18 DEF F!HandleTimeout, F!Cancelled, FlyingTypes, F!TypeOK, Completing
  <1>19. CASE F!TimeoutsHandled
    <2>1. timer' \in 0 .. MaxTime BY <1>0, <1>b, <1>19 DEF F!TimeoutsHandled
    <2> QED BY <1>19, <2>1 DEF F!TimeoutsHandled, FlyingTypes, F!TypeOK, Completing
  <1>20. CASE F!Disconnect BY <1>20 DEF F!Disconnect, F!Disorder, FlyingTypes, F!TypeOK, Completing
  <1>21. CASE F!ToCancel
    <2>1. flying # <<>> => 1 \in DOMAIN flying BY <1>0
    <2>2. flying # <<>> => cur' # 0 /\ cur' \in Transfers BY <1>0, <1>c, <1>21, <2>1 DEF F!ToCancel
    <2> QED BY <1>21, <2>2 DEF F!ToCancel, FlyingTypes, F!TypeOK, Completing
  <1>22. CASE F!Clear BY <1>22 DEF F!Clear, FlyingTypes, F!TypeOK, Completing
  <1>23. CASE UNCHANGED F!vars BY <1>23 DEF F!vars, FlyingTypes, F!TypeOK, Completing
  <1> QED
    BY <1>1, <1>2, <1>3, <1>4, <1>5, <1>6, <1>7, <1>8, <1>9, <1>10, <1>11, <1>12, <1>13, <1>14,
       <1>15, <1>16, <1>17, <1>18, <1>19, <1>20, <1>21, <1>22, <1>23 DEF F!Next

(* The order of the list, and who remembers the next timeout, are kept by  *)
(* every step that is none of those that Disorder names.                   *)
LEMMA OrderKept ==
  ASSUME FlyingTypes, Sorted, Members, Timed, Had, Remembered, [F!Next]_F!vars, orderly'
  PROVE  Sorted' /\ Members' /\ Timed' /\ Had' /\ Remembered'
  <1>0. /\ now \in Nat /\ MaxTime \in Nat \ {0} /\ 0 \notin Transfers
        /\ flying \in Seq(Transfers) /\ deadline \in [Transfers -> Nat]
        /\ first \subseteq Transfers /\ todo \subseteq Transfers /\ cur \in Transfers \cup {0}
    <2>1. /\ now \in 1 .. MaxTime /\ flying \in Seq(Transfers) /\ deadline \in [Transfers -> 0 .. MaxTime]
          /\ first \subseteq Transfers /\ todo \subseteq Transfers /\ cur \in Transfers \cup {0}
      BY DEF FlyingTypes, F!TypeOK
    <2>2. MaxTime \in Nat \ {0} /\ 0 \notin Transfers BY FlyingAssumption
    <2> QED BY <2>1, <2>2
  <1>a. /\ timedOut \in [Transfers -> BOOLEAN] /\ exact \in [Transfers -> BOOLEAN]
        /\ pc \in [Transfers -> {"idle", "add", "submit", "arm", "fail", "sent", "done", "freed"}]
        /\ urb \in [Transfers -> {"none", "flying", "cancelled", "done"}]
        /\ cur = 0 <=> epc \in {"poll", "timeouts", "scan", "disconnect"}
        /\ why # "none" <=> Completing
    BY DEF FlyingTypes, F!TypeOK
  <1>b. \A i \in DOMAIN flying : flying[i] \in Transfers /\ Within(flying, flying[i])
    BY <1>0 DEF Within
  <1>c. epc # "scan" => todo = {} BY DEF Timed
  <1>d. ASSUME NEW t PROVE /\ F!Without(t) \in Seq(Transfers) /\ SortedBy(F!Without(t), deadline)
                           /\ \A u \in Transfers : Within(F!Without(t), u) <=> Within(flying, u) /\ u # t
    BY <1>0, LessSorted DEF Sorted
  <1>e. ASSUME NEW s \in Seq(Transfers), SortedBy(s, deadline)
        PROVE  F!NextTimeout(s) \in Nat /\ (F!NextTimeout(s) # 0 <=> MayTimeOut(s, timedOut, deadline))
    BY <1>e, NextTimeouts
  <1>f. UNCHANGED <<flying, deadline>> => Sorted' BY DEF Sorted, SortedBy
  <1>g. \A t \in Transfers : urb[t] # "none" => pc[t] \in {"arm", "sent"} BY DEF Had
  <1>h. \A t \in Transfers : pc[t] \in {"submit", "arm", "fail", "add"} =>
          cur # t /\ ~F!Disconnecting
    BY <1>0 DEF Had, F!Locked
  <1> USE DEF F!events, F!transfer, F!Goto
  <1>1. ASSUME NEW t \in Transfers, NEW timeout \in Timeouts[t], F!Submit(t, timeout)
        PROVE  Sorted' /\ Members' /\ Timed' /\ Had' /\ Remembered'
    <2>1. /\ pc[t] = "idle" /\ pc' = [pc EXCEPT ![t] = "add"]
          /\ UNCHANGED <<timerfd, now, timer, present, flying, first, urb, F!events>>
          /\ timedOut' = [timedOut EXCEPT ![t] = FALSE] /\ ~exact'[t] /\ ~F!Disconnecting
      BY <1>1 DEF F!Submit, F!Disorder
    <2>2. \A u \in Transfers \ {t} : /\ deadline'[u] = deadline[u] /\ timedOut'[u] = timedOut[u]
                                    /\ exact'[u] = exact[u] /\ pc'[u] = pc[u]
      <3>1. PICK e \in BOOLEAN : exact' = [exact EXCEPT ![t] = IF timeout = 0 THEN @ ELSE e]
        BY <1>1 DEF F!Submit
      <3>2. PICK d : deadline' = [deadline EXCEPT ![t] = d]
        <4>1. deadline' = [deadline EXCEPT ![t] = IF timeout = 0 THEN deadline[t] ELSE now + timeout]
          BY <1>1 DEF F!Submit
        <4> QED BY <4>1
      <3> QED BY <1>0, <1>a, <2>1, <3>1, <3>2
    <2>3. pc'[t] = "add" /\ ~timedOut'[t] BY <1>a, <2>1
    <2>4. /\ ~Within(flying, t) /\ cur # t /\ t \notin first /\ t \notin todo /\ urb[t] = "none"
      BY <1>0, <1>a, <2>1 DEF Members, InTheList, Had, Timed
    <2>5. \A i \in DOMAIN flying : flying[i] \in Transfers \ {t} BY <1>b, <2>4
    <2>6. Sorted' BY <2>1, <2>2, <2>5 DEF Sorted, SortedBy
    <2>7. Members' BY <2>1, <2>2, <2>3, <2>4 DEF Members, InTheList, Within, Tidying
    <2>8. Timed'
      <3>1. why = "timed out" => cur \in Transfers \ {t} BY <1>0, <1>a, <2>4 DEF Completing
      <3>2. ASSUME NEW u \in Transfers
            PROVE  ~exact'[u] /\ (timedOut'[u] => deadline'[u] \in 1 .. now)
                   /\ (pc'[u] = "arm" => deadline'[u] # 0)
        BY <2>1, <2>2, <2>3 DEF Timed
      <3>3. ASSUME NEW u \in first PROVE pc'[u] = "submit" /\ deadline'[u] # 0
        BY <1>0, <2>2, <2>4 DEF Timed
      <3>4. why = "timed out" => deadline'[cur] \in 1 .. now BY <2>2, <3>1 DEF Timed
      <3>5. ASSUME NEW u \in todo
            PROVE  deadline'[u] \in 1 .. now /\ pc'[u] \in {"submit", "arm", "sent"}
        BY <1>0, <2>2, <2>4 DEF Timed
      <3>6. todo # {} => epc = "scan" BY DEF Timed
      <3>7. UNCHANGED <<now, first, why, cur, todo, epc>> BY <2>1
      <3> QED BY <3>2, <3>3, <3>4, <3>5, <3>6, <3>7 DEF Timed
    <2>9. Had'
      <3>1. cur # 0 => cur \in Transfers \ {t} BY <1>0, <2>4
      <3>2. ~F!Disconnecting' BY <2>1 DEF F!Disconnecting
      <3> QED BY <2>1, <2>2, <2>3, <2>4, <3>1, <3>2 DEF Had, Completing
    <2>10. Remembered'
      <3>1. MayTimeOut(flying, timedOut, deadline)' => MayTimeOut(flying, timedOut, deadline)
        BY <2>1, <2>2, <2>5 DEF MayTimeOut
      <3>2. \A u \in Transfers : Within(flying, u) => u # t BY <2>4
      <3> QED BY <2>1, <2>2, <3>1, <3>2 DEF Remembered, Within
    <2> QED BY <2>6, <2>7, <2>8, <2>9, <2>10
  <1>2. ASSUME NEW t \in Transfers, F!AddToFlyingList(t)
        PROVE  Sorted' /\ Members' /\ Timed' /\ Had' /\ Remembered'
    <2>0. /\ pc[t] = "add" /\ epc # "scan" /\ pc' = [pc EXCEPT ![t] = "submit"]
          /\ UNCHANGED <<timerfd, now, timer, present, deadline, exact, timedOut, urb, F!events, orderly>>
      BY <1>2 DEF F!AddToFlyingList, F!ListLocked
    <2>1. /\ flying' \in Seq(Transfers) /\ SortedBy(flying', deadline)
          /\ \A u \in Transfers : Within(flying', u) <=> Within(flying, u) \/ u = t
          /\ deadline[t] = 0 => first' = first \ {t}
          /\ deadline[t] # 0 =>
               \/ first' = first \cup {t}
               \/ first' = first \ {t} /\ \E i \in DOMAIN flying : deadline[flying[i]] # 0
      BY <1>2, Placed
    <2>2. pc'[t] = "submit" /\ \A u \in Transfers \ {t} : pc'[u] = pc[u] BY <1>a, <2>0
    <2>3. t \notin first /\ t \notin todo /\ cur # t /\ urb[t] = "none" /\ ~F!Disconnecting
      BY <1>g, <1>h, <2>0 DEF Timed
    <2>4. Sorted' BY <2>0, <2>1 DEF Sorted, SortedBy
    <2>5. Members'
      <3>1. Tidying => cur \in Transfers BY <1>0, <1>a DEF Tidying
      <3> QED BY <2>0, <2>1, <2>2, <2>3, <3>1 DEF Members, InTheList, Tidying
    <2>6. Timed'
      <3>1. \A u \in first' : u \in first \/ (u = t /\ deadline[t] # 0) BY <2>1
      <3> QED BY <1>0, <1>c, <2>0, <2>2, <2>3, <3>1 DEF Timed
    <2>7. Had'
      <3>1. ~F!Disconnecting' BY <2>0, <2>3 DEF F!Disconnecting
      <3>2. cur # 0 => cur \in Transfers \ {t} BY <1>0, <2>3
      <3> QED BY <2>0, <2>2, <2>3, <3>1, <3>2 DEF Had, Completing
    <2>8. Remembered'
      <3> SUFFICES ASSUME timerfd, MayTimeOut(flying', timedOut, deadline),
                          timer = 0, epc \notin {"timeouts", "scan", "complete"},
                          \A u \in Transfers : pc'[u] \notin {"arm", "fail"} /\ u \notin first',
                          \A u \in Transfers : Within(flying', u) => ~timedOut[u]
                   PROVE  FALSE
        BY <2>0 DEF Remembered, Within, MayTimeOut
      <3>1. \A u \in Transfers : pc[u] \notin {"arm", "fail"} BY <2>0, <2>2
      <3>2. \A u \in Transfers : u \notin first BY <2>1, <2>3
      <3>3. \A u \in Transfers : Within(flying, u) => ~timedOut[u] BY <2>1
      <3>4. ~MayTimeOut(flying, timedOut, deadline) BY <3>1, <3>2, <3>3 DEF Remembered
      <3>5. \A i \in DOMAIN flying : deadline[flying[i]] = 0 BY <1>b, <3>3, <3>4 DEF MayTimeOut
      <3>6. deadline[t] = 0 BY <2>1, <3>5
      <3>7. \A u \in Transfers : Within(flying, u) => deadline[u] = 0 BY <3>5 DEF Within
      <3>8. PICK i \in DOMAIN flying' : deadline[flying'[i]] # 0 BY DEF MayTimeOut
      <3>9. flying'[i] \in Transfers BY <2>1, <3>8
      <3>10. Within(flying', flying'[i]) BY <3>8 DEF Within
      <3> QED BY <2>1, <3>6, <3>7, <3>8, <3>9, <3>10
    <2> QED BY <2>4, <2>5, <2>6, <2>7, <2>8
  <1>3. ASSUME NEW t \in Transfers, F!Submitted(t)
        PROVE  Sorted' /\ Members' /\ Timed' /\ Had' /\ Remembered'
    <2>0. /\ pc[t] = "submit" /\ first' = first \ {t}
          /\ pc' = [pc EXCEPT ![t] = IF t \in first /\ timerfd THEN "arm" ELSE "sent"]
          /\ urb' = [urb EXCEPT ![t] = "flying"]
          /\ UNCHANGED <<timerfd, now, timer, present, flying, deadline, exact, timedOut, F!events, orderly>>
      BY <1>3 DEF F!Submitted
    <2>1. /\ pc'[t] \in {"arm", "sent"} /\ (pc'[t] = "arm" <=> t \in first /\ timerfd)
          /\ \A u \in Transfers \ {t} : pc'[u] = pc[u] /\ urb'[u] = urb[u]
      BY <1>a, <2>0
    <2>2. cur # t /\ ~F!Disconnecting BY <1>h, <2>0
    <2>3. Sorted' BY <1>f, <2>0
    <2>4. Members' BY <2>0, <2>1 DEF Members, InTheList, Tidying, Within
    <2>5. Timed' BY <1>0, <2>0, <2>1 DEF Timed
    <2>6. Had'
      <3>1. ~F!Disconnecting' BY <2>0, <2>2 DEF F!Disconnecting
      <3>2. cur # 0 => cur \in Transfers \ {t} BY <1>0, <2>2
      <3> QED BY <2>0, <2>1, <2>2, <3>1, <3>2 DEF Had, Completing
    <2>7. Remembered' BY <2>0, <2>1 DEF Remembered, MayTimeOut, Within
    <2> QED BY <2>3, <2>4, <2>5, <2>6, <2>7
  <1>4. ASSUME NEW t \in Transfers, F!SubmitFails(t)
        PROVE  Sorted' /\ Members' /\ Timed' /\ Had' /\ Remembered'
    <2>0. /\ pc[t] = "submit" /\ first' = first \ {t} /\ pc' = [pc EXCEPT ![t] = "fail"] /\ t \notin todo
          /\ UNCHANGED <<timerfd, now, timer, present, flying, deadline, exact, timedOut, urb, F!events>>
      BY <1>4 DEF F!SubmitFails, F!Disorder
    <2>1. pc'[t] = "fail" /\ \A u \in Transfers \ {t} : pc'[u] = pc[u] BY <1>a, <2>0
    <2>2. cur # t /\ ~F!Disconnecting /\ urb[t] = "none" BY <1>g, <1>h, <2>0
    <2>3. Sorted' BY <1>f, <2>0
    <2>4. Members' BY <2>0, <2>1 DEF Members, InTheList, Tidying, Within
    <2>5. Timed' BY <1>0, <2>0, <2>1 DEF Timed
    <2>6. Had'
      <3>1. ~F!Disconnecting' BY <2>0, <2>2 DEF F!Disconnecting
      <3>2. cur # 0 => cur \in Transfers \ {t} BY <1>0, <2>2
      <3> QED BY <2>0, <2>1, <2>2, <3>1, <3>2 DEF Had, Completing
    <2>7. Remembered' BY <2>1 DEF Remembered
    <2> QED BY <2>3, <2>4, <2>5, <2>6, <2>7
  <1>5. ASSUME NEW t \in Transfers, F!DeleteFailed(t)
        PROVE  Sorted' /\ Members' /\ Timed' /\ Had' /\ Remembered'
    <2>0. /\ pc[t] = "fail" /\ epc # "scan" /\ flying' = F!Without(t) /\ pc' = [pc EXCEPT ![t] = "idle"]
          /\ ~(timerfd /\ timer = 0 /\ F!NextTimeout(flying') # 0)
          /\ UNCHANGED <<timerfd, now, timer, present, F!transfer, urb, F!events>>
      BY <1>5 DEF F!DeleteFailed, F!Disorder, F!ListLocked
    <2>1. pc'[t] = "idle" /\ \A u \in Transfers \ {t} : pc'[u] = pc[u] BY <1>a, <2>0
    <2>2. cur # t /\ ~F!Disconnecting /\ urb[t] = "none" /\ t \notin first /\ todo = {}
      BY <1>c, <1>g, <1>h, <2>0 DEF Timed
    <2>3. /\ flying' \in Seq(Transfers) /\ SortedBy(flying', deadline)
          /\ \A u \in Transfers : Within(flying', u) <=> Within(flying, u) /\ u # t
      BY <1>d, <2>0
    <2>4. Sorted' BY <2>0, <2>3 DEF Sorted, SortedBy
    <2>5. Members'
      <3>1. Tidying => cur \in Transfers BY <1>0, <1>a DEF Tidying
      <3> QED BY <2>0, <2>1, <2>2, <2>3, <3>1 DEF Members, InTheList, Tidying
    <2>6. Timed' BY <1>0, <2>0, <2>1, <2>2 DEF Timed
    <2>7. Had'
      <3>1. ~F!Disconnecting' BY <2>0, <2>2 DEF F!Disconnecting
      <3>2. cur # 0 => cur \in Transfers \ {t} BY <1>0, <2>2
      <3> QED BY <2>0, <2>1, <2>2, <3>1, <3>2 DEF Had, Completing
    <2>8. Remembered'
      <3>1. timerfd /\ timer = 0 => ~MayTimeOut(flying', timedOut, deadline) BY <1>e, <2>0, <2>3
      <3> QED BY <2>0, <3>1 DEF Remembered, MayTimeOut
    <2> QED BY <2>4, <2>5, <2>6, <2>7, <2>8
  <1>6. ASSUME NEW t \in Transfers, F!Arm(t)
        PROVE  Sorted' /\ Members' /\ Timed' /\ Had' /\ Remembered'
    <2>0. /\ pc[t] = "arm" /\ pc' = [pc EXCEPT ![t] = "sent"] /\ timer' = deadline[t] /\ deadline[t] # 0
          /\ UNCHANGED <<timerfd, now, present, flying, F!transfer, urb, F!events, orderly>>
      BY <1>6 DEF F!Arm, Timed
    <2>1. pc'[t] = "sent" /\ \A u \in Transfers \ {t} : pc'[u] = pc[u] BY <1>a, <2>0
    <2>2. cur # t /\ ~F!Disconnecting /\ t \notin first BY <1>h, <2>0 DEF Timed
    <2>3. Sorted' BY <1>f, <2>0
    <2>4. Members' BY <2>0, <2>1 DEF Members, InTheList, Tidying, Within
    <2>5. Timed' BY <1>0, <2>0, <2>1, <2>2 DEF Timed
    <2>6. Had'
      <3>1. ~F!Disconnecting' BY <2>0, <2>2 DEF F!Disconnecting
      <3>2. cur # 0 => cur \in Transfers \ {t} BY <1>0, <2>2
      <3> QED BY <2>0, <2>1, <2>2, <3>1, <3>2 DEF Had, Completing
    <2>7. Remembered' BY <2>0 DEF Remembered
    <2> QED BY <2>3, <2>4, <2>5, <2>6, <2>7

  <1>7. ASSUME NEW t \in Transfers, F!Cancel(t) \/ F!Answer(t)
        PROVE  Sorted' /\ Members' /\ Timed' /\ Had' /\ Remembered'
    <2>0. /\ UNCHANGED <<timerfd, now, timer, present, flying, F!transfer, pc, F!events, orderly>>
          /\ \A u \in Transfers : urb'[u] # "none" => urb[u] # "none"
      BY <1>7, <1>a DEF F!Cancel, F!Cancelled, F!Answer
    <2>1. Sorted' BY <1>f, <2>0
    <2>2. Members' BY <2>0 DEF Members, Tidying, Within
    <2>3. Timed' BY <2>0 DEF Timed
    <2>4. Had' BY <2>0 DEF Had, Completing, F!Disconnecting, F!Locked
    <2>5. Remembered' BY <2>0 DEF Remembered, MayTimeOut, Within
    <2> QED BY <2>1, <2>2, <2>3, <2>4, <2>5
  <1>8. ASSUME NEW t \in Transfers, F!GiveUp(t) PROVE FALSE
    BY <1>8 DEF F!GiveUp, F!Disorder
  <1>9. ASSUME NEW t \in Transfers, F!Reap(t)
        PROVE  Sorted' /\ Members' /\ Timed' /\ Had' /\ Remembered'
    <2>0. /\ epc = "poll" /\ epc' = "complete" /\ urb[t] # "none" /\ ~F!Locked(t)
          /\ urb' = [urb EXCEPT ![t] = "none"] /\ cur' = t /\ why' # "no device"
          /\ why' = "timed out" => timedOut[t]
          /\ UNCHANGED <<timerfd, now, timer, present, flying, F!transfer, pc, todo, orderly>>
      BY <1>9 DEF F!Reap
    <2>1. pc[t] = "sent" BY <1>g, <2>0 DEF F!Locked
    <2>2. urb'[t] = "none" /\ \A u \in Transfers \ {t} : urb'[u] = urb[u] BY <1>a, <2>0
    <2>3. Sorted' BY <1>f, <2>0
    <2>4. Members' BY <2>0 DEF Members, Tidying, Within
    <2>5. Timed' BY <1>c, <2>0 DEF Timed
    <2>6. Had' BY <1>g, <2>0, <2>1, <2>2 DEF Had, Completing, F!Disconnecting
    <2>7. Remembered' BY <2>0 DEF Remembered
    <2> QED BY <2>3, <2>4, <2>5, <2>6, <2>7
  <1>10. ASSUME NEW t \in Transfers, NEW freed \in BOOLEAN, F!Called(t, freed)
         PROVE  Sorted' /\ Members' /\ Timed' /\ Had' /\ Remembered'
    <2>0. /\ pc[t] = "done" /\ pc' = [pc EXCEPT ![t] = IF freed THEN "freed" ELSE "idle"]
          /\ deadline' = [deadline EXCEPT ![t] = IF freed THEN 0 ELSE deadline[t]]
          /\ timedOut' = [timedOut EXCEPT ![t] = IF freed THEN FALSE ELSE timedOut[t]]
          /\ exact' = [exact EXCEPT ![t] = IF freed THEN FALSE ELSE exact[t]]
          /\ UNCHANGED <<timerfd, now, timer, present, flying, first, urb, F!events, orderly>>
      BY <1>0, <1>a, <1>10 DEF F!Called
    <2>1. \A u \in Transfers \ {t} : /\ deadline'[u] = deadline[u] /\ timedOut'[u] = timedOut[u]
                                    /\ exact'[u] = exact[u] /\ pc'[u] = pc[u]
      BY <1>0, <1>a, <2>0
    <2>2. /\ pc'[t] \in {"freed", "idle"} /\ (exact'[t] => exact[t])
          /\ timedOut'[t] => timedOut[t] /\ deadline'[t] = deadline[t]
      BY <1>0, <1>a, <2>0
    <2>3. /\ ~Within(flying, t) /\ cur # t /\ t \notin first /\ t \notin todo /\ urb[t] = "none"
      BY <1>0, <1>a, <2>0 DEF Members, InTheList, Had, Timed
    <2>4. \A i \in DOMAIN flying : flying[i] \in Transfers \ {t} BY <1>b, <2>3
    <2>5. cur # 0 => cur \in Transfers \ {t} BY <1>0, <2>3
    <2>6. Sorted' BY <2>0, <2>1, <2>4 DEF Sorted, SortedBy
    <2>7. Members' BY <2>0, <2>1, <2>2, <2>3 DEF Members, InTheList, Within, Tidying
    <2>8. Timed'
      <3>1. why = "timed out" => cur \in Transfers \ {t} BY <1>a, <2>5 DEF Completing
      <3>2. ASSUME NEW u \in Transfers
            PROVE  /\ ~exact'[u]
                   /\ timedOut'[u] => deadline'[u] \in 1 .. now
                   /\ pc'[u] = "arm" => deadline'[u] # 0
        <4>1. CASE u = t BY <2>2, <4>1 DEF Timed
        <4>2. CASE u # t BY <2>1, <4>2 DEF Timed
        <4> QED BY <4>1, <4>2
      <3>3. \A u \in first : pc'[u] = "submit" /\ deadline'[u] # 0 BY <1>0, <2>1, <2>3 DEF Timed
      <3>4. why = "timed out" => deadline'[cur] \in 1 .. now BY <2>1, <3>1 DEF Timed
      <3>5. \A u \in todo : deadline'[u] \in 1 .. now /\ pc'[u] \in {"submit", "arm", "sent"}
        BY <1>0, <2>1, <2>3 DEF Timed
      <3> QED BY <2>0, <3>2, <3>3, <3>4, <3>5 DEF Timed
    <2>9. Had'
      <3>1. \A u \in Transfers \ {t} : F!Locked(u)' => F!Locked(u) BY <2>1 DEF F!Locked
      <3>2. ~F!Locked(t)' /\ pc'[t] # "add" BY <2>2 DEF F!Locked
      <3>3. F!Disconnecting' = F!Disconnecting /\ Completing' = Completing
        BY <2>0 DEF F!Disconnecting, Completing
      <3> QED BY <2>0, <2>1, <2>3, <2>5, <3>1, <3>2, <3>3 DEF Had
    <2>10. Remembered'
      <3>1. MayTimeOut(flying, timedOut, deadline)' => MayTimeOut(flying, timedOut, deadline)
        BY <2>0, <2>1, <2>4 DEF MayTimeOut
      <3>2. \A u \in Transfers : Within(flying, u) => u # t BY <2>3
      <3>3. pc[t] = "done" BY <2>0
      <3> QED BY <2>0, <2>1, <3>1, <3>2, <3>3 DEF Remembered, Within
    <2> QED BY <2>6, <2>7, <2>8, <2>9, <2>10
  <1>11. CASE F!Tick
    <2>0. now' = now + 1
          /\ UNCHANGED <<timerfd, timer, present, flying, F!transfer, pc, urb, F!events, orderly>>
      BY <1>11 DEF F!Tick
    <2>1. \A n \in Nat : n \in 1 .. now => n \in 1 .. now' BY <1>0, <2>0
    <2>2. Sorted' BY <1>f, <2>0
    <2>3. Members' BY <2>0 DEF Members, Tidying, Within
    <2>4. Timed'
      <3>1. why = "timed out" => deadline[cur] \in 1 .. now /\ cur \in Transfers
        BY <1>0, <1>a DEF Timed, Completing
      <3>2. \A u \in Transfers : deadline[u] \in 1 .. now => deadline[u] \in 1 .. now' BY <1>0, <2>1
      <3> QED BY <1>0, <2>0, <3>1, <3>2 DEF Timed
    <2>5. Had' BY <2>0 DEF Had, Completing, F!Disconnecting, F!Locked
    <2>6. Remembered' BY <2>0 DEF Remembered, MayTimeOut, Within
    <2> QED BY <2>2, <2>3, <2>4, <2>5, <2>6
  <1>12. CASE F!Unplug
    <2>0. UNCHANGED <<timerfd, now, timer, flying, F!transfer, pc, urb, F!events, orderly>>
      BY <1>12 DEF F!Unplug
    <2>1. Sorted' BY <1>f, <2>0
    <2>2. Members' BY <2>0 DEF Members, Tidying, Within
    <2>3. Timed' BY <2>0 DEF Timed
    <2>4. Had' BY <2>0 DEF Had, Completing, F!Disconnecting, F!Locked
    <2>5. Remembered' BY <2>0 DEF Remembered, MayTimeOut, Within
    <2> QED BY <2>1, <2>2, <2>3, <2>4, <2>5
  <1>13. CASE F!Complete
    <2>0. /\ epc = "complete" /\ flying' = F!Without(cur)
          /\ UNCHANGED <<timerfd, now, present, F!transfer, pc, urb, todo, orderly>>
      BY <1>13 DEF F!Complete
    <2>1. /\ flying' \in Seq(Transfers) /\ SortedBy(flying', deadline)
          /\ \A u \in Transfers : Within(flying', u) <=> Within(flying, u) /\ u # cur
      BY <1>d, <2>0
    <2>2. F!NextTimeout(flying') \in Nat
          /\ (F!NextTimeout(flying') # 0 <=> MayTimeOut(flying', timedOut, deadline))
      BY <1>e, <2>1
    <2>3. /\ epc' \in {"callback", "disarm"} /\ UNCHANGED <<cur, why>>
          /\ \/ ~timerfd
             \/ F!NextTimeout(flying') = 0
             \/ timer' # 0
      <3>1. F!NextTimeout(flying') # -1 BY <2>2
      <3> QED BY <1>13, <3>1 DEF F!Complete
    <2>4. cur \in Transfers /\ pc[cur] = "sent" BY <1>0, <1>a, <2>0 DEF Had
    <2>5. Sorted' BY <2>0, <2>1 DEF Sorted, SortedBy
    <2>6. Members'
      <3>1. \A u \in Transfers : pc[u] \in InTheList <=> Within(flying, u)
        BY <2>0 DEF Members, Tidying
      <3> QED BY <2>0, <2>1, <2>3, <2>4, <3>1 DEF Members, InTheList, Tidying
    <2>7. Timed' BY <1>c, <2>0, <2>3 DEF Timed
    <2>8. Had' BY <2>0, <2>3 DEF Had, Completing, F!Disconnecting, F!Locked
    <2>9. Remembered' BY <2>0, <2>2, <2>3 DEF Remembered, MayTimeOut
    <2> QED BY <2>5, <2>6, <2>7, <2>8, <2>9
  <1>14. CASE F!Disarm
    <2>0. /\ epc = "disarm" /\ epc' = "callback" /\ F!NextTimeout(flying) = 0
          /\ UNCHANGED <<timerfd, now, present, flying, F!transfer, pc, urb, cur, why, todo>>
      BY <1>14 DEF F!Disarm, F!Disorder
    <2>1. ~MayTimeOut(flying, timedOut, deadline) BY <1>0, <1>e, <2>0 DEF Sorted
    <2>2. Sorted' BY <1>f, <2>0
    <2>3. Members' BY <2>0 DEF Members, Tidying, Within
    <2>4. Timed' BY <1>c, <2>0 DEF Timed
    <2>5. Had' BY <2>0 DEF Had, Completing, F!Disconnecting, F!Locked
    <2>6. Remembered' BY <2>0, <2>1 DEF Remembered, MayTimeOut
    <2> QED BY <2>2, <2>3, <2>4, <2>5, <2>6
  <1>15. CASE F!Callback
    <2>0. /\ epc = "callback" /\ cur' = 0 /\ why' = "none"
          /\ epc' = IF why = "no device" THEN "disconnect" ELSE "poll"
          /\ pc' = [pc EXCEPT ![cur] = IF @ = "freed" THEN @ ELSE "done"]
          /\ UNCHANGED <<timerfd, now, timer, present, flying, F!transfer, urb, todo, orderly>>
      BY <1>15 DEF F!Callback
    <2>1. cur \in Transfers /\ pc[cur] = "sent" /\ ~Within(flying, cur) /\ urb[cur] = "none"
      BY <1>0, <1>a, <2>0 DEF Had, Members, Tidying, Completing
    <2>2. pc'[cur] = "done" /\ \A u \in Transfers \ {cur} : pc'[u] = pc[u] BY <1>a, <2>0, <2>1
    <2>3. Sorted' BY <1>f, <2>0
    <2>4. Members' BY <2>0, <2>1, <2>2 DEF Members, InTheList, Tidying, Within
    <2>5. Timed'
      <3>1. cur \notin first BY <2>1 DEF Timed
      <3> QED BY <1>0, <1>c, <2>0, <2>2, <3>1 DEF Timed
    <2>6. Had'
      <3>1. F!Disconnecting' => F!Disconnecting BY <2>0 DEF F!Disconnecting
      <3> QED BY <2>0, <2>1, <2>2, <3>1 DEF Had, Completing, F!Locked
    <2>7. Remembered' BY <2>0, <2>1, <2>2 DEF Remembered, MayTimeOut, Within
    <2> QED BY <2>3, <2>4, <2>5, <2>6, <2>7
  <1>16. CASE F!Trigger \/ F!TimedOut
    <2>0. /\ epc = "poll" /\ epc' = "timeouts"
          /\ UNCHANGED <<timerfd, now, present, flying, F!transfer, pc, urb, cur, why, todo, orderly>>
      BY <1>16 DEF F!Trigger, F!TimedOut
    <2>1. Sorted' BY <1>f, <2>0
    <2>2. Members' BY <2>0 DEF Members, Tidying, Within
    <2>3. Timed' BY <1>c, <2>0 DEF Timed
    <2>4. Had' BY <2>0 DEF Had, Completing, F!Disconnecting, F!Locked
    <2>5. Remembered' BY <2>0 DEF Remembered
    <2> QED BY <2>1, <2>2, <2>3, <2>4, <2>5
  <1>17. CASE F!HandleTimeouts
    <2>0. /\ epc = "timeouts" /\ epc' = "scan"
          /\ todo' = {t \in F!Range(flying) : deadline[t] \in 1 .. now /\ ~timedOut[t]}
          /\ \A t \in todo' : pc[t] # "fail"
          /\ UNCHANGED <<timerfd, now, timer, present, flying, F!transfer, pc, urb, cur, why>>
      BY <1>17 DEF F!HandleTimeouts, F!Disorder
    <2>1. ASSUME NEW t \in todo' PROVE deadline[t] \in 1 .. now /\ pc[t] \in {"submit", "arm", "sent"}
      <3>1. t \in Transfers /\ Within(flying, t) BY <1>b, <2>0 DEF F!Range
      <3>2. pc[t] \in InTheList BY <3>1 DEF Members
      <3> QED BY <2>0, <3>2 DEF InTheList
    <2>2. Sorted' BY <1>f, <2>0
    <2>3. Members' BY <2>0 DEF Members, Tidying, Within
    <2>4. Timed' BY <2>0, <2>1 DEF Timed
    <2>5. Had' BY <2>0 DEF Had, Completing, F!Disconnecting, F!Locked
    <2>6. Remembered' BY <2>0 DEF Remembered
    <2> QED BY <2>2, <2>3, <2>4, <2>5, <2>6
  <1>18. CASE F!HandleTimeout
    <2> DEFINE I == {i \in DOMAIN flying : flying[i] \in todo}
               t == flying[F!Min(I)]
    <2>0. /\ epc = "scan" /\ todo # {} /\ timedOut' = [timedOut EXCEPT ![t] = TRUE]
          /\ F!Cancelled(t) /\ todo' = todo \ {t}
          /\ UNCHANGED <<timerfd, now, timer, present, flying, deadline, exact, first, pc,
                         epc, cur, why, orderly>>
      BY <1>18 DEF F!HandleTimeout
    <2>1. I # {}
      <3>1. PICK u \in todo : u \in Transfers BY <1>0, <2>0
      <3>2. pc[u] \in InTheList BY <3>1 DEF Timed, InTheList
      <3>3. Within(flying, u) BY <2>0, <3>1, <3>2 DEF Members, Tidying
      <3> QED BY <3>1, <3>3 DEF Within
    <2>2. I \in SUBSET Nat
      <3>1. DOMAIN flying = 1 .. Len(flying) BY <1>0
      <3> QED BY <3>1
    <2>3. t \in todo /\ t \in Transfers
      <3>1. F!Min(I) \in I BY <2>1, <2>2, FlyingMin
      <3> QED BY <1>0, <3>1
    <2> HIDE DEF t
    <2>4. /\ \A u \in Transfers \ {t} : timedOut'[u] = timedOut[u]
          /\ \A u \in Transfers : urb'[u] # "none" => urb[u] # "none"
      BY <1>a, <2>0, <2>3 DEF F!Cancelled
    <2>5. Sorted' BY <1>f, <2>0
    <2>6. Members' BY <2>0 DEF Members, Tidying, Within
    <2>7. Timed' BY <2>0, <2>3, <2>4 DEF Timed
    <2>8. Had' BY <2>0, <2>4 DEF Had, Completing, F!Disconnecting, F!Locked
    <2>9. Remembered' BY <2>0 DEF Remembered
    <2> QED BY <2>5, <2>6, <2>7, <2>8, <2>9
  <1>19. CASE F!TimeoutsHandled
    <2>0. /\ epc = "scan" /\ todo = {} /\ epc' = "poll"
          /\ timer' = IF timerfd /\ F!NextTimeout(flying) > 0 THEN F!NextTimeout(flying) ELSE timer
          /\ UNCHANGED <<timerfd, now, present, flying, F!transfer, pc, urb, cur, why, todo, orderly>>
      BY <1>19 DEF F!TimeoutsHandled
    <2>1. F!NextTimeout(flying) \in Nat
          /\ (F!NextTimeout(flying) # 0 <=> MayTimeOut(flying, timedOut, deadline))
      BY <1>0, <1>e DEF Sorted
    <2>2. timerfd /\ MayTimeOut(flying, timedOut, deadline) => timer' # 0 BY <2>0, <2>1
    <2>3. Sorted' BY <1>f, <2>0
    <2>4. Members' BY <2>0 DEF Members, Tidying, Within
    <2>5. Timed' BY <2>0 DEF Timed
    <2>6. Had' BY <2>0 DEF Had, Completing, F!Disconnecting, F!Locked
    <2>7. Remembered' BY <2>0, <2>2 DEF Remembered, MayTimeOut
    <2> QED BY <2>3, <2>4, <2>5, <2>6, <2>7
  <1>20. CASE F!Disconnect
    <2>0. /\ epc = "poll" /\ epc' = "disconnect" /\ \A t \in Transfers : ~F!Locked(t)
          /\ UNCHANGED <<timerfd, now, timer, present, flying, F!transfer, pc, urb, cur, why, todo>>
      BY <1>20 DEF F!Disconnect, F!Disorder
    <2>1. Sorted' BY <1>f, <2>0
    <2>2. Members' BY <2>0 DEF Members, Tidying, Within
    <2>3. Timed' BY <1>c, <2>0 DEF Timed
    <2>4. Had' BY <2>0 DEF Had, Completing, F!Disconnecting, F!Locked
    <2>5. Remembered' BY <2>0 DEF Remembered, MayTimeOut, Within
    <2> QED BY <2>1, <2>2, <2>3, <2>4, <2>5
  <1>21. CASE F!ToCancel
    <2>0. /\ epc = "disconnect" /\ epc' \in {"poll", "clear"}
          /\ \/ epc' = "poll" /\ cur' = cur
             \/ epc' = "clear" /\ flying # <<>> /\ cur' = flying[1]
          /\ UNCHANGED <<timerfd, now, timer, present, flying, F!transfer, pc, urb, why, todo, orderly>>
      BY <1>21 DEF F!ToCancel
    <2>1. cur = 0 /\ why = "none" BY <1>a, <2>0 DEF Completing
    <2>2. cur' # 0 => cur' \in Transfers /\ pc[cur'] = "sent"
      <3> SUFFICES ASSUME cur' # 0 PROVE cur' \in Transfers /\ pc[cur'] = "sent" OBVIOUS
      <3>1. 1 \in DOMAIN flying BY <1>0, <2>0, <2>1
      <3>2. cur' = flying[1] /\ flying[1] \in Transfers /\ Within(flying, flying[1])
        BY <1>b, <2>0, <2>1, <3>1
      <3>3. pc[flying[1]] \in InTheList BY <3>2 DEF Members
      <3>4. ~F!Locked(flying[1]) BY <2>0, <3>2 DEF Had, F!Disconnecting
      <3> QED BY <3>2, <3>3, <3>4 DEF InTheList, F!Locked
    <2>3. Sorted' BY <1>f, <2>0
    <2>4. Members' BY <2>0 DEF Members, Tidying, Within
    <2>5. Timed' BY <1>c, <2>0, <2>1 DEF Timed
    <2>6. Had'
      <3>1. F!Disconnecting /\ ~Completing' BY <2>0 DEF F!Disconnecting, Completing
      <3> QED BY <2>0, <2>2, <3>1 DEF Had, F!Locked
    <2>7. Remembered' BY <2>0 DEF Remembered, MayTimeOut, Within
    <2> QED BY <2>3, <2>4, <2>5, <2>6, <2>7
  <1>22. CASE F!Clear
    <2>0. /\ epc = "clear" /\ epc' = "complete" /\ why' = "no device"
          /\ urb' = [urb EXCEPT ![cur] = "none"]
          /\ UNCHANGED <<timerfd, now, timer, present, flying, F!transfer, pc, cur, todo, orderly>>
      BY <1>22 DEF F!Clear
    <2>1. cur \in Transfers BY <1>0, <1>a, <2>0
    <2>2. urb'[cur] = "none" /\ \A u \in Transfers \ {cur} : urb'[u] = urb[u] BY <1>a, <2>0, <2>1
    <2>3. Sorted' BY <1>f, <2>0
    <2>4. Members' BY <2>0 DEF Members, Tidying, Within
    <2>5. Timed' BY <1>c, <2>0 DEF Timed
    <2>6. Had'
      <3>1. F!Disconnecting BY <2>0 DEF F!Disconnecting
      <3> QED BY <1>g, <2>0, <2>2, <3>1 DEF Had, F!Locked
    <2>7. Remembered' BY <2>0 DEF Remembered
    <2> QED BY <2>3, <2>4, <2>5, <2>6, <2>7
  <1>23. CASE UNCHANGED F!vars
    <2>0. UNCHANGED <<timerfd, now, timer, flying, F!transfer, pc, urb, F!events, orderly>>
      BY <1>23 DEF F!vars
    <2>1. Sorted' BY <1>f, <2>0
    <2>2. Members' BY <2>0 DEF Members, Tidying, Within
    <2>3. Timed' BY <2>0 DEF Timed
    <2>4. Had' BY <2>0 DEF Had, Completing, F!Disconnecting, F!Locked
    <2>5. Remembered' BY <2>0 DEF Remembered, MayTimeOut, Within
    <2> QED BY <2>1, <2>2, <2>3, <2>4, <2>5
  <1> QED
    BY <1>1, <1>2, <1>3, <1>4, <1>5, <1>6, <1>7, <1>8, <1>9, <1>10, <1>11, <1>12, <1>13, <1>14,
       <1>15, <1>16, <1>17, <1>18, <1>19, <1>20, <1>21, <1>22, <1>23 DEF F!Next

LEMMA FlyingStep == FlyingInv /\ [F!Next]_F!vars => FlyingInv'
  <1> SUFFICES ASSUME FlyingInv, [F!Next]_F!vars PROVE FlyingInv' OBVIOUS
  <1>1. FlyingTypes' BY FlyingTypesKept DEF FlyingInv
  <1>2. orderly' => orderly
    BY DEF FlyingInv, FlyingTypes, F!Next, F!vars, F!Disorder, F!Submit, F!AddToFlyingList,
       F!Submitted,
       F!SubmitFails, F!DeleteFailed, F!Arm, F!Cancel, F!GiveUp, F!Answer, F!Reap, F!Called,
       F!Tick, F!Unplug, F!Complete,
       F!Disarm, F!Callback, F!Trigger, F!TimedOut, F!HandleTimeouts, F!HandleTimeout,
       F!TimeoutsHandled,
       F!Disconnect, F!ToCancel, F!Clear
  <1>3. orderly' => Orderly' BY <1>2, OrderKept DEF FlyingInv, Orderly
  <1> QED BY <1>1, <1>3 DEF FlyingInv

(* What the runs check of it.                                              *)
LEMMA FlyingSuffices == FlyingInv => F!TypeOK /\ F!InFlight /\ F!TimerSet
  <1> SUFFICES ASSUME FlyingInv PROVE F!TypeOK /\ F!InFlight /\ F!TimerSet OBVIOUS
  <1>1. F!TypeOK BY DEF FlyingInv, FlyingTypes
  <1> SUFFICES ASSUME orderly PROVE F!InFlight /\ F!TimerSet BY <1>1 DEF F!InFlight, F!TimerSet
  <1>2. FlyingTypes /\ Sorted /\ Members /\ Timed /\ Had /\ Remembered BY DEF FlyingInv, Orderly
  <1>3. \A t : t \in F!Range(flying) <=> Within(flying, t) BY DEF F!Range, Within
  <1>4. F!InFlight
    <2>1. \A i, j \in DOMAIN flying : i < j =>
            /\ flying[i] # flying[j]
            /\ deadline[flying[j]] # 0 => deadline[flying[i]] \in 1 .. deadline[flying[j]]
      BY <1>2 DEF Sorted, SortedBy
    <2>2. \A t \in Transfers :
            pc[t] \in {"submit", "arm", "fail", "sent"} <=>
              (t \in F!Range(flying) \/ (epc \in {"disarm", "callback"} /\ cur = t))
      BY <1>2, <1>3 DEF Members, InTheList, Tidying
    <2> QED BY <1>2, <2>1, <2>2 DEF F!InFlight, Timed, Had
  <1>5. F!TimerSet
    <2>1. flying \in Seq(Transfers) BY <1>1 DEF F!TypeOK
    <2>2. F!NextTimeout(flying) # 0 <=> MayTimeOut(flying, timedOut, deadline)
      BY <1>2, <2>1, NextTimeouts DEF Sorted
    <2> QED BY <1>2, <1>3, <2>2 DEF Remembered, F!TimerSet
  <1> QED BY <1>1, <1>4, <1>5

(* The table of usbi_poll, and who waits for its events.                   *)
LEMMA PollCardinality == ASSUME NEW S PROVE W!Cardinality(S) = Cardinality(S)
  BY DEF Cardinality, W!Cardinality

LEMMA PollMin ==
  ASSUME NEW S \in SUBSET Nat, S # {}
  PROVE  W!Min(S) \in S
  <1>1. \E n \in S : \A m \in S : ~(<<m, n>> \in OpToRel(<, Nat))
    BY NatLessThanWellFounded, WFMin
  <1>2. PICK n \in S : \A m \in S : ~(m < n) BY <1>1 DEF OpToRel
  <1>3. \A m \in S : n =< m BY <1>2
  <1> QED BY <1>3 DEF W!Min

(* Which rows of the table are whose: that of a transfer is there from     *)
(* when it is created until it is freed, although its descriptor is closed *)
(* before.                                                                 *)
RowOf(i, t) == table[i].fd # 0 /\ table[i].of = t
Rowed(t) == fd[t] # 0 /\ pc[t] # "create"
Handled == W!Min(triggered \ {0})
Taken(t) == pc[0] \in {"done", "freed"} /\ t = Handled
Closing(t) == pc[t] = "freeing" \/ (pc[0] = "freed" /\ t = Handled)
Changing == {t \in Submitters : pc[t] \in {"write", "lock", "read", "reading", "unlock"}}
Written == {t \in Submitters : pc[t] \in {"lock", "read", "reading"}}

PollTypes ==
  /\ table \in [W!Rows -> [fd : Nat, of : W!Threads \cup {-1}]]
  /\ section \in [W!Rows -> W!Threads \cup {-1}]
  /\ fds \subseteq Nat /\ W!Pipe \in fds
  /\ signaled \in BOOLEAN /\ InternalHigh \in Nat
  /\ pc \in [W!Threads -> {"idle", "create", "submit", "free", "freeing", "notify", "write", "lock",
                         "read", "reading", "unlock", "poll", "wait", "handle", "done", "freed"}]
  /\ \A t \in Submitters : pc[t] \notin {"poll", "wait", "handle", "done", "freed"}
  /\ pc[0] \in {"idle", "poll", "wait", "handle", "done", "freed", "unlock"}
  /\ at \in [W!Threads -> Nat \ {0}]
  /\ fd \in [W!Threads -> Nat] /\ fd[0] = W!Pipe
  /\ \A t \in Submitters : fd[t] = 0 \/ fd[t] \in W!Pipe + 1 .. W!Pipe + MAX_FDS + 1
  /\ \A t \in Submitters : pc[t] \in {"create", "submit", "free", "freeing"} => fd[t] # 0
  /\ pollfds \subseteq Nat /\ modify \in Nat /\ todo \subseteq Nat
  /\ waits \subseteq W!Threads /\ triggered \subseteq W!Threads /\ events_lock \in W!Threads \cup {-1}

RowsOwned ==
  /\ \A i \in W!Rows : table[i].fd # 0 =>
       \/ table[i] = W!Other
       \/ \E t \in W!Threads : RowOf(i, t) /\ table[i].fd = fd[t] /\ Rowed(t)
  /\ \A i, j \in W!Rows, t \in W!Threads : RowOf(i, t) /\ RowOf(j, t) => i = j
  /\ \A t \in W!Threads : Rowed(t) => \E i \in W!Rows : RowOf(i, t)
  /\ table[1] = [fd |-> W!Pipe, of |-> 0]

(* Of those that are not closed, each is of one only.                      *)
OneEach ==
  /\ \A t \in W!Threads : fd[t] # 0 /\ ~Closing(t) => fd[t] \in fds
  /\ \A t, u \in W!Threads : fd[t] # 0 /\ fd[t] = fd[u] /\ ~Closing(t) /\ ~Closing(u) => t = u

(* A search has not passed the row, or is at it; who is in a critical      *)
(* section.                                                                *)
NotPassed ==
  /\ \A t \in Submitters : pc[t] = "free" => \A i \in W!Rows : RowOf(i, t) => at[t] =< i
  /\ \A t \in Submitters : pc[t] \in {"write", "read", "reading"} => at[t] = 1
  /\ \A t \in Submitters : pc[t] = "freeing" => at[t] \in W!Rows /\ RowOf(at[t], t)
  /\ pc[0] = "done" => \A i \in W!Rows : RowOf(i, Handled) => at[0] =< i
  /\ pc[0] = "freed" => at[0] \in W!Rows /\ RowOf(at[0], Handled)
  /\ pc[0] = "poll" => \A i \in W!Rows, t \in W!InFlight \cup {0} :
                         RowOf(i, t) /\ fd[t] = W!Min(todo) => at[0] =< i
Sections ==
  \A i \in W!Rows, t \in W!Threads :
    section[i] = t <=> pc[t] \in {"freeing", "reading", "freed"} /\ at[t] = i

(* What is polled, and what has been seen of it.                           *)
Polled ==
  /\ \A t \in W!InFlight : ~Taken(t) => fd[t] \in pollfds
  /\ W!Pipe \in pollfds
  /\ \A f \in pollfds : f = W!Pipe \/ \E t \in W!InFlight : (~Taken(t) /\ fd[t] = f)
Seen ==
  /\ Polled
  /\ pc[0] = "poll" => todo # {} /\ todo \subseteq pollfds
  /\ completed \subseteq W!InFlight /\ triggered \ {0} \subseteq completed
  /\ pc[0] \in {"poll", "wait"} => waits \ {0} \subseteq W!InFlight
  /\ pc[0] \in {"done", "freed"} => triggered \ {0} # {}
  /\ pc[0] = "wait" => todo = {} /\ triggered = {}

(* Who interrupts the event thread, and whom it does not see otherwise.    *)
Notified ==
  /\ \A t \in Submitters : events_lock = t <=> pc[t] \in {"read", "reading", "unlock"}
  /\ events_lock = 0 <=> pc[0] # "idle"
  /\ modify = Cardinality(Changing) /\ InternalHigh = Cardinality(Written)
  /\ signaled = (InternalHigh > 0)
  /\ pc[0] \in {"poll", "wait"} /\ modify = 0 =>
       \A t \in W!InFlight : pc[t] # "notify" => fd[t] \in todo \/ t \in waits \cup triggered

PollInv == PollTypes /\ RowsOwned /\ OneEach /\ NotPassed /\ Sections /\ Seen /\ Notified

LEMMA PollFacts ==
  /\ Submitters \subseteq Nat /\ 0 \notin Submitters /\ IsFiniteSet(Submitters)
  /\ W!Threads = Submitters \cup {0} /\ 0 \in W!Threads /\ -1 \notin W!Threads
  /\ W!Rows = 1 .. MAX_FDS /\ MAX_FDS \in Nat \ {0} /\ 1 \in W!Rows /\ W!Rows \subseteq Nat
  /\ W!Pipe = 3
  <1>1. /\ Submitters \subseteq Nat \ {0} /\ IsFiniteSet(Submitters) /\ MAX_FDS \in Nat \ {0}
    BY PollAssumption
  <1>2. -1 \notin W!Threads BY <1>1 DEF W!Threads
  <1>3. 1 \in W!Rows /\ W!Rows \subseteq Nat BY <1>1 DEF W!Rows
  <1> QED BY <1>1, <1>2, <1>3 DEF W!Threads, W!Rows, W!Pipe

LEMMA PollTypesKept ==
  ASSUME PollInv, [W!Next]_W!vars
  PROVE  PollTypes'
  <1> USE PollFacts
  <1>0. PollTypes /\ Seen BY DEF PollInv
  <1>p. at \in [W!Threads -> Nat \ {0}] BY <1>0 DEF PollTypes
  <1>s. section \in [W!Rows -> W!Threads \cup {-1}] BY <1>0 DEF PollTypes
  <1> USE DEF W!rows, W!pipe, W!poll, W!context
  <1>1. ASSUME NEW t \in W!Threads, W!Skip(t) PROVE PollTypes'
    <2>1. at' = [at EXCEPT ![t] = at[t] + 1] /\ UNCHANGED <<W!rows, W!pipe, completed, pc, fd, W!context, W!poll>>
      BY <1>1 DEF W!Skip
    <2>2. at' \in [W!Threads -> Nat \ {0}] BY <1>p, <2>1
    <2> QED BY <1>0, <2>1, <2>2 DEF PollTypes
  <1>2. ASSUME NEW t \in W!Threads, W!Create(t) PROVE PollTypes'
    <2>1. /\ pc[t] = "idle" /\ fd[t] = 0 /\ pc' = [pc EXCEPT ![t] = "create"] /\ at' = [at EXCEPT ![t] = 1]
          /\ UNCHANGED <<table, section, W!pipe, completed, W!context, W!poll>>
      BY <1>2 DEF W!Create, W!Search, W!Goto
    <2>2. PICK new \in W!Pipe .. W!Pipe + MAX_FDS + 1 \ fds :
            fds' = fds \cup {new} /\ fd' = [fd EXCEPT ![t] = new]
      BY <1>2 DEF W!Create
    <2>3. t \in Submitters BY <1>0, <2>1 DEF PollTypes
    <2>4. new \in W!Pipe + 1 .. W!Pipe + MAX_FDS + 1 /\ new \in Nat \ {0}
      <3>1. new # W!Pipe BY <1>0 DEF PollTypes
      <3> QED BY <3>1
    <2>5. fds' \subseteq Nat /\ W!Pipe \in fds' /\ fd' \in [W!Threads -> Nat] /\ fd'[0] = W!Pipe
      BY <1>0, <2>2, <2>3, <2>4 DEF PollTypes
    <2>6. \A u \in Submitters : fd'[u] = 0 \/ fd'[u] \in W!Pipe + 1 .. W!Pipe + MAX_FDS + 1
      BY <1>0, <2>2, <2>3, <2>4 DEF PollTypes
    <2>7. \A u \in Submitters : pc'[u] \in {"create", "submit", "free", "freeing"} => fd'[u] # 0
      BY <1>0, <2>1, <2>2, <2>3, <2>4 DEF PollTypes
    <2>8. at' \in [W!Threads -> Nat \ {0}] BY <1>p, <2>1
    <2> QED BY <1>0, <2>1, <2>3, <2>5, <2>6, <2>7, <2>8 DEF PollTypes
  <1>a. ASSUME NEW t \in W!Threads,
               pc[t] \in {"create", "submit", "free", "freeing", "notify", "write", "lock", "read",
                          "reading"}
        PROVE  t \in Submitters
    BY <1>0, <1>a DEF PollTypes
  <1>3. ASSUME NEW t \in W!Threads, W!Created(t) PROVE PollTypes'
    <2>1. /\ pc[t] = "create" /\ table' = [table EXCEPT ![at[t]] = [fd |-> fd[t], of |-> t]]
          /\ pc' = [pc EXCEPT ![t] = "submit"]
          /\ UNCHANGED <<section, fds, W!pipe, completed, at, fd, W!context, W!poll>>
      BY <1>3 DEF W!Created, W!Goto
    <2>2. t \in Submitters BY <1>a, <2>1
    <2>3. table' \in [W!Rows -> [fd : Nat, of : W!Threads \cup {-1}]]
      <3>1. [fd |-> fd[t], of |-> t] \in [fd : Nat, of : W!Threads \cup {-1}] BY <1>0 DEF PollTypes
      <3> QED BY <1>0, <2>1, <3>1 DEF PollTypes
    <2> QED BY <1>0, <2>1, <2>2, <2>3 DEF PollTypes
  <1>4. ASSUME NEW t \in W!Threads, W!TableFull(t) \/ W!Freed(t) PROVE PollTypes'
    <2>1. /\ pc[t] \in {"create", "freeing"} /\ fd' = [fd EXCEPT ![t] = 0]
          /\ pc' = [pc EXCEPT ![t] = "idle"] /\ at' = [at EXCEPT ![t] = 1]
          /\ fds' = fds \/ fds' = fds \ {fd[t]}
          /\ UNCHANGED <<W!pipe, completed, W!context, W!poll>>
      BY <1>4 DEF W!TableFull, W!Freed, W!Search, W!Goto
    <2>2. t \in Submitters BY <1>a, <2>1
    <2>3. fd[t] # W!Pipe BY <1>0, <2>2 DEF PollTypes
    <2>4. table' \in [W!Rows -> [fd : Nat, of : W!Threads \cup {-1}]]
      <3>1. W!NoRow \in [fd : Nat, of : W!Threads \cup {-1}] BY DEF W!NoRow
      <3>2. table' = table \/ table' = [table EXCEPT ![at[t]] = W!NoRow]
        BY <1>4 DEF W!TableFull, W!Freed
      <3>3. table \in [W!Rows -> [fd : Nat, of : W!Threads \cup {-1}]] BY <1>0 DEF PollTypes
      <3> HIDE DEF W!NoRow
      <3> QED BY <3>1, <3>2, <3>3
    <2>5. section' \in [W!Rows -> W!Threads \cup {-1}]
      <3>1. section' = section \/ section' = [section EXCEPT ![at[t]] = -1]
        BY <1>4 DEF W!TableFull, W!Freed, W!Leaves
      <3> QED BY <1>s, <3>1
    <2>6. at' \in [W!Threads -> Nat \ {0}] BY <1>p, <2>1
    <2>7. fd' \in [W!Threads -> Nat] /\ fd'[0] = W!Pipe /\ fds' \subseteq Nat /\ W!Pipe \in fds'
      BY <1>0, <2>1, <2>2, <2>3 DEF PollTypes
    <2>8. /\ \A u \in Submitters : fd'[u] = 0 \/ fd'[u] \in W!Pipe + 1 .. W!Pipe + MAX_FDS + 1
          /\ \A u \in Submitters : pc'[u] \in {"create", "submit", "free", "freeing"} => fd'[u] # 0
      BY <1>0, <2>1, <2>2 DEF PollTypes
    <2> QED BY <1>0, <2>1, <2>2, <2>4, <2>5, <2>6, <2>7, <2>8 DEF PollTypes
  <1>5. ASSUME NEW t \in W!Threads, W!Submitted(t) \/ W!SubmitFails(t) PROVE PollTypes'
    <2>1. PICK p \in {"notify", "free"} :
            /\ pc[t] = "submit" /\ pc' = [pc EXCEPT ![t] = p]
            /\ UNCHANGED <<W!rows, W!pipe, completed, fd, modify, events_lock, W!poll>>
      BY <1>5 DEF W!Submitted, W!SubmitFails, W!Search, W!Goto
    <2>2. t \in Submitters BY <1>a, <2>1
    <2>3. at' \in [W!Threads -> Nat \ {0}]
      <3>1. at' = at \/ at' = [at EXCEPT ![t] = 1] BY <1>5 DEF W!Submitted, W!SubmitFails, W!Search
      <3> QED BY <1>p, <3>1
    <2>4. pollfds' \subseteq Nat
      <3>1. pollfds' = pollfds \/ pollfds' = pollfds \cup {fd[t]} BY <1>5 DEF W!Submitted,
          W!SubmitFails
      <3>2. fd[t] \in Nat /\ pollfds \subseteq Nat BY <1>0 DEF PollTypes
      <3> QED BY <3>1, <3>2
    <2> QED BY <1>0, <2>1, <2>2, <2>3, <2>4 DEF PollTypes
  <1>6. ASSUME NEW t \in W!Threads, W!Free(t) PROVE PollTypes'
    <2>1. /\ pc[t] = "free" /\ pc' = [pc EXCEPT ![t] = "freeing"]
          /\ section' = [section EXCEPT ![at[t]] = t] /\ fds' = fds \ {fd[t]}
          /\ UNCHANGED <<table, W!pipe, completed, at, fd, W!context, W!poll>>
      BY <1>6 DEF W!Free, W!Holds, W!Goto
    <2>2. t \in Submitters /\ fd[t] # W!Pipe BY <1>0, <1>a, <2>1 DEF PollTypes
    <2> QED BY <1>0, <2>1, <2>2 DEF PollTypes
  <1>7. ASSUME NEW t \in W!Threads, W!Complete(t) PROVE PollTypes'
    BY <1>0, <1>7 DEF W!Complete, PollTypes
  <1>8. ASSUME NEW t \in W!Threads, W!Notify(t) \/ W!Write(t) \/ W!LockEvents(t) PROVE PollTypes'
    <2>1. PICK p \in {"write", "lock", "read"} :
            /\ pc[t] \in {"notify", "write", "lock"} /\ pc' = [pc EXCEPT ![t] = p]
            /\ UNCHANGED <<W!rows, completed, fd, pollfds, W!poll>>
      BY <1>8 DEF W!Notify, W!Write, W!LockEvents, W!Search, W!Goto
    <2>2. t \in Submitters BY <1>a, <2>1
    <2>3. at' \in [W!Threads -> Nat \ {0}]
      <3>1. at' = at \/ at' = [at EXCEPT ![t] = 1] BY <1>8 DEF W!Notify, W!Write, W!LockEvents,
                                                      W!Search
      <3> QED BY <1>p, <3>1
    <2>4. signaled' \in BOOLEAN /\ InternalHigh' \in Nat /\ modify' \in Nat
      <3>1. signaled \in BOOLEAN /\ InternalHigh \in Nat /\ modify \in Nat BY <1>0 DEF PollTypes
      <3>2. CASE W!Notify(t) BY <3>1, <3>2 DEF W!Notify
      <3>3. CASE W!Write(t) BY <3>1, <3>3 DEF W!Write
      <3>4. CASE W!LockEvents(t) BY <3>1, <3>4 DEF W!LockEvents
      <3> QED BY <1>8, <3>2, <3>3, <3>4
    <2>5. events_lock' \in W!Threads \cup {-1}
      <3>1. events_lock' = events_lock \/ events_lock' = t BY <1>8 DEF W!Notify, W!Write,
                                                              W!LockEvents
      <3> QED BY <1>0, <3>1 DEF PollTypes
    <2> QED BY <1>0, <2>1, <2>2, <2>3, <2>4, <2>5 DEF PollTypes
  <1>9. ASSUME NEW t \in W!Threads, W!Read(t) PROVE PollTypes'
    <2>1. t \in Submitters BY <1>a, <1>9 DEF W!Read
    <2> QED BY <1>0, <1>9, <2>1 DEF W!Read, W!Holds, W!Goto, PollTypes
  <1>10. ASSUME NEW t \in W!Threads, W!ReadEnds(t) PROVE PollTypes'
    <2>1. t \in Submitters /\ signaled BY <1>a, <1>10 DEF W!ReadEnds
    <2>2. InternalHigh' = InternalHigh - 1 /\ signaled' = (InternalHigh' > 0) BY <1>10
        DEF W!ReadEnds
    <2>3. InternalHigh \in Nat /\ InternalHigh > 0
      BY <1>0, <2>1 DEF PollInv, PollTypes, Notified
    <2>4. InternalHigh' \in Nat /\ signaled' \in BOOLEAN BY <2>2, <2>3
    <2> QED BY <1>0, <1>10, <2>1, <2>4 DEF W!ReadEnds, W!Leaves, W!Goto, PollTypes
  <1>11. ASSUME NEW t \in W!Threads, W!Unlock(t) PROVE PollTypes'
    <2>1. /\ pc[t] = "unlock" /\ pc' = [pc EXCEPT ![t] = "idle"] /\ at' = [at EXCEPT ![t] = 1]
          /\ modify' = IF t = 0 THEN modify ELSE modify - 1
          /\ events_lock' = -1 /\ UNCHANGED <<W!rows, W!pipe, completed, fd, pollfds, W!poll>>
      BY <1>11 DEF W!Unlock, W!Search, W!Goto
    <2>2. modify' \in Nat
      <3>1. CASE t = 0 BY <1>0, <2>1, <3>1 DEF PollTypes
      <3>2. CASE t # 0
        <4>1. t \in Changing BY <2>1, <3>2 DEF Changing
        <4>2. Changing \subseteq Submitters BY DEF Changing
        <4>3. IsFiniteSet(Changing) BY <4>2, FS_Subset
        <4>4. Cardinality(Changing) # 0 BY <4>1, <4>3, FS_EmptySet
        <4>5. modify = Cardinality(Changing) /\ modify \in Nat BY <1>0 DEF PollInv, PollTypes,
            Notified
        <4> QED BY <2>1, <3>2, <4>4, <4>5
      <3> QED BY <3>1, <3>2
    <2>3. at' \in [W!Threads -> Nat \ {0}] BY <1>p, <2>1
    <2> QED BY <1>0, <2>1, <2>2, <2>3 DEF PollTypes
  <1>12. CASE W!PollBegins
    <2>1. at' \in [W!Threads -> Nat \ {0}] BY <1>p, <1>12 DEF W!PollBegins, W!Search
    <2> QED BY <1>0, <1>12, <2>1 DEF W!PollBegins, W!Search, W!Goto, PollTypes
  <1>13. CASE W!PollNext
    <2>1. PICK p \in {"poll", "handle", "wait"} :
            /\ at' = [at EXCEPT ![0] = 1] /\ pc' = [pc EXCEPT ![0] = p]
            /\ todo' \subseteq todo /\ pc[0] = "poll" /\ at[0] \in W!Rows
            /\ UNCHANGED <<W!rows, W!pipe, completed, fd, W!context>>
      BY <1>13 DEF W!PollNext, W!Search, W!Goto, W!Enters, W!Here
    <2>2. table[at[0]].of \in W!Threads
      <3> DEFINE i == at[0]
      <3>1. table[i].fd = W!Min(todo) BY <1>13 DEF W!PollNext, W!Enters, W!Here, W!Wanted
      <3>2. W!Min(todo) \in pollfds /\ W!Min(todo) \in Nat
        <4>1. todo # {} /\ todo \subseteq pollfds /\ todo \subseteq Nat BY <1>0, <2>1 DEF Seen,
            PollTypes
        <4>2. W!Min(todo) \in todo BY <4>1, PollMin
        <4> QED BY <4>1, <4>2
      <3>3. W!Min(todo) = W!Pipe \/ \E t \in Submitters : fd[t] # 0 /\ fd[t] = W!Min(todo)
        BY <1>0, <3>2 DEF Seen, Polled, W!InFlight
      <3>4. W!Min(todo) \in W!Pipe .. W!Pipe + MAX_FDS + 1 BY <1>0, <3>3 DEF PollTypes
      <3>5. W!Min(todo) # 0 /\ W!Min(todo) # W!Other.fd BY <3>4 DEF W!Other
      <3> QED BY <2>1, <3>1, <3>5 DEF PollInv, RowsOwned, RowOf
    <2>3. /\ triggered' \subseteq triggered \cup {table[at[0]].of}
          /\ waits' \subseteq waits \cup {table[at[0]].of}
      BY <1>13 DEF W!PollNext
    <2>4. at' \in [W!Threads -> Nat \ {0}] BY <1>p, <2>1
    <2>5. triggered' \subseteq W!Threads /\ waits' \subseteq W!Threads
      BY <1>0, <2>2, <2>3 DEF PollTypes
    <2>6. todo' \subseteq Nat BY <1>0, <2>1 DEF PollTypes
    <2>7. \A u \in Submitters : pc'[u] = pc[u] BY <2>1
    <2> QED BY <1>0, <2>1, <2>4, <2>5, <2>6, <2>7 DEF PollTypes
  <1>14. CASE W!PollReturns
    <2>1. triggered' \subseteq W!Threads
      <3>1. triggered \subseteq W!Threads /\ waits \subseteq W!Threads BY <1>0 DEF PollTypes
      <3>2. triggered' = triggered \/ \E of \in waits : triggered' = {of} BY <1>14 DEF W!PollReturns
      <3> QED BY <3>1, <3>2
    <2>2. PICK p \in {"handle", "unlock"} :
            /\ pc' = [pc EXCEPT ![0] = p]
            /\ UNCHANGED <<W!rows, W!pipe, completed, at, fd, W!context, todo, waits>>
      BY <1>14 DEF W!PollReturns, W!Goto
    <2> QED BY <1>0, <2>1, <2>2 DEF PollTypes
  <1>15. CASE W!Handle
    <2>1. PICK p \in {"unlock", "done"} :
            /\ pc' = [pc EXCEPT ![0] = p] /\ pollfds' \subseteq pollfds
            /\ UNCHANGED <<W!rows, W!pipe, completed, fd, modify, events_lock, W!poll>>
      BY <1>15 DEF W!Handle, W!Search, W!Goto
    <2>2. at' \in [W!Threads -> Nat \ {0}]
      <3>1. at' = at \/ at' = [at EXCEPT ![0] = 1] BY <1>15 DEF W!Handle, W!Search
      <3> QED BY <1>0, <3>1 DEF PollTypes
    <2> QED BY <1>0, <2>1, <2>2 DEF PollTypes
  <1>b. pc[0] \in {"done", "freed"} => Handled \in W!InFlight /\ Handled \in Submitters
    <2>1. triggered \ {0} \subseteq W!InFlight /\ W!InFlight \subseteq Submitters
      BY <1>0 DEF Seen, W!InFlight
    <2>2. triggered \ {0} # {} => Handled \in triggered \ {0}
      <3>1. triggered \ {0} \in SUBSET Nat BY <2>1
      <3> QED BY <3>1, PollMin DEF Handled
    <2> QED BY <1>0, <2>1, <2>2 DEF Seen
  <1>16. CASE W!FreeCompleted
    <2>1. /\ pc[0] = "done" /\ pc' = [pc EXCEPT ![0] = "freed"] /\ section' = [section EXCEPT ![at[0]] = 0]
          /\ fds' = fds \ {fd[Handled]}
          /\ UNCHANGED <<table, W!pipe, completed, at, fd, W!context, W!poll>>
      BY <1>16 DEF W!FreeCompleted, W!Holds, W!Goto, W!Wanted, Handled
    <2>2. fd[Handled] # W!Pipe
      <3>1. \A u \in Submitters : fd[u] # W!Pipe BY <1>0 DEF PollTypes
      <3> QED BY <1>b, <2>1, <3>1
    <2> QED BY <1>0, <2>1, <2>2 DEF PollTypes
  <1>17. CASE W!FreedCompleted
    <2>1. /\ pc[0] = "freed" /\ pc' = [pc EXCEPT ![0] = "handle"]
          /\ table' = [table EXCEPT ![at[0]] = W!NoRow] /\ section' = [section EXCEPT ![at[0]] = -1]
          /\ fd' = [fd EXCEPT ![Handled] = 0] /\ triggered' = triggered \ {Handled}
          /\ UNCHANGED <<fds, W!pipe, at, W!context, todo, waits>>
      BY <1>17 DEF W!FreedCompleted, W!Leaves, W!Goto, Handled
    <2>2. Handled \in Submitters /\ pc[Handled] \notin {"create", "submit", "free", "freeing"}
      BY <1>b, <2>1 DEF W!InFlight
    <2>3. table' \in [W!Rows -> [fd : Nat, of : W!Threads \cup {-1}]]
      <3>1. W!NoRow \in [fd : Nat, of : W!Threads \cup {-1}] BY DEF W!NoRow
      <3> QED BY <1>0, <2>1, <3>1 DEF PollTypes
    <2>4. /\ fd' \in [W!Threads -> Nat] /\ fd'[0] = W!Pipe
          /\ \A u \in Submitters : fd'[u] = 0 \/ fd'[u] \in W!Pipe + 1 .. W!Pipe + MAX_FDS + 1
      BY <1>0, <2>1, <2>2 DEF PollTypes
    <2>5. \A u \in Submitters : pc'[u] \in {"create", "submit", "free", "freeing"} => fd'[u] # 0
      BY <1>0, <2>1, <2>2 DEF PollTypes
    <2> QED BY <1>0, <2>1, <2>3, <2>4, <2>5 DEF PollTypes
  <1>18. CASE UNCHANGED W!vars BY <1>0, <1>18 DEF W!vars, PollTypes
  <1> QED
    BY <1>1, <1>2, <1>3, <1>4, <1>5, <1>6, <1>7, <1>8, <1>9, <1>10, <1>11, <1>12, <1>13, <1>14,
       <1>15, <1>16, <1>17, <1>18 DEF W!Next

LEMMA PollInit == W!Init => PollInv
  <1> SUFFICES ASSUME W!Init PROVE PollInv OBVIOUS
  <1> USE PollFacts
  <1>1. PICK other \in {W!NoRow, W!Other} :
          table = [i \in W!Rows |-> IF i = 1 THEN [fd |-> W!Pipe, of |-> 0]
                                  ELSE IF i = 2 THEN other ELSE W!NoRow]
    BY DEF W!Init
  <1>2. /\ section = [i \in W!Rows |-> -1] /\ fds = {W!Pipe}
        /\ signaled = FALSE /\ InternalHigh = 0 /\ completed = {}
        /\ pc = [t \in W!Threads |-> "idle"] /\ at = [t \in W!Threads |-> 1]
        /\ fd = [t \in W!Threads |-> IF t = 0 THEN W!Pipe ELSE 0]
        /\ pollfds = {W!Pipe} /\ modify = 0 /\ events_lock = -1
        /\ todo = {} /\ waits = {} /\ triggered = {}
    BY DEF W!Init
  <1>3. \A i \in W!Rows : i # 1 => table[i] = W!NoRow \/ table[i] = W!Other
    BY <1>1
  <1>4. table[1] = [fd |-> W!Pipe, of |-> 0] BY <1>1
  <1>5. W!NoRow.fd = 0 /\ W!NoRow.of = 0 /\ W!Other.of = -1 /\ W!Other.fd # 0 BY DEF W!NoRow,
      W!Other
  <1>6. table \in [W!Rows -> [fd : Nat, of : W!Threads \cup {-1}]]
    <2>1. /\ [fd |-> W!Pipe, of |-> 0] \in [fd : Nat, of : W!Threads \cup {-1}]
          /\ W!NoRow \in [fd : Nat, of : W!Threads \cup {-1}]
          /\ W!Other \in [fd : Nat, of : W!Threads \cup {-1}]
      BY DEF W!NoRow, W!Other
    <2> HIDE DEF W!NoRow, W!Other
    <2> QED BY <1>1, <2>1
  <1>7. PollTypes
    <2>1. W!Pipe \in Nat /\ 1 \in Nat \ {0} OBVIOUS
    <2>2. at \in [W!Threads -> Nat \ {0}] /\ fd \in [W!Threads -> Nat] /\ fd[0] = W!Pipe
      BY <1>2, <2>1
    <2>3. section \in [W!Rows -> W!Threads \cup {-1}] BY <1>2
    <2>4. fds \subseteq Nat /\ W!Pipe \in fds /\ pollfds \subseteq Nat BY <1>2, <2>1
    <2>5. \A t \in Submitters : fd[t] = 0 BY <1>2
    <2> QED BY <1>2, <1>6, <2>2, <2>3, <2>4, <2>5 DEF PollTypes
  <1>8. RowsOwned
    <2>1. \A i \in W!Rows : table[i].fd # 0 => table[i] = W!Other \/ i = 1 BY <1>3, <1>5
    <2>2. Rowed(0) /\ \A t \in W!Threads : Rowed(t) => t = 0 BY <1>2 DEF Rowed
    <2>3. RowOf(1, 0) /\ \A i \in W!Rows, t \in W!Threads : RowOf(i, t) => i = 1
      BY <1>3, <1>4, <1>5 DEF RowOf
    <2> QED BY <1>2, <1>4, <2>1, <2>2, <2>3 DEF RowsOwned
  <1>9. OneEach BY <1>2 DEF OneEach
  <1>10. NotPassed /\ Sections BY <1>2 DEF NotPassed, Sections
  <1>11. W!InFlight = {} /\ Changing = {} /\ Written = {} BY <1>2 DEF W!InFlight, Changing, Written
  <1>12. Seen BY <1>2, <1>11 DEF Seen, Polled
  <1>13. Notified
    <2>1. Cardinality({}) = 0 BY FS_EmptySet
    <2>2. \A t \in Submitters : t # -1 OBVIOUS
    <2>3. modify = Cardinality(Changing) /\ InternalHigh = Cardinality(Written)
      BY <1>2, <1>11, <2>1
    <2>4. signaled = (InternalHigh > 0)
      <3>1. (InternalHigh > 0) = FALSE BY <1>2
      <3> QED BY <1>2, <3>1
    <2>5. \A t \in Submitters : events_lock = t <=> pc[t] \in {"read", "reading", "unlock"}
      BY <1>2, <2>2
    <2>6. events_lock = 0 <=> pc[0] # "idle" BY <1>2
    <2>7. pc[0] \notin {"poll", "wait"} BY <1>2
    <2> QED BY <2>3, <2>4, <2>5, <2>6, <2>7 DEF Notified
  <1> QED BY <1>7, <1>8, <1>9, <1>10, <1>12, <1>13 DEF PollInv

(* The event thread frees one that is in flight, which no submitter frees. *)
LEMMA HandledIs ==
  ASSUME PollInv
  PROVE  /\ pc[0] \in {"handle", "done", "freed"} /\ triggered \ {0} # {} =>
              Handled \in W!InFlight /\ Handled \in Submitters /\ Handled \in triggered \ {0}
         /\ pc[0] \in {"done", "freed"} => triggered \ {0} # {}
         /\ \A t \in W!Threads : pc[t] # "freeing" /\ t \notin W!InFlight => ~Closing(t)
         /\ \A t \in W!Threads : pc[0] # "freed" /\ t \in W!InFlight \cup {0} => ~Closing(t)
         /\ \A t \in W!Threads :
              pc[t] \in {"create", "submit", "free", "freeing", "notify", "write", "lock", "read",
                         "reading"} => t \in Submitters
  <1> USE PollFacts
  <1>1. triggered \ {0} \subseteq W!InFlight /\ W!InFlight \subseteq Submitters
    BY DEF PollInv, Seen, W!InFlight
  <1>2. triggered \ {0} # {} => Handled \in triggered \ {0}
    <2>1. triggered \ {0} \in SUBSET Nat BY <1>1
    <2> QED BY <2>1, PollMin DEF Handled
  <1>3. pc[0] \in {"done", "freed"} => triggered \ {0} # {} BY DEF PollInv, Seen
  <1>4. pc[0] # "freeing" BY DEF PollInv, PollTypes
  <1>5. \A t \in W!InFlight : pc[t] # "freeing" BY DEF W!InFlight
  <1>6. \A t \in W!Threads :
          pc[t] \in {"create", "submit", "free", "freeing", "notify", "write", "lock", "read",
                     "reading"} => t \in Submitters
    BY DEF PollInv, PollTypes
  <1> QED BY <1>1, <1>2, <1>3, <1>4, <1>5, <1>6 DEF Closing

(* Nobody enters a row of another: who has closed the descriptor that is   *)
(* used again is still in the critical section of its row.                 *)
LEMMA EntersOwn ==
  ASSUME PollInv, NEW i \in W!Rows, NEW t \in W!Threads,
         fd[t] # 0, ~Closing(t), table[i].fd = fd[t], section[i] = -1
  PROVE  RowOf(i, t)
  <1> USE PollFacts
  <1>1. PollTypes /\ RowsOwned /\ OneEach /\ NotPassed /\ Sections BY DEF PollInv
  <1>2. fd[t] \in W!Pipe .. W!Pipe + MAX_FDS + 1
    <2>1. t = 0 \/ t \in Submitters OBVIOUS
    <2> QED BY <1>1, <2>1 DEF PollTypes
  <1>3. table[i] # W!Other BY <1>2 DEF W!Other
  <1>4. PICK u \in W!Threads : RowOf(i, u) /\ table[i].fd = fd[u]
    BY <1>1, <1>3 DEF RowsOwned
  <1>6. RowOf(i, u) /\ fd[u] = fd[t] BY <1>4
  <1>7. CASE ~Closing(u)
    <2>1. u = t BY <1>1, <1>6, <1>7 DEF OneEach
    <2> QED BY <1>6, <2>1
  <1>8. CASE Closing(u)
    <2>1. CASE pc[u] = "freeing"
      <3>1. u \in Submitters BY <2>1, HandledIs
      <3>2. at[u] \in W!Rows /\ RowOf(at[u], u) BY <1>1, <2>1, <3>1 DEF NotPassed
      <3>3. at[u] = i BY <1>1, <1>6, <3>2 DEF RowsOwned
      <3>4. section[i] = u BY <1>1, <2>1, <3>3 DEF Sections
      <3> QED BY <3>4
    <2>2. CASE pc[0] = "freed" /\ u = Handled
      <3>1. at[0] \in W!Rows /\ RowOf(at[0], u) BY <1>1, <2>2 DEF NotPassed
      <3>2. at[0] = i BY <1>1, <1>6, <3>1 DEF RowsOwned
      <3>3. section[i] = 0 BY <1>1, <2>2, <3>2 DEF Sections
      <3> QED BY <3>3
    <2> QED BY <1>8, <2>1, <2>2 DEF Closing
  <1> QED BY <1>7, <1>8

(* Steps that change no row, no descriptor and no state of a transfer.     *)
Quiet ==
  /\ UNCHANGED <<table, fd, fds, pollfds>> /\ W!InFlight' = W!InFlight
  /\ \A u \in W!Threads :
       /\ pc'[u] = "create" <=> pc[u] = "create"
       /\ Closing(u)' <=> Closing(u)
       /\ Taken(u)' <=> Taken(u)
Loud(t) == W!Create(t) \/ W!Created(t) \/ W!TableFull(t) \/ W!Submitted(t) \/ W!Free(t) \/ W!Freed(t)

LEMMA QuietOrLoud ==
  ASSUME PollInv, [W!Next]_W!vars
  PROVE  \/ Quiet
         \/ \E t \in W!Threads : Loud(t)
         \/ W!Handle \/ W!FreeCompleted \/ W!FreedCompleted
  <1> USE PollFacts DEF W!rows, W!pipe, W!poll, W!context
  <1>0. PICK S : pc \in [W!Threads -> S] BY DEF PollInv, PollTypes
  <1>a. ASSUME NEW t \in W!Threads, NEW p, UNCHANGED <<table, fd, fds, pollfds>>,
               pc' = [pc EXCEPT ![t] = p],
               pc[t] \notin {"create", "freeing", "done", "freed"},
               p \notin {"create", "freeing", "done", "freed"},
               pc[t] \in {"submit", "free"} <=> p \in {"submit", "free"},
               t = 0 \/ UNCHANGED triggered
        PROVE  Quiet
    <2>1. W!InFlight' = W!InFlight BY <1>0, <1>a DEF W!InFlight
    <2>2. ASSUME NEW u \in W!Threads
          PROVE  /\ pc'[u] = "create" <=> pc[u] = "create"
                 /\ Closing(u)' <=> Closing(u)
                 /\ Taken(u)' <=> Taken(u)
      <3>1. CASE t = 0 BY <1>0, <1>a, <3>1 DEF Closing, Taken
      <3>2. CASE t # 0
        <4>1. pc'[0] = pc[0] BY <1>0, <1>a, <3>2
        <4>2. Handled' = Handled BY <1>a, <3>2 DEF Handled
        <4> QED BY <1>0, <1>a, <4>1, <4>2 DEF Closing, Taken
      <3> QED BY <3>1, <3>2
    <2> QED BY <1>a, <2>1, <2>2 DEF Quiet
  <1>1. ASSUME UNCHANGED <<table, fd, fds, pollfds, pc, triggered>> PROVE Quiet
    BY <1>1 DEF Quiet, W!InFlight, Closing, Taken, Handled
  <1>2. ASSUME NEW t \in W!Threads, W!Skip(t) \/ W!Complete(t) PROVE Quiet
    BY <1>1, <1>2 DEF W!Skip, W!Complete
  <1>3. ASSUME NEW t \in W!Threads, W!SubmitFails(t) \/ W!Notify(t) \/ W!LockEvents(t) PROVE Quiet
    <2>1. PICK p \in {"free", "write", "read"} :
            /\ pc' = [pc EXCEPT ![t] = p] /\ pc[t] \in {"submit", "notify", "lock"}
            /\ p = "free" <=> pc[t] = "submit"
            /\ UNCHANGED <<table, fd, fds, pollfds, triggered>>
      BY <1>3 DEF W!SubmitFails, W!Notify, W!LockEvents, W!Search, W!Goto
    <2> QED BY <1>a, <2>1
  <1>4. ASSUME NEW t \in W!Threads, W!Write(t) \/ W!Read(t) \/ W!ReadEnds(t) \/ W!Unlock(t) PROVE Quiet
    <2>1. PICK p \in {"lock", "reading", "unlock", "idle"} :
            /\ pc' = [pc EXCEPT ![t] = p] /\ pc[t] \in {"write", "read", "reading", "unlock"}
            /\ UNCHANGED <<table, fd, fds, pollfds, triggered>>
      BY <1>4 DEF W!Write, W!Read, W!ReadEnds, W!Unlock, W!Search, W!Goto
    <2> QED BY <1>a, <2>1
  <1>5. CASE W!PollBegins \/ W!PollNext \/ W!PollReturns
    <2>1. PICK p \in {"poll", "handle", "wait", "unlock"} :
            /\ pc' = [pc EXCEPT ![0] = p] /\ pc[0] \in {"idle", "poll", "wait"}
            /\ UNCHANGED <<table, fd, fds, pollfds>>
      <3>1. CASE W!PollBegins BY <3>1 DEF W!PollBegins, W!Search, W!Goto
      <3>2. CASE W!PollNext BY <3>2 DEF W!PollNext, W!Search, W!Goto
      <3>3. CASE W!PollReturns BY <3>3 DEF W!PollReturns, W!Goto
      <3> QED BY <1>5, <3>1, <3>2, <3>3
    <2> QED BY <1>a, <2>1
  <1>6. CASE UNCHANGED W!vars BY <1>1, <1>6 DEF W!vars
  <1> QED BY <1>2, <1>3, <1>4, <1>5, <1>6 DEF W!Next, Loud

(* What becomes of the rows, of the descriptors in flight and of the       *)
(* searches.                                                               *)
LEMMA RowsKept ==
  ASSUME PollInv, [W!Next]_W!vars, NEW i \in W!Rows
  PROVE  \/ table'[i] = table[i]
         \/ \E t \in Submitters : /\ pc[t] = "create" /\ pc'[t] = "submit" /\ table[i].fd = 0
                                  /\ table'[i].of = t
         \/ \E t \in Submitters : /\ RowOf(i, t) /\ table'[i].fd = 0
                                  /\ pc[t] = "freeing" \/ (pc'[0] = "handle" /\ Taken(t))
  <1> USE PollFacts
  <1>0. PollTypes /\ NotPassed BY DEF PollInv
  <1>1. ASSUME UNCHANGED table PROVE table'[i] = table[i] BY <1>1
  <1>2. ASSUME NEW t \in W!Threads, Loud(t), table' # table
        PROVE  W!Created(t) \/ W!Freed(t)
    BY <1>2 DEF Loud, W!Create, W!TableFull, W!Submitted, W!Free, W!rows
  <1>3. ASSUME NEW t \in W!Threads, W!Created(t), table'[i] # table[i]
        PROVE  /\ t \in Submitters /\ pc[t] = "create" /\ pc'[t] = "submit" /\ table[i].fd = 0
               /\ table'[i].of = t
    <2>1. /\ pc[t] = "create" /\ table' = [table EXCEPT ![at[t]] = [fd |-> fd[t], of |-> t]]
          /\ pc' = [pc EXCEPT ![t] = "submit"] /\ table[at[t]].fd = 0
      BY <1>3 DEF W!Created, W!Enters, W!Here, W!Wanted, W!Goto
    <2>2. t \in Submitters BY <2>1, HandledIs
    <2>3. i = at[t] BY <1>0, <1>3, <2>1 DEF PollTypes
    <2> QED BY <1>0, <2>1, <2>2, <2>3 DEF PollTypes
  <1>4. ASSUME NEW t \in W!Threads, W!Freed(t), table'[i] # table[i]
        PROVE  /\ t \in Submitters /\ RowOf(i, t) /\ table'[i].fd = 0 /\ pc[t] = "freeing"
    <2>1. pc[t] = "freeing" /\ table' = [table EXCEPT ![at[t]] = W!NoRow] BY <1>4 DEF W!Freed
    <2>2. t \in Submitters BY <2>1, HandledIs
    <2>3. i = at[t] BY <1>0, <1>4, <2>1 DEF PollTypes
    <2>4. table'[i] = W!NoRow BY <1>0, <2>1, <2>3 DEF PollTypes
    <2> QED BY <1>0, <2>1, <2>2, <2>3, <2>4 DEF NotPassed, W!NoRow
  <1>5. ASSUME W!FreedCompleted, table'[i] # table[i]
        PROVE  /\ Handled \in Submitters /\ RowOf(i, Handled) /\ table'[i].fd = 0
               /\ pc'[0] = "handle" /\ Taken(Handled)
    <2>1. /\ pc[0] = "freed" /\ table' = [table EXCEPT ![at[0]] = W!NoRow]
          /\ pc' = [pc EXCEPT ![0] = "handle"]
      BY <1>5 DEF W!FreedCompleted, W!Goto
    <2>2. Handled \in Submitters BY <2>1, HandledIs
    <2>3. i = at[0] BY <1>0, <1>5, <2>1 DEF PollTypes
    <2>4. table'[i] = W!NoRow /\ pc'[0] = "handle" BY <1>0, <2>1, <2>3 DEF PollTypes
    <2> QED BY <1>0, <2>1, <2>2, <2>3, <2>4 DEF NotPassed, W!NoRow, Taken
  <1>6. ASSUME W!Handle \/ W!FreeCompleted PROVE UNCHANGED table
    BY <1>6 DEF W!Handle, W!FreeCompleted, W!rows
  <1> QED BY <1>1, <1>2, <1>3, <1>4, <1>5, <1>6, QuietOrLoud DEF Quiet

LEMMA InFlightKept ==
  ASSUME PollInv, [W!Next]_W!vars
  PROVE  /\ \A t \in W!InFlight' : t \in W!InFlight \/ (W!Submitted(t) /\ t \in W!Threads)
         /\ \A t \in W!InFlight : t \in W!InFlight' \/ (W!FreedCompleted /\ t = Handled)
         /\ \A t \in W!InFlight' \cup {0} : fd'[t] = fd[t]
  <1> USE PollFacts
  <1>0. PollTypes BY DEF PollInv
  <1>1. ASSUME NEW t \in W!Threads, W!Create(t) \/ W!TableFull(t) \/ W!Freed(t)
        PROVE  W!InFlight' = W!InFlight /\ \A u \in W!InFlight' \cup {0} : fd'[u] = fd[u]
    <2>1. PICK n \in Nat, p \in {"create", "idle"} :
            /\ pc' = [pc EXCEPT ![t] = p] /\ fd' = [fd EXCEPT ![t] = n]
            /\ p = "idle" => n = 0
            /\ p = "create" => pc[t] = "idle" /\ fd[t] = 0
            /\ p = "idle" => pc[t] \in {"create", "freeing"}
      <3>1. CASE W!Create(t)
        <4>1. W!Pipe .. W!Pipe + MAX_FDS + 1 \subseteq Nat OBVIOUS
        <4>2. PICK n \in W!Pipe .. W!Pipe + MAX_FDS + 1 : fd' = [fd EXCEPT ![t] = n]
          BY <3>1 DEF W!Create
        <4> QED BY <3>1, <4>1, <4>2 DEF W!Create, W!Search, W!Goto
      <3>2. CASE W!TableFull(t) \/ W!Freed(t) BY <3>2 DEF W!TableFull, W!Freed, W!Search, W!Goto
      <3> QED BY <1>1, <3>1, <3>2
    <2>2. t # 0 BY <1>0, <2>1 DEF PollTypes
    <2>3. W!InFlight' = W!InFlight BY <1>0, <2>1 DEF PollTypes, W!InFlight
    <2>4. t \notin W!InFlight BY <1>0, <2>1, <2>2 DEF PollTypes, W!InFlight
    <2>5. \A u \in W!InFlight' \cup {0} : u \in W!Threads /\ u # t BY <2>2, <2>3, <2>4
        DEF W!InFlight
    <2> QED BY <1>0, <2>1, <2>3, <2>5 DEF PollTypes
  <1>2. ASSUME NEW t \in W!Threads, W!Created(t) \/ W!Free(t)
        PROVE  W!InFlight' = W!InFlight /\ fd' = fd
    <2>1. PICK p \in {"submit", "freeing"} :
            pc' = [pc EXCEPT ![t] = p] /\ pc[t] \in {"create", "free"} /\ fd' = fd
      BY <1>2 DEF W!Created, W!Free, W!Goto
    <2> QED BY <1>0, <2>1 DEF PollTypes, W!InFlight
  <1>3. ASSUME NEW t \in W!Threads, W!Submitted(t)
        PROVE  W!InFlight' = W!InFlight \cup {t} /\ fd' = fd
    <2>1. pc' = [pc EXCEPT ![t] = "notify"] /\ pc[t] = "submit" /\ fd' = fd
      BY <1>3 DEF W!Submitted, W!Goto
    <2>2. t \in Submitters BY <2>1, HandledIs
    <2>3. fd[t] # 0 BY <1>0, <2>1, <2>2 DEF PollTypes
    <2> QED BY <1>0, <2>1, <2>2, <2>3 DEF PollTypes, W!InFlight
  <1>4. ASSUME W!Handle \/ W!FreeCompleted
        PROVE  W!InFlight' = W!InFlight /\ fd' = fd
    <2>1. PICK p \in {"unlock", "done", "freed"} : pc' = [pc EXCEPT ![0] = p] /\ fd' = fd
      BY <1>4 DEF W!Handle, W!FreeCompleted, W!Search, W!Goto
    <2> QED BY <1>0, <2>1 DEF PollTypes, W!InFlight
  <1>5. ASSUME W!FreedCompleted
        PROVE  W!InFlight' = W!InFlight \ {Handled} /\ \A u \in W!InFlight' \cup {0} : fd'[u] = fd[u]
    <2>1. /\ pc[0] = "freed" /\ pc' = [pc EXCEPT ![0] = "handle"] /\ fd' = [fd EXCEPT ![Handled] = 0]
      BY <1>5 DEF W!FreedCompleted, W!Goto, Handled
    <2>2. Handled \in Submitters BY <2>1, HandledIs
    <2>3. W!InFlight' = W!InFlight \ {Handled} BY <1>0, <2>1, <2>2 DEF PollTypes, W!InFlight
    <2>4. \A u \in W!InFlight' \cup {0} : u \in W!Threads /\ u # Handled BY <2>2, <2>3
        DEF W!InFlight
    <2> QED BY <1>0, <2>1, <2>3, <2>4 DEF PollTypes
  <1>6. Quiet => W!InFlight' = W!InFlight /\ fd' = fd BY DEF Quiet
  <1> QED BY <1>1, <1>2, <1>3, <1>4, <1>5, <1>6, QuietOrLoud DEF Loud

LEMMA RowsOwnedKept ==
  ASSUME PollInv, [W!Next]_W!vars
  PROVE  RowsOwned'
  <1> USE PollFacts
  <1>0. PollTypes /\ RowsOwned /\ OneEach /\ NotPassed BY DEF PollInv
  <1>1. ASSUME UNCHANGED <<table, fd>>,
               \A u \in W!Threads : fd[u] # 0 => (pc'[u] = "create" <=> pc[u] = "create")
        PROVE  RowsOwned'
    <2>1. \A u \in W!Threads : Rowed(u)' <=> Rowed(u) BY <1>1 DEF Rowed
    <2>2. \A i \in W!Rows, u \in W!Threads : RowOf(i, u)' <=> RowOf(i, u) BY <1>1 DEF RowOf
    <2>3. ASSUME NEW i \in W!Rows, table'[i].fd # 0, table'[i] # W!Other
          PROVE  \E u \in W!Threads : RowOf(i, u)' /\ table'[i].fd = fd'[u] /\ Rowed(u)'
      BY <1>0, <1>1, <2>1, <2>2, <2>3 DEF RowsOwned
    <2>4. \A i, j \in W!Rows, u \in W!Threads : RowOf(i, u)' /\ RowOf(j, u)' => i = j
      BY <1>0, <2>2 DEF RowsOwned
    <2>5. \A u \in W!Threads : Rowed(u)' => \E i \in W!Rows : RowOf(i, u)'
      BY <1>0, <2>1, <2>2 DEF RowsOwned
    <2> QED BY <1>0, <1>1, <2>3, <2>4, <2>5 DEF RowsOwned
  <1>2. ASSUME Quiet PROVE RowsOwned' BY <1>1, <1>2 DEF Quiet
  <1>3. ASSUME NEW t \in W!Threads, W!Submitted(t) \/ W!Free(t) PROVE RowsOwned'
    <2>1. PICK p \in {"notify", "freeing"} :
            pc' = [pc EXCEPT ![t] = p] /\ pc[t] \in {"submit", "free"} /\ UNCHANGED <<table, fd>>
      BY <1>3 DEF W!Submitted, W!Free, W!Goto, W!rows
    <2> QED BY <1>0, <1>1, <2>1 DEF PollTypes
  <1>4. CASE W!Handle \/ W!FreeCompleted
    <2>1. PICK p \in {"unlock", "done", "freed"} :
            pc' = [pc EXCEPT ![0] = p] /\ pc[0] \in {"handle", "done"} /\ UNCHANGED <<table, fd>>
      BY <1>4 DEF W!Handle, W!FreeCompleted, W!Search, W!Goto, W!rows
    <2> QED BY <1>0, <1>1, <2>1 DEF PollTypes
  <1>5. ASSUME NEW t \in W!Threads, W!Create(t) PROVE RowsOwned'
    <2>1. pc[t] = "idle" /\ fd[t] = 0 /\ pc' = [pc EXCEPT ![t] = "create"] /\ table' = table
      BY <1>5 DEF W!Create, W!Search, W!Goto
    <2>2. PICK new : fd' = [fd EXCEPT ![t] = new] BY <1>5 DEF W!Create
    <2>3. \A u \in W!Threads : Rowed(u)' <=> Rowed(u) BY <1>0, <2>1, <2>2 DEF PollTypes, Rowed
    <2>4. \A u \in W!Threads : Rowed(u) => fd'[u] = fd[u] BY <1>0, <2>1, <2>2 DEF PollTypes, Rowed
    <2>5. \A i \in W!Rows, u \in W!Threads : RowOf(i, u)' <=> RowOf(i, u) BY <2>1 DEF RowOf
    <2>6. ASSUME NEW i \in W!Rows, table'[i].fd # 0, table'[i] # W!Other
          PROVE  \E u \in W!Threads : RowOf(i, u)' /\ table'[i].fd = fd'[u] /\ Rowed(u)'
      BY <1>0, <2>1, <2>3, <2>4, <2>5, <2>6 DEF RowsOwned
    <2>7. \A i, j \in W!Rows, u \in W!Threads : RowOf(i, u)' /\ RowOf(j, u)' => i = j
      BY <1>0, <2>5 DEF RowsOwned
    <2>8. \A u \in W!Threads : Rowed(u)' => \E i \in W!Rows : RowOf(i, u)'
      BY <1>0, <2>3, <2>5 DEF RowsOwned
    <2> QED BY <1>0, <2>1, <2>6, <2>7, <2>8 DEF RowsOwned
  <1>6. ASSUME NEW t \in W!Threads, W!Created(t) PROVE RowsOwned'
    <2>1. /\ pc[t] = "create" /\ table' = [table EXCEPT ![at[t]] = [fd |-> fd[t], of |-> t]]
          /\ pc' = [pc EXCEPT ![t] = "submit"] /\ at[t] \in W!Rows /\ table[at[t]].fd = 0
          /\ fd' = fd
      BY <1>6 DEF W!Created, W!Enters, W!Here, W!Wanted, W!Goto
    <2>2. t \in Submitters /\ fd[t] # 0
      <3>1. t \in Submitters BY <2>1, HandledIs
      <3> QED BY <1>0, <2>1, <3>1 DEF PollTypes
    <2>3. PICK j \in W!Rows : j = at[t] BY <2>1
    <2>4. ~Rowed(t) /\ Rowed(t)' BY <1>0, <2>1, <2>2 DEF PollTypes, Rowed
    <2>5. \A u \in W!Threads : u # t => (Rowed(u)' <=> Rowed(u))
      BY <1>0, <2>1 DEF PollTypes, Rowed
    <2>6. /\ table'[j] = [fd |-> fd[t], of |-> t]
          /\ \A i \in W!Rows : i # j => table'[i] = table[i]
      BY <1>0, <2>1, <2>3 DEF PollTypes
    <2>7. \A i \in W!Rows : ~RowOf(i, t)
      <3>1. ASSUME NEW i \in W!Rows, RowOf(i, t) PROVE FALSE
        <4>1. table[i] # W!Other BY <2>2, <3>1 DEF RowOf, W!Other
        <4>2. table[i].fd # 0 /\ table[i].of = t BY <3>1 DEF RowOf
        <4> QED BY <1>0, <2>4, <4>1, <4>2 DEF RowsOwned, RowOf
      <3> QED BY <3>1
    <2>8. /\ RowOf(j, t)' /\ \A u \in W!Threads : u # t => ~RowOf(j, u)'
          /\ \A u \in W!Threads : ~RowOf(j, u)
          /\ \A i \in W!Rows, u \in W!Threads : i # j => (RowOf(i, u)' <=> RowOf(i, u))
      BY <2>1, <2>2, <2>3, <2>6 DEF RowOf
    <2>9. /\ \A i, k \in W!Rows, u \in W!Threads : RowOf(i, u)' /\ RowOf(k, u)' => i = k
          /\ \A u \in W!Threads : Rowed(u)' => \E i \in W!Rows : RowOf(i, u)'
      BY <1>0, <2>5, <2>7, <2>8 DEF RowsOwned
    <2>10. table'[1] = [fd |-> W!Pipe, of |-> 0]
      <3>1. table[1].fd # 0 BY <1>0 DEF RowsOwned
      <3> QED BY <1>0, <2>1, <2>3, <2>6, <3>1 DEF RowsOwned
    <2>11. \A i \in W!Rows : table'[i].fd # 0 =>
             \/ table'[i] = W!Other
             \/ \E u \in W!Threads : RowOf(i, u)' /\ table'[i].fd = fd'[u] /\ Rowed(u)'
      <3>1. ASSUME NEW i \in W!Rows, table'[i].fd # 0, table'[i] # W!Other
            PROVE  \E u \in W!Threads : RowOf(i, u)' /\ table'[i].fd = fd'[u] /\ Rowed(u)'
        <4>1. CASE i = j
          <5>1. table'[i].fd = fd[t] BY <2>6, <4>1
          <5> QED BY <2>1, <2>4, <2>8, <4>1, <5>1
        <4>2. CASE i # j
          <5>1. table'[i] = table[i] BY <2>6, <4>2
          <5>2. PICK u \in W!Threads : RowOf(i, u) /\ table[i].fd = fd[u] /\ Rowed(u)
            BY <1>0, <3>1, <5>1 DEF RowsOwned
          <5>3. u # t BY <2>4, <5>2
          <5>4. Rowed(u)' BY <2>5, <5>2, <5>3
          <5> QED BY <2>1, <2>8, <4>2, <5>1, <5>2, <5>4
        <4> QED BY <4>1, <4>2
      <3> QED BY <3>1
    <2> QED BY <2>9, <2>10, <2>11 DEF RowsOwned
  <1>7. ASSUME NEW t \in W!Threads, W!TableFull(t) PROVE RowsOwned'
    <2>1. /\ pc[t] = "create" /\ fd' = [fd EXCEPT ![t] = 0] /\ pc' = [pc EXCEPT ![t] = "idle"]
          /\ table' = table
      BY <1>7 DEF W!TableFull, W!Search, W!Goto
    <2>2. \A u \in W!Threads : Rowed(u)' <=> Rowed(u) BY <1>0, <2>1 DEF PollTypes, Rowed
    <2>3. \A u \in W!Threads : Rowed(u) => fd'[u] = fd[u] BY <1>0, <2>1 DEF PollTypes, Rowed
    <2>4. \A i \in W!Rows, u \in W!Threads : RowOf(i, u)' <=> RowOf(i, u) BY <2>1 DEF RowOf
    <2> QED BY <1>0, <2>1, <2>2, <2>3, <2>4 DEF RowsOwned
  <1>8. ASSUME NEW t \in Submitters, NEW j \in W!Rows, RowOf(j, t), NEW e \in W!Threads, NEW p,
               table' = [table EXCEPT ![j] = W!NoRow], fd' = [fd EXCEPT ![t] = 0],
               pc' = [pc EXCEPT ![e] = p], pc[e] # "create", p # "create"
        PROVE  RowsOwned'
    <2>1. /\ table'[j].fd = 0
          /\ \A i \in W!Rows : i # j => table'[i] = table[i]
      BY <1>0, <1>8 DEF PollTypes, W!NoRow
    <2>2. \A u \in W!Threads : u # t => fd'[u] = fd[u] /\ (Rowed(u)' <=> Rowed(u))
      BY <1>0, <1>8 DEF PollTypes, Rowed
    <2>3. ~Rowed(t)' BY <1>0, <1>8 DEF PollTypes, Rowed
    <2>4. \A i \in W!Rows : i # j => ~RowOf(i, t) BY <1>0, <1>8 DEF RowsOwned
    <2>5. /\ \A u \in W!Threads : ~RowOf(j, u)' /\ (u # t => ~RowOf(j, u))
          /\ \A i \in W!Rows, u \in W!Threads : i # j => (RowOf(i, u)' <=> RowOf(i, u))
      BY <1>8, <2>1 DEF RowOf
    <2>6. /\ \A i, k \in W!Rows, u \in W!Threads : RowOf(i, u)' /\ RowOf(k, u)' => i = k
          /\ \A u \in W!Threads : Rowed(u)' => \E i \in W!Rows : RowOf(i, u)'
      BY <1>0, <2>2, <2>3, <2>5 DEF RowsOwned
    <2>7. table'[1] = [fd |-> W!Pipe, of |-> 0]
      <3>1. ~RowOf(1, t) BY <1>0 DEF RowsOwned, RowOf
      <3> QED BY <1>0, <1>8, <2>1, <3>1 DEF RowsOwned
    <2>8. \A i \in W!Rows : table'[i].fd # 0 =>
            \/ table'[i] = W!Other
            \/ \E u \in W!Threads : RowOf(i, u)' /\ table'[i].fd = fd'[u] /\ Rowed(u)'
      <3>1. ASSUME NEW i \in W!Rows, table'[i].fd # 0, table'[i] # W!Other
            PROVE  \E u \in W!Threads : RowOf(i, u)' /\ table'[i].fd = fd'[u] /\ Rowed(u)'
        <4>1. i # j /\ table'[i] = table[i] BY <2>1, <3>1
        <4>2. PICK u \in W!Threads : RowOf(i, u) /\ table[i].fd = fd[u] /\ Rowed(u)
          BY <1>0, <3>1, <4>1 DEF RowsOwned
        <4>3. u # t BY <2>4, <4>1, <4>2
        <4>4. Rowed(u)' /\ fd'[u] = fd[u] BY <2>2, <4>2, <4>3
        <4> QED BY <2>5, <4>1, <4>2, <4>4
      <3> QED BY <3>1
    <2> QED BY <2>6, <2>7, <2>8 DEF RowsOwned
  <1>9. ASSUME NEW t \in W!Threads, W!Freed(t) PROVE RowsOwned'
    <2>1. /\ pc[t] = "freeing" /\ fd' = [fd EXCEPT ![t] = 0] /\ pc' = [pc EXCEPT ![t] = "idle"]
          /\ table' = [table EXCEPT ![at[t]] = W!NoRow]
      BY <1>9 DEF W!Freed, W!Search, W!Goto
    <2>2. t \in Submitters BY <2>1, HandledIs
    <2>3. PICK j \in W!Rows : j = at[t] /\ RowOf(j, t) BY <1>0, <2>1, <2>2 DEF NotPassed
    <2> QED BY <1>8, <2>1, <2>2, <2>3
  <1>10. CASE W!FreedCompleted
    <2>1. /\ pc[0] = "freed" /\ fd' = [fd EXCEPT ![Handled] = 0]
          /\ pc' = [pc EXCEPT ![0] = "handle"] /\ table' = [table EXCEPT ![at[0]] = W!NoRow]
      BY <1>10 DEF W!FreedCompleted, W!Goto, Handled
    <2>2. PICK t \in Submitters : t = Handled BY <2>1, HandledIs
    <2>3. PICK j \in W!Rows : j = at[0] /\ RowOf(j, t) BY <1>0, <2>1, <2>2 DEF NotPassed
    <2> QED BY <1>8, <2>1, <2>2, <2>3
  <1> QED BY <1>2, <1>3, <1>4, <1>5, <1>6, <1>7, <1>9, <1>10, QuietOrLoud DEF Loud

LEMMA OneEachKept ==
  ASSUME PollInv, [W!Next]_W!vars
  PROVE  OneEach'
  <1> USE PollFacts
  <1>0. PollTypes /\ OneEach BY DEF PollInv
  <1>1. ASSUME UNCHANGED <<fd, fds>>, \A u \in W!Threads : Closing(u)' <=> Closing(u) PROVE OneEach'
    BY <1>0, <1>1 DEF OneEach
  <1>2. CASE Quiet BY <1>1, <1>2 DEF Quiet
  (* One descriptor is closed, or no longer of anyone.                     *)
  <1>3. ASSUME NEW t \in W!Threads, NEW S, fds' = fds \ S, S \subseteq {fd[t]}, ~Closing(t) \/ S = {},
               \A u \in W!Threads : u # t => fd'[u] = fd[u] /\ (Closing(u)' <=> Closing(u)),
               fd'[t] = 0 \/ Closing(t)'
        PROVE  OneEach'
    <2>1. ASSUME NEW u \in W!Threads, fd'[u] # 0, ~Closing(u)'
          PROVE  u # t /\ fd[u] # 0 /\ ~Closing(u) /\ fd'[u] \in fds'
      <3>1. u # t /\ fd[u] # 0 /\ ~Closing(u) /\ fd'[u] = fd[u] BY <1>3, <2>1
      <3>2. fd[u] \in fds BY <1>0, <3>1 DEF OneEach
      <3>3. S # {} => fd[u] # fd[t] BY <1>0, <1>3, <3>1 DEF OneEach
      <3> QED BY <1>3, <3>1, <3>2, <3>3
    <2> QED BY <1>0, <1>3, <2>1 DEF OneEach
  <1>4. ASSUME NEW t \in W!Threads, W!Create(t) PROVE OneEach'
    <2>1. pc[t] = "idle" /\ fd[t] = 0 /\ pc' = [pc EXCEPT ![t] = "create"] /\ triggered' = triggered
      BY <1>4 DEF W!Create, W!Search, W!Goto, W!poll
    <2>2. PICK new \in W!Pipe .. W!Pipe + MAX_FDS + 1 \ fds :
            fds' = fds \cup {new} /\ fd' = [fd EXCEPT ![t] = new]
      BY <1>4 DEF W!Create
    <2>3. t # 0 BY <1>0, <2>1 DEF PollTypes
    <2>4. \A u \in W!Threads : Closing(u)' <=> Closing(u)
      BY <1>0, <2>1, <2>3 DEF PollTypes, Closing, Handled
    <2>5. fd'[t] = new /\ \A u \in W!Threads : u # t => fd'[u] = fd[u] BY <1>0, <2>2 DEF PollTypes
    <2>6. \A u \in W!Threads : fd[u] # 0 /\ ~Closing(u) => fd[u] \in fds /\ fd[u] # new
      BY <1>0, <2>2 DEF OneEach
    <2> QED BY <1>0, <2>2, <2>4, <2>5, <2>6 DEF OneEach
  <1>5. ASSUME NEW t \in W!Threads, W!Created(t) \/ W!Submitted(t) PROVE OneEach'
    <2>1. PICK p \in {"submit", "notify"} :
            /\ pc' = [pc EXCEPT ![t] = p] /\ pc[t] \in {"create", "submit"}
            /\ UNCHANGED <<fd, fds, triggered>>
      BY <1>5 DEF W!Created, W!Submitted, W!Goto, W!poll, W!rows
    <2>2. t # 0 BY <2>1, HandledIs
    <2>3. \A u \in W!Threads : Closing(u)' <=> Closing(u)
      BY <1>0, <2>1, <2>2 DEF PollTypes, Closing, Handled
    <2> QED BY <1>1, <2>1, <2>3
  <1>6. CASE W!Handle
    <2>1. PICK p \in {"unlock", "done"} :
            pc' = [pc EXCEPT ![0] = p] /\ pc[0] = "handle" /\ UNCHANGED <<fd, fds, triggered>>
      BY <1>6 DEF W!Handle, W!Search, W!Goto, W!rows, W!poll
    <2>2. \A u \in W!Threads : Closing(u)' <=> Closing(u)
      BY <1>0, <2>1 DEF PollTypes, Closing, Handled
    <2> QED BY <1>1, <2>1, <2>2
  <1>7. ASSUME NEW t \in W!Threads, W!TableFull(t) \/ W!Free(t) \/ W!Freed(t) PROVE OneEach'
    <2>1. PICK p \in {"idle", "freeing"} :
            /\ pc' = [pc EXCEPT ![t] = p] /\ pc[t] \in {"create", "free", "freeing"}
            /\ triggered' = triggered
            /\ \/ p = "idle" /\ fd' = [fd EXCEPT ![t] = 0]
               \/ p = "freeing" /\ fd' = fd
      BY <1>7 DEF W!TableFull, W!Free, W!Freed, W!Search, W!Goto, W!poll
    <2>2. t \in Submitters /\ t # 0 /\ t \notin W!InFlight
      <3>1. t \in Submitters BY <2>1, HandledIs
      <3> QED BY <2>1, <3>1 DEF W!InFlight
    <2>3. \A u \in W!Threads : u # t => fd'[u] = fd[u] /\ (Closing(u)' <=> Closing(u))
      BY <1>0, <2>1, <2>2 DEF PollTypes, Closing, Handled
    <2>4. fd'[t] = 0 \/ Closing(t)' BY <1>0, <2>1 DEF PollTypes, Closing
    <2>5. CASE W!Freed(t)
      <3>1. fds' = fds \ {} BY <2>5 DEF W!Freed
      <3> QED BY <1>3, <2>3, <2>4, <3>1
    <2>6. CASE W!TableFull(t) \/ W!Free(t)
      <3>1. fds' = fds \ {fd[t]} /\ pc[t] # "freeing" BY <2>6 DEF W!TableFull, W!Free
      <3>2. ~Closing(t) BY <2>2, <3>1, HandledIs
      <3> QED BY <1>3, <2>3, <2>4, <3>1, <3>2
    <2> QED BY <1>7, <2>5, <2>6
  <1>8. CASE W!FreeCompleted
    <2>1. /\ pc[0] = "done" /\ pc' = [pc EXCEPT ![0] = "freed"] /\ fds' = fds \ {fd[Handled]}
          /\ fd' = fd /\ triggered' = triggered
      BY <1>8 DEF W!FreeCompleted, W!Goto, W!Wanted, Handled, W!poll
    <2>2. Handled \in Submitters /\ Handled \in W!InFlight /\ Handled' = Handled
      BY <2>1, HandledIs DEF Handled
    <2>3. PICK t \in Submitters : t = Handled /\ t \in W!InFlight BY <2>2
    <2>4. ~Closing(t) BY <2>1, <2>3, HandledIs
    <2>5. Closing(t)' /\ \A u \in W!Threads : u # t => (Closing(u)' <=> Closing(u))
      BY <1>0, <2>1, <2>2, <2>3 DEF PollTypes, Closing
    <2> QED BY <1>3, <2>1, <2>3, <2>4, <2>5
  <1>9. CASE W!FreedCompleted
    <2>1. /\ pc[0] = "freed" /\ pc' = [pc EXCEPT ![0] = "handle"] /\ fds' = fds
          /\ fd' = [fd EXCEPT ![Handled] = 0]
      BY <1>9 DEF W!FreedCompleted, W!Goto, Handled
    <2>2. PICK t \in Submitters : t = Handled BY <2>1, HandledIs
    <2>3. fd'[t] = 0 /\ \A u \in W!Threads : u # t => fd'[u] = fd[u]
      BY <1>0, <2>1, <2>2 DEF PollTypes
    <2>4. \A u \in W!Threads : u # t => (Closing(u)' <=> Closing(u))
      BY <1>0, <2>1, <2>2 DEF PollTypes, Closing
    <2>5. fds' = fds \ {} BY <2>1
    <2> QED BY <1>3, <2>3, <2>4, <2>5
  <1> QED BY <1>2, <1>4, <1>5, <1>6, <1>7, <1>8, <1>9, QuietOrLoud DEF Loud

(* Where a search is after a step, and who is in a critical section.       *)
LEMMA PollWhere ==
  ASSUME PollInv, [W!Next]_W!vars
  PROVE  /\ \A u \in W!Threads :
              \/ pc'[u] = pc[u] /\ at'[u] = at[u]
              \/ pc'[u] = pc[u] /\ at'[u] = at[u] + 1 /\ W!Skip(u)
              \/ at'[u] = 1 /\ pc'[u] \notin {"freeing", "reading", "freed"}
              \/ /\ at'[u] = at[u]
                 /\ pc'[u] \notin {"create", "free", "write", "read", "poll", "done"}
                 /\ pc'[u] = "freeing" => W!Free(u)
                 /\ pc'[u] = "reading" => pc[u] = "read"
                 /\ pc'[u] = "freed" => W!FreeCompleted
         /\ pc'[0] \in {"done", "freed"} => UNCHANGED triggered
         /\ pc'[0] = "poll" => UNCHANGED todo \/ at'[0] = 1
         /\ Sections'
  <1> USE PollFacts DEF W!rows, W!pipe, W!poll, W!context
  <1> DEFINE Stays(u) ==
               \/ pc'[u] = pc[u] /\ at'[u] = at[u]
               \/ pc'[u] = pc[u] /\ at'[u] = at[u] + 1 /\ W!Skip(u)
               \/ at'[u] = 1 /\ pc'[u] \notin {"freeing", "reading", "freed"}
               \/ /\ at'[u] = at[u]
                  /\ pc'[u] \notin {"create", "free", "write", "read", "poll", "done"}
                  /\ pc'[u] = "freeing" => W!Free(u)
                  /\ pc'[u] = "reading" => pc[u] = "read"
                  /\ pc'[u] = "freed" => W!FreeCompleted
             Where ==
               /\ \A u \in W!Threads : Stays(u)
               /\ pc'[0] \in {"done", "freed"} => UNCHANGED triggered
               /\ pc'[0] = "poll" => UNCHANGED todo \/ at'[0] = 1
               /\ Sections'
             Inside == {"freeing", "reading", "freed"}
  <1>0. PollTypes /\ Sections BY DEF PollInv
  <1>1. PICK S : pc \in [W!Threads -> S] BY <1>0 DEF PollTypes
  <1>2. at \in [W!Threads -> Nat] /\ section \in [W!Rows -> W!Threads \cup {-1}] BY <1>0
      DEF PollTypes
  <1>3. \A u \in W!Threads, i \in W!Rows : section[i] = u <=> pc[u] \in Inside /\ at[u] = i
    BY <1>0 DEF Sections
  (* Outside of critical sections                                          *)
  <1>a. ASSUME NEW t \in W!Threads, NEW p, pc' = [pc EXCEPT ![t] = p],
               pc[t] \notin Inside, p \notin Inside, section' = section,
               \/ at' = [at EXCEPT ![t] = 1]
               \/ /\ at' = at
                  /\ p \notin {"create", "free", "write", "read", "poll", "done"}
               \/ at' = [at EXCEPT ![t] = at[t] + 1] /\ p = pc[t] /\ W!Skip(t)
        PROVE  (\A u \in W!Threads : Stays(u)) /\ Sections'
    <2>1. \A u \in W!Threads : u # t => pc'[u] = pc[u] /\ at'[u] = at[u] BY <1>1, <1>2, <1>a
    <2>2. pc'[t] = p BY <1>1, <1>a
    <2>3. Stays(t) BY <1>1, <1>2, <1>a
    <2>4. Sections' BY <1>3, <1>a, <2>1, <2>2 DEF Sections
    <2> QED BY <2>1, <2>3, <2>4
  (* Into one, and out of it                                               *)
  <1>b. ASSUME NEW t \in W!Threads, NEW p \in Inside, pc' = [pc EXCEPT ![t] = p], at' = at,
               pc[t] \notin Inside, at[t] \in W!Rows, section[at[t]] = -1,
               section' = [section EXCEPT ![at[t]] = t],
               p = "freeing" => W!Free(t), p = "reading" => pc[t] = "read",
               p = "freed" => W!FreeCompleted
        PROVE  (\A u \in W!Threads : Stays(u)) /\ Sections'
    <2>1. \A u \in W!Threads : u # t => pc'[u] = pc[u] /\ at'[u] = at[u] BY <1>1, <1>2, <1>b
    <2>2. pc'[t] = p /\ at'[t] = at[t] BY <1>1, <1>b
    <2>3. Stays(t) BY <1>b, <2>2
    <2>4. /\ section'[at[t]] = t
          /\ \A i \in W!Rows : i # at[t] => section'[i] = section[i]
      BY <1>2, <1>b
    <2>5. ASSUME NEW i \in W!Rows, NEW u \in W!Threads
          PROVE  section'[i] = u <=> pc'[u] \in Inside /\ at'[u] = i
      <3>1. CASE u = t BY <1>3, <1>b, <2>2, <2>4, <3>1
      <3>2. CASE u # t BY <1>3, <1>b, <2>1, <2>4, <3>2
      <3> QED BY <3>1, <3>2
    <2>6. Sections' BY <2>5 DEF Sections
    <2> QED BY <2>1, <2>3, <2>6
  <1>c. ASSUME NEW t \in W!Threads, NEW p, pc' = [pc EXCEPT ![t] = p], pc[t] \in Inside,
               p \notin Inside, p \notin {"create", "free", "write", "read", "poll", "done"},
               at[t] \in W!Rows, section' = [section EXCEPT ![at[t]] = -1],
               at' = at \/ at' = [at EXCEPT ![t] = 1]
        PROVE  (\A u \in W!Threads : Stays(u)) /\ Sections'
    <2>1. \A u \in W!Threads : u # t => pc'[u] = pc[u] /\ at'[u] = at[u] BY <1>1, <1>2, <1>c
    <2>2. pc'[t] = p BY <1>1, <1>c
    <2>3. Stays(t) BY <1>1, <1>2, <1>c
    <2>4. section'[at[t]] = -1 /\ \A i \in W!Rows : i # at[t] => section'[i] = section[i]
      BY <1>2, <1>c
    <2>5. ASSUME NEW i \in W!Rows, NEW u \in W!Threads
          PROVE  section'[i] = u <=> pc'[u] \in Inside /\ at'[u] = i
      <3>1. CASE u = t BY <1>3, <1>c, <2>2, <2>4, <3>1
      <3>2. CASE u # t BY <1>3, <1>c, <2>1, <2>4, <3>2
      <3> QED BY <3>1, <3>2
    <2>6. Sections' BY <2>5 DEF Sections
    <2> QED BY <2>1, <2>3, <2>6
  <1>d. ASSUME NEW t \in W!Threads, t # 0, NEW p, pc' = [pc EXCEPT ![t] = p], UNCHANGED W!poll
        PROVE  /\ pc'[0] \in {"done", "freed"} => UNCHANGED triggered
               /\ pc'[0] = "poll" => UNCHANGED todo \/ at'[0] = 1
    BY <1>d
  <1>4. ASSUME NEW t \in W!Threads, W!Skip(t) PROVE Where
    <2>1. /\ pc[t] \in W!Searching /\ at' = [at EXCEPT ![t] = at[t] + 1] /\ pc' = pc
          /\ section' = section /\ UNCHANGED W!poll
      BY <1>4 DEF W!Skip
    <2>2. pc' = [pc EXCEPT ![t] = pc[t]] BY <1>1, <2>1
    <2>3. pc[t] \notin Inside BY <2>1 DEF W!Searching
    <2>4. (\A u \in W!Threads : Stays(u)) /\ Sections' BY <1>4, <1>a, <2>1, <2>2, <2>3
    <2> QED BY <2>1, <2>4
  <1>5. ASSUME NEW t \in W!Threads, W!Create(t) \/ W!TableFull(t) \/ W!SubmitFails(t) \/ W!Notify(t) \/ W!LockEvents(t)
        PROVE  Where
    <2>1. PICK p \in {"create", "idle", "free", "write", "read"} :
            /\ pc[t] \in {"idle", "create", "submit", "notify", "lock"}
            /\ pc' = [pc EXCEPT ![t] = p] /\ at' = [at EXCEPT ![t] = 1]
            /\ section' = section /\ UNCHANGED W!poll
      BY <1>5 DEF W!Create, W!TableFull, W!SubmitFails, W!Notify, W!LockEvents, W!Search, W!Goto
    <2>2. t # 0
      <3>1. CASE W!Create(t) BY <1>0, <3>1 DEF W!Create, PollTypes
      <3>2. CASE ~W!Create(t) BY <1>0, <1>5, <3>2
        DEF W!TableFull, W!SubmitFails, W!Notify, W!LockEvents, PollTypes
      <3> QED BY <3>1, <3>2
    <2>3. (\A u \in W!Threads : Stays(u)) /\ Sections' BY <1>a, <2>1
    <2> QED BY <1>d, <2>1, <2>2, <2>3
  <1>6. ASSUME NEW t \in W!Threads, W!Created(t) \/ W!Submitted(t) \/ W!Write(t) PROVE Where
    <2>1. PICK p \in {"submit", "notify", "lock"} :
            /\ pc[t] \in {"create", "submit", "write"} /\ pc' = [pc EXCEPT ![t] = p] /\ at' = at
            /\ section' = section /\ UNCHANGED W!poll
      BY <1>6 DEF W!Created, W!Submitted, W!Write, W!Goto
    <2>2. t # 0 BY <2>1, HandledIs
    <2>3. (\A u \in W!Threads : Stays(u)) /\ Sections' BY <1>a, <2>1
    <2> QED BY <1>d, <2>1, <2>2, <2>3
  <1>7. ASSUME NEW t \in W!Threads, W!Free(t) \/ W!Read(t) PROVE Where
    <2>1. PICK p \in {"freeing", "reading"} :
            /\ pc[t] \in {"free", "read"} /\ pc' = [pc EXCEPT ![t] = p] /\ at' = at
            /\ at[t] \in W!Rows /\ section[at[t]] = -1 /\ section' = [section EXCEPT ![at[t]] = t]
            /\ p = "freeing" => W!Free(t)
            /\ p = "reading" => pc[t] = "read"
            /\ UNCHANGED W!poll
      BY <1>7 DEF W!Free, W!Read, W!Goto, W!Enters, W!Here, W!Holds
    <2>2. t # 0 BY <2>1, HandledIs
    <2>3. (\A u \in W!Threads : Stays(u)) /\ Sections' BY <1>b, <2>1
    <2> QED BY <1>d, <2>1, <2>2, <2>3
  <1>8. ASSUME NEW t \in W!Threads, W!Freed(t) \/ W!ReadEnds(t) PROVE Where
    <2>1. PICK p \in {"idle", "unlock"} :
            /\ pc[t] \in {"freeing", "reading"} /\ pc' = [pc EXCEPT ![t] = p]
            /\ at' = at \/ at' = [at EXCEPT ![t] = 1]
            /\ section' = [section EXCEPT ![at[t]] = -1] /\ UNCHANGED W!poll
      BY <1>8 DEF W!Freed, W!ReadEnds, W!Goto, W!Search, W!Leaves
    <2>2. t \in Submitters /\ t # 0 BY <2>1, HandledIs
    <2>3. at[t] \in W!Rows
      <3>1. at[t] \in W!Rows \/ at[t] = 1 BY <2>1, <2>2 DEF PollInv, NotPassed
      <3> QED BY <3>1
    <2>4. (\A u \in W!Threads : Stays(u)) /\ Sections' BY <1>c, <2>1, <2>3
    <2> QED BY <1>d, <2>1, <2>2, <2>4
  <1>9. ASSUME NEW t \in W!Threads, W!Complete(t) PROVE Where
    BY <1>0, <1>9 DEF W!Complete, Sections
  <1>10. ASSUME NEW t \in W!Threads, W!Unlock(t) PROVE Where
    <2>1. /\ pc[t] = "unlock" /\ pc' = [pc EXCEPT ![t] = "idle"] /\ at' = [at EXCEPT ![t] = 1]
          /\ section' = section /\ UNCHANGED W!poll
      BY <1>10 DEF W!Unlock, W!Goto, W!Search
    <2>2. (\A u \in W!Threads : Stays(u)) /\ Sections' BY <1>a, <2>1
    <2> QED BY <2>1, <2>2
  <1>11. CASE W!PollBegins \/ W!PollNext
    <2>1. PICK p \in {"poll", "handle", "wait"} :
            /\ pc[0] \in {"idle", "poll"} /\ pc' = [pc EXCEPT ![0] = p]
            /\ at' = [at EXCEPT ![0] = 1] /\ section' = section
      BY <1>11 DEF W!PollBegins, W!PollNext, W!Goto, W!Search
    <2>2. (\A u \in W!Threads : Stays(u)) /\ Sections' BY <1>a, <2>1
    <2>3. pc'[0] = p /\ at'[0] = 1 BY <1>1, <1>2, <2>1
    <2> QED BY <2>1, <2>2, <2>3
  <1>12. CASE W!PollReturns
    <2>1. PICK p \in {"handle", "unlock"} :
            pc[0] = "wait" /\ pc' = [pc EXCEPT ![0] = p] /\ at' = at /\ section' = section
      BY <1>12 DEF W!PollReturns, W!Goto
    <2>2. (\A u \in W!Threads : Stays(u)) /\ Sections' BY <1>a, <2>1
    <2>3. pc'[0] = p BY <1>1, <2>1
    <2> QED BY <2>2, <2>3
  <1>13. CASE W!Handle
    <2>1. PICK p \in {"done", "unlock"} :
            /\ pc[0] = "handle" /\ pc' = [pc EXCEPT ![0] = p] /\ section' = section /\ UNCHANGED W!poll
            /\ p = "done" => at' = [at EXCEPT ![0] = 1]
            /\ p = "unlock" => at' = at
      BY <1>13 DEF W!Handle, W!Goto, W!Search
    <2>2. (\A u \in W!Threads : Stays(u)) /\ Sections' BY <1>a, <2>1
    <2> QED BY <2>1, <2>2
  <1>14. CASE W!FreeCompleted
    <2>1. /\ pc[0] = "done" /\ pc' = [pc EXCEPT ![0] = "freed"] /\ at' = at
          /\ at[0] \in W!Rows /\ section[at[0]] = -1 /\ section' = [section EXCEPT ![at[0]] = 0]
          /\ UNCHANGED W!poll
      BY <1>14 DEF W!FreeCompleted, W!Goto, W!Enters, W!Here, W!Holds
    <2>2. (\A u \in W!Threads : Stays(u)) /\ Sections' BY <1>14, <1>b, <2>1
    <2> QED BY <2>1, <2>2
  <1>15. CASE W!FreedCompleted
    <2>1. /\ pc[0] = "freed" /\ pc' = [pc EXCEPT ![0] = "handle"] /\ at' = at
          /\ section' = [section EXCEPT ![at[0]] = -1]
      BY <1>15 DEF W!FreedCompleted, W!Goto, W!Leaves
    <2>2. at[0] \in W!Rows BY <2>1 DEF PollInv, NotPassed
    <2>3. (\A u \in W!Threads : Stays(u)) /\ Sections' BY <1>c, <2>1, <2>2
    <2>4. pc'[0] = "handle" BY <1>1, <2>1
    <2> QED BY <2>3, <2>4
  <1>16. CASE UNCHANGED W!vars BY <1>0, <1>16 DEF W!vars, Sections
  <1> QED
    <2>1. Where
      BY <1>4, <1>5, <1>6, <1>7, <1>8, <1>9, <1>10, <1>11, <1>12, <1>13, <1>14, <1>15, <1>16
         DEF W!Next
    <2> QED BY <2>1

LEMMA NotPassedKept ==
  ASSUME PollInv, [W!Next]_W!vars
  PROVE  NotPassed'
  <1> USE PollFacts
  <1>0. PollTypes /\ RowsOwned /\ OneEach /\ NotPassed /\ Seen BY DEF PollInv
  <1>1. PollTypes' BY PollTypesKept
  <1>2. /\ \A u \in W!Threads :
             \/ pc'[u] = pc[u] /\ at'[u] = at[u]
             \/ pc'[u] = pc[u] /\ at'[u] = at[u] + 1 /\ W!Skip(u)
             \/ at'[u] = 1 /\ pc'[u] \notin {"freeing", "reading", "freed"}
             \/ /\ at'[u] = at[u]
                /\ pc'[u] \notin {"create", "free", "write", "read", "poll", "done"}
                /\ pc'[u] = "freeing" => W!Free(u)
                /\ pc'[u] = "reading" => pc[u] = "read"
                /\ pc'[u] = "freed" => W!FreeCompleted
        /\ pc'[0] \in {"done", "freed"} => UNCHANGED triggered
        /\ pc'[0] = "poll" => UNCHANGED todo \/ at'[0] = 1
    BY PollWhere
  <1>3. \A u \in W!Threads : at[u] \in Nat \ {0} BY <1>0 DEF PollTypes
  <1>4. \A u \in W!Threads : W!Skip(u) => pc[u] \in W!Searching /\ at[u] \in W!Rows /\ table[at[u]].fd # W!Wanted(u)
    BY DEF W!Skip, W!Here
  (* Rows of others come and go.                                           *)
  <1>5. ASSUME NEW i \in W!Rows, NEW t \in W!Threads, RowOf(i, t)', ~(pc[t] = "create" /\ pc'[t] = "submit")
        PROVE  RowOf(i, t)
    <2>1. table'[i].fd # 0 /\ table'[i].of = t BY <1>5 DEF RowOf
    <2> QED BY <1>5, <2>1, RowsKept DEF RowOf
  <1>6. ASSUME NEW i \in W!Rows, NEW t \in W!Threads, RowOf(i, t), pc[t] # "freeing",
               ~(pc'[0] = "handle" /\ Taken(t))
        PROVE  RowOf(i, t)'
    <2>1. table[i].fd # 0 /\ table[i].of = t BY <1>6 DEF RowOf
    <2>2. \A u \in Submitters : RowOf(i, u) => u = t BY <2>1 DEF RowOf
    <2>3. table'[i] = table[i] BY <1>6, <2>1, <2>2, RowsKept
    <2> QED BY <2>1, <2>3 DEF RowOf
  <1>7. \A i \in W!Rows, t \in W!Threads : RowOf(i, t) => table[i].fd = fd[t]
    <2>1. \A i \in W!Rows, t \in W!Threads : RowOf(i, t) => table[i] # W!Other BY DEF RowOf, W!Other
    <2> QED BY <1>0, <2>1 DEF RowsOwned, RowOf
  <1>8. ASSUME NEW t \in Submitters, pc'[t] = "free", NEW i \in W!Rows, RowOf(i, t)'
        PROVE  at'[t] =< i
    <2>1. t \in W!Threads OBVIOUS
    <2>2. CASE at'[t] = 1 BY <2>2
    <2>3. CASE at'[t] # 1
      <3>1. pc[t] = "free" /\ (at'[t] = at[t] \/ (at'[t] = at[t] + 1 /\ W!Skip(t)))
        BY <1>2, <1>8, <2>1, <2>3
      <3>2. RowOf(i, t) BY <1>5, <1>8, <2>1, <3>1
      <3>3. at[t] =< i BY <1>0, <3>1, <3>2 DEF NotPassed
      <3>4. W!Skip(t) => at[t] # i
        <4>1. W!Wanted(t) = fd[t] BY <3>1 DEF W!Wanted
        <4>2. table[i].fd = fd[t] BY <1>7, <2>1, <3>2
        <4>3. W!Skip(t) => table[at[t]].fd # fd[t] BY <1>4, <2>1, <4>1
        <4> QED BY <4>2, <4>3
      <3> QED BY <1>3, <2>1, <3>1, <3>3, <3>4
    <2> QED BY <2>2, <2>3
  <1>9. ASSUME NEW t \in Submitters, pc'[t] \in {"write", "read", "reading"}
        PROVE  at'[t] = 1
    <2>1. t \in W!Threads OBVIOUS
    <2>2. CASE pc'[t] = pc[t] /\ at'[t] = at[t] BY <1>0, <1>9, <2>2 DEF NotPassed
    <2>3. CASE pc'[t] = pc[t] /\ at'[t] = at[t] + 1 /\ W!Skip(t)
      <3>1. pc[t] \in {"write", "read"} BY <1>4, <1>9, <2>1, <2>3 DEF W!Searching
      <3>2. at[t] = 1 /\ W!Wanted(t) = W!Pipe BY <1>0, <3>1 DEF NotPassed, W!Wanted
      <3>3. table[1].fd = W!Pipe BY <1>0 DEF RowsOwned
      <3> QED BY <1>4, <2>1, <2>3, <3>2, <3>3
    <2>4. CASE at'[t] = at[t] /\ pc'[t] = "reading" /\ pc[t] = "read"
      BY <1>0, <2>4 DEF NotPassed
    <2> QED BY <1>2, <1>9, <2>1, <2>2, <2>3, <2>4
  <1>10. ASSUME NEW t \in Submitters, pc'[t] = "freeing"
         PROVE  (at[t] \in W!Rows /\ RowOf(at[t], t))'
    <2>1. t \in W!Threads OBVIOUS
    <2>2. CASE pc'[t] = pc[t] /\ at'[t] = at[t]
      <3>1. PICK i \in W!Rows : i = at[t] /\ RowOf(i, t) BY <1>0, <1>10, <2>2 DEF NotPassed
      <3>2. table[i].fd # 0 /\ table[i].of = t BY <3>1 DEF RowOf
      <3>3. \A u \in Submitters : RowOf(i, u) => u = t BY <3>2 DEF RowOf
      <3>4. CASE table'[i] = table[i] BY <2>2, <3>1, <3>2, <3>4 DEF RowOf
      <3>5. CASE table'[i] # table[i]
        <4>1. table'[i].fd = 0 BY <3>2, <3>3, <3>5, RowsKept
        <4>2. fd'[t] # 0 BY <1>1, <1>10 DEF PollTypes
        <4>3. \A j \in W!Rows : ~RowOf(j, t)'
          <5>1. \A j \in W!Rows : RowOf(j, t)' => j = i
            BY <1>0, <1>5, <1>10, <2>1, <2>2, <3>1 DEF RowsOwned
          <5> QED BY <4>1, <5>1 DEF RowOf
        <4>4. RowsOwned' BY RowsOwnedKept
        <4>5. Rowed(t)' BY <1>10, <4>2 DEF Rowed
        <4> QED BY <2>1, <4>3, <4>4, <4>5 DEF RowsOwned
      <3> QED BY <3>4, <3>5
    <2>3. CASE pc'[t] = pc[t] /\ W!Skip(t) BY <1>4, <1>10, <2>1, <2>3 DEF W!Searching
    <2>4. CASE at'[t] = at[t] /\ W!Free(t)
      <3>1. /\ pc[t] = "free" /\ at[t] \in W!Rows /\ table[at[t]].fd = fd[t] /\ section[at[t]] = -1
            /\ table' = table
        BY <2>4 DEF W!Free, W!Enters, W!Here, W!Wanted
      <3>2. fd[t] # 0 BY <1>0, <3>1 DEF PollTypes
      <3>3. ~Closing(t) BY <2>1, <3>1, HandledIs DEF W!InFlight
      <3>4. RowOf(at[t], t) BY <2>1, <3>1, <3>2, <3>3, EntersOwn
      <3> QED BY <2>4, <3>1, <3>4 DEF RowOf
    <2> QED BY <1>2, <1>10, <2>1, <2>2, <2>3, <2>4
  <1>11. ASSUME pc'[0] = "done", NEW i \in W!Rows, RowOf(i, Handled)'
         PROVE  at'[0] =< i
    <2>1. CASE at'[0] = 1 BY <2>1
    <2>2. CASE at'[0] # 1
      <3>1. pc[0] = "done" /\ (at'[0] = at[0] \/ (at'[0] = at[0] + 1 /\ W!Skip(0)))
        BY <1>2, <1>11, <2>2
      <3>2. PICK t \in Submitters : t = Handled /\ t \in W!InFlight BY <3>1, HandledIs
      <3>3. Handled' = t BY <1>2, <1>11, <3>2 DEF Handled
      <3>4. pc[t] # "create" BY <3>2 DEF W!InFlight
      <3>5. RowOf(i, t)' BY <1>11, <3>3 DEF RowOf
      <3>6. RowOf(i, t) BY <1>5, <3>4, <3>5
      <3>7. at[0] =< i BY <1>0, <3>1, <3>2, <3>6 DEF NotPassed
      <3>8. W!Skip(0) => at[0] # i
        <4>1. W!Wanted(0) = fd[t] BY <3>1, <3>2 DEF W!Wanted, Handled
        <4> QED BY <1>4, <1>7, <3>6, <4>1
      <3> QED BY <1>3, <3>1, <3>7, <3>8
    <2> QED BY <2>1, <2>2
  <1>12. ASSUME pc'[0] = "freed"
         PROVE  (at[0] \in W!Rows /\ RowOf(at[0], Handled))'
    <2>1. pc[0] \in {"done", "freed"}
      BY <1>2, <1>12 DEF W!FreeCompleted
    <2>2. PICK t \in Submitters : t = Handled /\ t \in W!InFlight BY <2>1, HandledIs
    <2>3. Handled' = t BY <1>2, <1>12, <2>2 DEF Handled
    <2>4. pc[t] # "freeing" BY <2>2 DEF W!InFlight
    <2>5. at'[0] = at[0] /\ at[0] \in W!Rows /\ RowOf(at[0], t)
      <3>1. CASE pc'[0] = pc[0] /\ at'[0] = at[0] BY <1>0, <1>12, <2>2, <3>1 DEF NotPassed
      <3>2. CASE pc'[0] = pc[0] /\ W!Skip(0) BY <1>4, <1>12, <3>2 DEF W!Searching
      <3>3. CASE at'[0] = at[0] /\ W!FreeCompleted
        <4>1. /\ pc[0] = "done" /\ at[0] \in W!Rows /\ table[at[0]].fd = fd[t] /\ section[at[0]] = -1
          BY <2>2, <3>3 DEF W!FreeCompleted, W!Enters, W!Here, W!Wanted, Handled
        <4>2. fd[t] # 0 BY <2>2 DEF W!InFlight
        <4>3. ~Closing(t) BY <2>2, <4>1, HandledIs
        <4> QED BY <3>3, <4>1, <4>2, <4>3, EntersOwn
      <3> QED BY <1>2, <1>12, <3>1, <3>2, <3>3
    <2>6. RowOf(at[0], t)' BY <1>6, <1>12, <2>4, <2>5
    <2> QED BY <2>3, <2>5, <2>6 DEF RowOf
  <1>13. ASSUME pc'[0] = "poll", NEW i \in W!Rows, NEW t \in W!InFlight' \cup {0},
                RowOf(i, t)', fd'[t] = W!Min(todo')
         PROVE  at'[0] =< i
    <2>1. CASE at'[0] = 1 BY <2>1
    <2>2. CASE at'[0] # 1
      <3>1. pc[0] = "poll" /\ (at'[0] = at[0] \/ (at'[0] = at[0] + 1 /\ W!Skip(0))) /\ todo' = todo
        BY <1>2, <1>13, <2>2
      <3>2. fd[t] = W!Min(todo) BY <1>13, <3>1, InFlightKept
      <3>3. t \in W!InFlight \cup {0}
        <4>1. ASSUME W!Submitted(t), t \in W!Threads, t \notin W!InFlight, t # 0 PROVE FALSE
          <5>1. todo # {} /\ todo \subseteq pollfds /\ todo \in SUBSET Nat
            BY <1>0, <3>1 DEF Seen, PollTypes
          <5>2. W!Min(todo) \in pollfds BY <5>1, PollMin
          <5>3. PICK u \in W!InFlight \cup {0} : fd[u] = fd[t] /\ u \in W!Threads
            BY <1>0, <3>2, <5>2 DEF Seen, Polled, W!InFlight, PollTypes
          <5>4. ~Closing(u) BY <3>1, <5>3, HandledIs
          <5>5. pc[t] = "submit" BY <4>1 DEF W!Submitted
          <5>6. ~Closing(t) BY <4>1, <5>5, HandledIs
          <5>7. fd[t] # 0
            <6>1. t \in Submitters BY <4>1
            <6> QED BY <1>0, <5>5, <6>1 DEF PollTypes
          <5>8. u = t BY <1>0, <4>1, <5>3, <5>4, <5>6, <5>7 DEF OneEach
          <5> QED BY <4>1, <5>3, <5>8
        <4> QED BY <1>13, <4>1, InFlightKept
      <3>4. t \in W!Threads /\ pc[t] # "create"
        <4>1. pc[0] # "create" BY <1>0 DEF PollTypes
        <4> QED BY <3>3, <4>1 DEF W!InFlight
      <3>5. RowOf(i, t) BY <1>5, <1>13, <3>4
      <3>6. at[0] =< i BY <1>0, <3>1, <3>2, <3>3, <3>5 DEF NotPassed
      <3>7. W!Skip(0) => at[0] # i
        <4>1. W!Wanted(0) = fd[t] BY <3>1, <3>2 DEF W!Wanted
        <4> QED BY <1>4, <1>7, <3>4, <3>5, <4>1
      <3> QED BY <1>3, <3>1, <3>6, <3>7
    <2> QED BY <2>1, <2>2
  <1> QED BY <1>8, <1>9, <1>10, <1>11, <1>12, <1>13 DEF NotPassed

(* What the steps of the submitters leave to the event thread.             *)
LEMMA OfSubmitters ==
  ASSUME PollInv, NEW t \in W!Threads,
         \/ W!Skip(t) \/ W!Create(t) \/ W!Created(t) \/ W!TableFull(t) \/ W!Submitted(t) \/ W!SubmitFails(t)
         \/ W!Free(t) \/ W!Freed(t) \/ W!Complete(t) \/ W!Notify(t) \/ W!Write(t) \/ W!LockEvents(t)
         \/ W!Read(t) \/ W!ReadEnds(t) \/ W!Unlock(t)
  PROVE  /\ UNCHANGED W!poll
         /\ pc'[0] = pc[0] \/ (pc[0] = "unlock" /\ pc'[0] = "idle")
         /\ pollfds' = pollfds \/ W!Submitted(t)
         /\ completed' = completed \/ (t \in W!InFlight /\ completed' = completed \cup {t})
         /\ \A u \in W!Threads : pc[u] = "notify" /\ pc'[u] # "notify" => modify' = modify + 1
         /\ modify' = modify \/ modify' = modify + 1 \/ (pc[t] = "unlock" /\ t # 0)
  <1> USE PollFacts DEF W!context
  <1>0. PollTypes BY DEF PollInv
  <1>1. PICK S : pc \in [W!Threads -> S] BY <1>0 DEF PollTypes
  <1>2. ASSUME NEW p, pc' = [pc EXCEPT ![t] = p], pc[t] # "notify", t # 0
        PROVE  pc'[0] = pc[0] /\ \A u \in W!Threads : pc[u] = "notify" => pc'[u] = "notify"
    BY <1>1, <1>2
  <1>3. CASE W!Skip(t) \/ W!Complete(t) BY <1>3 DEF W!Skip, W!Complete
  <1>4. CASE W!Create(t) \/ W!SubmitFails(t) \/ W!TableFull(t)
    <2>1. /\ UNCHANGED W!poll /\ UNCHANGED <<pollfds, completed, modify>>
          /\ pc' \in {[pc EXCEPT ![t] = p] : p \in {"create", "free", "idle"}}
          /\ pc[t] \in {"idle", "submit", "create"}
      BY <1>4 DEF W!Create, W!SubmitFails, W!TableFull, W!Search, W!Goto
    <2>2. t # 0
      <3>1. CASE W!Create(t) BY <1>0, <3>1 DEF W!Create, PollTypes
      <3>2. CASE ~W!Create(t) BY <1>0, <1>4, <3>2 DEF W!TableFull, W!SubmitFails, PollTypes
      <3> QED BY <3>1, <3>2
    <2> QED BY <1>2, <2>1, <2>2
  <1>5. CASE W!Created(t) \/ W!Submitted(t) \/ W!Free(t)
    <2>1. /\ UNCHANGED W!poll /\ UNCHANGED <<completed, modify>>
          /\ pollfds' = pollfds \/ W!Submitted(t)
          /\ pc' \in {[pc EXCEPT ![t] = p] : p \in {"submit", "notify", "freeing"}}
          /\ pc[t] \in {"create", "submit", "free"}
      BY <1>5 DEF W!Created, W!Submitted, W!Free, W!Goto
    <2>2. t # 0 BY <2>1, HandledIs
    <2> QED BY <1>2, <2>1, <2>2
  <1>6. CASE W!Freed(t) \/ W!LockEvents(t) \/ W!Write(t)
    <2>1. /\ UNCHANGED W!poll /\ UNCHANGED <<pollfds, completed, modify>>
          /\ pc' \in {[pc EXCEPT ![t] = p] : p \in {"read", "lock", "idle"}}
          /\ pc[t] \in {"freeing", "lock", "write"}
      BY <1>6 DEF W!Freed, W!LockEvents, W!Write, W!Search, W!Goto
    <2>2. t # 0 BY <2>1, HandledIs
    <2> QED BY <1>2, <2>1, <2>2
  <1>7. CASE W!Read(t) \/ W!ReadEnds(t)
    <2>1. /\ UNCHANGED W!poll /\ UNCHANGED <<pollfds, completed, modify>>
          /\ pc' \in {[pc EXCEPT ![t] = p] : p \in {"reading", "unlock"}}
          /\ pc[t] \in {"read", "reading"}
      BY <1>7 DEF W!Read, W!ReadEnds, W!Goto
    <2>2. t # 0 BY <2>1, HandledIs
    <2> QED BY <1>2, <2>1, <2>2
  <1>8. CASE W!Notify(t)
    <2>1. /\ UNCHANGED W!poll /\ UNCHANGED <<pollfds, completed>> /\ modify' = modify + 1
          /\ pc[t] = "notify" /\ pc' = [pc EXCEPT ![t] = "write"]
      BY <1>8 DEF W!Notify, W!Search, W!Goto
    <2>2. t # 0 BY <2>1, HandledIs
    <2>3. pc'[0] = pc[0] BY <1>1, <2>1, <2>2
    <2> QED BY <2>1, <2>3
  <1>9. CASE W!Unlock(t)
    <2>1. /\ UNCHANGED W!poll /\ UNCHANGED <<pollfds, completed>>
          /\ t = 0 => modify' = modify
          /\ pc[t] = "unlock" /\ pc' = [pc EXCEPT ![t] = "idle"]
      BY <1>9 DEF W!Unlock, W!Search, W!Goto
    <2> QED BY <1>1, <2>1
  <1> QED BY <1>3, <1>4, <1>5, <1>6, <1>7, <1>8, <1>9

(* Whose event usbi_poll looks at                                          *)
LEMMA OfNext ==
  ASSUME PollInv, W!PollNext
  PROVE  /\ table[at[0]].of \in W!InFlight \cup {0} /\ fd[table[at[0]].of] = W!Min(todo)
         /\ todo' = todo \ {W!Min(todo)}
  <1> USE PollFacts
  <1>1. /\ pc[0] = "poll" /\ todo # {} /\ at[0] \in W!Rows /\ section[at[0]] = -1
        /\ table[at[0]].fd = W!Min(todo) /\ todo' = todo \ {W!Min(todo)}
    BY DEF W!PollNext, W!Enters, W!Here, W!Wanted
  <1>2. PollTypes /\ Seen BY DEF PollInv
  <1>3. todo \subseteq pollfds /\ todo \in SUBSET Nat BY <1>1, <1>2 DEF Seen, PollTypes
  <1>4. W!Min(todo) \in pollfds BY <1>1, <1>3, PollMin
  <1>5. PICK u \in W!InFlight \cup {0} : fd[u] = W!Min(todo) /\ u \in W!Threads /\ fd[u] # 0
    <2>1. fd[0] = W!Pipe BY <1>2 DEF PollTypes
    <2>2. \E u \in W!InFlight \cup {0} : fd[u] = W!Min(todo)
      BY <1>2, <1>4, <2>1 DEF Seen, Polled
    <2>3. \A u \in W!InFlight \cup {0} : u \in W!Threads /\ fd[u] # 0 BY <2>1 DEF W!InFlight
    <2> QED BY <2>2, <2>3
  <1>6. ~Closing(u) BY <1>1, <1>5, HandledIs
  <1>7. RowOf(at[0], u) BY <1>1, <1>5, <1>6, EntersOwn
  <1> QED BY <1>1, <1>5, <1>7 DEF RowOf

LEMMA SeenKept ==
  ASSUME PollInv, [W!Next]_W!vars
  PROVE  Seen'
  <1> USE PollFacts
  <1>0. PollTypes /\ Seen /\ OneEach BY DEF PollInv
  <1>1. /\ \A t \in W!InFlight' : t \in W!InFlight \/ (W!Submitted(t) /\ t \in W!Threads)
        /\ \A t \in W!InFlight : t \in W!InFlight' \/ (W!FreedCompleted /\ t = Handled)
        /\ \A t \in W!InFlight' \cup {0} : fd'[t] = fd[t]
    BY InFlightKept
  <1>2. PICK S : pc \in [W!Threads -> S] BY <1>0 DEF PollTypes
  <1>3. \A t \in W!Threads : W!Submitted(t) =>
          pollfds' = pollfds \cup {fd[t]} /\ pc[t] = "submit" /\ pc'[t] = "notify" /\ fd' = fd
    BY <1>2 DEF W!Submitted, W!Goto
  <1>4. ASSUME NEW t \in W!Threads,
               \/ W!Skip(t) \/ W!Create(t) \/ W!Created(t) \/ W!TableFull(t) \/ W!Submitted(t) \/ W!SubmitFails(t)
               \/ W!Free(t) \/ W!Freed(t) \/ W!Complete(t) \/ W!Notify(t) \/ W!Write(t) \/ W!LockEvents(t)
               \/ W!Read(t) \/ W!ReadEnds(t) \/ W!Unlock(t)
        PROVE  Seen'
    <2>1. /\ todo' = todo /\ waits' = waits /\ triggered' = triggered
          /\ pc'[0] = pc[0] \/ (pc[0] = "unlock" /\ pc'[0] = "idle")
          /\ pollfds' = pollfds \/ W!Submitted(t)
          /\ completed' = completed \/ (t \in W!InFlight /\ completed' = completed \cup {t})
      BY <1>4, OfSubmitters DEF W!poll
    <2>2. W!InFlight \subseteq W!InFlight'
      <3>1. W!FreedCompleted => Handled \in triggered /\ Handled \notin triggered'
        <4>1. W!FreedCompleted => pc[0] = "freed" /\ triggered' = triggered \ {Handled}
          BY DEF W!FreedCompleted, Handled
        <4> QED BY <4>1, HandledIs
      <3> QED BY <1>1, <2>1, <3>1
    <2>3. pollfds \subseteq pollfds' BY <1>3, <2>1
    <2>4. \A u \in W!Threads : Taken(u)' <=> Taken(u) BY <2>1 DEF Taken, Handled
    <2>5. Polled'
      <3>1. ASSUME NEW u \in W!InFlight', ~Taken(u)' PROVE fd'[u] \in pollfds'
        <4>1. CASE u \in W!InFlight
          <5>1. u \in W!Threads BY <4>1 DEF W!InFlight
          <5>2. fd[u] \in pollfds BY <1>0, <2>4, <3>1, <4>1, <5>1 DEF Seen, Polled
          <5> QED BY <1>1, <2>3, <5>2
        <4>2. CASE W!Submitted(u) /\ u \in W!Threads BY <1>3, <4>2
        <4> QED BY <1>1, <4>1, <4>2
      <3>2. ASSUME NEW f \in pollfds', f # W!Pipe
            PROVE  \E u \in W!InFlight' : (~Taken(u)' /\ fd'[u] = f)
        <4>1. CASE f \in pollfds
          <5>1. PICK u \in W!InFlight : ~Taken(u) /\ fd[u] = f BY <1>0, <3>2, <4>1 DEF Seen, Polled
          <5>2. u \in W!Threads BY DEF W!InFlight
          <5> QED BY <1>1, <2>2, <2>4, <5>1, <5>2
        <4>2. CASE f \notin pollfds
          <5>1. W!Submitted(t) /\ f = fd[t] BY <1>3, <2>1, <3>2, <4>2
          <5>2. pc[t] = "submit" /\ pc'[t] = "notify" /\ fd' = fd BY <1>3, <5>1
          <5>3. t \in Submitters BY <5>2, HandledIs
          <5>4. fd[t] # 0 BY <1>0, <5>2, <5>3 DEF PollTypes
          <5>5. t \in W!InFlight' BY <5>2, <5>3, <5>4 DEF W!InFlight
          <5>6. t \notin W!InFlight BY <5>2 DEF W!InFlight
          <5>7. ~Taken(t) BY <5>6, HandledIs DEF Taken
          <5> QED BY <2>4, <5>1, <5>2, <5>5, <5>7
        <4> QED BY <4>1, <4>2
      <3>3. W!Pipe \in pollfds' BY <1>0, <2>3 DEF Seen, Polled
      <3> QED BY <3>1, <3>2, <3>3 DEF Polled
    <2> QED BY <1>0, <2>1, <2>2, <2>3, <2>5 DEF Seen
  (* The event thread takes part in no submission.                         *)
  <1>5. ASSUME NEW p, pc' = [pc EXCEPT ![0] = p]
        PROVE  W!InFlight' \subseteq W!InFlight /\ pc'[0] = p
    <2>1. \A u \in W!Threads : W!Submitted(u) => u # 0 BY HandledIs DEF W!Submitted
    <2>2. \A u \in W!Threads : u # 0 => pc'[u] = pc[u] BY <1>2, <1>5
    <2> QED BY <1>1, <1>2, <1>3, <1>5, <2>1, <2>2
  <1>6. ASSUME UNCHANGED pollfds, W!InFlight' = W!InFlight, \A u \in W!Threads : Taken(u)' <=> Taken(u)
        PROVE  Polled'
    <2>1. \A u \in W!InFlight : u \in W!Threads /\ fd'[u] = fd[u] BY <1>1, <1>6 DEF W!InFlight
    <2> QED BY <1>0, <1>6, <2>1 DEF Seen, Polled
  <1>7. CASE W!PollBegins
    <2>1. /\ pc[0] = "idle" /\ pc' = [pc EXCEPT ![0] = "poll"] /\ triggered' = {} /\ waits' = {}
          /\ todo' = pollfds /\ pollfds' = pollfds /\ completed' = completed
      BY <1>7 DEF W!PollBegins, W!Search, W!Goto
    <2>2. ~W!FreedCompleted BY <2>1 DEF W!FreedCompleted
    <2>3. pc'[0] = "poll" /\ W!InFlight' = W!InFlight BY <1>1, <1>5, <2>1, <2>2
    <2>4. Polled' BY <1>6, <2>1, <2>3 DEF Taken
    <2>5. W!Pipe \in pollfds BY <1>0 DEF Seen, Polled
    <2> QED BY <1>0, <2>1, <2>3, <2>4, <2>5 DEF Seen
  <1>8. CASE W!PollNext
    <2> DEFINE of == table[at[0]].of
    <2>1. /\ of \in W!InFlight \cup {0} /\ todo' = todo \ {W!Min(todo)} BY <1>8, OfNext
    <2>2. PICK p \in {"poll", "handle", "wait"} :
            /\ pc[0] = "poll" /\ pc' = [pc EXCEPT ![0] = p]
            /\ p = "poll" => todo' # {}
            /\ p = "wait" => todo' = {} /\ triggered' = {}
            /\ pollfds' = pollfds /\ completed' = completed
      BY <1>8 DEF W!PollNext, W!Search, W!Goto, W!context
    <2>3. /\ triggered' = triggered \/ (W!Ready(of) /\ triggered' = triggered \cup {of})
          /\ waits' \subseteq waits \cup {of}
      BY <1>8 DEF W!PollNext
    <2>4. W!Ready(of) /\ of # 0 => of \in completed BY DEF W!Ready
    <2>5. ~W!FreedCompleted BY <2>2 DEF W!FreedCompleted
    <2>6. pc'[0] = p /\ W!InFlight' = W!InFlight BY <1>1, <1>5, <2>2, <2>5
    <2>7. Polled' BY <1>6, <2>2, <2>6 DEF Taken
    <2>8. triggered' \ {0} \subseteq completed' BY <1>0, <2>2, <2>3, <2>4 DEF Seen
    <2>9. waits' \ {0} \subseteq W!InFlight' BY <1>0, <2>1, <2>2, <2>3, <2>6 DEF Seen
    <2>10. todo' \subseteq pollfds' BY <1>0, <2>1, <2>2 DEF Seen
    <2> QED BY <1>0, <2>2, <2>6, <2>7, <2>8, <2>9, <2>10 DEF Seen
  <1>9. CASE W!PollReturns
    <2>1. PICK p \in {"handle", "unlock"} :
            /\ pc[0] = "wait" /\ pc' = [pc EXCEPT ![0] = p]
            /\ pollfds' = pollfds /\ completed' = completed
      BY <1>9 DEF W!PollReturns, W!Goto, W!context
    <2>2. triggered' = triggered \/ \E of \in waits : W!Ready(of) /\ triggered' = {of}
      BY <1>9 DEF W!PollReturns
    <2>3. ~W!FreedCompleted BY <2>1 DEF W!FreedCompleted
    <2>4. pc'[0] = p /\ W!InFlight' = W!InFlight BY <1>1, <1>5, <2>1, <2>3
    <2>5. Polled' BY <1>6, <2>1, <2>4 DEF Taken
    <2>6. triggered' \ {0} \subseteq completed BY <1>0, <2>2 DEF Seen, W!Ready
    <2> QED BY <1>0, <2>1, <2>4, <2>5, <2>6 DEF Seen
  <1>10. CASE W!Handle
    <2>1. PICK p \in {"done", "unlock"} :
            /\ pc[0] = "handle" /\ pc' = [pc EXCEPT ![0] = p] /\ completed' = completed
            /\ triggered' = triggered
            /\ p = "done" => triggered \ {0} # {} /\ pollfds' = pollfds \ {fd[Handled]}
            /\ p = "unlock" => pollfds' = pollfds
      BY <1>10 DEF W!Handle, W!Search, W!Goto, W!poll, Handled
    <2>2. ~W!FreedCompleted BY <2>1 DEF W!FreedCompleted
    <2>3. pc'[0] = p /\ W!InFlight' = W!InFlight /\ Handled' = Handled BY <1>1, <1>5, <2>1,
        <2>2 DEF Handled
    <2>4. Polled'
      <3>1. CASE p = "unlock" BY <1>6, <2>1, <2>3, <3>1 DEF Taken
      <3>2. CASE p = "done"
        <4>1. PICK h \in W!InFlight : h = Handled BY <2>1, <3>2, HandledIs
        <4>2. \A u \in W!Threads : Taken(u)' <=> u = h BY <2>3, <3>2, <4>1 DEF Taken
        <4>3. \A u \in W!Threads : ~Taken(u) BY <2>1 DEF Taken
        <4>4. \A u \in W!InFlight : u \in W!Threads /\ fd[u] # 0 /\ ~Closing(u) /\ fd'[u] = fd[u]
          BY <1>1, <2>1, <2>3, HandledIs DEF W!InFlight
        <4>5. \A u \in W!InFlight : fd[u] = fd[h] => u = h BY <1>0, <4>4 DEF OneEach
        <4>6. fd[h] # W!Pipe
          <5>1. h \in Submitters BY DEF W!InFlight
          <5> QED BY <1>0, <4>4, <5>1 DEF PollTypes
        <4>7. pollfds' = pollfds \ {fd[h]} BY <2>1, <3>2, <4>1
        <4>8. \A u \in W!InFlight : u # h => fd'[u] \in pollfds'
          BY <1>0, <4>3, <4>4, <4>5, <4>7 DEF Seen, Polled
        <4>9. \A f \in pollfds' : f = W!Pipe \/ \E u \in W!InFlight : (u # h /\ fd'[u] = f)
          BY <1>0, <4>4, <4>7 DEF Seen, Polled
        <4>10. W!Pipe \in pollfds' BY <1>0, <4>6, <4>7 DEF Seen, Polled
        <4> QED BY <2>3, <4>2, <4>4, <4>8, <4>9, <4>10 DEF Polled
      <3> QED BY <3>1, <3>2
    <2> QED BY <1>0, <2>1, <2>3, <2>4 DEF Seen
  <1>11. CASE W!FreeCompleted
    <2>1. /\ pc[0] = "done" /\ pc' = [pc EXCEPT ![0] = "freed"] /\ completed' = completed
          /\ triggered' = triggered /\ pollfds' = pollfds
      BY <1>11 DEF W!FreeCompleted, W!Goto, W!poll, W!context
    <2>2. ~W!FreedCompleted BY <2>1 DEF W!FreedCompleted
    <2>3. pc'[0] = "freed" /\ W!InFlight' = W!InFlight /\ Handled' = Handled
      BY <1>1, <1>5, <2>1, <2>2 DEF Handled
    <2>4. Polled' BY <1>6, <2>1, <2>3 DEF Taken
    <2> QED BY <1>0, <2>1, <2>3, <2>4 DEF Seen
  <1>12. CASE W!FreedCompleted
    <2>1. /\ pc[0] = "freed" /\ pc' = [pc EXCEPT ![0] = "handle"]
          /\ completed' = completed \ {Handled} /\ triggered' = triggered \ {Handled}
          /\ pollfds' = pollfds /\ fd' = [fd EXCEPT ![Handled] = 0]
      BY <1>12 DEF W!FreedCompleted, W!Goto, Handled, W!context
    <2>2. PICK h \in Submitters : h = Handled BY <2>1, HandledIs
    <2>3. pc'[0] = "handle" /\ W!InFlight' \subseteq W!InFlight BY <1>5, <2>1
    <2>4. h \notin W!InFlight'
      <3>1. fd'[h] = 0 BY <1>0, <2>1, <2>2 DEF PollTypes
      <3> QED BY <3>1 DEF W!InFlight
    <2>5. \A u \in W!InFlight : u # h => u \in W!InFlight' BY <1>1, <2>2
    <2>6. \A u \in W!Threads : (Taken(u) <=> u = h) /\ ~Taken(u)' BY <2>1, <2>2, <2>3 DEF Taken
    <2>7. Polled'
      <3>1. \A u \in W!InFlight' : u \in W!Threads /\ fd'[u] = fd[u] /\ u # h /\ u \in W!InFlight
        BY <1>1, <2>3, <2>4 DEF W!InFlight
      <3>2. \A u \in W!InFlight' : fd'[u] \in pollfds'
        <4>1. \A u \in W!InFlight' : ~Taken(u) BY <2>6, <3>1
        <4> QED BY <1>0, <2>1, <3>1, <4>1 DEF Seen, Polled
      <3>3. ASSUME NEW f \in pollfds', f # W!Pipe
            PROVE  \E u \in W!InFlight' : (~Taken(u)' /\ fd'[u] = f)
        <4>1. PICK u \in W!InFlight : ~Taken(u) /\ fd[u] = f BY <1>0, <2>1, <3>3 DEF Seen, Polled
        <4>2. u \in W!Threads BY DEF W!InFlight
        <4> QED BY <2>5, <2>6, <3>1, <4>1, <4>2
      <3>4. W!Pipe \in pollfds' BY <1>0, <2>1 DEF Seen, Polled
      <3> QED BY <3>2, <3>3, <3>4 DEF Polled
    <2>8. completed' \subseteq W!InFlight' BY <1>0, <2>1, <2>2, <2>5 DEF Seen
    <2>9. triggered' \ {0} \subseteq completed' BY <1>0, <2>1 DEF Seen
    <2> QED BY <2>3, <2>7, <2>8, <2>9 DEF Seen
  <1>13. CASE UNCHANGED W!vars
    BY <1>0, <1>13 DEF W!vars, Seen, Polled, W!InFlight, Taken, Handled, W!rows, W!context, W!poll
  <1> QED BY <1>4, <1>7, <1>8, <1>9, <1>10, <1>11, <1>12, <1>13 DEF W!Next

LEMMA NotifiedKept ==
  ASSUME PollInv, [W!Next]_W!vars
  PROVE  Notified'
  <1> USE PollFacts
  <1> DEFINE Holding == {"read", "reading", "unlock"}
             Changes == {"write", "lock", "read", "reading", "unlock"}
             Writes == {"lock", "read", "reading"}
             Locks == /\ \A u \in Submitters : events_lock' = u <=> pc'[u] \in Holding
                      /\ events_lock' = 0 <=> pc'[0] # "idle"
             Sums == /\ modify' = Cardinality(Changing') /\ InternalHigh' = Cardinality(Written')
                       /\ signaled' = (InternalHigh' > 0)
             Waits == pc'[0] \in {"poll", "wait"} /\ modify' = 0 =>
                        \A u \in W!InFlight' :
                          pc'[u] # "notify" => fd'[u] \in todo' \/ u \in waits' \cup triggered'
  <1>0. PollTypes /\ Notified /\ Seen BY DEF PollInv
  <1>1. PICK S : pc \in [W!Threads -> S] BY <1>0 DEF PollTypes
  <1>2. /\ \A u \in Submitters : events_lock = u <=> pc[u] \in Holding
        /\ events_lock = 0 <=> pc[0] # "idle"
    BY <1>0 DEF Notified
  <1>3. /\ modify = Cardinality(Changing) /\ InternalHigh = Cardinality(Written)
        /\ signaled = (InternalHigh > 0)
        /\ IsFiniteSet(Changing) /\ IsFiniteSet(Written) /\ Changing \subseteq Submitters
        /\ Written \subseteq Submitters /\ modify \in Nat /\ InternalHigh \in Nat
    <2>1. Changing \subseteq Submitters /\ Written \subseteq Submitters BY DEF Changing, Written
    <2>2. IsFiniteSet(Changing) /\ IsFiniteSet(Written) BY <2>1, FS_Subset
    <2> QED BY <1>0, <2>1, <2>2 DEF PollTypes, Notified
  <1>4. /\ Changing = {u \in Submitters : pc[u] \in Changes} /\ Written = {u \in Submitters : pc[u] \in Writes}
        /\ Changing' = {u \in Submitters : pc'[u] \in Changes} /\ Written' = {u \in Submitters : pc'[u] \in Writes}
    BY DEF Changing, Written
  <1>5. Locks /\ Sums /\ Waits => Notified' BY DEF Notified
  <1> HIDE DEF Waits
  (* Where nobody takes or leaves the lock, and nobody begins or ends to   *)
  (* change or to write                                                    *)
  <1>a. ASSUME NEW t \in W!Threads, NEW p, pc' = [pc EXCEPT ![t] = p], events_lock' = events_lock,
               t # 0 => (pc[t] \in Holding <=> p \in Holding),
               t = 0 => pc[0] # "idle" /\ p # "idle"
        PROVE  Locks
    BY <1>1, <1>2, <1>a
  <1>b. ASSUME NEW t \in W!Threads, NEW p, pc' = [pc EXCEPT ![t] = p], UNCHANGED <<modify, W!pipe>>,
               t # 0 => (pc[t] \in Changes <=> p \in Changes) /\ (pc[t] \in Writes <=> p \in Writes)
        PROVE  Sums
    <2>1. Changing' = Changing /\ Written' = Written BY <1>1, <1>4, <1>b
    <2> QED BY <1>3, <1>b, <2>1 DEF W!pipe
  <1>c. ASSUME pc' = pc, UNCHANGED <<W!context, W!pipe>> PROVE Locks /\ Sums
    <2>1. Changing' = Changing /\ Written' = Written BY <1>4, <1>c
    <2> QED BY <1>2, <1>3, <1>c, <2>1 DEF W!pipe, W!context
  <1>d. ASSUME NEW t \in W!Threads,
               \/ W!Skip(t) \/ W!Create(t) \/ W!Created(t) \/ W!TableFull(t) \/ W!Submitted(t) \/ W!SubmitFails(t)
               \/ W!Free(t) \/ W!Freed(t) \/ W!Complete(t) \/ W!Notify(t) \/ W!Write(t) \/ W!LockEvents(t)
               \/ W!Read(t) \/ W!ReadEnds(t) \/ W!Unlock(t)
        PROVE  Waits
    <2> SUFFICES ASSUME pc'[0] \in {"poll", "wait"}, modify' = 0,
                        NEW u \in W!InFlight', pc'[u] # "notify"
                 PROVE  fd'[u] \in todo' \/ u \in waits' \cup triggered'
      BY DEF Waits
    <2>1. /\ todo' = todo /\ waits' = waits /\ triggered' = triggered
          /\ pc'[0] = pc[0] \/ (pc[0] = "unlock" /\ pc'[0] = "idle")
          /\ \A v \in W!Threads : pc[v] = "notify" /\ pc'[v] # "notify" => modify' = modify + 1
          /\ modify' = modify \/ modify' = modify + 1 \/ (pc[t] = "unlock" /\ t # 0)
      BY <1>d, OfSubmitters DEF W!poll
    <2>2. pc[0] \in {"poll", "wait"} BY <2>1
    <2>3. ~(pc[t] = "unlock" /\ t # 0)
      <3>1. events_lock = 0 BY <1>2, <2>2
      <3> QED BY <1>2, <3>1
    <2>4. modify = 0 BY <1>3, <2>1, <2>3
    <2>5. u \in W!Threads BY DEF W!InFlight
    <2>6. pc[u] # "notify" BY <2>1, <2>4, <2>5
    <2>7. u \in W!InFlight /\ fd'[u] = fd[u]
      <3>1. W!Submitted(u) /\ u \in W!Threads => pc'[u] = "notify" BY <1>1 DEF W!Submitted, W!Goto
      <3> QED BY <3>1, InFlightKept
    <2>8. fd[u] \in todo \/ u \in waits \cup triggered BY <1>0, <2>2, <2>4, <2>6, <2>7 DEF Notified
    <2> QED BY <2>1, <2>7, <2>8
  <1>6. ASSUME NEW t \in W!Threads, W!Skip(t) \/ W!Complete(t) PROVE Notified'
    BY <1>5, <1>6, <1>c, <1>d DEF W!Skip, W!Complete
  <1>7. ASSUME NEW t \in W!Threads, W!Create(t) \/ W!SubmitFails(t) \/ W!TableFull(t) PROVE Notified'
    <2>1. PICK p \in {"create", "free", "idle"} :
            /\ pc' = [pc EXCEPT ![t] = p] /\ pc[t] \in {"idle", "submit", "create"}
            /\ events_lock' = events_lock /\ UNCHANGED <<modify, W!pipe>>
      BY <1>7 DEF W!Create, W!SubmitFails, W!TableFull, W!Search, W!Goto, W!context
    <2>2. t # 0
      <3>1. CASE W!Create(t) BY <1>0, <3>1 DEF W!Create, PollTypes
      <3>2. CASE ~W!Create(t) BY <1>0, <1>7, <3>2 DEF W!TableFull, W!SubmitFails, PollTypes
      <3> QED BY <3>1, <3>2
    <2>3. Locks /\ Sums BY <1>a, <1>b, <2>1, <2>2
    <2> QED BY <1>5, <1>7, <1>d, <2>3
  <1>8. ASSUME NEW t \in W!Threads, W!Created(t) \/ W!Submitted(t) \/ W!Free(t) \/ W!Freed(t) PROVE Notified'
    <2>1. PICK p \in {"submit", "notify", "freeing", "idle"} :
            /\ pc' = [pc EXCEPT ![t] = p] /\ pc[t] \in {"create", "submit", "free", "freeing"}
            /\ events_lock' = events_lock /\ UNCHANGED <<modify, W!pipe>>
      BY <1>8 DEF W!Created, W!Submitted, W!Free, W!Freed, W!Search, W!Goto, W!context
    <2>2. t # 0 BY <2>1, HandledIs
    <2>3. Locks /\ Sums BY <1>a, <1>b, <2>1, <2>2
    <2> QED BY <1>5, <1>8, <1>d, <2>3
  <1>9. ASSUME NEW t \in W!Threads, W!Read(t) PROVE Notified'
    <2>1. /\ pc' = [pc EXCEPT ![t] = "reading"] /\ pc[t] = "read"
          /\ events_lock' = events_lock /\ UNCHANGED <<modify, W!pipe>>
      BY <1>9 DEF W!Read, W!Goto, W!context
    <2>2. t # 0 BY <2>1, HandledIs
    <2>3. Locks /\ Sums BY <1>a, <1>b, <2>1, <2>2
    <2> QED BY <1>5, <1>9, <1>d, <2>3
  <1>10. ASSUME NEW t \in W!Threads, W!Notify(t) PROVE Notified'
    <2>1. /\ pc' = [pc EXCEPT ![t] = "write"] /\ pc[t] = "notify" /\ modify' = modify + 1
          /\ events_lock' = events_lock /\ UNCHANGED W!pipe
      BY <1>10 DEF W!Notify, W!Search, W!Goto
    <2>2. t \in Submitters /\ t # 0 BY <2>1, HandledIs
    <2>3. Locks BY <1>a, <2>1, <2>2
    <2>4. Changing' = Changing \cup {t} /\ t \notin Changing /\ Written' = Written
      BY <1>1, <1>4, <2>1, <2>2
    <2>5. Cardinality(Changing') = Cardinality(Changing) + 1 BY <1>3, <2>4, FS_AddElement
    <2>6. Sums BY <1>3, <2>1, <2>4, <2>5 DEF W!pipe
    <2> QED BY <1>5, <1>10, <1>d, <2>3, <2>6
  <1>11. ASSUME NEW t \in W!Threads, W!Write(t) PROVE Notified'
    <2>1. /\ pc' = [pc EXCEPT ![t] = "lock"] /\ pc[t] = "write" /\ modify' = modify
          /\ events_lock' = events_lock /\ signaled' = TRUE /\ InternalHigh' = InternalHigh + 1
      BY <1>11 DEF W!Write, W!Goto, W!context
    <2>2. t \in Submitters /\ t # 0 BY <2>1, HandledIs
    <2>3. Locks BY <1>a, <2>1, <2>2
    <2>4. Written' = Written \cup {t} /\ t \notin Written /\ Changing' = Changing
      BY <1>1, <1>4, <2>1, <2>2
    <2>5. Cardinality(Written') = Cardinality(Written) + 1 BY <1>3, <2>4, FS_AddElement
    <2>6. (InternalHigh' > 0) = TRUE BY <1>3, <2>1
    <2>7. Sums BY <1>3, <2>1, <2>4, <2>5, <2>6
    <2> QED BY <1>5, <1>11, <1>d, <2>3, <2>7
  <1>12. ASSUME NEW t \in W!Threads, W!LockEvents(t) PROVE Notified'
    <2>1. /\ pc' = [pc EXCEPT ![t] = "read"] /\ pc[t] = "lock" /\ events_lock = -1
          /\ events_lock' = t /\ UNCHANGED <<modify, W!pipe>>
      BY <1>12 DEF W!LockEvents, W!Search, W!Goto
    <2>2. t \in Submitters /\ t # 0 BY <2>1, HandledIs
    <2>3. \A u \in Submitters : pc[u] \notin Holding BY <1>2, <2>1
    <2>4. pc[0] = "idle" BY <1>2, <2>1
    <2>5. Locks BY <1>1, <2>1, <2>2, <2>3, <2>4
    <2>6. Sums BY <1>b, <2>1, <2>2
    <2> QED BY <1>5, <1>12, <1>d, <2>5, <2>6
  <1>13. ASSUME NEW t \in W!Threads, W!ReadEnds(t) PROVE Notified'
    <2>1. /\ pc' = [pc EXCEPT ![t] = "unlock"] /\ pc[t] = "reading" /\ modify' = modify
          /\ events_lock' = events_lock
          /\ InternalHigh' = InternalHigh - 1 /\ signaled' = (InternalHigh' > 0)
      BY <1>13 DEF W!ReadEnds, W!Goto, W!context
    <2>2. t \in Submitters /\ t # 0 BY <2>1, HandledIs
    <2>3. Locks BY <1>a, <2>1, <2>2
    <2>4. Written' = Written \ {t} /\ t \in Written /\ Changing' = Changing
      BY <1>1, <1>4, <2>1, <2>2
    <2>5. Cardinality(Written') = Cardinality(Written) - 1 BY <1>3, <2>4, FS_RemoveElement
    <2>6. Sums BY <1>3, <2>1, <2>4, <2>5
    <2> QED BY <1>5, <1>13, <1>d, <2>3, <2>6
  <1>14. ASSUME NEW t \in W!Threads, W!Unlock(t) PROVE Notified'
    <2>1. /\ pc' = [pc EXCEPT ![t] = "idle"] /\ pc[t] = "unlock" /\ events_lock' = -1
          /\ UNCHANGED W!pipe
          /\ t = 0 => modify' = modify
          /\ t # 0 => modify' = modify - 1
      BY <1>14 DEF W!Unlock, W!Search, W!Goto
    <2>2. events_lock = t
      <3>1. t \in Submitters \/ t = 0 OBVIOUS
      <3> QED BY <1>2, <2>1, <3>1
    <2>3. /\ \A u \in Submitters : u # t => pc[u] \notin Holding
          /\ t # 0 => pc[0] = "idle"
      BY <1>2, <2>2
    <2>4. pc'[t] = "idle" /\ \A u \in W!Threads : u # t => pc'[u] = pc[u] BY <1>1, <2>1
    <2>5. \A u \in Submitters : pc'[u] \notin Holding BY <2>3, <2>4
    <2>6. Locks
      <3>1. pc'[0] = "idle" BY <2>3, <2>4
      <3> QED BY <2>1, <2>5, <3>1
    <2>7. CASE t = 0
      <3>1. Sums BY <1>b, <2>1, <2>7
      <3> QED BY <1>5, <1>14, <1>d, <2>6, <3>1
    <2>8. CASE t # 0
      <3>1. Changing' = Changing \ {t} /\ t \in Changing /\ Written' = Written
        BY <1>1, <1>4, <2>1, <2>8
      <3>2. Cardinality(Changing') = Cardinality(Changing) - 1 BY <1>3, <3>1, FS_RemoveElement
      <3>3. Sums BY <1>3, <2>1, <2>8, <3>1, <3>2 DEF W!pipe
      <3> QED BY <1>5, <1>14, <1>d, <2>6, <3>3
    <2> QED BY <2>7, <2>8
  <1>15. CASE W!PollBegins
    <2>1. /\ pc' = [pc EXCEPT ![0] = "poll"] /\ pc[0] = "idle" /\ events_lock = -1 /\ events_lock' = 0
          /\ UNCHANGED <<modify, W!pipe>> /\ todo' = pollfds
      BY <1>15 DEF W!PollBegins, W!Search, W!Goto
    <2>2. Sums BY <1>b, <2>1
    <2>3. Locks BY <1>1, <1>2, <2>1
    <2>4. Waits
      <3>1. \A u \in W!InFlight' : u \in W!InFlight /\ fd'[u] = fd[u]
        <4>1. \A u \in W!Threads : W!Submitted(u) => pc[u] = "submit" /\ pc'[u] = "notify"
          BY <1>1 DEF W!Submitted, W!Goto
        <4>2. \A u \in W!Threads : pc[u] = "submit" => pc'[u] = "submit" BY <1>1, <2>1
        <4> QED BY <4>1, <4>2, InFlightKept
      <3>2. \A u \in W!InFlight : fd[u] \in pollfds
        <4>1. \A u \in W!InFlight : ~Taken(u) BY <2>1 DEF Taken
        <4> QED BY <1>0, <4>1 DEF Seen, Polled
      <3> QED BY <2>1, <3>1, <3>2 DEF Waits
    <2> QED BY <1>5, <2>2, <2>3, <2>4
  <1>16. CASE W!PollNext
    <2> DEFINE of == table[at[0]].of
    <2>1. of \in W!InFlight \cup {0} /\ fd[of] = W!Min(todo) /\ todo' = todo \ {W!Min(todo)}
      BY <1>16, OfNext
    <2>2. PICK p \in {"poll", "handle", "wait"} :
            /\ pc[0] = "poll" /\ pc' = [pc EXCEPT ![0] = p]
            /\ fd' = fd /\ UNCHANGED <<modify, W!pipe>> /\ events_lock' = events_lock
      BY <1>16 DEF W!PollNext, W!Search, W!Goto, W!context
    <2>3. triggered' \cup waits' = triggered \cup waits \cup {of}
      BY <1>16 DEF W!PollNext
    <2>4. Locks /\ Sums BY <1>a, <1>b, <2>2
    <2>5. Waits
      <3> SUFFICES ASSUME modify = 0, NEW u \in W!InFlight', pc'[u] # "notify"
                   PROVE  fd[u] \in todo' \/ u \in waits' \cup triggered'
        BY <2>2 DEF Waits
      <3>1. u \in W!InFlight /\ u \in W!Threads /\ u # 0
        <4>1. u \in W!Threads /\ u # 0 BY DEF W!InFlight
        <4>2. W!Submitted(u) => pc'[u] = "notify" BY <1>1, <4>1 DEF W!Submitted, W!Goto
        <4> QED BY <4>1, <4>2, InFlightKept
      <3>2. pc[u] = pc'[u] BY <1>1, <2>2, <3>1
      <3>3. fd[u] \in todo \/ u \in waits \cup triggered
        BY <1>0, <2>2, <3>1, <3>2 DEF Notified
      <3>4. CASE fd[u] = W!Min(todo)
        <4>1. of \in W!Threads /\ fd[u] # 0 /\ ~Closing(u) /\ ~Closing(of)
          <5>1. of \in W!Threads /\ fd[u] # 0 BY <2>1, <3>1 DEF W!InFlight
          <5> QED BY <2>1, <2>2, <3>1, <5>1, HandledIs
        <4>2. u = of BY <2>1, <3>1, <3>4, <4>1 DEF PollInv, OneEach
        <4> QED BY <2>3, <4>2
      <3>5. CASE fd[u] # W!Min(todo) BY <2>1, <2>3, <3>3, <3>5
      <3> QED BY <3>4, <3>5
    <2> QED BY <1>5, <2>4, <2>5
  <1>17. CASE W!PollReturns \/ W!Handle \/ W!FreeCompleted \/ W!FreedCompleted
    <2>1. PICK p \in {"handle", "unlock", "done", "freed"} :
            /\ pc[0] \in {"wait", "handle", "done", "freed"} /\ pc' = [pc EXCEPT ![0] = p]
            /\ UNCHANGED <<modify, W!pipe>> /\ events_lock' = events_lock
      <3>1. CASE W!PollReturns BY <3>1 DEF W!PollReturns, W!Goto, W!context
      <3>2. CASE W!Handle BY <3>2 DEF W!Handle, W!Search, W!Goto
      <3>3. CASE W!FreeCompleted \/ W!FreedCompleted
        BY <3>3 DEF W!FreeCompleted, W!FreedCompleted, W!Goto, W!context
      <3> QED BY <1>17, <3>1, <3>2, <3>3
    <2>2. Locks /\ Sums BY <1>a, <1>b, <2>1
    <2>3. Waits
      <3>1. pc'[0] = p BY <1>1, <2>1
      <3> QED BY <3>1 DEF Waits
    <2> QED BY <1>5, <2>2, <2>3
  <1>18. CASE UNCHANGED W!vars
    <2>1. Notified BY <1>0
    <2> QED BY <1>18, <2>1 DEF W!vars, Notified, Changing, Written, W!InFlight, W!pipe, W!rows,
               W!context, W!poll
  <1> QED
    BY <1>6, <1>7, <1>8, <1>9, <1>10, <1>11, <1>12, <1>13, <1>14, <1>15, <1>16, <1>17, <1>18
       DEF W!Next

LEMMA PollStep == PollInv /\ [W!Next]_W!vars => PollInv'
  <1> SUFFICES ASSUME PollInv, [W!Next]_W!vars PROVE PollInv' OBVIOUS
  <1>1. Sections' BY PollWhere
  <1> QED
    BY <1>1, PollTypesKept, RowsOwnedKept, OneEachKept, NotPassedKept, SeenKept, NotifiedKept
       DEF PollInv

LEMMA PollSuffices == PollInv => W!TypeOK /\ W!Found /\ W!Watched
  <1> SUFFICES ASSUME PollInv PROVE W!TypeOK /\ W!Found /\ W!Watched OBVIOUS
  <1> USE PollFacts
  <1>0. PollTypes /\ RowsOwned /\ NotPassed /\ Seen /\ Notified BY DEF PollInv
  <1>1. W!TypeOK
    <2>1. Changing \subseteq Submitters /\ Written \subseteq Submitters /\ completed \subseteq Submitters
      BY <1>0 DEF Changing, Written, Seen, W!InFlight
    <2>2. /\ Cardinality(Submitters) \in Nat
          /\ Cardinality(Changing) =< Cardinality(Submitters)
          /\ Cardinality(Written) =< Cardinality(Submitters)
      BY <2>1, FS_Subset, FS_CardinalityType
    <2>3. modify \in 0 .. Cardinality(Submitters) /\ InternalHigh \in 0 .. Cardinality(Submitters)
      BY <1>0, <2>2 DEF PollTypes, Notified
    <2> QED BY <1>0, <2>1, <2>3, PollCardinality DEF W!TypeOK, PollTypes
  <1>2. \A i \in W!Rows : i =< MAX_FDS BY DEF W!Rows
  <1>3. ASSUME NEW n \in Nat \ {0}, NEW i \in W!Rows, n =< i PROVE n \in W!Rows
    BY <1>2, <1>3 DEF W!Rows
  <1>4. \A t \in W!InFlight \cup {0} : t \in W!Threads /\ Rowed(t)
    <2>1. Rowed(0) BY <1>0 DEF Rowed, PollTypes
    <2> QED BY <2>1 DEF W!InFlight, Rowed
  <1>5. ASSUME NEW t \in W!Threads, pc[t] \in W!Searching, pc[t] # "create" PROVE at[t] \in W!Rows
    <2>1. at[t] \in Nat \ {0} BY <1>0 DEF PollTypes
    <2>2. CASE pc[t] \in {"write", "read"}
      <3>1. t \in Submitters BY <2>2, HandledIs
      <3> QED BY <1>0, <2>2, <3>1 DEF NotPassed
    <2>3. CASE pc[t] = "free"
      <3>1. t \in Submitters BY <2>3, HandledIs
      <3>2. Rowed(t) BY <1>0, <2>3, <3>1 DEF PollTypes, Rowed
      <3>3. PICK i \in W!Rows : RowOf(i, t) BY <1>0, <3>2 DEF RowsOwned
      <3>4. at[t] =< i BY <1>0, <2>3, <3>1, <3>3 DEF NotPassed
      <3> QED BY <1>3, <2>1, <3>4
    <2>4. CASE pc[t] = "done"
      <3>1. t = 0 BY <1>0, <2>4 DEF PollTypes
      <3>2. Handled \in W!InFlight BY <2>4, <3>1, HandledIs
      <3>3. PICK i \in W!Rows : RowOf(i, Handled) BY <1>0, <1>4, <3>2 DEF RowsOwned
      <3>4. at[t] =< i BY <1>0, <2>4, <3>1, <3>3 DEF NotPassed
      <3> QED BY <1>3, <2>1, <3>4
    <2>5. CASE pc[t] = "poll"
      <3>1. t = 0 BY <1>0, <2>5 DEF PollTypes
      <3>2. todo # {} /\ todo \subseteq pollfds /\ todo \in SUBSET Nat
        BY <1>0, <2>5, <3>1 DEF Seen, PollTypes
      <3>3. W!Min(todo) \in pollfds BY <3>2, PollMin
      <3>4. PICK u \in W!InFlight \cup {0} : fd[u] = W!Min(todo)
        <4>1. fd[0] = W!Pipe BY <1>0 DEF PollTypes
        <4> QED BY <1>0, <3>3, <4>1 DEF Seen, Polled
      <3>5. PICK i \in W!Rows : RowOf(i, u) BY <1>0, <1>4, <3>4 DEF RowsOwned
      <3>6. at[t] =< i BY <1>0, <2>5, <3>1, <3>4, <3>5 DEF NotPassed
      <3> QED BY <1>3, <2>1, <3>6
    <2> QED BY <1>5, <2>2, <2>3, <2>4, <2>5 DEF W!Searching
  <1>6. ASSUME NEW t \in W!Threads, pc[t] = "freeing" PROVE table[at[t]] = [fd |-> fd[t], of |-> t]
    <2>1. t \in Submitters BY <1>6, HandledIs
    <2>2. PICK i \in W!Rows : i = at[t] /\ RowOf(i, t) BY <1>0, <1>6, <2>1 DEF NotPassed
    <2>3. table[i] \in [fd : Nat, of : W!Threads \cup {-1}] BY <1>0 DEF PollTypes
    <2>4. table[i].of = t /\ table[i].fd = fd[t]
      <3>1. table[i] # W!Other BY <2>2 DEF RowOf, W!Other
      <3> QED BY <1>0, <2>2, <3>1 DEF RowsOwned, RowOf
    <2> QED BY <2>2, <2>3, <2>4
  <1>7. ASSUME NEW t \in W!Threads, pc[t] = "reading" PROVE table[at[t]].of = 0 /\ signaled
    <2>1. t \in Submitters BY <1>7, HandledIs
    <2>2. table[at[t]].of = 0 BY <1>0, <1>7, <2>1 DEF NotPassed, RowsOwned
    <2>3. t \in Written /\ Written \subseteq Submitters BY <1>7, <2>1 DEF Written
    <2>4. Cardinality(Written) \in Nat /\ Cardinality(Written) # 0
      <3>1. IsFiniteSet(Written) BY <2>3, FS_Subset
      <3> QED BY <2>3, <3>1, FS_CardinalityType, FS_EmptySet
    <2>5. InternalHigh > 0 BY <1>0, <2>4 DEF Notified
    <2> QED BY <1>0, <2>2, <2>5 DEF Notified
  <1>8. pc[0] = "freed" => table[at[0]].of = W!Min(triggered \ {0})
    BY <1>0 DEF NotPassed, RowOf, Handled
  <1>9. W!Watched
    <2> SUFFICES ASSUME pc[0] = "wait"
                 PROVE  /\ waits \subseteq {table[i].of : i \in {j \in W!Rows : table[j].fd # 0}}
                        /\ {t \in W!InFlight : pc[t] # "notify"} \subseteq waits \/ signaled \/ modify # 0
      BY DEF W!Watched
    <2>1. todo = {} /\ triggered = {} /\ waits \subseteq W!InFlight \cup {0} BY <1>0 DEF Seen
    <2>2. ASSUME NEW t \in waits
          PROVE  \E i \in {j \in W!Rows : table[j].fd # 0} : t = table[i].of
      <3>1. PICK i \in W!Rows : RowOf(i, t) BY <1>0, <1>4, <2>1, <2>2 DEF RowsOwned
      <3> QED BY <3>1 DEF RowOf
    <2>3. modify = 0 => \A t \in W!InFlight : pc[t] # "notify" => t \in waits
      BY <1>0, <2>1 DEF Notified
    <2> QED BY <2>2, <2>3
  <1>10. W!Found BY <1>5, <1>6, <1>7, <1>8 DEF W!Found
  <1> QED BY <1>1, <1>9, <1>10

(* Commands to the camera.                                                 *)
LEMMA CommandsCardinality == ASSUME NEW S PROVE K!Cardinality(S) = Cardinality(S)
  BY DEF Cardinality, K!Cardinality

Command == [of : Nat \ {0}, tag : Nat, at : {"out", "in"}, inside : Nat]
Await(c) == IF c.at = "in" THEN 1 ELSE 0

(* Commands under way, none, one, or one inside another; how many of them  *)
(* wait for replies, and how many replies there are; whoever is alone has  *)
(* the tag that is next, unless another has been inside it, and one inside *)
(* another has the same.                                                   *)
Alone(c) ==
  /\ calls = <<c>> /\ c.inside \in 0 .. 1 /\ Len(replies) = Await(c)
  /\ c.inside = 0 => c.tag = cam_tag
  /\ \A i \in DOMAIN replies : replies[i].tag = c.tag
Within_(c, d) ==
  /\ calls = <<c, d>> /\ c.inside = 1 /\ d.inside = 0 /\ Len(replies) = Await(c) + Await(d)
  /\ c.tag = cam_tag /\ d.tag = cam_tag
  /\ \A i \in DOMAIN replies : replies[i].tag = cam_tag
CommandTypes ==
  /\ cam_tag \in Nat /\ replies \in Seq([of : Nat \ {0}, tag : Nat]) /\ sent \in Nat
  /\ failed \in BOOLEAN /\ repeated \in BOOLEAN
  /\ \/ calls = <<>>
     \/ \E c \in Command : calls = <<c>>
     \/ \E c, d \in Command : calls = <<c, d>>
CommandsInv ==
  /\ CommandTypes
  /\ ~failed /\ ~repeated =>
       /\ \/ calls = <<>> /\ replies = <<>>
          \/ \E c \in Command : Alone(c)
          \/ \E c, d \in Command : Within_(c, d)
       /\ result.of # 0 => result.by # 0

LEMMA CommandsInit == K!Init => CommandsInv
  <1> SUFFICES ASSUME K!Init PROVE CommandsInv OBVIOUS
  <1>1. /\ cam_tag \in 0 .. TagMod - 1 /\ calls = <<>> /\ replies = <<>> /\ sent = 0
        /\ result = [of |-> 0, by |-> 0] /\ failed = FALSE /\ repeated = FALSE
    BY DEF K!Init
  <1>2. cam_tag \in Nat BY <1>1, CommandsAssumption
  <1>3. CommandTypes
    <2> DEFINE R == [of : Nat \ {0}, tag : Nat]
    <2>1. <<>> \in Seq(R) OBVIOUS
    <2>2. replies \in Seq(R) BY <1>1, <2>1
    <2>3. /\ sent \in Nat /\ failed \in BOOLEAN /\ repeated \in BOOLEAN BY <1>1
    <2> QED BY <1>1, <1>2, <2>2, <2>3 DEF CommandTypes
  <1>4. result.of = 0 BY <1>1
  <1> QED BY <1>1, <1>3, <1>4 DEF CommandsInv

(* What a step does with commands under way.                               *)
LEMMA CommandsAre ==
  /\ \A c : K!Last(<<c>>) = c /\ K!Front(<<c>>) = <<>> /\ <<c>> # <<>> /\ Len(<<c>>) = 1
  /\ \A c, d : /\ K!Last(<<c, d>>) = d /\ K!Front(<<c, d>>) = <<c>> /\ <<c, d>> # <<>>
               /\ Len(<<c, d>>) = 2
  <1>1. ASSUME NEW c PROVE K!Last(<<c>>) = c /\ K!Front(<<c>>) = <<>> /\ <<c>> # <<>> /\ Len(<<c>>) = 1
    BY DEF K!Last, K!Front
  <1>2. ASSUME NEW c, NEW d
        PROVE  K!Last(<<c, d>>) = d /\ K!Front(<<c, d>>) = <<c>> /\ <<c, d>> # <<>> /\ Len(<<c, d>>) = 2
    <2> DEFINE s == SubSeq(<<c, d>>, 1, 1)
               u == <<c>>
    <2>1. <<c, d>> \in Seq({c, d}) /\ Len(<<c, d>>) = 2 OBVIOUS
    <2>2. s \in Seq({c, d}) /\ Len(s) = 1 /\ s[1] = c BY <2>1
    <2>3. u \in Seq({c, d}) /\ Len(u) = 1 /\ u[1] = c OBVIOUS
    <2> HIDE DEF s, u
    <2>4. Len(s) = Len(u) /\ \A i \in 1 .. Len(s) : s[i] = u[i] BY <2>2, <2>3
    <2>5. s = u BY <2>2, <2>3, <2>4, SeqEqual
    <2> QED BY <2>1, <2>5 DEF K!Last, K!Front, s, u
  <1> QED BY <1>1, <1>2

LEMMA CommandsJoined ==
  /\ \A n : <<>> \o <<n>> = <<n>>
  /\ \A c, n : <<c>> \o <<n>> = <<c, n>>
  /\ \A c : [k \in DOMAIN <<c>> |-> [<<c>>[k] EXCEPT !.inside = @ + 1]] = <<[c EXCEPT !.inside = @ + 1]>>
  /\ [k \in DOMAIN <<>> |-> [<<>>[k] EXCEPT !.inside = @ + 1]] = <<>>
  <1>1. ASSUME NEW n PROVE <<>> \o <<n>> = <<n>> OBVIOUS
  <1>2. ASSUME NEW c, NEW n PROVE <<c>> \o <<n>> = <<c, n>>
    <2> DEFINE s == <<c>> \o <<n>>
               u == <<c, n>>
    <2>1. s \in Seq({c, n}) /\ Len(s) = 2 /\ s[1] = c /\ s[2] = n OBVIOUS
    <2>2. u \in Seq({c, n}) /\ Len(u) = 2 /\ u[1] = c /\ u[2] = n OBVIOUS
    <2> HIDE DEF s, u
    <2>3. Len(s) = Len(u) /\ \A i \in 1 .. Len(s) : s[i] = u[i] BY <2>1, <2>2
    <2>4. s = u BY <2>1, <2>2, <2>3, SeqEqual
    <2> QED BY <2>4 DEF s, u
  <1>3. ASSUME NEW c
        PROVE  [k \in DOMAIN <<c>> |-> [<<c>>[k] EXCEPT !.inside = @ + 1]] = <<[c EXCEPT !.inside = @ + 1]>>
    <2>1. DOMAIN <<c>> = {1} /\ <<c>>[1] = c OBVIOUS
    <2>2. DOMAIN <<[c EXCEPT !.inside = @ + 1]>> = {1} OBVIOUS
    <2> QED BY <2>1, <2>2
  <1>4. [k \in DOMAIN <<>> |-> [<<>>[k] EXCEPT !.inside = @ + 1]] = <<>>
    <2>1. DOMAIN <<>> = {} OBVIOUS
    <2> QED BY <2>1
  <1> QED BY <1>1, <1>2, <1>3, <1>4

LEMMA CommandsStep == CommandsInv /\ [K!Next]_K!vars => CommandsInv'
  <1> SUFFICES ASSUME CommandsInv, [K!Next]_K!vars PROVE CommandsInv' OBVIOUS
  <1> DEFINE R == [of : Nat \ {0}, tag : Nat]
  <1>0. /\ cam_tag \in Nat /\ replies \in Seq(R) /\ sent \in Nat
        /\ failed \in BOOLEAN /\ repeated \in BOOLEAN
        /\ \/ calls = <<>>
           \/ \E c \in Command : calls = <<c>>
           \/ \E c, d \in Command : calls = <<c, d>>
    BY DEF CommandsInv, CommandTypes
  <1>a. ~failed /\ ~repeated =>
          /\ \/ calls = <<>> /\ replies = <<>>
             \/ \E c \in Command : Alone(c)
             \/ \E c, d \in Command : Within_(c, d)
          /\ result.of # 0 => result.by # 0
    BY DEF CommandsInv
  <1>b. ASSUME calls # <<>>
        PROVE  /\ K!Top \in Command
               /\ \/ calls = <<K!Top>> /\ K!Front(calls) = <<>>
                  \/ \E c \in Command : calls = <<c, K!Top>> /\ K!Front(calls) = <<c>>
    BY <1>0, <1>b, CommandsAre DEF K!Top
  <1>c. ASSUME NEW c \in Command
        PROVE  /\ [c EXCEPT !.inside = @ + 1] \in Command
               /\ [c EXCEPT !.inside = @ + 1].of = c.of /\ [c EXCEPT !.inside = @ + 1].tag = c.tag
               /\ [c EXCEPT !.inside = @ + 1].at = c.at
               /\ [c EXCEPT !.inside = @ + 1].inside = c.inside + 1
               /\ [c EXCEPT !.at = "in"] \in Command
               /\ [c EXCEPT !.at = "in"].of = c.of /\ [c EXCEPT !.at = "in"].tag = c.tag
               /\ [c EXCEPT !.at = "in"].inside = c.inside /\ [c EXCEPT !.at = "in"].at = "in"
               /\ [of |-> c.of, tag |-> c.tag] \in R
    BY DEF Command
  <1>d. replies # <<>> => Tail(replies) \in Seq(R) BY <1>0
  <1>1. CASE K!Send
    <2>a. PICK n : n = [of |-> sent', tag |-> cam_tag, at |-> "out", inside |-> 0] OBVIOUS
    <2>0. /\ Len(calls) < 2 /\ sent' = sent + 1
          /\ calls' = [c \in DOMAIN calls |-> [calls[c] EXCEPT !.inside = @ + 1]] \o <<n>>
          /\ repeated' = (repeated \/ \E c \in DOMAIN calls : calls'[c].inside > 1)
          /\ UNCHANGED <<cam_tag, replies, result, failed>>
      BY <1>1, <2>a DEF K!Send
    <2>b. cam_tag \in Nat /\ sent \in Nat BY <1>0
    <2>c. sent' = sent + 1 BY <2>0
    <2>e. sent' \in Nat \ {0} BY <2>b, <2>c
    <2>f. n \in Command BY <2>a, <2>b, <2>e DEF Command
    <2>1. n \in Command /\ sent' \in Nat BY <2>e, <2>f
    <2>2. n.tag = cam_tag /\ n.at = "out" /\ n.inside = 0 BY <2>a
    <2>d. UNCHANGED <<cam_tag, replies, result, failed>> BY <2>0
    <2>3. CASE calls = <<>>
      <3>1. calls' = <<n>> BY <2>0, <2>3, CommandsJoined
      <3>2. CommandTypes' BY <1>0, <2>0, <2>1, <2>3, <3>1 DEF CommandTypes
      <3>3. ASSUME ~failed', ~repeated' PROVE Alone(n)'
        <4>1. replies = <<>> BY <1>a, <2>0, <2>3, <3>3, CommandsAre DEF Alone, Within_
        <4>2. Len(replies) = 0 /\ DOMAIN replies = {} BY <4>1
        <4> QED BY <2>d, <2>2, <3>1, <4>2 DEF Alone, Await
      <3> QED BY <1>a, <2>0, <2>1, <3>2, <3>3 DEF CommandsInv
    <2>4. ASSUME NEW c \in Command, calls = <<c>> PROVE CommandsInv'
      <3>0. PICK e : e = [c EXCEPT !.inside = @ + 1] OBVIOUS
      <3>1. calls' = <<e, n>>
        <4>1. calls' = [k \in DOMAIN <<c>> |-> [<<c>>[k] EXCEPT !.inside = @ + 1]] \o <<n>>
          BY <2>0, <2>4
        <4>2. calls' = <<e>> \o <<n>> BY <3>0, <4>1, CommandsJoined
        <4> QED BY <4>2, CommandsJoined
      <3>2. e \in Command /\ e.tag = c.tag /\ e.at = c.at /\ e.inside = c.inside + 1 BY <1>c, <3>0
      <3>3. CommandTypes' BY <1>0, <2>0, <2>1, <3>1, <3>2 DEF CommandTypes
      <3>4. ASSUME ~failed', ~repeated' PROVE Within_(e, n)'
        <4>1. Alone(c) BY <1>a, <2>0, <2>4, <3>4, CommandsAre DEF Alone, Within_
        <4>2. DOMAIN calls = {1} /\ calls'[1] = e BY <2>4, <3>1
        <4>3. ~(c.inside + 1 > 1) BY <2>0, <3>2, <3>4, <4>2
        <4>4. c.inside = 0 BY <4>1, <4>3 DEF Alone
        <4>5. /\ Len(replies) = Await(e) + Await(n) /\ e.tag = cam_tag /\ e.inside = 1
              /\ \A i \in DOMAIN replies : replies[i].tag = cam_tag
          BY <2>2, <3>2, <4>1, <4>4 DEF Alone, Await
        <4> QED BY <2>d, <2>2, <3>1, <4>5 DEF Within_, Await
      <3> QED BY <1>a, <2>0, <2>1, <3>2, <3>3, <3>4 DEF CommandsInv
    <2>5. ASSUME NEW c, NEW d, calls = <<c, d>> PROVE FALSE BY <2>0, <2>5, CommandsAre
    <2> QED BY <1>0, <2>3, <2>4, <2>5
  <1>2. CASE K!OutDone
    <2>a. PICK t \in Command : t = K!Top BY <1>2, <1>b DEF K!OutDone
    <2>b. PICK e : e = [t EXCEPT !.at = "in"] OBVIOUS
    <2>c. PICK r : r = [of |-> t.of, tag |-> t.tag] OBVIOUS
    <2>0. /\ calls # <<>> /\ t.at = "out" /\ calls' = K!Front(calls) \o <<e>>
          /\ replies' = Append(replies, r)
          /\ UNCHANGED <<cam_tag, sent, result, failed, repeated>>
      BY <1>2, <2>a, <2>b, <2>c DEF K!OutDone
    <2>d. UNCHANGED <<cam_tag, sent, result, failed, repeated>> BY <2>0
    <2>2. e \in Command /\ e.tag = t.tag /\ e.inside = t.inside /\ e.at = "in" BY <1>c, <2>b
    <2>3. r \in R /\ r.tag = t.tag BY <1>c, <2>c
    <2>4. /\ replies' \in Seq(R) /\ Len(replies') = Len(replies) + 1 /\ Len(replies) \in Nat
          /\ \A i \in DOMAIN replies' : \/ i \in DOMAIN replies /\ replies'[i] = replies[i]
                                        \/ replies'[i] = r
      BY <1>0, <2>0, <2>3
    <2>5. CASE calls = <<t>> /\ K!Front(calls) = <<>>
      <3>1. calls' = <<e>> BY <2>0, <2>5, CommandsJoined
      <3>2. CommandTypes' BY <1>0, <2>0, <2>2, <2>4, <3>1 DEF CommandTypes
      <3>3. ASSUME ~failed', ~repeated' PROVE Alone(e)'
        <4>1. Alone(t) BY <1>a, <2>0, <2>5, <3>3, CommandsAre DEF Alone, Within_
        <4>2. /\ Len(replies') = 1 /\ Await(e) = 1
              /\ \A i \in DOMAIN replies' : replies'[i].tag = e.tag
          BY <2>0, <2>2, <2>3, <2>4, <4>1 DEF Alone, Await
        <4>3. e.inside \in 0 .. 1 /\ (e.inside = 0 => e.tag = cam_tag) BY <2>2, <4>1 DEF Alone
        <4> QED BY <2>d, <3>1, <4>2, <4>3 DEF Alone
      <3> QED BY <1>a, <2>0, <2>2, <3>2, <3>3 DEF CommandsInv
    <2>6. ASSUME NEW c \in Command, calls = <<c, t>>, K!Front(calls) = <<c>> PROVE CommandsInv'
      <3>a. calls' = <<c>> \o <<e>> BY <2>0, <2>6
      <3>1. calls' = <<c, e>> BY <3>a, CommandsJoined
      <3>2. CommandTypes' BY <1>0, <2>0, <2>2, <2>4, <3>1 DEF CommandTypes
      <3>3. ASSUME ~failed', ~repeated' PROVE Within_(c, e)'
        <4>1. Within_(c, t) BY <1>a, <2>0, <2>6, <3>3, CommandsAre DEF Alone, Within_
        <4>2. /\ Len(replies') = Await(c) + Await(e)
              /\ \A i \in DOMAIN replies' : replies'[i].tag = cam_tag
          BY <2>0, <2>2, <2>3, <2>4, <4>1 DEF Within_, Await
        <4>3. c.inside = 1 /\ e.inside = 0 /\ c.tag = cam_tag /\ e.tag = cam_tag
          BY <2>2, <4>1 DEF Within_
        <4> QED BY <2>d, <3>1, <4>2, <4>3 DEF Within_
      <3> QED BY <1>a, <2>0, <2>2, <3>2, <3>3 DEF CommandsInv
    <2> QED BY <1>b, <2>0, <2>a, <2>5, <2>6
  <1>3. CASE K!OutFails \/ K!InFails
    <2>1. /\ calls # <<>> /\ calls' = K!Front(calls) /\ failed' = TRUE
          /\ UNCHANGED <<cam_tag, sent, repeated>>
      BY <1>3 DEF K!OutFails, K!InFails, K!Ends
    <2>2. replies' \in Seq(R)
      <3>1. K!Top \in Command /\ [of |-> K!Top.of, tag |-> K!Top.tag] \in R BY <1>b, <1>c, <2>1
      <3>2. CASE K!OutFails
        <4>1. PICK r \in R : r = [of |-> K!Top.of, tag |-> K!Top.tag] BY <3>1
        <4>2. Append(replies, r) \in Seq(R) BY <1>0, <4>1
        <4>3. replies' \in {Append(replies, r), replies} BY <3>2, <4>1 DEF K!OutFails
        <4> QED BY <1>0, <4>2, <4>3
      <3>3. CASE K!InFails BY <1>0, <1>d, <3>3 DEF K!InFails
      <3> QED BY <1>3, <3>2, <3>3
    <2>3. calls' = <<>> \/ \E c \in Command : calls' = <<c>> BY <1>b, <2>1
    <2> QED BY <1>0, <2>1, <2>2, <2>3 DEF CommandsInv, CommandTypes
  <1>4. CASE K!Reply
    <2>0. /\ calls # <<>> /\ K!Top.at = "in" /\ replies # <<>> /\ replies' = Tail(replies)
          /\ calls' = K!Front(calls) /\ result'.of = K!Top.of
          /\ K!Matches(Head(replies)) => /\ result'.by = Head(replies).of
                                       /\ cam_tag' = (cam_tag + 1) % TagMod
          /\ ~K!Matches(Head(replies)) => cam_tag' = cam_tag
          /\ UNCHANGED <<sent, failed, repeated>>
      BY <1>4 DEF K!Reply, K!Ends
    <2>1. cam_tag' \in Nat BY <1>0, <2>0, CommandsAssumption
    <2>2. /\ replies' \in Seq(R) /\ Len(replies') = Len(replies) - 1 /\ Len(replies) \in Nat \ {0}
          /\ \A i \in DOMAIN replies' : i + 1 \in DOMAIN replies /\ replies'[i] = replies[i + 1]
          /\ Head(replies) = replies[1] /\ 1 \in DOMAIN replies /\ replies[1].of # 0
      <3>1. /\ replies' \in Seq(R) /\ Len(replies') = Len(replies) - 1
            /\ \A i \in 1 .. Len(replies') : replies'[i] = replies[i + 1]
        BY <1>0, <2>0, HeadTailProperties
      <3>2. Len(replies) \in Nat \ {0} /\ DOMAIN replies = 1 .. Len(replies)
            /\ DOMAIN replies' = 1 .. Len(replies')
        BY <1>0, <2>0, <3>1
      <3>3. 1 \in DOMAIN replies BY <3>2
      <3>4. replies[1] \in R
        <4> HIDE DEF R
        <4> QED BY <1>0, <3>2, <3>3, ElementOfSeq
      <3>5. Head(replies) = replies[1] BY <1>0, <2>0
      <3> QED BY <3>1, <3>2, <3>3, <3>4, <3>5
    <2>3. CASE calls = <<K!Top>> /\ K!Front(calls) = <<>>
      <3>1. CommandTypes' BY <1>0, <2>0, <2>1, <2>2, <2>3 DEF CommandTypes
      <3>2. ASSUME ~failed', ~repeated' PROVE replies' = <<>> /\ result'.by # 0
        <4>1. Alone(K!Top) BY <1>a, <2>0, <2>3, <3>2, CommandsAre DEF Alone, Within_
        <4>2. K!Matches(Head(replies)) BY <2>2, <4>1 DEF K!Matches, Alone
        <4>3. Len(replies) = 1 BY <2>0, <4>1 DEF Alone, Await
        <4> QED BY <2>0, <2>2, <4>2, <4>3
      <3> QED BY <2>0, <2>3, <3>1, <3>2 DEF CommandsInv
    <2>4. ASSUME NEW c \in Command, calls = <<c, K!Top>>, K!Front(calls) = <<c>> PROVE CommandsInv'
      <3>1. CommandTypes' BY <1>0, <2>0, <2>1, <2>2, <2>4 DEF CommandTypes
      <3>2. ASSUME ~failed', ~repeated' PROVE Alone(c)' /\ result'.by # 0
        <4>1. Within_(c, K!Top) BY <1>a, <2>0, <2>4, <3>2, CommandsAre DEF Alone, Within_
        <4>2. K!Matches(Head(replies)) BY <2>2, <4>1 DEF K!Matches, Within_
        <4>3. Len(replies') = Await(c) BY <2>0, <2>2, <4>1 DEF Within_, Await
        <4>4. \A i \in DOMAIN replies' : replies'[i].tag = c.tag BY <2>2, <4>1 DEF Within_
        <4> QED BY <2>0, <2>2, <2>4, <4>1, <4>2, <4>3, <4>4 DEF Alone, Within_
      <3> QED BY <2>0, <2>4, <3>1, <3>2 DEF CommandsInv
    <2> QED BY <1>b, <2>0, <2>3, <2>4
  <1>5. CASE UNCHANGED K!vars
    BY <1>0, <1>a, <1>5 DEF K!vars, CommandsInv, CommandTypes, Alone, Within_
  <1> QED BY <1>1, <1>2, <1>3, <1>4, <1>5 DEF K!Next

(* Every command is answered.                                              *)
LEMMA CommandsSuffice == CommandsInv => K!Answered
  <1> SUFFICES ASSUME CommandsInv, ~failed, ~repeated
               PROVE  /\ result.of # 0 => result.by # 0
                      /\ Len(replies) = Cardinality({c \in DOMAIN calls : calls[c].at = "in"})
                      /\ calls = <<>> \/ (\A r \in DOMAIN replies : replies[r].tag = K!Top.tag)
                         \/ K!Top.at = "out"
    BY CommandsCardinality DEF K!Answered
  <1> DEFINE I == {c \in DOMAIN calls : calls[c].at = "in"}
  <1>1. CASE calls = <<>> /\ replies = <<>>
    <2>1. I = {} BY <1>1
    <2> QED BY <1>1, <2>1, FS_EmptySet DEF CommandsInv
  <1>2. ASSUME NEW c \in Command, Alone(c)
        PROVE  Len(replies) = Cardinality(I) /\ \A r \in DOMAIN replies : replies[r].tag = K!Top.tag
    <2>1. calls = <<c>> /\ K!Top = c BY <1>2, CommandsAre DEF Alone, K!Top
    <2>2. DOMAIN calls = {1} /\ calls[1] = c BY <2>1
    <2>3. I = IF c.at = "in" THEN {1} ELSE {} BY <2>2
    <2>4. Cardinality({1}) = 1 BY FS_Singleton
    <2> QED BY <1>2, <2>1, <2>3, <2>4, FS_EmptySet DEF Alone, Await
  <1>3. ASSUME NEW c \in Command, NEW d \in Command, Within_(c, d)
        PROVE  Len(replies) = Cardinality(I) /\ \A r \in DOMAIN replies : replies[r].tag = K!Top.tag
    <2>1. calls = <<c, d>> /\ K!Top = d BY <1>3, CommandsAre DEF Within_, K!Top
    <2>2. DOMAIN calls = {1, 2} /\ calls[1] = c /\ calls[2] = d BY <2>1
    <2>3. I = {i \in {1} : c.at = "in"} \cup {i \in {2} : d.at = "in"} BY <2>2
    <2>4. Cardinality({1}) = 1 /\ Cardinality({2}) = 1 /\ Cardinality({}) = 0
      BY FS_Singleton, FS_EmptySet
    <2>5. Cardinality({1, 2}) = 2
      <3>1. IsFiniteSet({1}) /\ 2 \notin {1}
        <4>1. 2 \notin {1} OBVIOUS
        <4> QED BY <4>1, FS_Singleton
      <3>2. Cardinality({1} \cup {2}) = Cardinality({1}) + 1 BY <3>1, FS_AddElement
      <3>3. {1} \cup {2} = {1, 2} OBVIOUS
      <3> QED BY <2>4, <3>2, <3>3
    <2>6. CASE c.at = "in" /\ d.at = "in"
      <3>1. I = {1, 2} BY <2>3, <2>6
      <3> QED BY <1>3, <2>1, <2>5, <2>6, <3>1 DEF Within_, Await
    <2>7. CASE c.at = "in" /\ d.at # "in"
      <3>1. I = {1} BY <2>3, <2>7
      <3> QED BY <1>3, <2>1, <2>4, <2>7, <3>1 DEF Within_, Await
    <2>8. CASE c.at # "in" /\ d.at = "in"
      <3>1. I = {2} BY <2>3, <2>8
      <3> QED BY <1>3, <2>1, <2>4, <2>8, <3>1 DEF Within_, Await
    <2>9. CASE c.at # "in" /\ d.at # "in"
      <3>1. I = {} BY <2>3, <2>9
      <3>2. Await(c) + Await(d) = 0 BY <2>9 DEF Await
      <3> QED BY <1>3, <2>1, <2>4, <3>1, <3>2 DEF Within_
    <2> QED BY <2>6, <2>7, <2>8, <2>9
  <1> QED BY <1>1, <1>2, <1>3 DEF CommandsInv

(* Commands, and the answers to them, have the numbers of those that were  *)
(* sent.                                                                   *)
CommandNumbers ==
  /\ cam_tag \in 0 .. TagMod - 1 /\ sent \in 0 .. MaxCommands
  /\ result.of \in 0 .. sent /\ result.by \in 0 .. sent
  /\ \/ calls = <<>>
     \/ \E c \in Command : calls = <<c>> /\ c.of =< sent
     \/ \E c, d \in Command : calls = <<c, d>> /\ c.of =< sent /\ d.of =< sent
  /\ \A i \in DOMAIN replies : replies[i].of \in 0 .. sent

LEMMA CommandNumbersInit == K!Init => CommandNumbers
  <1> SUFFICES ASSUME K!Init PROVE CommandNumbers OBVIOUS
  <1>1. /\ cam_tag \in 0 .. TagMod - 1 /\ calls = <<>> /\ replies = <<>> /\ sent = 0
        /\ result = [of |-> 0, by |-> 0]
    BY DEF K!Init
  <1>2. DOMAIN replies = {} BY <1>1
  <1>3. 0 \in 0 .. MaxCommands BY CommandsAssumption
  <1>4. result.of = 0 /\ result.by = 0 BY <1>1
  <1> QED BY <1>1, <1>2, <1>3, <1>4 DEF CommandNumbers

LEMMA CommandNumbersStep ==
  CommandsInv /\ CommandNumbers /\ [K!Next]_K!vars => CommandNumbers'
  <1> SUFFICES ASSUME CommandsInv, CommandNumbers, [K!Next]_K!vars PROVE CommandNumbers' OBVIOUS
  <1> DEFINE R == [of : Nat \ {0}, tag : Nat]
  <1>0. /\ cam_tag \in 0 .. TagMod - 1 /\ sent \in 0 .. MaxCommands /\ sent \in Nat
        /\ result.of \in 0 .. sent /\ result.by \in 0 .. sent
        /\ \/ calls = <<>>
           \/ \E c \in Command : calls = <<c>> /\ c.of =< sent
           \/ \E c, d \in Command : calls = <<c, d>> /\ c.of =< sent /\ d.of =< sent
        /\ \A i \in DOMAIN replies : replies[i].of \in 0 .. sent
        /\ replies \in Seq(R)
    BY DEF CommandNumbers, CommandsInv, CommandTypes
  <1>b. ASSUME calls # <<>>
        PROVE  /\ K!Top \in Command /\ K!Top.of =< sent
               /\ \/ K!Front(calls) = <<>>
                  \/ \E c \in Command : K!Front(calls) = <<c>> /\ c.of =< sent
    BY <1>0, <1>b, CommandsAre DEF K!Top
  <1>c. ASSUME NEW c \in Command
        PROVE  /\ c.of \in Nat
               /\ [c EXCEPT !.inside = @ + 1] \in Command /\ [c EXCEPT !.inside = @ + 1].of = c.of
               /\ [c EXCEPT !.at = "in"] \in Command /\ [c EXCEPT !.at = "in"].of = c.of
               /\ [of |-> c.of, tag |-> c.tag] \in R
    BY DEF Command
  <1>1. CASE K!Send
    <2>a. PICK n : n = [of |-> sent', tag |-> cam_tag, at |-> "out", inside |-> 0] OBVIOUS
    <2>0. /\ Len(calls) < 2 /\ sent < MaxCommands /\ sent' = sent + 1
          /\ calls' = [c \in DOMAIN calls |-> [calls[c] EXCEPT !.inside = @ + 1]] \o <<n>>
          /\ UNCHANGED <<cam_tag, replies, result>>
      BY <1>1, <2>a DEF K!Send
    <2>b. cam_tag \in Nat BY <1>0
    <2>1. n \in Command /\ n.of = sent' /\ sent' \in 0 .. MaxCommands /\ sent' = sent + 1
      BY <1>0, <2>0, <2>a, <2>b, CommandsAssumption DEF Command
    <2>2. /\ \A i \in DOMAIN replies' : replies'[i].of \in 0 .. sent'
          /\ result'.of \in 0 .. sent' /\ result'.by \in 0 .. sent' /\ cam_tag' \in 0 .. TagMod - 1
      BY <1>0, <2>0
    <2>3. CASE calls = <<>>
      <3>1. calls' = <<n>> BY <2>0, <2>3, CommandsJoined
      <3>2. n.of =< sent' BY <2>1
      <3> QED BY <2>1, <2>2, <3>1, <3>2 DEF CommandNumbers
    <2>4. ASSUME NEW c \in Command, calls = <<c>>, c.of =< sent PROVE CommandNumbers'
      <3>0. PICK e : e = [c EXCEPT !.inside = @ + 1] OBVIOUS
      <3>1. calls' = <<e, n>>
        <4>1. calls' = [k \in DOMAIN <<c>> |-> [<<c>>[k] EXCEPT !.inside = @ + 1]] \o <<n>>
          BY <2>0, <2>4
        <4>2. calls' = <<e>> \o <<n>> BY <3>0, <4>1, CommandsJoined
        <4> QED BY <4>2, CommandsJoined
      <3>2. e \in Command /\ e.of = c.of /\ c.of \in Nat BY <1>c, <3>0
      <3>3. e.of =< sent' /\ n.of =< sent' BY <1>0, <2>1, <2>4, <3>2
      <3> QED BY <2>1, <2>2, <3>1, <3>2, <3>3 DEF CommandNumbers
    <2>5. ASSUME NEW c, NEW d, calls = <<c, d>> PROVE FALSE BY <2>0, <2>5, CommandsAre
    <2> QED BY <1>0, <2>3, <2>4, <2>5
  <1>2. CASE K!OutDone
    <2>a. PICK t \in Command : t = K!Top /\ t.of =< sent BY <1>2, <1>b DEF K!OutDone
    <2>b. PICK e : e = [t EXCEPT !.at = "in"] OBVIOUS
    <2>c. PICK r : r = [of |-> t.of, tag |-> t.tag] OBVIOUS
    <2>0. /\ calls # <<>> /\ calls' = K!Front(calls) \o <<e>> /\ replies' = Append(replies, r)
          /\ UNCHANGED <<cam_tag, sent, result>>
      BY <1>2, <2>a, <2>b, <2>c DEF K!OutDone
    <2>1. e \in Command /\ e.of = t.of /\ r \in R /\ r.of = t.of /\ t.of \in Nat
      BY <1>c, <2>b, <2>c
    <2>2. \A i \in DOMAIN replies' : replies'[i].of \in 0 .. sent
      <3>1. \A i \in DOMAIN replies' : \/ i \in DOMAIN replies /\ replies'[i] = replies[i]
                                       \/ replies'[i] = r
        BY <1>0, <2>0, <2>1
      <3>2. r.of \in 0 .. sent BY <2>1, <2>a, <1>0
      <3> QED BY <1>0, <3>1, <3>2
    <2>3. CASE K!Front(calls) = <<>>
      <3>1. calls' = <<e>> BY <2>0, <2>3, CommandsJoined
      <3>2. e.of =< sent' BY <2>0, <2>1, <2>a
      <3> QED BY <1>0, <2>0, <2>1, <2>2, <3>1, <3>2 DEF CommandNumbers
    <2>4. ASSUME NEW c \in Command, K!Front(calls) = <<c>>, c.of =< sent PROVE CommandNumbers'
      <3>a. calls' = <<c>> \o <<e>> BY <2>0, <2>4
      <3>1. calls' = <<c, e>> BY <3>a, CommandsJoined
      <3>2. e.of =< sent' /\ c.of =< sent' BY <2>0, <2>1, <2>4, <2>a
      <3> QED BY <1>0, <2>0, <2>1, <2>2, <3>1, <3>2 DEF CommandNumbers
    <2> QED BY <1>b, <2>0, <2>3, <2>4
  <1>3. CASE K!OutFails \/ K!InFails \/ K!Reply
    <2>1. /\ calls # <<>> /\ calls' = K!Front(calls) /\ result'.of = K!Top.of /\ sent' = sent
      BY <1>3 DEF K!OutFails, K!InFails, K!Reply, K!Ends
    <2>2. \/ calls' = <<>>
          \/ \E c \in Command : calls' = <<c>> /\ c.of =< sent'
      BY <1>b, <2>1
    <2>e. PICK t \in Command : t = K!Top /\ t.of =< sent BY <1>b, <2>1
    <2>f. t.of \in 0 .. sent /\ [of |-> t.of, tag |-> t.tag] \in R
      <3>1. t.of \in Nat /\ [of |-> t.of, tag |-> t.tag] \in R BY <1>c
      <3> QED BY <1>0, <2>e, <3>1
    <2>3. result'.of \in 0 .. sent' BY <2>1, <2>e, <2>f
    <2>4. ASSUME replies # <<>>
          PROVE  /\ \A i \in DOMAIN Tail(replies) : Tail(replies)[i].of \in 0 .. sent
                 /\ Head(replies).of \in 0 .. sent
      <3>1. /\ Tail(replies) \in Seq(R) /\ Len(Tail(replies)) = Len(replies) - 1
            /\ \A i \in 1 .. Len(Tail(replies)) : Tail(replies)[i] = replies[i + 1]
        BY <1>0, <2>4, HeadTailProperties
      <3>2. /\ Len(replies) \in Nat \ {0} /\ DOMAIN replies = 1 .. Len(replies)
            /\ DOMAIN Tail(replies) = 1 .. Len(Tail(replies))
        BY <1>0, <2>4, <3>1
      <3>3. Head(replies) = replies[1] BY <1>0, <2>4
      <3>4. \A i \in DOMAIN Tail(replies) : i + 1 \in DOMAIN replies BY <3>1, <3>2
      <3>5. 1 \in DOMAIN replies BY <3>2
      <3> QED BY <1>0, <3>1, <3>2, <3>3, <3>4, <3>5
    <2>5. CASE K!OutFails
      <3>1. [of |-> K!Top.of, tag |-> K!Top.tag] \in R /\ K!Top.of \in 0 .. sent
        BY <2>e, <2>f
      <3>2. PICK r \in R : r = [of |-> K!Top.of, tag |-> K!Top.tag] BY <3>1
      <3>3. r.of = K!Top.of BY <3>2
      <3>4. /\ replies' = Append(replies, r) \/ replies' = replies
            /\ result'.by = 0 /\ cam_tag' = cam_tag
        BY <2>5, <3>2 DEF K!OutFails, K!Ends
      <3>5. \A i \in DOMAIN Append(replies, r) :
              \/ i \in DOMAIN replies /\ Append(replies, r)[i] = replies[i]
              \/ Append(replies, r)[i] = r
        <4>1. /\ Append(replies, r) \in Seq(R) /\ Len(Append(replies, r)) = Len(replies) + 1
              /\ \A i \in 1 .. Len(replies) : Append(replies, r)[i] = replies[i]
              /\ Append(replies, r)[Len(replies) + 1] = r
          <5> HIDE DEF R
          <5> QED BY <1>0, <3>2, AppendProperties
        <4>2. /\ DOMAIN replies = 1 .. Len(replies) /\ Len(replies) \in Nat
              /\ DOMAIN Append(replies, r) = 1 .. Len(replies) + 1
          BY <1>0, <4>1
        <4> QED BY <4>1, <4>2
      <3>6. \A i \in DOMAIN replies' : replies'[i].of \in 0 .. sent
        BY <1>0, <3>1, <3>3, <3>4, <3>5
      <3> QED BY <1>0, <2>1, <2>2, <2>3, <3>4, <3>6 DEF CommandNumbers
    <2>6. CASE K!InFails
      <3>1. /\ replies' = replies \/ (replies # <<>> /\ replies' = Tail(replies))
            /\ result'.by = 0 /\ cam_tag' = cam_tag
        BY <2>6 DEF K!InFails, K!Ends
      <3>2. \A i \in DOMAIN replies' : replies'[i].of \in 0 .. sent BY <1>0, <2>4, <3>1
      <3> QED BY <1>0, <2>1, <2>2, <2>3, <3>1, <3>2 DEF CommandNumbers
    <2>7. CASE K!Reply
      <3>1. /\ replies # <<>> /\ replies' = Tail(replies)
            /\ \/ result'.by = Head(replies).of /\ cam_tag' = (cam_tag + 1) % TagMod
               \/ result'.by = 0 /\ cam_tag' = cam_tag
        BY <2>7 DEF K!Reply, K!Ends
      <3>2. \A i \in DOMAIN replies' : replies'[i].of \in 0 .. sent BY <2>4, <3>1
      <3>3. result'.by \in 0 .. sent' BY <1>0, <2>1, <2>4, <3>1
      <3>4. (cam_tag + 1) % TagMod \in 0 .. TagMod - 1 BY <1>0, CommandsAssumption
      <3>5. cam_tag' \in 0 .. TagMod - 1 BY <1>0, <3>1, <3>4
      <3> QED BY <1>0, <2>1, <2>2, <2>3, <3>2, <3>3, <3>5 DEF CommandNumbers
    <2> QED BY <1>3, <2>5, <2>6, <2>7
  <1>4. CASE UNCHANGED K!vars BY <1>0, <1>4 DEF K!vars, CommandNumbers
  <1> QED BY <1>1, <1>2, <1>3, <1>4 DEF K!Next

LEMMA CommandsTyped == CommandNumbers => K!TypeOK
  <1> SUFFICES ASSUME CommandNumbers PROVE K!TypeOK OBVIOUS
  <1>1. Len(<<>>) = 0 OBVIOUS
  <1>2. \/ calls = <<>>
        \/ \E c : calls = <<c>>
        \/ \E c, d : calls = <<c, d>>
    BY DEF CommandNumbers
  <1>3. Len(calls) \in {0, 1, 2} BY <1>1, <1>2, CommandsAre
  <1>4. Len(calls) =< 2 BY <1>3
  <1> QED BY <1>4 DEF CommandNumbers, K!TypeOK
=============================================================================
