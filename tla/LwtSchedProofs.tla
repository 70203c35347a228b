--------------------------- MODULE LwtSchedProofs ---------------------------
(***************************************************************************)
(* What the operations of LwtList do to who is on which list, and what     *)
(* the scheduler operations of LwtSched built from them do: each keeps     *)
(* the state well typed, every thread off the lists it must not be on      *)
(* and the counters right, and neither makes nor ends a thread unless      *)
(* that is its purpose.  q maps the heads H to sequences over S.           *)
(***************************************************************************)
EXTENDS LwtSched, SequenceTheorems, FiniteSetTheorems, TLAPS

-----------------------------------------------------------------------------
(* One sequence.                                                            *)

\* RemoveAt shifts what comes behind the place it empties.
LEMMA RemoveAtElements ==
  ASSUME NEW S, NEW s \in Seq(S), NEW i \in 1 .. Len(s)
  PROVE  /\ RemoveAt(s, i) \in Seq(S)
         /\ Len(RemoveAt(s, i)) = Len(s) - 1
         /\ \A j \in 1 .. Len(s) - 1 : RemoveAt(s, i)[j] = IF j < i THEN s[j] ELSE s[j + 1]
<1> DEFINE before == SubSeq(s, 1, i - 1)
           behind == SubSeq(s, i + 1, Len(s))
<1>0. Len(s) \in Nat
  BY LenProperties
<1>1. /\ before \in Seq(S) /\ Len(before) = i - 1
      /\ \A j \in 1 .. i - 1 : before[j] = s[j]
  <2>1. \A j \in 1 .. i - 1 : s[j] \in S
    BY <1>0, ElementOfSeq
  <2>2. /\ before \in Seq(S)
        /\ Len(before) = IF 1 <= i - 1 THEN i - 1 - 1 + 1 ELSE 0
        /\ \A j \in 1 .. i - 1 - 1 + 1 : before[j] = s[1 + j - 1]
    BY <1>0, <2>1, SubSeqProperties
  <2> QED
    BY <1>0, <2>2
<1>2. /\ behind \in Seq(S) /\ Len(behind) = Len(s) - i
      /\ \A j \in 1 .. Len(s) - i : behind[j] = s[i + j]
  <2>1. \A j \in i + 1 .. Len(s) : s[j] \in S
    BY <1>0, ElementOfSeq
  <2>2. /\ behind \in Seq(S)
        /\ Len(behind) = IF i + 1 <= Len(s) THEN Len(s) - (i + 1) + 1 ELSE 0
        /\ \A j \in 1 .. Len(s) - (i + 1) + 1 : behind[j] = s[(i + 1) + j - 1]
    BY <1>0, <2>1, SubSeqProperties
  <2> QED
    BY <1>0, <2>2
<1>3. RemoveAt(s, i) = before \o behind
  BY DEF RemoveAt
<1>4. /\ before \o behind \in Seq(S)
      /\ Len(before \o behind) = Len(before) + Len(behind)
      /\ \A j \in 1 .. Len(before) + Len(behind) :
            (before \o behind)[j] = IF j <= Len(before) THEN before[j] ELSE behind[j - Len(before)]
  BY <1>1, <1>2, ConcatProperties
<1> HIDE DEF before, behind
<1> QED
  BY <1>0, <1>1, <1>2, <1>3, <1>4

\* InsertAt shifts the place i and what comes behind it.
LEMMA InsertAtElements ==
  ASSUME NEW S, NEW s \in Seq(S), NEW i \in 1 .. Len(s), NEW x \in S
  PROVE  /\ InsertAt(s, i, x) \in Seq(S)
         /\ Len(InsertAt(s, i, x)) = Len(s) + 1
         /\ \A j \in 1 .. Len(s) + 1 :
              InsertAt(s, i, x)[j] = IF j < i THEN s[j] ELSE IF j = i THEN x ELSE s[j - 1]
<1> DEFINE before == SubSeq(s, 1, i - 1)
           behind == SubSeq(s, i, Len(s))
           first  == before \o << x >>
<1>0. Len(s) \in Nat
  BY LenProperties
<1>1. /\ before \in Seq(S) /\ Len(before) = i - 1
      /\ \A j \in 1 .. i - 1 : before[j] = s[j]
  <2>1. \A j \in 1 .. i - 1 : s[j] \in S
    BY <1>0, ElementOfSeq
  <2>2. /\ before \in Seq(S)
        /\ Len(before) = IF 1 <= i - 1 THEN i - 1 - 1 + 1 ELSE 0
        /\ \A j \in 1 .. i - 1 - 1 + 1 : before[j] = s[1 + j - 1]
    BY <1>0, <2>1, SubSeqProperties
  <2> QED
    BY <1>0, <2>2
<1>2. /\ behind \in Seq(S) /\ Len(behind) = Len(s) - i + 1
      /\ \A j \in 1 .. Len(s) - i + 1 : behind[j] = s[i + j - 1]
  <2>1. \A j \in i .. Len(s) : s[j] \in S
    BY <1>0, ElementOfSeq
  <2>2. /\ behind \in Seq(S)
        /\ Len(behind) = IF i <= Len(s) THEN Len(s) - i + 1 ELSE 0
        /\ \A j \in 1 .. Len(s) - i + 1 : behind[j] = s[i + j - 1]
    BY <1>0, <2>1, SubSeqProperties
  <2> QED
    BY <1>0, <2>2
<1>3. << x >> \in Seq(S) /\ Len(<< x >>) = 1 /\ << x >>[1] = x
  OBVIOUS
<1>4. /\ first \in Seq(S) /\ Len(first) = i
      /\ \A j \in 1 .. i : first[j] = IF j < i THEN s[j] ELSE x
  <2>1. /\ first \in Seq(S)
        /\ Len(first) = Len(before) + Len(<< x >>)
        /\ \A j \in 1 .. Len(before) + Len(<< x >>) :
              first[j] = IF j <= Len(before) THEN before[j] ELSE << x >>[j - Len(before)]
    BY <1>1, <1>3, ConcatProperties
  <2> HIDE DEF before, first
  <2> QED
    BY <1>0, <1>1, <1>3, <2>1
<1>5. InsertAt(s, i, x) = first \o behind
  BY DEF InsertAt
<1>6. /\ first \o behind \in Seq(S)
      /\ Len(first \o behind) = Len(first) + Len(behind)
      /\ \A j \in 1 .. Len(first) + Len(behind) :
            (first \o behind)[j] = IF j <= Len(first) THEN first[j] ELSE behind[j - Len(first)]
  BY <1>2, <1>4, ConcatProperties
<1> HIDE DEF before, behind, first
<1> QED
  BY <1>0, <1>2, <1>4, <1>5, <1>6

-----------------------------------------------------------------------------
(* Who is in a sequence, and that nobody is in it twice.                    *)

In(s, y) == \E i \in 1 .. Len(s) : s[i] = y
Distinct(s) == \A i, j \in 1 .. Len(s) : s[i] = s[j] => i = j

\* Unlinked takes x out of a sequence, and nobody else.
LEMMA UnlinkedIn ==
  ASSUME NEW S, NEW s \in Seq(S), NEW x, Distinct(s)
  PROVE  /\ Unlinked(s, x) \in Seq(S)
         /\ Distinct(Unlinked(s, x))
         /\ \A y : In(Unlinked(s, x), y) <=> In(s, y) /\ y # x
<1>1. CASE ~\E i \in 1 .. Len(s) : s[i] = x
  BY <1>1 DEF Unlinked, In
<1>2. CASE \E i \in 1 .. Len(s) : s[i] = x
  <2> DEFINE i == CHOOSE i \in 1 .. Len(s) : s[i] = x
             u == RemoveAt(s, i)
  <2>1. i \in 1 .. Len(s) /\ s[i] = x
    BY <1>2
  <2>2. Len(s) \in Nat
    BY LenProperties
  <2>3. Unlinked(s, x) = u
    BY <1>2 DEF Unlinked
  <2> HIDE DEF i
  <2>4. /\ u \in Seq(S)
        /\ Len(u) = Len(s) - 1
        /\ \A j \in 1 .. Len(s) - 1 : u[j] = IF j < i THEN s[j] ELSE s[j + 1]
    BY <2>1, RemoveAtElements
  <2> HIDE DEF u
  <2>5. Distinct(u)
    <3>1. SUFFICES ASSUME NEW j \in 1 .. Len(u), NEW k \in 1 .. Len(u), u[j] = u[k]
                   PROVE  j = k
      BY DEF Distinct
    <3> DEFINE Old(m) == IF m < i THEN m ELSE m + 1
    <3>2. \A m \in 1 .. Len(u) : Old(m) \in 1 .. Len(s) /\ u[m] = s[Old(m)]
      BY <2>1, <2>2, <2>4
    <3>3. Old(j) \in 1 .. Len(s) /\ Old(k) \in 1 .. Len(s) /\ s[Old(j)] = s[Old(k)]
      BY <3>1, <3>2
    <3>4. Old(j) = Old(k)
      <4> HIDE DEF Old
      <4> QED
        BY <3>3 DEF Distinct
    <3> QED
      BY <2>1, <2>2, <2>4, <3>4
  <2>6. ASSUME NEW y  PROVE In(u, y) <=> In(s, y) /\ y # x
    <3>1. ASSUME In(u, y)  PROVE In(s, y) /\ y # x
      <4>1. PICK j \in 1 .. Len(s) - 1 : u[j] = y
        BY <2>4, <3>1 DEF In
      <4>2. CASE j < i
        BY <2>1, <2>2, <2>4, <4>1, <4>2 DEF In, Distinct
      <4>3. CASE ~(j < i)
        <5>1. j + 1 \in 1 .. Len(s) /\ s[j + 1] = y /\ j + 1 # i
          BY <2>1, <2>2, <2>4, <4>1, <4>3
        <5> QED
          BY <2>1, <5>1 DEF In, Distinct
      <4> QED
        BY <4>2, <4>3
    <3>2. ASSUME In(s, y), y # x  PROVE In(u, y)
      <4>1. PICK k \in 1 .. Len(s) : s[k] = y
        BY <3>2 DEF In
      <4>2. k # i
        BY <2>1, <3>2, <4>1
      <4>3. CASE k < i
        <5>1. k \in 1 .. Len(u) /\ u[k] = y
          BY <2>1, <2>2, <2>4, <4>1, <4>3
        <5> QED
          BY <5>1 DEF In
      <4>4. CASE k > i
        <5>1. k - 1 \in 1 .. Len(u) /\ u[k - 1] = y
          BY <2>1, <2>2, <2>4, <4>1, <4>4
        <5> QED
          BY <5>1 DEF In
      <4> QED
        BY <2>1, <2>2, <4>2, <4>3, <4>4
    <3> QED
      BY <3>1, <3>2
  <2> QED
    BY <2>3, <2>4, <2>5, <2>6
<1> QED
  BY <1>1, <1>2

\* Append puts x, and nobody else, into a sequence x is not in.
LEMMA AppendIn ==
  ASSUME NEW S, NEW s \in Seq(S), NEW x \in S, Distinct(s), ~In(s, x)
  PROVE  /\ Append(s, x) \in Seq(S)
         /\ Distinct(Append(s, x))
         /\ \A y : In(Append(s, x), y) <=> In(s, y) \/ y = x
<1> DEFINE t == Append(s, x)
<1>1. /\ t \in Seq(S) /\ Len(t) = Len(s) + 1
      /\ \A i \in 1 .. Len(s) : t[i] = s[i]
      /\ t[Len(s) + 1] = x
  BY AppendProperties
<1>2. Len(s) \in Nat
  BY LenProperties
<1> HIDE DEF t
<1>3. Distinct(t)
  BY <1>1, <1>2 DEF Distinct, In
<1>4. ASSUME NEW y  PROVE In(t, y) <=> In(s, y) \/ y = x
  BY <1>1, <1>2 DEF In
<1> QED
  BY <1>1, <1>3, <1>4 DEF t

\* BeforeLast too.
LEMMA BeforeLastIn ==
  ASSUME NEW S, NEW s \in Seq(S), NEW x \in S, Distinct(s), ~In(s, x)
  PROVE  /\ BeforeLast(s, x) \in Seq(S)
         /\ Distinct(BeforeLast(s, x))
         /\ \A y : In(BeforeLast(s, x), y) <=> In(s, y) \/ y = x
<1>0. Len(s) \in Nat
  BY LenProperties
<1>1. CASE s = << >>
  <2>1. BeforeLast(s, x) = << x >>
    BY <1>1 DEF BeforeLast
  <2>2. << x >> \in Seq(S) /\ Len(<< x >>) = 1 /\ << x >>[1] = x
    OBVIOUS
  <2>3. ~\E i \in 1 .. Len(s) : TRUE
    BY <1>1
  <2> QED
    BY <2>1, <2>2, <2>3 DEF Distinct, In
<1>2. CASE s # << >>
  <2> DEFINE t == InsertAt(s, Len(s), x)
  <2>1. BeforeLast(s, x) = t
    BY <1>2 DEF BeforeLast
  <2>2. Len(s) \in 1 .. Len(s)
    BY <1>0, <1>2, EmptySeq
  <2>3. /\ t \in Seq(S) /\ Len(t) = Len(s) + 1
        /\ \A j \in 1 .. Len(s) + 1 :
             t[j] = IF j < Len(s) THEN s[j] ELSE IF j = Len(s) THEN x ELSE s[j - 1]
    <3>1. PICK i \in 1 .. Len(s) : i = Len(s)
      BY <2>2
    <3>2. /\ InsertAt(s, i, x) \in Seq(S)
          /\ Len(InsertAt(s, i, x)) = Len(s) + 1
          /\ \A j \in 1 .. Len(s) + 1 :
               InsertAt(s, i, x)[j] = IF j < i THEN s[j] ELSE IF j = i THEN x ELSE s[j - 1]
      BY InsertAtElements
    <3> QED
      BY <3>1, <3>2
  <2> HIDE DEF t
  <2>4. Distinct(t)
    BY <1>0, <2>2, <2>3 DEF Distinct, In
  <2>5. ASSUME NEW y  PROVE In(t, y) <=> In(s, y) \/ y = x
    <3>1. In(t, y) => In(s, y) \/ y = x
      BY <1>0, <2>2, <2>3 DEF In
    <3>2. ASSUME In(s, y)  PROVE In(t, y)
      <4>1. PICK k \in 1 .. Len(s) : s[k] = y
        BY <3>2 DEF In
      <4>2. CASE k < Len(s)
        <5>1. k \in 1 .. Len(t) /\ t[k] = y
          BY <1>0, <2>3, <4>1, <4>2
        <5> QED
          BY <5>1 DEF In
      <4>3. CASE k = Len(s)
        <5>1. k + 1 \in 1 .. Len(t) /\ t[k + 1] = y
          BY <1>0, <2>3, <4>1, <4>3
        <5> QED
          BY <5>1 DEF In
      <4> QED
        BY <1>0, <4>2, <4>3
    <3>3. In(t, x)
      <4>1. Len(s) \in 1 .. Len(t) /\ t[Len(s)] = x
        BY <1>0, <2>2, <2>3
      <4> QED
        BY <4>1 DEF In
    <3> QED
      BY <3>1, <3>2, <3>3
  <2> QED
    BY <2>1, <2>3, <2>4, <2>5
<1> QED
  BY <1>1, <1>2

-----------------------------------------------------------------------------
(* A family of lists in which a node has one place.                         *)

LEMMA OnePlaceSplit ==
  ASSUME NEW H, NEW S, NEW q \in [H -> Seq(S)]
  PROVE  OnePlace(q) <=> /\ \A h \in H : Distinct(q[h])
                         /\ \A h, k \in H : \A y : OnList(q, h, y) /\ OnList(q, k, y) => h = k
  BY DEF OnePlace, OnList, Distinct

\* list_rem takes x off every list.
LEMMA RemFamily ==
  ASSUME NEW H, NEW S, NEW q \in [H -> Seq(S)], OnePlace(q), NEW x
  PROVE  /\ list_rem(q, x) \in [H -> Seq(S)]
         /\ OnePlace(list_rem(q, x))
         /\ \A h \in H : \A y : OnList(list_rem(q, x), h, y) <=> OnList(q, h, y) /\ y # x
<1> DEFINE r == list_rem(q, x)
<1>1. \A h \in H : Distinct(q[h])
  BY OnePlaceSplit
<1>2. \A h, k \in H : \A y : OnList(q, h, y) /\ OnList(q, k, y) => h = k
  BY OnePlaceSplit
<1>3. r = [h \in H |-> Unlinked(q[h], x)]
  BY DEF list_rem
<1>4. ASSUME NEW h \in H
      PROVE  r[h] \in Seq(S) /\ Distinct(r[h]) /\ \A y : In(r[h], y) <=> In(q[h], y) /\ y # x
  BY <1>1, <1>3, UnlinkedIn
<1> HIDE DEF r
<1>5. r \in [H -> Seq(S)]
  BY <1>3, <1>4
<1>6. \A h \in H : \A y : OnList(r, h, y) <=> OnList(q, h, y) /\ y # x
  BY <1>4 DEF OnList, In
<1>7. OnePlace(r)
  BY <1>2, <1>4, <1>5, <1>6, OnePlaceSplit
<1> QED
  BY <1>5, <1>6, <1>7 DEF r

\* list_head_add of a node that is on no list.
LEMMA AddFamily ==
  ASSUME NEW H, NEW S, NEW q \in [H -> Seq(S)], OnePlace(q), NEW h \in H, NEW x \in S,
         \A k \in H : ~OnList(q, k, x)
  PROVE  /\ list_head_add(q, h, x) \in [H -> Seq(S)]
         /\ OnePlace(list_head_add(q, h, x))
         /\ \A k \in H : \A y : OnList(list_head_add(q, h, x), k, y) <=>
                                  OnList(q, k, y) \/ (k = h /\ y = x)
<1> DEFINE r == list_head_add(q, h, x)
<1>1. \A k \in H : Distinct(q[k])
  BY OnePlaceSplit
<1>2. \A k, l \in H : \A y : OnList(q, k, y) /\ OnList(q, l, y) => k = l
  BY OnePlaceSplit
<1>3. r = [k \in H |-> IF k = h THEN Append(q[h], x) ELSE q[k]]
  BY DEF list_head_add
<1>4. /\ Append(q[h], x) \in Seq(S) /\ Distinct(Append(q[h], x))
      /\ \A y : In(Append(q[h], x), y) <=> In(q[h], y) \/ y = x
  <2>1. q[h] \in Seq(S) /\ Distinct(q[h]) /\ ~In(q[h], x)
    BY <1>1 DEF OnList, In
  <2> QED
    BY <2>1, AppendIn
<1> HIDE DEF r
<1>5. r \in [H -> Seq(S)]
  BY <1>3, <1>4
<1>6. \A k \in H : \A y : OnList(r, k, y) <=> OnList(q, k, y) \/ (k = h /\ y = x)
  <2> SUFFICES ASSUME NEW k \in H, NEW y
               PROVE  In(r[k], y) <=> In(q[k], y) \/ (k = h /\ y = x)
    BY DEF OnList, In
  <2> QED
    BY <1>3, <1>4
<1>7. \A k \in H : Distinct(r[k])
  BY <1>1, <1>3, <1>4
<1>8. OnePlace(r)
  <2>1. \A k, l \in H : \A y : OnList(r, k, y) /\ OnList(r, l, y) => k = l
    BY <1>2, <1>6
  <2> QED
    BY <1>5, <1>7, <2>1, OnePlaceSplit
<1> QED
  BY <1>5, <1>6, <1>8 DEF r

\* list_head_append of a node that is on no list.
LEMMA AppendFamily ==
  ASSUME NEW H, NEW S, NEW q \in [H -> Seq(S)], OnePlace(q), NEW h \in H, NEW x \in S,
         \A k \in H : ~OnList(q, k, x)
  PROVE  /\ list_head_append(q, h, x) \in [H -> Seq(S)]
         /\ OnePlace(list_head_append(q, h, x))
         /\ \A k \in H : \A y : OnList(list_head_append(q, h, x), k, y) <=>
                                  OnList(q, k, y) \/ (k = h /\ y = x)
<1> DEFINE r == list_head_append(q, h, x)
<1>1. \A k \in H : Distinct(q[k])
  BY OnePlaceSplit
<1>2. \A k, l \in H : \A y : OnList(q, k, y) /\ OnList(q, l, y) => k = l
  BY OnePlaceSplit
<1>3. r = [k \in H |-> IF k = h THEN BeforeLast(q[h], x) ELSE q[k]]
  BY DEF list_head_append
<1>4. /\ BeforeLast(q[h], x) \in Seq(S) /\ Distinct(BeforeLast(q[h], x))
      /\ \A y : In(BeforeLast(q[h], x), y) <=> In(q[h], y) \/ y = x
  <2>1. q[h] \in Seq(S) /\ Distinct(q[h]) /\ ~In(q[h], x)
    BY <1>1 DEF OnList, In
  <2> QED
    BY <2>1, BeforeLastIn
<1> HIDE DEF r
<1>5. r \in [H -> Seq(S)]
  BY <1>3, <1>4
<1>6. \A k \in H : \A y : OnList(r, k, y) <=> OnList(q, k, y) \/ (k = h /\ y = x)
  <2> SUFFICES ASSUME NEW k \in H, NEW y
               PROVE  In(r[k], y) <=> In(q[k], y) \/ (k = h /\ y = x)
    BY DEF OnList, In
  <2> QED
    BY <1>3, <1>4
<1>7. \A k \in H : Distinct(r[k])
  BY <1>1, <1>3, <1>4
<1>8. OnePlace(r)
  <2>1. \A k, l \in H : \A y : OnList(r, k, y) /\ OnList(r, l, y) => k = l
    BY <1>2, <1>6
  <2> QED
    BY <1>5, <1>7, <2>1, OnePlaceSplit
<1> QED
  BY <1>5, <1>6, <1>8 DEF r

\* list_head_init takes everybody off one list.
LEMMA InitFamily ==
  ASSUME NEW H, NEW S, NEW q \in [H -> Seq(S)], OnePlace(q), NEW h \in H
  PROVE  /\ list_head_init(q, h) \in [H -> Seq(S)]
         /\ OnePlace(list_head_init(q, h))
         /\ \A k \in H : \A y : OnList(list_head_init(q, h), k, y) <=> OnList(q, k, y) /\ k # h
<1> DEFINE r == list_head_init(q, h)
<1>1. \A k \in H : Distinct(q[k])
  BY OnePlaceSplit
<1>2. \A k, l \in H : \A y : OnList(q, k, y) /\ OnList(q, l, y) => k = l
  BY OnePlaceSplit
<1>3. r = [k \in H |-> IF k = h THEN << >> ELSE q[k]]
  BY DEF list_head_init
<1>4. << >> \in Seq(S) /\ Distinct(<< >>) /\ \A y : ~In(<< >>, y)
  BY EmptySeq DEF Distinct, In
<1> HIDE DEF r
<1>5. r \in [H -> Seq(S)]
  BY <1>3, <1>4
<1>6. \A k \in H : \A y : OnList(r, k, y) <=> OnList(q, k, y) /\ k # h
  BY <1>3, <1>4 DEF OnList, In
<1>7. \A k \in H : Distinct(r[k])
  BY <1>1, <1>3, <1>4
<1>8. OnePlace(r)
  <2>1. \A k, l \in H : \A y : OnList(r, k, y) /\ OnList(r, l, y) => k = l
    BY <1>2, <1>6
  <2> QED
    BY <1>5, <1>7, <2>1, OnePlaceSplit
<1> QED
  BY <1>5, <1>6, <1>8 DEF r

-----------------------------------------------------------------------------
(* The scheduler: types, and places on the lists.                           *)

Gone == {"UNUSED", "LWT_ZOMBIES"}

\* From k to m no thread is made and none dies.
SameThreads(k, m) ==
  \A u \in Threads : k.state[u] \in Gone \/ m.state[u] \in Gone => m.state[u] = k.state[u]

\* From k to m no thread joins a sender queue.
NoNewSenders(k, m) ==
  \A c \in Chans : \A u : OnList(m.queue, c, u) => OnList(k.queue, c, u)

\* Placed, except for what it says of the thread t.
PlacedBut(k, t) ==
  /\ OnePlace(k.queue)
  /\ \A u \in Threads \ {t} :
       /\ OnList(k.queue, "run_queue", u) => IsRunnable(k, u)
       /\ OnList(k.queue, "recycle_queue", u) => k.state[u] = "LWT_ZOMBIES"
       /\ \A c \in Chans : OnList(k.queue, c, u) =>
            k.state[u] = "LWT_BLOCKED" /\ k.block_for[u] = "BLOCKED_SENDING"

\* The node of t moves from k to the list of h, the others stay.
Moved(k, q, t, h) ==
  /\ q \in [Heads -> Seq(Threads)]
  /\ OnePlace(q)
  /\ \A g \in Heads : \A u : OnList(q, g, u) <=> (OnList(k.queue, g, u) /\ u # t) \/ (g = h /\ u = t)

\* The node of t leaves its list, for that of c if t blocks sending.
OffRunQueue(k, q, t, block_for, c) ==
  /\ q \in [Heads -> Seq(Threads)]
  /\ OnePlace(q)
  /\ \A g \in Heads : \A u : OnList(q, g, u) <=>
       \/ OnList(k.queue, g, u) /\ u # t
       \/ block_for = "BLOCKED_SENDING" /\ g = c /\ u = t

LEMMA HeadsDistinct ==
  /\ "run_queue" \in Heads /\ "recycle_queue" \in Heads /\ Chans \subseteq Heads
  /\ "run_queue" # "recycle_queue" /\ "run_queue" \notin Chans /\ "recycle_queue" \notin Chans
  BY SchedAssumption DEF Heads

\* list_rem_d and then list_head_add_d or list_head_append_d move a node.
LEMMA RemAndAdd ==
  ASSUME NEW k \in Sched, NEW t \in Threads, NEW h \in Heads, OnePlace(k.queue)
  PROVE  /\ Moved(k, list_head_add(list_rem(k.queue, t), h, t), t, h)
         /\ Moved(k, list_head_append(list_rem(k.queue, t), h, t), t, h)
<1> DEFINE q == list_rem(k.queue, t)
<1>1. k.queue \in [Heads -> Seq(Threads)]
  BY DEF Sched
<1>2. /\ q \in [Heads -> Seq(Threads)] /\ OnePlace(q)
      /\ \A g \in Heads : \A u : OnList(q, g, u) <=> OnList(k.queue, g, u) /\ u # t
  BY <1>1, RemFamily
<1> HIDE DEF q
<1>3. \A g \in Heads : ~OnList(q, g, t)
  BY <1>2
<1>4. /\ list_head_add(q, h, t) \in [Heads -> Seq(Threads)]
      /\ OnePlace(list_head_add(q, h, t))
      /\ \A g \in Heads : \A u : OnList(list_head_add(q, h, t), g, u) <=>
                                   OnList(q, g, u) \/ (g = h /\ u = t)
  BY <1>2, <1>3, AddFamily
<1>5. /\ list_head_append(q, h, t) \in [Heads -> Seq(Threads)]
      /\ OnePlace(list_head_append(q, h, t))
      /\ \A g \in Heads : \A u : OnList(list_head_append(q, h, t), g, u) <=>
                                   OnList(q, g, u) \/ (g = h /\ u = t)
  BY <1>2, <1>3, AppendFamily
<1> QED
  BY <1>2, <1>4, <1>5 DEF Moved, q

\* A thread that can run, moved to the run queue from wherever it was.
LEMMA MovedToRunQueue ==
  ASSUME NEW k \in Sched, NEW t \in Threads, PlacedBut(k, t), IsRunnable(k, t),
         NEW q, Moved(k, q, t, "run_queue")
  PROVE  LET m == [k EXCEPT !.queue = q]
         IN  /\ m \in Sched /\ Placed(m) /\ NoNewSenders(k, m)
             /\ m.state = k.state /\ m.block_for = k.block_for
             /\ m.current_thread = k.current_thread
             /\ \A u : OnList(m.queue, "run_queue", u) <=> OnList(k.queue, "run_queue", u) \/ u = t
<1> DEFINE m == [k EXCEPT !.queue = q]
<1>1. /\ m \in Sched /\ m.queue = q
      /\ m.state = k.state /\ m.block_for = k.block_for /\ m.current_thread = k.current_thread
  BY DEF Sched, Moved
<1> HIDE DEF m
<1>2. \A u : OnList(m.queue, "run_queue", u) <=> OnList(k.queue, "run_queue", u) \/ u = t
  BY <1>1, HeadsDistinct DEF Moved
<1>3. NoNewSenders(k, m)
  BY <1>1, HeadsDistinct DEF Moved, NoNewSenders
<1>4. Placed(m)
  <2>1. OnePlace(m.queue)
    BY <1>1 DEF Moved
  <2>2. ASSUME NEW u \in Threads, OnList(m.queue, "run_queue", u)  PROVE IsRunnable(m, u)
    BY <1>1, <1>2, <2>2 DEF PlacedBut, IsRunnable
  <2>3. ASSUME NEW u \in Threads, OnList(m.queue, "recycle_queue", u)
        PROVE  m.state[u] = "LWT_ZOMBIES"
    BY <1>1, <2>3, HeadsDistinct DEF PlacedBut, Moved
  <2>4. ASSUME NEW u \in Threads, NEW c \in Chans, OnList(m.queue, c, u)
        PROVE  m.state[u] = "LWT_BLOCKED" /\ m.block_for[u] = "BLOCKED_SENDING"
    BY <1>1, <2>4, HeadsDistinct DEF PlacedBut, Moved
  <2> QED
    BY <2>1, <2>2, <2>3, <2>4 DEF Placed
<1> QED
  BY <1>1, <1>2, <1>3, <1>4 DEF m

\* __lwt_schedule runs a thread that can run.
LEMMA ScheduleSound ==
  ASSUME NEW k \in Sched, Placed(k)
  PROVE  /\ lwt_schedule(k) \in Sched /\ ListsSound(lwt_schedule(k))
         /\ SameThreads(k, lwt_schedule(k)) /\ NoNewSenders(k, lwt_schedule(k))
<1>1. CASE k.queue["run_queue"] = << >>
  <2>1. lwt_schedule(k) = [k EXCEPT !.current_thread = NULL]
    BY <1>1 DEF lwt_schedule
  <2> DEFINE m == [k EXCEPT !.current_thread = NULL]
  <2>2. /\ m \in Sched /\ m.queue = k.queue /\ m.state = k.state /\ m.block_for = k.block_for
        /\ m.current_thread = NULL
    BY DEF Sched
  <2> HIDE DEF m
  <2> QED
    BY <2>1, <2>2 DEF m, ListsSound, Placed, CurrentRuns, IsRunnable, SameThreads, NoNewSenders
<1>2. CASE k.queue["run_queue"] # << >>
  <2> DEFINE t == Head(k.queue["run_queue"])
             m == [k EXCEPT !.current_thread = t, !.state = [@ EXCEPT ![t] = "LWT_RUNNING"]]
  <2>1. lwt_schedule(k) = m
    BY <1>2 DEF lwt_schedule
  <2>2. t \in Threads /\ OnList(k.queue, "run_queue", t)
    <3>1. k.queue["run_queue"] \in Seq(Threads)
      BY HeadsDistinct DEF Sched
    <3>2. t = k.queue["run_queue"][1] /\ 1 \in 1 .. Len(k.queue["run_queue"])
      BY <1>2, <3>1, EmptySeq
    <3> QED
      BY <3>1, <3>2, ElementOfSeq DEF OnList
  <2>3. IsRunnable(k, t)
    BY <2>2 DEF Placed
  <2> HIDE DEF t
  <2>4. /\ m \in Sched /\ m.queue = k.queue /\ m.block_for = k.block_for
        /\ m.state = [k.state EXCEPT ![t] = "LWT_RUNNING"] /\ m.current_thread = t
    BY <2>2 DEF Sched, States
  <2> HIDE DEF m
  <2>5. k.state \in [Threads -> States]
    BY DEF Sched
  <2>6. SameThreads(k, m)
    BY <2>2, <2>3, <2>4, <2>5 DEF SameThreads, IsRunnable, Gone
  <2>7. Placed(m)
    <3>1. \A u \in Threads : m.state[u] = IF u = t THEN "LWT_RUNNING" ELSE k.state[u]
      BY <2>4, <2>5
    <3>2. ~OnList(k.queue, "recycle_queue", t) /\ \A c \in Chans : ~OnList(k.queue, c, t)
      BY <2>2, <2>3 DEF Placed, IsRunnable
    <3> QED
      BY <2>4, <3>1, <3>2 DEF Placed, IsRunnable
  <2>8. CurrentRuns(m)
    BY <2>2, <2>4, <2>5 DEF CurrentRuns
  <2> QED
    BY <2>1, <2>4, <2>6, <2>7, <2>8 DEF ListsSound, NoNewSenders
<1> QED
  BY <1>1, <1>2

LEMMA SameThreadsTransitive ==
  ASSUME NEW k, NEW l, NEW m, SameThreads(k, l), SameThreads(l, m)
  PROVE  SameThreads(k, m)
  BY DEF SameThreads

\* ToEnd and ToFront of a thread that can run.
LEMMA ToRunQueueSound ==
  ASSUME NEW k \in Sched, NEW t \in Threads, PlacedBut(k, t), IsRunnable(k, t),
         NEW m \in {ToEnd(k, t), ToFront(k, t)}
  PROVE  /\ m \in Sched /\ Placed(m) /\ NoNewSenders(k, m)
         /\ m.state = k.state /\ m.block_for = k.block_for
         /\ m.current_thread = k.current_thread
         /\ \A u : OnList(m.queue, "run_queue", u) <=> OnList(k.queue, "run_queue", u) \/ u = t
<1>1. OnePlace(k.queue)
  BY DEF PlacedBut
<1>2. PICK q : Moved(k, q, t, "run_queue") /\ m = [k EXCEPT !.queue = q]
  <2>1. ToEnd(k, t) = [k EXCEPT !.queue = list_head_add(list_rem(k.queue, t), "run_queue", t)]
    BY DEF ToEnd
  <2>2. ToFront(k, t) = [k EXCEPT !.queue = list_head_append(list_rem(k.queue, t), "run_queue", t)]
    BY DEF ToFront
  <2>3. /\ Moved(k, list_head_add(list_rem(k.queue, t), "run_queue", t), t, "run_queue")
        /\ Moved(k, list_head_append(list_rem(k.queue, t), "run_queue", t), t, "run_queue")
    BY <1>1, HeadsDistinct, RemAndAdd
  <2> QED
    BY <2>1, <2>2, <2>3
<1> QED
  BY <1>2, MovedToRunQueue

\* lwt_yield(NULL), by a thread that can run or that has just been parked.
LEMMA YieldNullSound ==
  ASSUME NEW k \in Sched, Placed(k), k.current_thread \in Threads
  PROVE  /\ lwt_yield_null(k) \in Sched /\ ListsSound(lwt_yield_null(k))
         /\ SameThreads(k, lwt_yield_null(k)) /\ NoNewSenders(k, lwt_yield_null(k))
<1> DEFINE t == k.current_thread
           l == IF IsRunnable(k, t) THEN ToEnd(k, t) ELSE k
<1>1. l \in Sched /\ Placed(l) /\ NoNewSenders(k, l) /\ l.state = k.state
  <2>1. CASE IsRunnable(k, t)
    <3>1. PlacedBut(k, t)
      BY DEF Placed, PlacedBut
    <3> QED
      BY <2>1, <3>1, ToRunQueueSound
  <2>2. CASE ~IsRunnable(k, t)
    BY <2>2 DEF NoNewSenders
  <2> QED
    BY <2>1, <2>2
<1>2. lwt_yield_null(k) = lwt_schedule(l)
  BY DEF lwt_yield_null
<1> HIDE DEF l
<1>3. SameThreads(k, l)
  BY <1>1 DEF SameThreads
<1>4. /\ lwt_schedule(l) \in Sched /\ ListsSound(lwt_schedule(l))
      /\ SameThreads(l, lwt_schedule(l)) /\ NoNewSenders(l, lwt_schedule(l))
  BY <1>1, ScheduleSound
<1> QED
  BY <1>1, <1>2, <1>3, <1>4, SameThreadsTransitive DEF NoNewSenders

\* lwt_yield(t).
LEMMA YieldToSound ==
  ASSUME NEW k \in Sched, ListsSound(k), NEW t \in Threads
  PROVE  /\ lwt_yield_to(k, t) \in Sched /\ ListsSound(lwt_yield_to(k, t))
         /\ SameThreads(k, lwt_yield_to(k, t)) /\ NoNewSenders(k, lwt_yield_to(k, t))
<1>1. CASE t = k.current_thread \/ ~IsRunnable(k, t)
  BY <1>1 DEF lwt_yield_to, SameThreads, NoNewSenders
<1>2. CASE ~(t = k.current_thread \/ ~IsRunnable(k, t))
  <2> DEFINE l == ToFront(k, t)
  <2>1. lwt_yield_to(k, t) = lwt_schedule(l)
    BY <1>2 DEF lwt_yield_to
  <2>2. PlacedBut(k, t)
    BY DEF ListsSound, Placed, PlacedBut
  <2>3. l \in Sched /\ Placed(l) /\ NoNewSenders(k, l) /\ l.state = k.state
    BY <1>2, <2>2, ToRunQueueSound
  <2> HIDE DEF l
  <2>4. SameThreads(k, l)
    BY <2>3 DEF SameThreads
  <2>5. /\ lwt_schedule(l) \in Sched /\ ListsSound(lwt_schedule(l))
        /\ SameThreads(l, lwt_schedule(l)) /\ NoNewSenders(l, lwt_schedule(l))
    BY <2>3, ScheduleSound
  <2> QED
    BY <2>1, <2>3, <2>4, <2>5, SameThreadsTransitive DEF NoNewSenders
<1> QED
  BY <1>1, <1>2

\* Parked leaves the node on the sender queue of c, or on no list.
LEMMA ParkedMoves ==
  ASSUME NEW k \in Sched, OnePlace(k.queue), NEW t \in Threads,
         NEW block_for \in BlockStatus, NEW c, block_for = "BLOCKED_SENDING" => c \in Chans
  PROVE  OffRunQueue(k, Parked(k.queue, t, block_for, c), t, block_for, c)
<1>1. CASE block_for = "BLOCKED_SENDING"
  <2>1. Moved(k, list_head_add(list_rem(k.queue, t), c, t), t, c)
    BY <1>1, HeadsDistinct, RemAndAdd
  <2>2. Parked(k.queue, t, block_for, c) = list_head_add(list_rem(k.queue, t), c, t)
    BY <1>1 DEF Parked
  <2> QED
    BY <1>1, <2>1, <2>2 DEF Moved, OffRunQueue
<1>2. CASE block_for # "BLOCKED_SENDING"
  <2>1. Parked(k.queue, t, block_for, c) = list_rem(k.queue, t)
    BY <1>2 DEF Parked
  <2>2. k.queue \in [Heads -> Seq(Threads)]
    BY DEF Sched
  <2>3. /\ list_rem(k.queue, t) \in [Heads -> Seq(Threads)]
        /\ OnePlace(list_rem(k.queue, t))
        /\ \A g \in Heads : \A u : OnList(list_rem(k.queue, t), g, u) <=> OnList(k.queue, g, u) /\ u # t
    BY <2>2, RemFamily
  <2> QED
    BY <1>2, <2>1, <2>3 DEF OffRunQueue
<1> QED
  BY <1>1, <1>2

\* __block_thread of the current thread.
LEMMA BlockSound ==
  ASSUME NEW k \in Sched, ListsSound(k), k.current_thread \in Threads,
         NEW block_for \in BlockStatus, NEW c, block_for = "BLOCKED_SENDING" => c \in Chans
  PROVE  LET m == block_thread(k, block_for, c)
         IN  /\ m \in Sched /\ ListsSound(m) /\ SameThreads(k, m)
             /\ \A d \in Chans : \A u : OnList(m.queue, d, u) =>
                  OnList(k.queue, d, u) \/ (block_for = "BLOCKED_SENDING" /\ d = c)
<1>0. PICK t \in Threads : t = k.current_thread
  OBVIOUS
<1> DEFINE sending == block_for = "BLOCKED_SENDING"
           q == Parked(k.queue, t, block_for, c)
           s == [k.state EXCEPT ![t] = "LWT_BLOCKED"]
           b == [k.block_for EXCEPT ![t] = block_for]
           r == IF sending THEN k.nrcving ELSE k.nrcving + 1
           n == IF sending THEN k.nsnding + 1 ELSE k.nsnding
           l == [k EXCEPT !.queue = q, !.state = s, !.block_for = b,
                          !.block_counter = k.block_counter + 1, !.nrcving = r, !.nsnding = n]
<1>1. block_thread(k, block_for, c) = lwt_yield_null(l)
  BY <1>0 DEF block_thread
<1>2. OnePlace(k.queue) /\ k.state[t] = "LWT_RUNNING"
  BY <1>0, SchedAssumption DEF ListsSound, Placed, CurrentRuns
<1>3. OffRunQueue(k, q, t, block_for, c)
  BY <1>2, ParkedMoves
<1> HIDE DEF q
<1>4. /\ l \in Sched /\ l.queue = q /\ l.current_thread = t
      /\ l.state = s /\ l.block_for = b
  <2>1. /\ s \in [Threads -> States] /\ b \in [Threads -> BlockStatus]
        /\ k.block_counter + 1 \in Int /\ r \in Int /\ n \in Int
    BY DEF Sched, States
  <2> HIDE DEF s, b, r, n
  <2> QED
    BY <1>0, <1>3, <2>1 DEF Sched, OffRunQueue
<1> HIDE DEF l
<1>5. /\ \A u \in Threads : l.state[u] = IF u = t THEN "LWT_BLOCKED" ELSE k.state[u]
      /\ \A u \in Threads : l.block_for[u] = IF u = t THEN block_for ELSE k.block_for[u]
  BY <1>4 DEF Sched
<1>6. SameThreads(k, l)
  BY <1>2, <1>5 DEF SameThreads, Gone
<1>7. Placed(l)
  <2>1. ASSUME NEW u \in Threads, OnList(l.queue, "run_queue", u)  PROVE IsRunnable(l, u)
    <3>1. OnList(k.queue, "run_queue", u) /\ u # t
      BY <1>3, <1>4, <2>1, HeadsDistinct DEF OffRunQueue
    <3> QED
      BY <1>5, <3>1 DEF ListsSound, Placed, IsRunnable
  <2>2. ASSUME NEW u \in Threads, OnList(l.queue, "recycle_queue", u)
        PROVE  l.state[u] = "LWT_ZOMBIES"
    <3>1. OnList(k.queue, "recycle_queue", u) /\ u # t
      BY <1>3, <1>4, <2>2, HeadsDistinct DEF OffRunQueue
    <3> QED
      BY <1>5, <3>1 DEF ListsSound, Placed
  <2>3. ASSUME NEW u \in Threads, NEW d \in Chans, OnList(l.queue, d, u)
        PROVE  l.state[u] = "LWT_BLOCKED" /\ l.block_for[u] = "BLOCKED_SENDING"
    <3>1. (OnList(k.queue, d, u) /\ u # t) \/ (sending /\ u = t)
      BY <1>3, <1>4, <2>3, HeadsDistinct DEF OffRunQueue
    <3> QED
      BY <1>5, <3>1 DEF ListsSound, Placed
  <2> QED
    BY <1>3, <1>4, <2>1, <2>2, <2>3 DEF Placed, OffRunQueue
<1>8. LET m == lwt_yield_null(l)
      IN  m \in Sched /\ ListsSound(m) /\ SameThreads(l, m) /\ NoNewSenders(l, m)
  BY <1>4, <1>7, YieldNullSound
<1>9. ASSUME NEW d \in Chans, NEW u, OnList(lwt_yield_null(l).queue, d, u)
      PROVE  OnList(k.queue, d, u) \/ (sending /\ d = c)
  BY <1>3, <1>4, <1>8, <1>9, HeadsDistinct DEF NoNewSenders, OffRunQueue
<1> QED
  BY <1>1, <1>6, <1>8, <1>9, SameThreadsTransitive

\* __resume_thread of any thread but the current one.
LEMMA ResumeSound ==
  ASSUME NEW k \in Sched, ListsSound(k), NEW t \in Threads, t # k.current_thread,
         k.state[t] \notin Gone
  PROVE  LET m == resume_thread(k, t)
         IN  /\ m \in Sched /\ ListsSound(m) /\ SameThreads(k, m) /\ NoNewSenders(k, m)
             /\ m.current_thread = k.current_thread
             /\ m.state = [k.state EXCEPT ![t] = "LWT_RUNNABLE"]
<1> DEFINE s == [k.state EXCEPT ![t] = "LWT_RUNNABLE"]
           r == IF k.block_for[t] = "BLOCKED_RECEIVING" THEN Less(k.nrcving) ELSE k.nrcving
           n == IF k.block_for[t] = "BLOCKED_SENDING" THEN Less(k.nsnding) ELSE k.nsnding
           d == Less(k.block_counter)
           l == [k EXCEPT !.nrcving = r, !.nsnding = n, !.block_counter = d, !.state = s]
           m == resume_thread(k, t)
<1>1. m = ToFront(l, t)
  BY DEF resume_thread
<1>2. /\ l \in Sched /\ l.queue = k.queue /\ l.current_thread = k.current_thread
      /\ l.state = s /\ l.block_for = k.block_for
  <2>1. s \in [Threads -> States]
    BY DEF Sched, States
  <2>2. r \in Int /\ n \in Int /\ d \in Int
    <3>1. \A i \in Int : Less(i) \in Int
      BY SchedAssumption DEF Less
    <3> QED
      BY <3>1 DEF Sched
  <2> HIDE DEF s, r, n, d
  <2> QED
    BY <2>1, <2>2 DEF Sched
<1> HIDE DEF l, m
<1>3. \A u \in Threads : l.state[u] = IF u = t THEN "LWT_RUNNABLE" ELSE k.state[u]
  BY <1>2 DEF Sched
<1>4. PlacedBut(l, t) /\ IsRunnable(l, t)
  BY <1>2, <1>3 DEF ListsSound, Placed, PlacedBut, IsRunnable
<1>5. /\ m \in Sched /\ Placed(m) /\ NoNewSenders(l, m)
      /\ m.state = l.state /\ m.block_for = l.block_for
      /\ m.current_thread = l.current_thread
      /\ \A u : OnList(m.queue, "run_queue", u) <=> OnList(l.queue, "run_queue", u) \/ u = t
  BY <1>1, <1>2, <1>4, ToRunQueueSound
<1>6. CurrentRuns(m)
  <2> SUFFICES ASSUME m.current_thread # NULL
               PROVE  /\ OnList(m.queue, "run_queue", m.current_thread)
                      /\ m.state[m.current_thread] = "LWT_RUNNING"
    BY DEF CurrentRuns
  <2>1. m.current_thread = k.current_thread /\ m.current_thread \in Threads
    BY <1>2, <1>5 DEF Sched
  <2>2. OnList(k.queue, "run_queue", k.current_thread) /\ k.state[k.current_thread] = "LWT_RUNNING"
    BY <2>1 DEF ListsSound, CurrentRuns
  <2> QED
    BY <1>2, <1>3, <1>5, <2>1, <2>2
<1>7. SameThreads(k, m)
  BY <1>3, <1>5 DEF SameThreads, Gone
<1>8. NoNewSenders(k, m)
  BY <1>2, <1>5 DEF NoNewSenders
<1> QED
  BY <1>2, <1>5, <1>6, <1>7, <1>8 DEF ListsSound, m

\* lwt_create, and the empty sender queue of the channel it makes.
LEMMA CreateSound ==
  ASSUME NEW k \in Sched, ListsSound(k), NEW t \in Threads, NEW c \in Chans
  PROVE  LET m == [SchedCreate(k, t) EXCEPT !.queue = list_head_init(@, c)]
         IN  /\ m \in Sched /\ ListsSound(m) /\ NoNewSenders(k, m)
             /\ m.state = [k.state EXCEPT ![t] = "LWT_RUNNING"]
             /\ \A u : ~OnList(m.queue, c, u)
<1> DEFINE s == [k.state EXCEPT ![t] = "LWT_RUNNING"]
           l == [k EXCEPT !.state = s]
           j == ToEnd(l, t)
           m == [j EXCEPT !.queue = list_head_init(j.queue, c)]
<1>1. m = [SchedCreate(k, t) EXCEPT !.queue = list_head_init(@, c)]
  BY DEF SchedCreate
<1>2. /\ l \in Sched /\ l.queue = k.queue /\ l.current_thread = k.current_thread
      /\ l.state = s /\ l.block_for = k.block_for
  <2>1. s \in [Threads -> States]
    BY DEF Sched, States
  <2> HIDE DEF s
  <2> QED
    BY <2>1 DEF Sched
<1> HIDE DEF l
<1>3. \A u \in Threads : l.state[u] = IF u = t THEN "LWT_RUNNING" ELSE k.state[u]
  BY <1>2 DEF Sched
<1>4. PlacedBut(l, t) /\ IsRunnable(l, t)
  BY <1>2, <1>3 DEF ListsSound, Placed, PlacedBut, IsRunnable
<1>5. /\ j \in Sched /\ Placed(j) /\ NoNewSenders(l, j)
      /\ j.state = l.state /\ j.block_for = l.block_for
      /\ j.current_thread = l.current_thread
      /\ \A u : OnList(j.queue, "run_queue", u) <=> OnList(l.queue, "run_queue", u) \/ u = t
  BY <1>2, <1>4, ToRunQueueSound
<1> HIDE DEF j
<1>6. /\ list_head_init(j.queue, c) \in [Heads -> Seq(Threads)]
      /\ OnePlace(list_head_init(j.queue, c))
      /\ \A h \in Heads : \A u : OnList(list_head_init(j.queue, c), h, u) <=>
                                   OnList(j.queue, h, u) /\ h # c
  <2>1. j.queue \in [Heads -> Seq(Threads)] /\ OnePlace(j.queue) /\ c \in Heads
    BY <1>5, HeadsDistinct DEF Sched, Placed
  <2> QED
    BY <2>1, InitFamily
<1>7. /\ m \in Sched /\ m.queue = list_head_init(j.queue, c) /\ m.state = j.state
      /\ m.block_for = j.block_for /\ m.current_thread = j.current_thread
  BY <1>5, <1>6 DEF Sched
<1> HIDE DEF m
<1>8. Placed(m)
  BY <1>5, <1>6, <1>7, HeadsDistinct DEF Placed, IsRunnable
<1>9. CurrentRuns(m)
  <2> SUFFICES ASSUME m.current_thread # NULL
               PROVE  /\ OnList(m.queue, "run_queue", m.current_thread)
                      /\ m.state[m.current_thread] = "LWT_RUNNING"
    BY DEF CurrentRuns
  <2>1. m.current_thread = k.current_thread /\ m.current_thread \in Threads
    BY <1>2, <1>5, <1>7 DEF Sched
  <2>2. OnList(k.queue, "run_queue", k.current_thread) /\ k.state[k.current_thread] = "LWT_RUNNING"
    BY <2>1 DEF ListsSound, CurrentRuns
  <2>3. OnList(m.queue, "run_queue", m.current_thread)
    BY <1>2, <1>5, <1>6, <1>7, <2>1, <2>2, HeadsDistinct
  <2> QED
    BY <1>3, <1>5, <1>7, <2>1, <2>2, <2>3
<1>10. NoNewSenders(k, m) /\ \A u : ~OnList(m.queue, c, u)
  BY <1>2, <1>5, <1>6, <1>7, HeadsDistinct DEF NoNewSenders
<1> QED
  BY <1>1, <1>2, <1>5, <1>7, <1>8, <1>9, <1>10 DEF ListsSound

\* list_head_init of the sender queue of a new channel.
LEMMA NewQueueSound ==
  ASSUME NEW k \in Sched, ListsSound(k), NEW c \in Chans
  PROVE  LET m == [k EXCEPT !.queue = list_head_init(@, c)]
         IN  /\ m \in Sched /\ ListsSound(m) /\ NoNewSenders(k, m)
             /\ m.state = k.state /\ m.current_thread = k.current_thread
             /\ \A u : ~OnList(m.queue, c, u)
<1> DEFINE m == [k EXCEPT !.queue = list_head_init(k.queue, c)]
<1>1. /\ list_head_init(k.queue, c) \in [Heads -> Seq(Threads)]
      /\ OnePlace(list_head_init(k.queue, c))
      /\ \A h \in Heads : \A u : OnList(list_head_init(k.queue, c), h, u) <=>
                                   OnList(k.queue, h, u) /\ h # c
  <2>1. k.queue \in [Heads -> Seq(Threads)] /\ OnePlace(k.queue) /\ c \in Heads
    BY HeadsDistinct DEF Sched, ListsSound, Placed
  <2> QED
    BY <2>1, InitFamily
<1>2. /\ m \in Sched /\ m.queue = list_head_init(k.queue, c) /\ m.state = k.state
      /\ m.block_for = k.block_for /\ m.current_thread = k.current_thread
  BY <1>1 DEF Sched
<1> HIDE DEF m
<1>3. ListsSound(m)
  BY <1>1, <1>2, HeadsDistinct DEF ListsSound, Placed, CurrentRuns, IsRunnable
<1>4. NoNewSenders(k, m) /\ \A u : ~OnList(m.queue, c, u)
  BY <1>1, <1>2, HeadsDistinct DEF NoNewSenders
<1>5. m = [k EXCEPT !.queue = list_head_init(k.queue, c)]
  BY DEF m
<1> QED
  BY <1>2, <1>3, <1>4, <1>5

\* lwt_die counts itself.
LEMMA DyingSound ==
  ASSUME NEW k \in Sched, ListsSound(k)
  PROVE  LET m == SchedDying(k)
         IN  /\ m \in Sched /\ ListsSound(m)
             /\ m.queue = k.queue /\ m.state = k.state /\ m.block_for = k.block_for
             /\ m.current_thread = k.current_thread
<1> DEFINE z == k.zombie_counter + 1
           m == SchedDying(k)
<1>1. /\ m \in Sched /\ m.queue = k.queue /\ m.state = k.state
      /\ m.block_for = k.block_for /\ m.current_thread = k.current_thread
  <2>1. m = [k EXCEPT !.zombie_counter = z]
    BY DEF SchedDying
  <2>2. z \in Int
    BY DEF Sched
  <2> HIDE DEF z, m
  <2> QED
    BY <2>1, <2>2 DEF Sched
<1> HIDE DEF m
<1>2. ListsSound(m)
  BY <1>1 DEF ListsSound, Placed, CurrentRuns, IsRunnable
<1> QED
  BY <1>1, <1>2 DEF m

\* The end of lwt_die: the current thread, and nobody else, is gone.
LEMMA DeadSound ==
  ASSUME NEW k \in Sched, ListsSound(k), NEW t \in Threads, t = k.current_thread
  PROVE  LET m == SchedDead(k)
         IN  /\ m \in Sched /\ ListsSound(m) /\ NoNewSenders(k, m)
             /\ \A u \in Threads \ {t} :
                  k.state[u] \in Gone \/ m.state[u] \in Gone => m.state[u] = k.state[u]
             /\ m.state[t] # "UNUSED"
<1> DEFINE q == list_head_add(list_rem(k.queue, t), "recycle_queue", t)
           s == [k.state EXCEPT ![t] = "LWT_ZOMBIES"]
           z == k.zombie_counter - 1
           l == [k EXCEPT !.state = s, !.zombie_counter = z, !.queue = q]
           m == lwt_schedule(l)
<1>1. SchedDead(k) = m
  BY DEF SchedDead
<1>2. Moved(k, q, t, "recycle_queue")
  BY HeadsDistinct, RemAndAdd DEF ListsSound, Placed
<1> HIDE DEF q
<1>3. l \in Sched /\ l.queue = q /\ l.state = s /\ l.block_for = k.block_for
  <2>1. s \in [Threads -> States] /\ z \in Int
    BY DEF Sched, States
  <2>2. q \in [Heads -> Seq(Threads)]
    BY <1>2 DEF Moved
  <2> HIDE DEF s, z
  <2> QED
    BY <2>1, <2>2 DEF Sched
<1> HIDE DEF l
<1>4. \A u \in Threads : l.state[u] = IF u = t THEN "LWT_ZOMBIES" ELSE k.state[u]
  BY <1>3 DEF Sched
<1>5. Placed(l)
  BY <1>2, <1>3, <1>4, HeadsDistinct DEF ListsSound, Placed, Moved, IsRunnable
<1>6. m \in Sched /\ ListsSound(m) /\ SameThreads(l, m) /\ NoNewSenders(l, m)
  BY <1>3, <1>5, ScheduleSound
<1>7. NoNewSenders(k, m)
  BY <1>2, <1>3, <1>6, HeadsDistinct DEF NoNewSenders, Moved
<1> HIDE DEF m
<1>8. \A u \in Threads \ {t} :
        k.state[u] \in Gone \/ m.state[u] \in Gone => m.state[u] = k.state[u]
  BY <1>4, <1>6 DEF SameThreads
<1>9. m.state[t] # "UNUSED"
  BY <1>4, <1>6 DEF SameThreads, Gone
<1> QED
  BY <1>1, <1>6, <1>7, <1>8, <1>9

-----------------------------------------------------------------------------
(* What the operations do exactly: to the sender queues, to who can run, and *)
(* to the counters.                                                          *)

\* The first node leaves a list.
LEMMA UnlinkedHead ==
  ASSUME NEW S, NEW s \in Seq(S), s # << >>, Distinct(s)
  PROVE  Unlinked(s, Head(s)) = Tail(s)
<1> DEFINE i == CHOOSE i \in 1 .. Len(s) : s[i] = Head(s)
<1>1. Len(s) \in Nat /\ Len(s) >= 1 /\ 1 \in 1 .. Len(s) /\ s[1] = Head(s)
  BY EmptySeq
<1>2. i \in 1 .. Len(s) /\ s[i] = Head(s)
  BY <1>1
<1>3. Unlinked(s, Head(s)) = RemoveAt(s, i)
  BY <1>1 DEF Unlinked
<1> HIDE DEF i
<1>4. i = 1
  BY <1>1, <1>2 DEF Distinct
<1>5. /\ RemoveAt(s, i) \in Seq(S) /\ Len(RemoveAt(s, i)) = Len(s) - 1
      /\ \A j \in 1 .. Len(s) - 1 : RemoveAt(s, i)[j] = IF j < i THEN s[j] ELSE s[j + 1]
  BY <1>2, RemoveAtElements
<1>6. Tail(s) \in Seq(S) /\ Len(Tail(s)) = Len(s) - 1
  OBVIOUS
<1>7. \A j \in 1 .. Len(s) - 1 : Tail(s)[j] = s[j + 1]
  OBVIOUS
<1>8. \A j \in 1 .. Len(RemoveAt(s, i)) : RemoveAt(s, i)[j] = Tail(s)[j]
  BY <1>1, <1>4, <1>5, <1>7
<1>9. RemoveAt(s, i) = Tail(s)
  BY <1>5, <1>6, <1>8, SeqEqual
<1> QED
  BY <1>3, <1>9

LEMMA UnlinkedAbsent ==
  ASSUME NEW s, NEW x, ~In(s, x)
  PROVE  Unlinked(s, x) = s
  BY DEF Unlinked, In

\* The lists that a node is not on do not change when it moves.
LEMMA MoveQueues ==
  ASSUME NEW k \in Sched, NEW t, NEW h \in Heads, NEW g \in Heads
  PROVE  /\ list_rem(k.queue, t)[g] = Unlinked(k.queue[g], t)
         /\ g # h => list_head_add(list_rem(k.queue, t), h, t)[g] = Unlinked(k.queue[g], t)
         /\ g # h => list_head_append(list_rem(k.queue, t), h, t)[g] = Unlinked(k.queue[g], t)
         /\ list_head_add(list_rem(k.queue, t), h, t)[h] = Append(Unlinked(k.queue[h], t), t)
<1>1. k.queue \in [Heads -> Seq(Threads)]
  BY DEF Sched
<1> QED
  BY <1>1 DEF list_rem, list_head_add, list_head_append

\* u can run in m if it could in k, and is in the same state otherwise.
Stands(k, m, u) ==
  m.state[u] = k.state[u] \/ (IsRunnable(k, u) /\ IsRunnable(m, u))

SameCounters(k, m) ==
  /\ m.block_counter = k.block_counter /\ m.zombie_counter = k.zombie_counter
  /\ m.nrcving = k.nrcving /\ m.nsnding = k.nsnding

\* Nobody leaves the run queue or the recycle queue.
KeptOnLists(k, m) ==
  \A u \in Threads : /\ OnList(k.queue, "run_queue", u) => OnList(m.queue, "run_queue", u)
                     /\ OnList(k.queue, "recycle_queue", u) => OnList(m.queue, "recycle_queue", u)

\* From k to m only the order of the run queue and the current thread change.
Reordered(k, m) ==
  /\ \A c \in Chans : m.queue[c] = k.queue[c]
  /\ m.block_for = k.block_for
  /\ \A u \in Threads : Stands(k, m, u)
  /\ SameCounters(k, m)
  /\ KeptOnLists(k, m)

LEMMA ReorderedTransitive ==
  ASSUME NEW k, NEW l, NEW m, Reordered(k, l), Reordered(l, m)
  PROVE  Reordered(k, m)
<1>1. \A u \in Threads : Stands(k, m, u)
  BY DEF Reordered, Stands, IsRunnable
<1>2. SameCounters(k, m) /\ KeptOnLists(k, m)
  BY DEF Reordered, SameCounters, KeptOnLists
<1> QED
  BY <1>1, <1>2 DEF Reordered

LEMMA ReorderedReflexive ==
  ASSUME NEW k
  PROVE  Reordered(k, k)
  BY DEF Reordered, Stands, SameCounters, KeptOnLists

\* The processor is lost only when nobody can run.
Busy(k) == k.current_thread = NULL => k.queue["run_queue"] = << >>

LEMMA ScheduleView ==
  ASSUME NEW k \in Sched, Placed(k)
  PROVE  Reordered(k, lwt_schedule(k)) /\ Busy(lwt_schedule(k))
<1>1. CASE k.queue["run_queue"] = << >>
  <2> DEFINE m == [k EXCEPT !.current_thread = NULL]
  <2>1. lwt_schedule(k) = m
    BY <1>1 DEF lwt_schedule
  <2>2. /\ m.queue = k.queue /\ m.state = k.state /\ m.block_for = k.block_for
        /\ SameCounters(k, m)
    BY DEF Sched, SameCounters
  <2> HIDE DEF m
  <2> QED
    BY <1>1, <2>1, <2>2 DEF Reordered, Stands, KeptOnLists, Busy
<1>2. CASE k.queue["run_queue"] # << >>
  <2> DEFINE t == Head(k.queue["run_queue"])
             s == [k.state EXCEPT ![t] = "LWT_RUNNING"]
             m == [k EXCEPT !.current_thread = t, !.state = s]
  <2>1. lwt_schedule(k) = m
    BY <1>2 DEF lwt_schedule
  <2>2. t \in Threads /\ OnList(k.queue, "run_queue", t)
    <3>1. k.queue["run_queue"] \in Seq(Threads)
      BY HeadsDistinct DEF Sched
    <3>2. t = k.queue["run_queue"][1] /\ 1 \in 1 .. Len(k.queue["run_queue"])
      BY <1>2, <3>1, EmptySeq
    <3> QED
      BY <3>1, <3>2, ElementOfSeq DEF OnList
  <2>3. IsRunnable(k, t) /\ t # NULL
    BY <2>2, SchedAssumption DEF Placed
  <2> HIDE DEF t
  <2>4. /\ m.queue = k.queue /\ m.block_for = k.block_for /\ SameCounters(k, m)
        /\ m.state = s /\ m.current_thread = t
    BY DEF Sched, SameCounters
  <2>5. \A u \in Threads : m.state[u] = IF u = t THEN "LWT_RUNNING" ELSE k.state[u]
    BY <2>4 DEF Sched
  <2> HIDE DEF s, m
  <2>6. \A u \in Threads : Stands(k, m, u)
    BY <2>3, <2>5 DEF Stands, IsRunnable
  <2> QED
    BY <2>1, <2>3, <2>4, <2>6 DEF Reordered, KeptOnLists, Busy
<1> QED
  BY <1>1, <1>2

\* ToEnd and ToFront of t.
LEMMA ToRunQueueView ==
  ASSUME NEW k \in Sched, NEW t \in Threads, OnePlace(k.queue),
         NEW m \in {ToEnd(k, t), ToFront(k, t)}
  PROVE  /\ \A c \in Chans : m.queue[c] = Unlinked(k.queue[c], t)
         /\ m.block_for = k.block_for /\ m.state = k.state
         /\ m.current_thread = k.current_thread
         /\ SameCounters(k, m)
         /\ \A u : /\ OnList(m.queue, "run_queue", u) <=> OnList(k.queue, "run_queue", u) \/ u = t
                   /\ OnList(m.queue, "recycle_queue", u) <=>
                        OnList(k.queue, "recycle_queue", u) /\ u # t
                   /\ \A c \in Chans : OnList(m.queue, c, u) <=> OnList(k.queue, c, u) /\ u # t
<1> DEFINE a == list_head_add(list_rem(k.queue, t), "run_queue", t)
           f == list_head_append(list_rem(k.queue, t), "run_queue", t)
<1>1. Moved(k, a, t, "run_queue") /\ Moved(k, f, t, "run_queue")
  BY HeadsDistinct, RemAndAdd
<1>2. \A c \in Chans : a[c] = Unlinked(k.queue[c], t) /\ f[c] = Unlinked(k.queue[c], t)
  BY HeadsDistinct, MoveQueues
<1>3. ToEnd(k, t) = [k EXCEPT !.queue = a] /\ ToFront(k, t) = [k EXCEPT !.queue = f]
  BY DEF ToEnd, ToFront
<1> HIDE DEF a, f
<1>4. PICK q \in {a, f} : m = [k EXCEPT !.queue = q]
  BY <1>3
<1>5. /\ m.queue = q /\ m.block_for = k.block_for /\ m.state = k.state
      /\ m.current_thread = k.current_thread /\ SameCounters(k, m)
  BY <1>4 DEF Sched, SameCounters
<1> QED
  BY <1>1, <1>2, <1>5, HeadsDistinct DEF Moved

\* A thread that can run is on no sender queue.
LEMMA RunnableOnNoQueue ==
  ASSUME NEW k \in Sched, Placed(k), NEW t \in Threads, IsRunnable(k, t)
  PROVE  /\ \A c \in Chans : Unlinked(k.queue[c], t) = k.queue[c]
         /\ ~OnList(k.queue, "recycle_queue", t)
<1>1. \A c \in Chans : ~In(k.queue[c], t)
  BY DEF Placed, OnList, In, IsRunnable
<1> QED
  BY <1>1, UnlinkedAbsent DEF Placed, IsRunnable

LEMMA YieldNullView ==
  ASSUME NEW k \in Sched, Placed(k), k.current_thread \in Threads
  PROVE  Reordered(k, lwt_yield_null(k)) /\ Busy(lwt_yield_null(k))
<1> DEFINE t == k.current_thread
           l == IF IsRunnable(k, t) THEN ToEnd(k, t) ELSE k
<1>1. lwt_yield_null(k) = lwt_schedule(l)
  BY DEF lwt_yield_null
<1>2. Reordered(k, l) /\ l \in Sched /\ Placed(l)
  <2>1. CASE IsRunnable(k, t)
    <3>1. PlacedBut(k, t) /\ OnePlace(k.queue)
      BY DEF Placed, PlacedBut
    <3>2. ToEnd(k, t) \in Sched /\ Placed(ToEnd(k, t))
      BY <2>1, <3>1, ToRunQueueSound
    <3>3. Reordered(k, ToEnd(k, t))
      BY <2>1, <3>1, ToRunQueueView, RunnableOnNoQueue DEF Reordered, Stands, KeptOnLists
    <3> QED
      BY <2>1, <3>2, <3>3
  <2>2. CASE ~IsRunnable(k, t)
    BY <2>2, ReorderedReflexive
  <2> QED
    BY <2>1, <2>2
<1> HIDE DEF l
<1> QED
  BY <1>1, <1>2, ScheduleView, ReorderedTransitive

LEMMA YieldToView ==
  ASSUME NEW k \in Sched, ListsSound(k), NEW t \in Threads, Busy(k)
  PROVE  Reordered(k, lwt_yield_to(k, t)) /\ Busy(lwt_yield_to(k, t))
<1>1. CASE t = k.current_thread \/ ~IsRunnable(k, t)
  BY <1>1, ReorderedReflexive DEF lwt_yield_to
<1>2. CASE ~(t = k.current_thread \/ ~IsRunnable(k, t))
  <2> DEFINE l == ToFront(k, t)
  <2>1. lwt_yield_to(k, t) = lwt_schedule(l)
    BY <1>2 DEF lwt_yield_to
  <2>2. PlacedBut(k, t) /\ Placed(k) /\ OnePlace(k.queue)
    BY DEF ListsSound, Placed, PlacedBut
  <2>3. l \in Sched /\ Placed(l)
    BY <1>2, <2>2, ToRunQueueSound
  <2>4. Reordered(k, l)
    BY <1>2, <2>2, ToRunQueueView, RunnableOnNoQueue DEF Reordered, Stands, KeptOnLists
  <2> HIDE DEF l
  <2> QED
    BY <2>1, <2>3, <2>4, ScheduleView, ReorderedTransitive
<1> QED
  BY <1>1, <1>2

\* No thread is forgotten, but for the processor.
NoneMissing(k) ==
  \A t \in Threads :
     /\ IsRunnable(k, t) => OnList(k.queue, "run_queue", t)
     /\ k.state[t] = "LWT_ZOMBIES" => OnList(k.queue, "recycle_queue", t)
     /\ k.state[t] = "LWT_BLOCKED" /\ k.block_for[t] = "BLOCKED_SENDING" =>
          \E c \in Chans : OnList(k.queue, c, t)

LEMMA CompleteParts ==
  ASSUME NEW k
  PROVE  ListsComplete(k) <=> NoneMissing(k) /\ Busy(k)
  BY DEF ListsComplete, NoneMissing, Busy

LEMMA ReorderedComplete ==
  ASSUME NEW k, NEW m, Reordered(k, m), NoneMissing(k)
  PROVE  NoneMissing(m)
<1>1. ASSUME NEW t \in Threads, IsRunnable(m, t)
      PROVE  OnList(m.queue, "run_queue", t)
  BY <1>1 DEF Reordered, Stands, KeptOnLists, NoneMissing, IsRunnable
<1>2. ASSUME NEW t \in Threads, m.state[t] = "LWT_ZOMBIES"
      PROVE  OnList(m.queue, "recycle_queue", t)
  BY <1>2 DEF Reordered, Stands, KeptOnLists, NoneMissing, IsRunnable
<1>3. ASSUME NEW t \in Threads, m.state[t] = "LWT_BLOCKED", m.block_for[t] = "BLOCKED_SENDING"
      PROVE  \E c \in Chans : OnList(m.queue, c, t)
  <2>1. k.state[t] = "LWT_BLOCKED" /\ k.block_for[t] = "BLOCKED_SENDING"
    BY <1>3 DEF Reordered, Stands, IsRunnable
  <2>2. PICK c \in Chans : OnList(k.queue, c, t)
    BY <2>1 DEF NoneMissing
  <2> QED
    BY <2>2 DEF Reordered, OnList
<1> QED
  BY <1>1, <1>2, <1>3 DEF NoneMissing

\* __resume_thread.
Resumed(k, m, t) ==
  /\ \A c \in Chans : m.queue[c] = Unlinked(k.queue[c], t)
  /\ m.block_for = k.block_for
  /\ \A u \in Threads : m.state[u] = IF u = t THEN "LWT_RUNNABLE" ELSE k.state[u]
  /\ m.current_thread = k.current_thread
  /\ m.zombie_counter = k.zombie_counter /\ m.block_counter = Less(k.block_counter)
  /\ m.nrcving = (IF k.block_for[t] = "BLOCKED_RECEIVING" THEN Less(k.nrcving) ELSE k.nrcving)
  /\ m.nsnding = (IF k.block_for[t] = "BLOCKED_SENDING" THEN Less(k.nsnding) ELSE k.nsnding)

LEMMA ResumeView ==
  ASSUME NEW k \in Sched, ListsSound(k), NEW t \in Threads
  PROVE  LET m == resume_thread(k, t)
         IN  /\ Resumed(k, m, t)
             /\ NoneMissing(k) => NoneMissing(m)
             /\ Busy(k) /\ k.current_thread # NULL => Busy(m)
<1> DEFINE s == [k.state EXCEPT ![t] = "LWT_RUNNABLE"]
           r == IF k.block_for[t] = "BLOCKED_RECEIVING" THEN Less(k.nrcving) ELSE k.nrcving
           n == IF k.block_for[t] = "BLOCKED_SENDING" THEN Less(k.nsnding) ELSE k.nsnding
           d == Less(k.block_counter)
           l == [k EXCEPT !.nrcving = r, !.nsnding = n, !.block_counter = d, !.state = s]
           m == resume_thread(k, t)
<1>1. m = ToFront(l, t)
  BY DEF resume_thread
<1>2. \A u \in Threads : s[u] = IF u = t THEN "LWT_RUNNABLE" ELSE k.state[u]
  BY DEF Sched
<1>3. s \in [Threads -> States] /\ r \in Int /\ n \in Int /\ d \in Int
  <2>1. s \in [Threads -> States]
    BY DEF Sched, States
  <2>2. \A i \in Int : Less(i) \in Int
    BY SchedAssumption DEF Less
  <2> QED
    BY <2>1, <2>2 DEF Sched
<1>4. /\ r = (IF k.block_for[t] = "BLOCKED_RECEIVING" THEN Less(k.nrcving) ELSE k.nrcving)
      /\ n = (IF k.block_for[t] = "BLOCKED_SENDING" THEN Less(k.nsnding) ELSE k.nsnding)
      /\ d = Less(k.block_counter)
  OBVIOUS
<1> HIDE DEF s, r, n, d
<1>5. /\ l \in Sched /\ l.queue = k.queue /\ l.current_thread = k.current_thread
      /\ l.state = s /\ l.block_for = k.block_for
      /\ l.nrcving = r /\ l.nsnding = n /\ l.block_counter = d
      /\ l.zombie_counter = k.zombie_counter
  BY <1>3 DEF Sched
<1> HIDE DEF l, m
<1>6. OnePlace(l.queue)
  BY <1>5 DEF ListsSound, Placed
<1>7. /\ \A c \in Chans : m.queue[c] = Unlinked(l.queue[c], t)
      /\ m.block_for = l.block_for /\ m.state = l.state
      /\ m.current_thread = l.current_thread
      /\ SameCounters(l, m)
      /\ \A u : /\ OnList(m.queue, "run_queue", u) <=> OnList(l.queue, "run_queue", u) \/ u = t
                /\ OnList(m.queue, "recycle_queue", u) <=>
                     OnList(l.queue, "recycle_queue", u) /\ u # t
                /\ \A c \in Chans : OnList(m.queue, c, u) <=> OnList(l.queue, c, u) /\ u # t
  BY <1>1, <1>5, <1>6, ToRunQueueView
<1>8. Resumed(k, m, t)
  BY <1>2, <1>4, <1>5, <1>7 DEF Resumed, SameCounters
<1>9. NoneMissing(k) => NoneMissing(m)
  BY <1>2, <1>5, <1>7 DEF NoneMissing, IsRunnable
<1>10. Busy(k) /\ k.current_thread # NULL => Busy(m)
  BY <1>5, <1>7 DEF Busy
<1> QED
  BY <1>8, <1>9, <1>10 DEF m

\* __block_thread of t.
Blocked(k, m, t, block_for, c) ==
  /\ \A d \in Chans : m.queue[d] =
        IF block_for = "BLOCKED_SENDING" /\ d = c THEN Append(k.queue[d], t) ELSE k.queue[d]
  /\ \A u \in Threads : /\ m.block_for[u] = IF u = t THEN block_for ELSE k.block_for[u]
                        /\ u # t => Stands(k, m, u)
  /\ m.state[t] = "LWT_BLOCKED"
  /\ m.zombie_counter = k.zombie_counter /\ m.block_counter = k.block_counter + 1
  /\ m.nrcving = (IF block_for = "BLOCKED_SENDING" THEN k.nrcving ELSE k.nrcving + 1)
  /\ m.nsnding = (IF block_for = "BLOCKED_SENDING" THEN k.nsnding + 1 ELSE k.nsnding)

LEMMA BlockView ==
  ASSUME NEW k \in Sched, ListsSound(k), NEW t \in Threads, t = k.current_thread,
         NEW block_for \in BlockStatus, NEW c, block_for = "BLOCKED_SENDING" => c \in Chans
  PROVE  LET m == block_thread(k, block_for, c)
         IN  /\ Blocked(k, m, t, block_for, c)
             /\ NoneMissing(k) => NoneMissing(m)
             /\ Busy(m)
<1> DEFINE sending == block_for = "BLOCKED_SENDING"
           q == Parked(k.queue, t, block_for, c)
           s == [k.state EXCEPT ![t] = "LWT_BLOCKED"]
           b == [k.block_for EXCEPT ![t] = block_for]
           r == IF sending THEN k.nrcving ELSE k.nrcving + 1
           n == IF sending THEN k.nsnding + 1 ELSE k.nsnding
           j == k.block_counter + 1
           l == [k EXCEPT !.queue = q, !.state = s, !.block_for = b,
                          !.block_counter = j, !.nrcving = r, !.nsnding = n]
           m == block_thread(k, block_for, c)
<1>1. m = lwt_yield_null(l)
  BY DEF block_thread
<1>2. OnePlace(k.queue) /\ k.state[t] = "LWT_RUNNING" /\ Placed(k)
  BY SchedAssumption DEF ListsSound, Placed, CurrentRuns
<1>3. OffRunQueue(k, q, t, block_for, c)
  BY <1>2, ParkedMoves
<1>4. \A d \in Chans : q[d] = IF sending /\ d = c THEN Append(k.queue[d], t) ELSE k.queue[d]
  <2> SUFFICES ASSUME NEW d \in Chans
               PROVE  q[d] = IF sending /\ d = c THEN Append(k.queue[d], t) ELSE k.queue[d]
    OBVIOUS
  <2>1. Unlinked(k.queue[d], t) = k.queue[d]
    BY <1>2, RunnableOnNoQueue DEF IsRunnable
  <2>2. CASE sending
    <3>1. q = list_head_add(list_rem(k.queue, t), c, t)
      BY <2>2 DEF Parked
    <3>2. c \in Heads /\ d \in Heads
      BY <2>2, HeadsDistinct
    <3> HIDE DEF q
    <3>3. CASE d = c
      <4>1. q[c] = Append(Unlinked(k.queue[c], t), t)
        BY <3>1, <3>2, MoveQueues
      <4> QED
        BY <2>1, <2>2, <3>3, <4>1
    <3>4. CASE d # c
      <4>1. q[d] = Unlinked(k.queue[d], t)
        BY <3>1, <3>2, <3>4, MoveQueues
      <4> QED
        BY <2>1, <3>4, <4>1
    <3> QED
      BY <3>3, <3>4
  <2>3. CASE ~sending
    <3>1. q = list_rem(k.queue, t)
      BY <2>3 DEF Parked
    <3> HIDE DEF q
    <3> QED
      BY <2>1, <2>3, <3>1, HeadsDistinct, MoveQueues
  <2> QED
    BY <2>2, <2>3
<1> HIDE DEF q
<1>5. /\ \A u \in Threads : s[u] = IF u = t THEN "LWT_BLOCKED" ELSE k.state[u]
      /\ \A u \in Threads : b[u] = IF u = t THEN block_for ELSE k.block_for[u]
  BY DEF Sched
<1>6. /\ s \in [Threads -> States] /\ b \in [Threads -> BlockStatus]
      /\ j \in Int /\ r \in Int /\ n \in Int
  BY DEF Sched, States
<1>7. /\ r = (IF sending THEN k.nrcving ELSE k.nrcving + 1)
      /\ n = (IF sending THEN k.nsnding + 1 ELSE k.nsnding)
      /\ j = k.block_counter + 1
  OBVIOUS
<1> HIDE DEF s, b, r, n, j
<1>8. /\ l \in Sched /\ l.queue = q /\ l.current_thread = t
      /\ l.state = s /\ l.block_for = b
      /\ l.block_counter = j /\ l.nrcving = r /\ l.nsnding = n
      /\ l.zombie_counter = k.zombie_counter
  BY <1>3, <1>6 DEF Sched, OffRunQueue
<1> HIDE DEF l, m
<1>9. Placed(l)
  <2>1. ASSUME NEW u \in Threads, OnList(l.queue, "run_queue", u)  PROVE IsRunnable(l, u)
    <3>1. OnList(k.queue, "run_queue", u) /\ u # t
      BY <1>3, <1>8, <2>1, HeadsDistinct DEF OffRunQueue
    <3> QED
      BY <1>5, <1>8, <3>1 DEF ListsSound, Placed, IsRunnable
  <2>2. ASSUME NEW u \in Threads, OnList(l.queue, "recycle_queue", u)
        PROVE  l.state[u] = "LWT_ZOMBIES"
    <3>1. OnList(k.queue, "recycle_queue", u) /\ u # t
      BY <1>3, <1>8, <2>2, HeadsDistinct DEF OffRunQueue
    <3> QED
      BY <1>5, <1>8, <3>1 DEF ListsSound, Placed
  <2>3. ASSUME NEW u \in Threads, NEW d \in Chans, OnList(l.queue, d, u)
        PROVE  l.state[u] = "LWT_BLOCKED" /\ l.block_for[u] = "BLOCKED_SENDING"
    <3>1. (OnList(k.queue, d, u) /\ u # t) \/ (sending /\ u = t)
      BY <1>3, <1>8, <2>3, HeadsDistinct DEF OffRunQueue
    <3> QED
      BY <1>5, <1>8, <3>1 DEF ListsSound, Placed
  <2> QED
    BY <1>3, <1>8, <2>1, <2>2, <2>3 DEF Placed, OffRunQueue
<1>10. Reordered(l, m) /\ Busy(m)
  BY <1>1, <1>8, <1>9, YieldNullView
<1>11. Blocked(k, m, t, block_for, c)
  <2>1. \A d \in Chans : m.queue[d] =
          IF sending /\ d = c THEN Append(k.queue[d], t) ELSE k.queue[d]
    BY <1>4, <1>8, <1>10 DEF Reordered
  <2>2. \A u \in Threads : /\ m.block_for[u] = IF u = t THEN block_for ELSE k.block_for[u]
                           /\ u # t => Stands(k, m, u)
    BY <1>5, <1>8, <1>10 DEF Reordered, Stands, IsRunnable
  <2>3. m.state[t] = "LWT_BLOCKED"
    BY <1>5, <1>8, <1>10 DEF Reordered, Stands, IsRunnable
  <2> QED
    BY <1>7, <1>8, <1>10, <2>1, <2>2, <2>3 DEF Blocked, Reordered, SameCounters
<1>12. NoneMissing(k) => NoneMissing(m)
  <2> SUFFICES ASSUME NoneMissing(k)  PROVE NoneMissing(l)
    BY <1>10, ReorderedComplete
  <2>1. ASSUME NEW u \in Threads, IsRunnable(l, u)  PROVE OnList(l.queue, "run_queue", u)
    BY <1>3, <1>5, <1>8, <2>1, HeadsDistinct DEF NoneMissing, IsRunnable, OffRunQueue
  <2>2. ASSUME NEW u \in Threads, l.state[u] = "LWT_ZOMBIES"
        PROVE  OnList(l.queue, "recycle_queue", u)
    BY <1>3, <1>5, <1>8, <2>2, HeadsDistinct DEF NoneMissing, OffRunQueue
  <2>3. ASSUME NEW u \in Threads, l.state[u] = "LWT_BLOCKED", l.block_for[u] = "BLOCKED_SENDING"
        PROVE  \E d \in Chans : OnList(l.queue, d, u)
    <3>1. CASE u = t
      BY <1>3, <1>5, <1>8, <2>3, <3>1, HeadsDistinct DEF OffRunQueue
    <3>2. CASE u # t
      BY <1>3, <1>5, <1>8, <2>3, <3>2, HeadsDistinct DEF NoneMissing, OffRunQueue
    <3> QED
      BY <3>1, <3>2
  <2> QED
    BY <2>1, <2>2, <2>3 DEF NoneMissing
<1> QED
  BY <1>10, <1>11, <1>12 DEF m

\* The end of lwt_die.
Buried(k, m, t) ==
  /\ \A c \in Chans : m.queue[c] = k.queue[c]
  /\ m.block_for = k.block_for
  /\ \A u \in Threads \ {t} : Stands(k, m, u)
  /\ m.state[t] = "LWT_ZOMBIES"
  /\ m.zombie_counter = k.zombie_counter - 1 /\ m.block_counter = k.block_counter
  /\ m.nrcving = k.nrcving /\ m.nsnding = k.nsnding

LEMMA DeadView ==
  ASSUME NEW k \in Sched, ListsSound(k), NEW t \in Threads, t = k.current_thread
  PROVE  LET m == SchedDead(k)
         IN  /\ Buried(k, m, t)
             /\ NoneMissing(k) => NoneMissing(m)
             /\ Busy(m)
<1> DEFINE q == list_head_add(list_rem(k.queue, t), "recycle_queue", t)
           s == [k.state EXCEPT ![t] = "LWT_ZOMBIES"]
           z == k.zombie_counter - 1
           l == [k EXCEPT !.state = s, !.zombie_counter = z, !.queue = q]
           m == SchedDead(k)
<1>1. m = lwt_schedule(l)
  BY DEF SchedDead
<1>2. OnePlace(k.queue) /\ k.state[t] = "LWT_RUNNING" /\ Placed(k)
  BY SchedAssumption DEF ListsSound, Placed, CurrentRuns
<1>3. Moved(k, q, t, "recycle_queue")
  BY <1>2, HeadsDistinct, RemAndAdd
<1>4. \A c \in Chans : q[c] = k.queue[c]
  <2>1. \A c \in Chans : q[c] = Unlinked(k.queue[c], t)
    BY HeadsDistinct, MoveQueues
  <2> HIDE DEF q
  <2> QED
    BY <1>2, <2>1, RunnableOnNoQueue DEF IsRunnable
<1> HIDE DEF q
<1>5. \A u \in Threads : s[u] = IF u = t THEN "LWT_ZOMBIES" ELSE k.state[u]
  BY DEF Sched
<1>6. s \in [Threads -> States] /\ z \in Int /\ z = k.zombie_counter - 1
  BY DEF Sched, States
<1> HIDE DEF s, z
<1>7. /\ l \in Sched /\ l.queue = q /\ l.state = s /\ l.zombie_counter = z
      /\ l.block_for = k.block_for /\ l.block_counter = k.block_counter
      /\ l.nrcving = k.nrcving /\ l.nsnding = k.nsnding
  BY <1>3, <1>6 DEF Sched, Moved
<1> HIDE DEF l, m
<1>8. Placed(l)
  BY <1>3, <1>5, <1>7, HeadsDistinct DEF ListsSound, Placed, Moved, IsRunnable
<1>9. Reordered(l, m) /\ Busy(m)
  BY <1>1, <1>7, <1>8, ScheduleView
<1>10. Buried(k, m, t)
  <2>1. \A c \in Chans : m.queue[c] = k.queue[c]
    BY <1>4, <1>7, <1>9 DEF Reordered
  <2>2. \A u \in Threads \ {t} : Stands(k, m, u)
    BY <1>5, <1>7, <1>9 DEF Reordered, Stands, IsRunnable
  <2>3. m.state[t] = "LWT_ZOMBIES"
    BY <1>5, <1>7, <1>9 DEF Reordered, Stands, IsRunnable
  <2> QED
    BY <1>6, <1>7, <1>9, <2>1, <2>2, <2>3 DEF Buried, Reordered, SameCounters
<1>11. NoneMissing(k) => NoneMissing(m)
  <2> SUFFICES ASSUME NoneMissing(k)  PROVE NoneMissing(l)
    BY <1>9, ReorderedComplete
  <2> QED
    BY <1>3, <1>5, <1>7, HeadsDistinct DEF NoneMissing, IsRunnable, Moved
<1> QED
  BY <1>9, <1>10, <1>11 DEF m

\* The sender queue of a new channel is empty.
LEMMA EmptiedView ==
  ASSUME NEW k \in Sched, NEW c \in Chans
  PROVE  LET m == [k EXCEPT !.queue = list_head_init(@, c)]
         IN  /\ \A h \in Heads : m.queue[h] = IF h = c THEN << >> ELSE k.queue[h]
             /\ m.state = k.state /\ m.block_for = k.block_for
             /\ m.current_thread = k.current_thread /\ SameCounters(k, m)
             /\ k.queue[c] = << >> /\ NoneMissing(k) => NoneMissing(m)
             /\ Busy(k) => Busy(m)
<1> DEFINE q == list_head_init(k.queue, c)
           m == [k EXCEPT !.queue = q]
<1>1. \A h \in Heads : q[h] = IF h = c THEN << >> ELSE k.queue[h]
  BY HeadsDistinct DEF list_head_init, Sched
<1> HIDE DEF q
<1>2. /\ m.queue = q /\ m.state = k.state /\ m.block_for = k.block_for
      /\ m.current_thread = k.current_thread /\ SameCounters(k, m)
  BY DEF Sched, SameCounters
<1> HIDE DEF m
<1>3. Busy(k) => Busy(m)
  BY <1>1, <1>2, HeadsDistinct DEF Busy
<1>4. k.queue[c] = << >> /\ NoneMissing(k) => NoneMissing(m)
  <2>1. ASSUME k.queue[c] = << >>, NEW h \in Heads
        PROVE  m.queue[h] = k.queue[h]
    BY <1>1, <1>2, <2>1
  <2> QED
    BY <1>2, <2>1, HeadsDistinct DEF NoneMissing, OnList, IsRunnable
<1> QED
  BY <1>1, <1>2, <1>3, <1>4 DEF m, q

\* lwt_create: t was on no list but the recycle queue.
Created(k, m, t, c) ==
  /\ \A d \in Chans : m.queue[d] = IF d = c THEN << >> ELSE k.queue[d]
  /\ m.block_for = k.block_for
  /\ \A u \in Threads : m.state[u] = IF u = t THEN "LWT_RUNNING" ELSE k.state[u]
  /\ m.current_thread = k.current_thread
  /\ SameCounters(k, m)

LEMMA CreateView ==
  ASSUME NEW k \in Sched, ListsSound(k), NEW t \in Threads, k.state[t] \in Gone, NEW c \in Chans
  PROVE  LET m == [SchedCreate(k, t) EXCEPT !.queue = list_head_init(@, c)]
         IN  /\ Created(k, m, t, c)
             /\ k.queue[c] = << >> /\ NoneMissing(k) => NoneMissing(m)
             /\ Busy(k) /\ k.current_thread # NULL => Busy(m)
<1> DEFINE s == [k.state EXCEPT ![t] = "LWT_RUNNING"]
           l == [k EXCEPT !.state = s]
           j == ToEnd(l, t)
           m == [j EXCEPT !.queue = list_head_init(@, c)]
<1>1. m = [SchedCreate(k, t) EXCEPT !.queue = list_head_init(@, c)]
  BY DEF SchedCreate
<1>2. \A u \in Threads : s[u] = IF u = t THEN "LWT_RUNNING" ELSE k.state[u]
  BY DEF Sched
<1>3. /\ l \in Sched /\ l.queue = k.queue /\ l.current_thread = k.current_thread
      /\ l.state = s /\ l.block_for = k.block_for /\ SameCounters(k, l)
  <2>1. s \in [Threads -> States]
    BY DEF Sched, States
  <2> HIDE DEF s
  <2> QED
    BY <2>1 DEF Sched, SameCounters
<1> HIDE DEF s, l
<1>4. OnePlace(l.queue) /\ \A d \in Chans : Unlinked(l.queue[d], t) = l.queue[d]
  <2>1. \A d \in Chans : ~In(k.queue[d], t)
    BY DEF ListsSound, Placed, OnList, In, Gone
  <2> QED
    BY <1>3, <2>1, UnlinkedAbsent DEF ListsSound, Placed
<1>5. /\ \A d \in Chans : j.queue[d] = Unlinked(l.queue[d], t)
      /\ j.block_for = l.block_for /\ j.state = l.state
      /\ j.current_thread = l.current_thread
      /\ SameCounters(l, j)
      /\ \A u : /\ OnList(j.queue, "run_queue", u) <=> OnList(l.queue, "run_queue", u) \/ u = t
                /\ OnList(j.queue, "recycle_queue", u) <=>
                     OnList(l.queue, "recycle_queue", u) /\ u # t
                /\ \A d \in Chans : OnList(j.queue, d, u) <=> OnList(l.queue, d, u) /\ u # t
  BY <1>3, <1>4, ToRunQueueView
<1>6. j \in Sched
  <2>1. PlacedBut(l, t) /\ IsRunnable(l, t)
    BY <1>2, <1>3 DEF ListsSound, Placed, PlacedBut, IsRunnable
  <2> QED
    BY <1>3, <2>1, ToRunQueueSound
<1> HIDE DEF j
<1>7. /\ \A h \in Heads : m.queue[h] = IF h = c THEN << >> ELSE j.queue[h]
      /\ m.state = j.state /\ m.block_for = j.block_for
      /\ m.current_thread = j.current_thread /\ SameCounters(j, m)
      /\ j.queue[c] = << >> /\ NoneMissing(j) => NoneMissing(m)
      /\ Busy(j) => Busy(m)
  BY <1>6, EmptiedView
<1> HIDE DEF m
<1>8. Created(k, m, t, c)
  BY <1>2, <1>3, <1>4, <1>5, <1>7, HeadsDistinct DEF Created, SameCounters
<1>9. NoneMissing(k) => NoneMissing(j)
  <2> SUFFICES ASSUME NoneMissing(k), NEW u \in Threads
               PROVE  /\ IsRunnable(j, u) => OnList(j.queue, "run_queue", u)
                      /\ j.state[u] = "LWT_ZOMBIES" => OnList(j.queue, "recycle_queue", u)
                      /\ j.state[u] = "LWT_BLOCKED" /\ j.block_for[u] = "BLOCKED_SENDING" =>
                           \E d \in Chans : OnList(j.queue, d, u)
    BY DEF NoneMissing
  <2> QED
    BY <1>2, <1>3, <1>5 DEF NoneMissing, IsRunnable
<1>10. Busy(k) /\ k.current_thread # NULL => Busy(j)
  BY <1>3, <1>5 DEF Busy
<1>11. k.queue[c] = << >> => j.queue[c] = << >>
  BY <1>3, <1>4, <1>5
<1> QED
  BY <1>1, <1>7, <1>8, <1>9, <1>10, <1>11 DEF m

LEMMA DyingView ==
  ASSUME NEW k \in Sched
  PROVE  LET m == SchedDying(k)
         IN  /\ m.queue = k.queue /\ m.state = k.state /\ m.block_for = k.block_for
             /\ m.current_thread = k.current_thread
             /\ m.zombie_counter = k.zombie_counter + 1 /\ m.block_counter = k.block_counter
             /\ m.nrcving = k.nrcving /\ m.nsnding = k.nsnding
             /\ NoneMissing(k) => NoneMissing(m)
             /\ Busy(k) => Busy(m)
<1> DEFINE z == k.zombie_counter + 1
           m == [k EXCEPT !.zombie_counter = z]
<1>1. m = SchedDying(k)
  BY DEF SchedDying
<1>2. z = k.zombie_counter + 1
  OBVIOUS
<1> HIDE DEF z
<1>3. /\ m.queue = k.queue /\ m.state = k.state /\ m.block_for = k.block_for
      /\ m.current_thread = k.current_thread
      /\ m.zombie_counter = z /\ m.block_counter = k.block_counter
      /\ m.nrcving = k.nrcving /\ m.nsnding = k.nsnding
  BY DEF Sched
<1> HIDE DEF m
<1>4. (NoneMissing(k) => NoneMissing(m)) /\ (Busy(k) => Busy(m))
  BY <1>3 DEF NoneMissing, Busy, IsRunnable
<1> QED
  BY <1>1, <1>2, <1>3, <1>4

-----------------------------------------------------------------------------
(* The counters.                                                            *)

BlockedFor(k, why) == {t \in Threads : k.state[t] = "LWT_BLOCKED" /\ k.block_for[t] = why}

\* The counters of blocked threads are right.
Counted(k) ==
  /\ IsFiniteSet(BlockedFor(k, "BLOCKED_RECEIVING")) /\ IsFiniteSet(BlockedFor(k, "BLOCKED_SENDING"))
  /\ k.nrcving = Cardinality(BlockedFor(k, "BLOCKED_RECEIVING"))
  /\ k.nsnding = Cardinality(BlockedFor(k, "BLOCKED_SENDING"))
  /\ k.block_counter = k.nrcving + k.nsnding

LEMMA SameBlockedCounted ==
  ASSUME NEW k, NEW m, Counted(k), m.block_for = k.block_for,
         m.block_counter = k.block_counter, m.nrcving = k.nrcving, m.nsnding = k.nsnding,
         \A u \in Threads : m.state[u] = "LWT_BLOCKED" <=> k.state[u] = "LWT_BLOCKED"
  PROVE  Counted(m)
<1>1. \A why : BlockedFor(m, why) = BlockedFor(k, why)
  BY DEF BlockedFor
<1> QED
  BY <1>1 DEF Counted

LEMMA ReorderedCounted ==
  ASSUME NEW k, NEW m, Counted(k), Reordered(k, m)
  PROVE  Counted(m)
<1>1. \A u \in Threads : m.state[u] = "LWT_BLOCKED" <=> k.state[u] = "LWT_BLOCKED"
  BY DEF Reordered, Stands, IsRunnable
<1> QED
  BY <1>1, SameBlockedCounted DEF Reordered, SameCounters

\* A blocked thread is resumed: both counters were at least 1, and Less is - 1.
LEMMA ResumedCounted ==
  ASSUME NEW k \in Sched, NEW m, NEW t \in Threads, Counted(k), Resumed(k, m, t),
         k.state[t] = "LWT_BLOCKED"
  PROVE  Counted(m)
<1> DEFINE R(j) == BlockedFor(j, "BLOCKED_RECEIVING")
           S(j) == BlockedFor(j, "BLOCKED_SENDING")
<1>1. /\ IsFiniteSet(R(k)) /\ IsFiniteSet(S(k))
      /\ k.nrcving = Cardinality(R(k)) /\ k.nsnding = Cardinality(S(k))
      /\ k.block_counter = k.nrcving + k.nsnding
      /\ Cardinality(R(k)) \in Nat /\ Cardinality(S(k)) \in Nat
  BY FS_CardinalityType DEF Counted
<1>2. k.block_for[t] \in BlockStatus
  BY DEF Sched
<1>3. \A i \in Nat : i > 0 => Less(i) = i - 1
  BY SchedAssumption DEF Less
<1>4. CASE k.block_for[t] = "BLOCKED_RECEIVING"
  <2>1. t \in R(k) /\ R(m) = R(k) \ {t} /\ S(m) = S(k)
    BY <1>4 DEF BlockedFor, Resumed
  <2>2. /\ IsFiniteSet(R(m)) /\ Cardinality(R(m)) = Cardinality(R(k)) - 1
        /\ Cardinality(R(k)) > 0
    <3> HIDE DEF R
    <3>1. IsFiniteSet(R(k) \ {t}) /\ Cardinality(R(k) \ {t}) = Cardinality(R(k)) - 1
      BY <1>1, <2>1, FS_RemoveElement
    <3>2. Cardinality(R(k)) # 0
      BY <1>1, <2>1, FS_EmptySet
    <3> QED
      BY <1>1, <2>1, <3>1, <3>2
  <2>3. m.nrcving = Less(k.nrcving) /\ m.nsnding = k.nsnding /\ m.block_counter = Less(k.block_counter)
    BY <1>4 DEF Resumed
  <2> HIDE DEF R, S
  <2>4. m.nrcving = k.nrcving - 1 /\ m.block_counter = k.block_counter - 1
    BY <1>1, <1>3, <2>2, <2>3
  <2>5. /\ m.nrcving = Cardinality(R(m)) /\ m.nsnding = Cardinality(S(m))
        /\ m.block_counter = m.nrcving + m.nsnding
    BY <1>1, <2>1, <2>2, <2>3, <2>4
  <2> QED
    BY <1>1, <2>1, <2>2, <2>5 DEF Counted, R, S
<1>5. CASE k.block_for[t] = "BLOCKED_SENDING"
  <2>1. t \in S(k) /\ S(m) = S(k) \ {t} /\ R(m) = R(k)
    BY <1>5 DEF BlockedFor, Resumed
  <2>2. /\ IsFiniteSet(S(m)) /\ Cardinality(S(m)) = Cardinality(S(k)) - 1
        /\ Cardinality(S(k)) > 0
    <3> HIDE DEF S
    <3>1. IsFiniteSet(S(k) \ {t}) /\ Cardinality(S(k) \ {t}) = Cardinality(S(k)) - 1
      BY <1>1, <2>1, FS_RemoveElement
    <3>2. Cardinality(S(k)) # 0
      BY <1>1, <2>1, FS_EmptySet
    <3> QED
      BY <1>1, <2>1, <3>1, <3>2
  <2>3. m.nrcving = k.nrcving /\ m.nsnding = Less(k.nsnding) /\ m.block_counter = Less(k.block_counter)
    BY <1>5 DEF Resumed
  <2> HIDE DEF R, S
  <2>4. m.nsnding = k.nsnding - 1 /\ m.block_counter = k.block_counter - 1
    BY <1>1, <1>3, <2>2, <2>3
  <2>5. /\ m.nrcving = Cardinality(R(m)) /\ m.nsnding = Cardinality(S(m))
        /\ m.block_counter = m.nrcving + m.nsnding
    BY <1>1, <2>1, <2>2, <2>3, <2>4
  <2> QED
    BY <1>1, <2>1, <2>2, <2>5 DEF Counted, R, S
<1> QED
  BY <1>2, <1>4, <1>5 DEF BlockStatus

LEMMA BlockedCounted ==
  ASSUME NEW k \in Sched, NEW m, NEW t \in Threads, Counted(k), k.state[t] # "LWT_BLOCKED",
         NEW block_for \in BlockStatus, NEW c, Blocked(k, m, t, block_for, c)
  PROVE  Counted(m)
<1> DEFINE R(j) == BlockedFor(j, "BLOCKED_RECEIVING")
           S(j) == BlockedFor(j, "BLOCKED_SENDING")
<1>1. /\ IsFiniteSet(R(k)) /\ IsFiniteSet(S(k))
      /\ k.nrcving = Cardinality(R(k)) /\ k.nsnding = Cardinality(S(k))
      /\ k.block_counter = k.nrcving + k.nsnding
      /\ Cardinality(R(k)) \in Nat /\ Cardinality(S(k)) \in Nat
  BY FS_CardinalityType DEF Counted
<1>2. \A why : \A u \in Threads \ {t} : u \in BlockedFor(m, why) <=> u \in BlockedFor(k, why)
  BY DEF BlockedFor, Blocked, Stands, IsRunnable
<1>3. \A why : t \notin BlockedFor(k, why) /\ (t \in BlockedFor(m, why) <=> why = block_for)
  BY DEF BlockedFor, Blocked
<1>4. \A why : BlockedFor(m, why) \subseteq Threads /\ BlockedFor(k, why) \subseteq Threads
  BY DEF BlockedFor
<1>5. CASE block_for = "BLOCKED_RECEIVING"
  <2>1. t \notin R(k) /\ R(m) = R(k) \cup {t} /\ S(m) = S(k)
    BY <1>2, <1>3, <1>4, <1>5
  <2> HIDE DEF R, S
  <2>2. IsFiniteSet(R(m)) /\ Cardinality(R(m)) = Cardinality(R(k)) + 1
    BY <1>1, <2>1, FS_AddElement
  <2>3. /\ m.nrcving = k.nrcving + 1 /\ m.nsnding = k.nsnding
        /\ m.block_counter = k.block_counter + 1
    BY <1>5 DEF Blocked
  <2>4. /\ m.nrcving = Cardinality(R(m)) /\ m.nsnding = Cardinality(S(m))
        /\ m.block_counter = m.nrcving + m.nsnding
    BY <1>1, <2>1, <2>2, <2>3
  <2> QED
    BY <1>1, <2>1, <2>2, <2>4 DEF Counted, R, S
<1>6. CASE block_for = "BLOCKED_SENDING"
  <2>1. t \notin S(k) /\ S(m) = S(k) \cup {t} /\ R(m) = R(k)
    BY <1>2, <1>3, <1>4, <1>6
  <2> HIDE DEF R, S
  <2>2. IsFiniteSet(S(m)) /\ Cardinality(S(m)) = Cardinality(S(k)) + 1
    BY <1>1, <2>1, FS_AddElement
  <2>3. /\ m.nsnding = k.nsnding + 1 /\ m.nrcving = k.nrcving
        /\ m.block_counter = k.block_counter + 1
    BY <1>6 DEF Blocked
  <2>4. /\ m.nrcving = Cardinality(R(m)) /\ m.nsnding = Cardinality(S(m))
        /\ m.block_counter = m.nrcving + m.nsnding
    BY <1>1, <2>1, <2>2, <2>3
  <2> QED
    BY <1>1, <2>1, <2>2, <2>4 DEF Counted, R, S
<1> QED
  BY <1>5, <1>6 DEF BlockStatus

LEMMA BuriedCounted ==
  ASSUME NEW k, NEW m, NEW t \in Threads, Counted(k), k.state[t] # "LWT_BLOCKED", Buried(k, m, t)
  PROVE  Counted(m)
<1>1. \A u \in Threads : m.state[u] = "LWT_BLOCKED" <=> k.state[u] = "LWT_BLOCKED"
  BY DEF Buried, Stands, IsRunnable
<1> QED
  BY <1>1, SameBlockedCounted DEF Buried

-----------------------------------------------------------------------------
(* The scheduler as init_kthd and __initiate leave it.                      *)

LEMMA SchedInitSound ==
  /\ SchedInit \in Sched /\ ListsSound(SchedInit) /\ NoneMissing(SchedInit)
  /\ SchedInit.current_thread = MainThread
  /\ SchedInit.state = [t \in Threads |-> IF t = MainThread THEN "LWT_RUNNING" ELSE "UNUSED"]
<1> DEFINE k == SchedInit
           q == [h \in Heads |-> IF h = "run_queue" THEN << MainThread >> ELSE << >>]
           s == [t \in Threads |-> IF t = MainThread THEN "LWT_RUNNING" ELSE "UNUSED"]
<1>1. /\ MainThread \in Threads /\ "run_queue" \in Heads /\ "recycle_queue" \in Heads
      /\ Chans \subseteq Heads /\ "run_queue" \notin Chans /\ "recycle_queue" \notin Chans
  BY SchedAssumption, HeadsDistinct
<1>2. k.queue = q /\ k.state = s /\ k.current_thread = MainThread
  BY DEF SchedInit
<1>3. q \in [Heads -> Seq(Threads)] /\ s \in [Threads -> States]
  BY <1>1 DEF States
<1>4. k \in Sched
  <2> HIDE DEF q, s
  <2>1. k.block_for \in [Threads -> BlockStatus]
    BY DEF SchedInit, BlockStatus
  <2> QED
    BY <1>1, <1>2, <1>3, <2>1 DEF SchedInit, Sched
<1>5. OnePlace(q)
  BY <1>1 DEF OnePlace
<1>6. \A h \in Heads : \A t : OnList(q, h, t) <=> h = "run_queue" /\ t = MainThread
  BY <1>1 DEF OnList
<1>7. \A t \in Threads : s[t] = IF t = MainThread THEN "LWT_RUNNING" ELSE "UNUSED"
  OBVIOUS
<1> HIDE DEF q, k
<1>8. ListsSound(k)
  BY <1>1, <1>2, <1>5, <1>6, <1>7 DEF ListsSound, Placed, CurrentRuns, IsRunnable
<1>9. NoneMissing(k)
  BY <1>1, <1>2, <1>6, <1>7 DEF NoneMissing, IsRunnable
<1> QED
  BY <1>2, <1>4, <1>8, <1>9 DEF k
=============================================================================
