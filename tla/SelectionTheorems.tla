-------------------------- MODULE SelectionTheorems --------------------------
(* Sequences: induction over them and over the naturals, stated with sets;  *)
(* an element taken out; what is selected; beginnings; and a sequence of     *)
(* sequences laid end to end.                                               *)
EXTENDS Selection, SequencesExt, SequenceTheorems, WellFoundedInduction, TLAPS

-----------------------------------------------------------------------------
(* Induction                                                                *)

\* A set of naturals without a least member is empty (WFMin).
LEMMA NatSetInduction ==
  ASSUME NEW S, 0 \in S, \A n \in Nat : n \in S => n + 1 \in S
  PROVE  \A n \in Nat : n \in S
<1> DEFINE Missing == {n \in Nat : n \notin S}
           Less    == OpToRel(<, Nat)
<1>1. SUFFICES ASSUME Missing # {} PROVE FALSE
  OBVIOUS
<1>2. \A x, y \in Nat : x < y => <<x, y>> \in Less
  BY DEF OpToRel
<1>3. IsWellFoundedOn(Less, Nat)
  BY NatLessThanWellFounded
<1> HIDE DEF Less
<1>4. PICK x \in Missing : \A y \in Missing : <<y, x>> \notin Less
  BY <1>1, <1>3, WFMin
<1>5. x \in Nat /\ x # 0
  BY <1>4
<1>6. x - 1 \in Nat /\ <<x - 1, x>> \in Less
  BY <1>2, <1>5
<1>7. x - 1 \in S
  BY <1>4, <1>6
<1> QED
  BY <1>4, <1>5, <1>6, <1>7

\* What holds of the empty sequence and is kept by Append holds of every one.
LEMMA SeqSetInduction ==
  ASSUME NEW S, NEW T, <<>> \in T,
         \A s \in Seq(S), x \in S : s \in T => Append(s, x) \in T
  PROVE  \A s \in Seq(S) : s \in T
<1> DEFINE Lengths == {n \in Nat : \A s \in Seq(S) : Len(s) = n => s \in T}
<1>1. 0 \in Lengths
  BY EmptySeq
<1>2. ASSUME NEW n \in Nat, n \in Lengths
      PROVE  n + 1 \in Lengths
  <2>1. SUFFICES ASSUME NEW s \in Seq(S), Len(s) = n + 1 PROVE s \in T
    OBVIOUS
  <2>2. s # <<>>
    BY <2>1, EmptySeq
  <2>3. PICK t \in Seq(S), x \in S : s = Append(t, x)
    BY <2>2, SequenceEmptyOrAppend
  <2>4. Len(t) = n
    BY <2>1, <2>3, AppendProperties, LenProperties
  <2> QED
    BY <1>2, <2>3, <2>4
<1> HIDE DEF Lengths
<1>3. \A n \in Nat : n \in Lengths
  BY <1>1, <1>2, NatSetInduction
<1> QED
  BY <1>3, LenProperties DEF Lengths

\* Short tuples.
LEMMA Tuples ==
  ASSUME NEW x, NEW y
  PROVE  /\ <<x>> \in Seq({x}) /\ Len(<<x>>) = 1 /\ <<x>>[1] = x /\ <<x>> # <<>>
         /\ Head(<<x>>) = x /\ Tail(<<x>>) = <<>>
         /\ <<>> \o <<x>> = <<x>>
         /\ <<x>> \o <<y>> = <<x, y>> /\ Append(<<x>>, y) = <<x, y>>
         /\ Len(<<x, y>>) = 2 /\ <<x, y>>[1] = x /\ <<x, y>>[2] = y
         /\ Head(<<x, y>>) = x /\ Tail(<<x, y>>) = <<y>> /\ <<x, y>> # <<>>
<1> DEFINE s == <<x>>
           t == <<y>>
           u == <<x, y>>
           S == {x, y}
<1>1. /\ s \in Seq(S) /\ t \in Seq(S) /\ u \in Seq(S)
      /\ Len(s) = 1 /\ Len(t) = 1 /\ Len(u) = 2
      /\ s[1] = x /\ t[1] = y /\ u[1] = x /\ u[2] = y /\ y \in S
  OBVIOUS
<1> HIDE DEF s, t, u
<1>2. /\ s \o t \in Seq(S) /\ Len(s \o t) = 2
      /\ \A i \in 1..2 : (s \o t)[i] = IF i =< 1 THEN s[i] ELSE t[i - 1]
  BY <1>1, ConcatProperties
<1>3. \A i \in 1..2 : (s \o t)[i] = u[i]
  BY <1>1, <1>2
<1>4. s \o t = u
  BY <1>1, <1>2, <1>3, SeqEqual
<1>5. Append(s, y) = s \o t
  BY <1>1, AppendIsConcat DEF t
<1>6. /\ <<x>> \in Seq({x}) /\ Len(<<x>>) = 1 /\ <<x>>[1] = x /\ <<x>> # <<>>
      /\ Head(<<x>>) = x /\ Tail(<<x>>) = <<>> /\ <<>> \o <<x>> = <<x>>
  OBVIOUS
<1>7. /\ Len(<<x, y>>) = 2 /\ <<x, y>>[1] = x /\ <<x, y>>[2] = y
      /\ Head(<<x, y>>) = x /\ Tail(<<x, y>>) = <<y>> /\ <<x, y>> # <<>>
  OBVIOUS
<1> QED
  BY <1>4, <1>5, <1>6, <1>7 DEF s, t, u

-----------------------------------------------------------------------------
(* Taking an element out                                                    *)

\* What is left of a sequence when one element is taken out.
LEMMA Removed ==
  ASSUME NEW S, NEW s \in Seq(S), NEW i \in DOMAIN s
  PROVE  /\ RemoveAt(s, i) \in Seq(S)
         /\ Len(RemoveAt(s, i)) = Len(s) - 1
         /\ \A k \in 1..Len(s) - 1 :
              RemoveAt(s, i)[k] = IF k < i THEN s[k] ELSE s[k + 1]
<1> DEFINE before == SubSeq(s, 1, i - 1)
           after  == SubSeq(s, i + 1, Len(s))
<1>1. i \in 1..Len(s) /\ Len(s) \in Nat
  BY LenProperties
<1>2. /\ before \in Seq(S) /\ Len(before) = i - 1
      /\ \A k \in 1..i - 1 : before[k] = s[k]
  <2>1. \A k \in 1..i - 1 : s[k] \in S
    BY <1>1, ElementOfSeq
  <2> QED
    BY <1>1, <2>1, SubSeqProperties
<1>3. /\ after \in Seq(S) /\ Len(after) = Len(s) - i
      /\ \A k \in 1..Len(s) - i : after[k] = s[k + i]
  <2>1. \A k \in i + 1..Len(s) : s[k] \in S
    BY <1>1, ElementOfSeq
  <2> QED
    BY <1>1, <2>1, SubSeqProperties
<1> HIDE DEF before, after
<1>4. /\ before \o after \in Seq(S)
      /\ Len(before \o after) = Len(before) + Len(after)
      /\ \A k \in 1..Len(before) + Len(after) :
           (before \o after)[k] = IF k <= Len(before) THEN before[k] ELSE after[k - Len(before)]
  BY <1>2, <1>3, ConcatProperties
<1>5. RemoveAt(s, i) = before \o after
  BY DEF RemoveAt, before, after
<1>6. Len(before) + Len(after) = Len(s) - 1
  BY <1>1, <1>2, <1>3
<1>7. ASSUME NEW k \in 1..Len(s) - 1
      PROVE  (before \o after)[k] = IF k < i THEN s[k] ELSE s[k + 1]
  <2>1. CASE k < i
    BY <1>1, <1>2, <1>4, <1>6, <2>1
  <2>2. CASE ~(k < i)
    <3>1. k - Len(before) \in 1..Len(s) - i /\ k - Len(before) + i = k + 1
      BY <1>1, <1>2, <2>2
    <3>2. (before \o after)[k] = after[k - Len(before)]
      BY <1>1, <1>2, <1>4, <1>6, <2>2
    <3>3. after[k - Len(before)] = s[k + 1]
      BY <1>3, <3>1
    <3> QED
      BY <2>2, <3>2, <3>3
  <2> QED
    BY <2>1, <2>2
<1> QED
  BY <1>4, <1>5, <1>6, <1>7

\* The elements of what is left are the others, in their order.
LEMMA RemovedElements ==
  ASSUME NEW S, NEW s \in Seq(S), NEW i \in DOMAIN s
  PROVE  /\ \A k \in DOMAIN RemoveAt(s, i) :
              \E j \in DOMAIN s \ {i} : RemoveAt(s, i)[k] = s[j] /\ k = IF j < i THEN j ELSE j - 1
         /\ \A j \in DOMAIN s \ {i} :
              \E k \in DOMAIN RemoveAt(s, i) : RemoveAt(s, i)[k] = s[j]
                                               /\ k = IF j < i THEN j ELSE j - 1
<1> DEFINE t == RemoveAt(s, i)
<1>1. /\ t \in Seq(S) /\ Len(t) = Len(s) - 1
      /\ \A k \in 1..Len(s) - 1 : t[k] = IF k < i THEN s[k] ELSE s[k + 1]
  BY Removed
<1>2. i \in 1..Len(s) /\ Len(s) \in Nat /\ DOMAIN s = 1..Len(s) /\ DOMAIN t = 1..Len(s) - 1
  BY <1>1, LenProperties
<1> HIDE DEF t
<1>3. ASSUME NEW k \in DOMAIN t
      PROVE  \E j \in DOMAIN s \ {i} : t[k] = s[j] /\ k = IF j < i THEN j ELSE j - 1
  <2>1. CASE k < i
    BY <1>1, <1>2, <2>1
  <2>2. CASE ~(k < i)
    <3>1. k + 1 \in DOMAIN s \ {i} /\ ~(k + 1 < i) /\ t[k] = s[k + 1] /\ k = (k + 1) - 1
      BY <1>1, <1>2, <2>2
    <3> QED
      BY <3>1
  <2> QED
    BY <2>1, <2>2
<1>4. ASSUME NEW j \in DOMAIN s \ {i}
      PROVE  \E k \in DOMAIN t : t[k] = s[j] /\ k = IF j < i THEN j ELSE j - 1
  <2>1. CASE j < i
    BY <1>1, <1>2, <2>1
  <2>2. CASE ~(j < i)
    <3>1. j - 1 \in DOMAIN t /\ ~(j - 1 < i) /\ t[j - 1] = s[j]
      BY <1>1, <1>2, <2>2
    <3> QED
      BY <2>2, <3>1
  <2> QED
    BY <2>1, <2>2
<1> QED
  BY <1>3, <1>4 DEF t

-----------------------------------------------------------------------------
(* The defining equation of Selections has a solution, and one only         *)

Selects(s, K, n, f) ==
  f = [i \in 0..n |->
         IF i = 0 THEN <<>>
         ELSE IF s[i] \in K THEN Append(f[i - 1], s[i]) ELSE f[i - 1]]

LEMMA SelectsExists ==
  ASSUME NEW s, NEW K
  PROVE  \A n \in Nat : \E f : Selects(s, K, n, f)
<1> DEFINE Solved == {n \in Nat : \E f : Selects(s, K, n, f)}
<1>1. 0 \in Solved
  <2>1. Selects(s, K, 0, [i \in 0..0 |-> <<>>])
    BY DEF Selects
  <2> QED
    BY <2>1
<1>2. ASSUME NEW n \in Nat, n \in Solved
      PROVE  n + 1 \in Solved
  <2>1. PICK f : Selects(s, K, n, f)
    BY <1>2
  <2> DEFINE g == [i \in 0..n + 1 |->
                     IF i =< n THEN f[i]
                     ELSE IF s[i] \in K THEN Append(f[i - 1], s[i]) ELSE f[i - 1]]
  <2>2. \A i \in 0..n : f[i] = IF i = 0 THEN <<>>
                               ELSE IF s[i] \in K THEN Append(f[i - 1], s[i])
                                                  ELSE f[i - 1]
    BY <2>1 DEF Selects
  <2>3. \A i \in 0..n + 1 : g[i] = IF i = 0 THEN <<>>
                                   ELSE IF s[i] \in K THEN Append(g[i - 1], s[i])
                                                      ELSE g[i - 1]
    <3>1. \A i \in 0..n : g[i] = f[i]
      OBVIOUS
    <3>2. \A i \in 0..n + 1 : i # 0 => i - 1 \in 0..n
      OBVIOUS
    <3> QED
      BY <2>2, <3>1, <3>2
  <2>4. g = [i \in 0..n + 1 |-> g[i]]
    OBVIOUS
  <2> HIDE DEF g
  <2>5. Selects(s, K, n + 1, g)
    BY <2>3, <2>4 DEF Selects
  <2> QED
    BY <2>5
<1> HIDE DEF Solved
<1>3. \A n \in Nat : n \in Solved
  BY <1>1, <1>2, NatSetInduction
<1> QED
  BY <1>3 DEF Solved

LEMMA SelectionsDef ==
  ASSUME NEW S, NEW s \in Seq(S), NEW K
  PROVE  Selects(s, K, Len(s), Selections(s, K))
<1>1. \E f : Selects(s, K, Len(s), f)
  BY SelectsExists, LenProperties
<1>2. Selections(s, K) = CHOOSE f : Selects(s, K, Len(s), f)
  BY DEF Selections, Selects
<1> QED
  BY <1>1, <1>2

\* The selection from a beginning does not depend on what follows it.
LEMMA SelectsAgree ==
  ASSUME NEW s, NEW t, NEW K, NEW n \in Nat, NEW m \in Nat, NEW f, NEW g,
         Selects(s, K, n, f), Selects(t, K, m, g),
         NEW k \in Nat, k =< n, k =< m,
         \A i \in 1..k : s[i] = t[i]
  PROVE  f[k] = g[k]
<1> DEFINE Same == {i \in Nat : i =< k => f[i] = g[i]}
<1>0. /\ \A i \in 0..n : f[i] = IF i = 0 THEN <<>>
                                ELSE IF s[i] \in K THEN Append(f[i - 1], s[i])
                                                   ELSE f[i - 1]
      /\ \A i \in 0..m : g[i] = IF i = 0 THEN <<>>
                                ELSE IF t[i] \in K THEN Append(g[i - 1], t[i])
                                                   ELSE g[i - 1]
  BY DEF Selects
<1>1. 0 \in Same
  BY <1>0
<1>2. ASSUME NEW i \in Nat, i \in Same PROVE i + 1 \in Same
  <2> SUFFICES ASSUME i + 1 =< k PROVE f[i + 1] = g[i + 1]
    OBVIOUS
  <2>1. f[i] = g[i] /\ s[i + 1] = t[i + 1] /\ i + 1 \in 0..n /\ i + 1 \in 0..m
    BY <1>2
  <2> QED
    BY <1>0, <2>1
<1> HIDE DEF Same
<1>3. \A i \in Nat : i \in Same
  BY <1>1, <1>2, NatSetInduction
<1> QED
  BY <1>3 DEF Same

-----------------------------------------------------------------------------
(* What is selected, case by case                                           *)

LEMMA SelectedEmpty ==
  ASSUME NEW K
  PROVE  Selected(<<>>, K) = <<>>
<1>1. /\ Selects(<<>>, K, Len(<<>>), Selections(<<>>, K))
      /\ Len(<<>>) = 0
  BY EmptySeq, SelectionsDef
<1> QED
  BY <1>1 DEF Selects, Selected

LEMMA SelectedAppend ==
  ASSUME NEW S, NEW s \in Seq(S), NEW x \in S, NEW K
  PROVE  Selected(Append(s, x), K) =
           IF x \in K THEN Append(Selected(s, K), x) ELSE Selected(s, K)
<1> DEFINE t == Append(s, x)
           n == Len(s)
           f == Selections(s, K)
           g == Selections(t, K)
<1>1. /\ t \in Seq(S) /\ n \in Nat /\ Len(t) = n + 1
      /\ \A i \in 1..n : s[i] = t[i]
      /\ t[n + 1] = x
  BY AppendProperties, LenProperties
<1> HIDE DEF t
<1>2. Selects(s, K, n, f) /\ Selects(t, K, n + 1, g)
  BY <1>1, SelectionsDef
<1> HIDE DEF n, f, g
<1>3. f[n] = g[n]
  BY <1>1, <1>2, SelectsAgree
<1>4. g[n + 1] = IF x \in K THEN Append(g[n], x) ELSE g[n]
  <2>1. n + 1 \in 0..n + 1 /\ n + 1 # 0 /\ (n + 1) - 1 = n
    BY <1>1
  <2> QED
    BY <1>1, <1>2, <2>1 DEF Selects
<1>5. Selected(s, K) = f[n] /\ Selected(t, K) = g[n + 1]
  BY <1>1 DEF Selected, n, f, g
<1> QED
  BY <1>3, <1>4, <1>5 DEF t

LEMMA SelectedType ==
  ASSUME NEW S, NEW K
  PROVE  \A s \in Seq(S) : Selected(s, K) \in Seq(S \cap K)
<1> DEFINE T == {s \in Seq(S) : Selected(s, K) \in Seq(S \cap K)}
<1>1. <<>> \in T
  BY SelectedEmpty, EmptySeq
<1>2. ASSUME NEW s \in Seq(S), NEW x \in S, s \in T
      PROVE  Append(s, x) \in T
  <2>1. Selected(s, K) \in Seq(S \cap K)
    BY <1>2
  <2>2. x \in K => Append(Selected(s, K), x) \in Seq(S \cap K)
    <3> SUFFICES ASSUME x \in S \cap K
                 PROVE  Append(Selected(s, K), x) \in Seq(S \cap K)
      OBVIOUS
    <3> QED
      BY <2>1, AppendProperties
  <2>3. Append(s, x) \in Seq(S)
    BY AppendProperties
  <2> QED
    BY <2>1, <2>2, <2>3, SelectedAppend
<1> HIDE DEF T
<1>3. \A s \in Seq(S) : s \in T
  BY <1>1, <1>2, SeqSetInduction
<1> QED
  BY <1>3 DEF T

LEMMA SelectedConcat ==
  ASSUME NEW S, NEW s \in Seq(S), NEW K
  PROVE  \A t \in Seq(S) : Selected(s \o t, K) = Selected(s, K) \o Selected(t, K)
<1> DEFINE T == {t \in Seq(S) : Selected(s \o t, K) = Selected(s, K) \o Selected(t, K)}
<1>0. Selected(s, K) \in Seq(S \cap K)
  BY SelectedType
<1>1. <<>> \in T
  BY <1>0, SelectedEmpty, ConcatEmptySeq, EmptySeq
<1>2. ASSUME NEW t \in Seq(S), NEW x \in S, t \in T
      PROVE  Append(t, x) \in T
  <2>1. /\ <<x>> \in Seq(S) /\ s \o t \in Seq(S)
        /\ Append(t, x) = t \o <<x>> /\ Append(t, x) \in Seq(S)
        /\ Append(s \o t, x) = (s \o t) \o <<x>>
    BY AppendIsConcat, AppendProperties, ConcatProperties
  <2>2. s \o Append(t, x) = Append(s \o t, x)
    BY <2>1, ConcatAssociative
  <2>3. Selected(s \o t, K) = Selected(s, K) \o Selected(t, K)
    BY <1>2
  <2>4. Selected(t, K) \in Seq(S \cap K)
    BY SelectedType
  <2>5. CASE x \in K
    <3>1. /\ Selected(t, K) \o <<x>> = Append(Selected(t, K), x)
          /\ (Selected(s, K) \o Selected(t, K)) \o <<x>>
                = Append(Selected(s, K) \o Selected(t, K), x)
      <4>1. x \in S \cap K /\ Selected(s, K) \o Selected(t, K) \in Seq(S \cap K)
        BY <1>0, <2>4, <2>5, ConcatProperties
      <4> QED
        BY <2>4, <4>1, AppendIsConcat
    <3>2. (Selected(s, K) \o Selected(t, K)) \o <<x>>
            = Selected(s, K) \o (Selected(t, K) \o <<x>>)
      <4>1. <<x>> \in Seq(S \cap K)
        BY <2>5
      <4> QED
        BY <1>0, <2>4, <4>1, ConcatAssociative
    <3>3. /\ Selected(Append(t, x), K) = Append(Selected(t, K), x)
          /\ Selected(Append(s \o t, x), K) = Append(Selected(s \o t, K), x)
      <4> DEFINE u == s \o t
      <4>1. u \in Seq(S)
        BY <2>1
      <4> HIDE DEF u
      <4>2. Selected(Append(u, x), K) = Append(Selected(u, K), x)
        BY <2>5, <4>1, SelectedAppend
      <4>3. Selected(Append(t, x), K) = Append(Selected(t, K), x)
        BY <2>5, SelectedAppend
      <4> QED
        BY <4>2, <4>3 DEF u
    <3> QED
      BY <2>1, <2>2, <2>3, <3>1, <3>2, <3>3
  <2>6. CASE x \notin K
    <3>1. /\ Selected(Append(t, x), K) = Selected(t, K)
          /\ Selected(Append(s \o t, x), K) = Selected(s \o t, K)
      <4> DEFINE u == s \o t
      <4>1. u \in Seq(S)
        BY <2>1
      <4> HIDE DEF u
      <4>2. Selected(Append(u, x), K) = Selected(u, K)
        BY <2>6, <4>1, SelectedAppend
      <4>3. Selected(Append(t, x), K) = Selected(t, K)
        BY <2>6, SelectedAppend
      <4> QED
        BY <4>2, <4>3 DEF u
    <3> QED
      BY <2>1, <2>2, <2>3, <3>1
  <2> QED
    BY <2>5, <2>6
<1> HIDE DEF T
<1>3. \A t \in Seq(S) : t \in T
  BY <1>1, <1>2, SeqSetInduction
<1> QED
  BY <1>3 DEF T

\* A single element, all of them, none of them.
LEMMA SelectedOne ==
  ASSUME NEW x, NEW K
  PROVE  Selected(<<x>>, K) = IF x \in K THEN <<x>> ELSE <<>>
<1> DEFINE none == <<>>
<1>1. none \in Seq({x}) /\ Append(none, x) = <<x>> /\ x \in {x}
  BY EmptySeq
<1>2. Selected(none, K) = <<>>
  BY SelectedEmpty
<1> HIDE DEF none
<1>3. Selected(Append(none, x), K) =
        IF x \in K THEN Append(Selected(none, K), x) ELSE Selected(none, K)
  BY <1>1, SelectedAppend
<1> QED
  BY <1>1, <1>2, <1>3

LEMMA SelectedAll ==
  ASSUME NEW K
  PROVE  \A s \in Seq(K) : Selected(s, K) = s
<1> DEFINE T == {s \in Seq(K) : Selected(s, K) = s}
<1>1. <<>> \in T
  BY SelectedEmpty, EmptySeq
<1>2. ASSUME NEW s \in Seq(K), NEW x \in K, s \in T
      PROVE  Append(s, x) \in T
  BY <1>2, SelectedAppend, AppendProperties
<1> HIDE DEF T
<1>3. \A s \in Seq(K) : s \in T
  BY <1>1, <1>2, SeqSetInduction
<1> QED
  BY <1>3 DEF T

LEMMA SelectedNone ==
  ASSUME NEW S, NEW K, S \cap K = {}
  PROVE  \A s \in Seq(S) : Selected(s, K) = <<>>
<1> DEFINE T == {s \in Seq(S) : Selected(s, K) = <<>>}
<1>1. <<>> \in T
  BY SelectedEmpty, EmptySeq
<1>2. ASSUME NEW s \in Seq(S), NEW x \in S, s \in T
      PROVE  Append(s, x) \in T
  BY <1>2, SelectedAppend, AppendProperties
<1> HIDE DEF T
<1>3. \A s \in Seq(S) : s \in T
  BY <1>1, <1>2, SeqSetInduction
<1> QED
  BY <1>3 DEF T

\* What is selected is what is in the sequence and in the set.
LEMMA SelectedElements ==
  ASSUME NEW S, NEW K
  PROVE  \A s \in Seq(S) : \A x :
           (\E i \in 1..Len(Selected(s, K)) : Selected(s, K)[i] = x)
             <=> x \in K /\ \E i \in 1..Len(s) : s[i] = x
<1> DEFINE Has(s, x) == \E i \in 1..Len(s) : s[i] = x
           T == {s \in Seq(S) : \A x : Has(Selected(s, K), x) <=> x \in K /\ Has(s, x)}
<1>0. ASSUME NEW R, NEW s \in Seq(R), NEW e \in R
      PROVE  \A x : Has(Append(s, e), x) <=> Has(s, x) \/ x = e
  <2>1. /\ Len(s) \in Nat /\ Len(Append(s, e)) = Len(s) + 1
        /\ \A i \in 1..Len(s) : Append(s, e)[i] = s[i]
        /\ Append(s, e)[Len(s) + 1] = e
    BY <1>0, AppendProperties, LenProperties
  <2>2. ASSUME NEW x, Has(Append(s, e), x) PROVE Has(s, x) \/ x = e
    <3>1. PICK i \in 1..Len(s) + 1 : Append(s, e)[i] = x
      BY <2>1, <2>2
    <3> QED
      BY <2>1, <3>1
  <2>3. ASSUME NEW x, Has(s, x) PROVE Has(Append(s, e), x)
    BY <2>1, <2>3
  <2>4. Has(Append(s, e), e)
    BY <2>1
  <2> QED
    BY <2>2, <2>3, <2>4
<1>1. <<>> \in T
  <2>1. <<>> \in Seq(S) /\ Len(<<>>) = 0 /\ Selected(<<>>, K) = <<>>
    BY SelectedEmpty, EmptySeq
  <2> QED
    BY <2>1
<1>2. ASSUME NEW s \in Seq(S), NEW e \in S, s \in T
      PROVE  Append(s, e) \in T
  <2>1. Append(s, e) \in Seq(S) /\ Selected(s, K) \in Seq(S \cap K)
    BY AppendProperties, SelectedType
  <2>2. /\ \A x : Has(Append(s, e), x) <=> Has(s, x) \/ x = e
        /\ \A x : Has(Selected(s, K), x) <=> x \in K /\ Has(s, x)
    BY <1>0, <1>2
  <2>3. CASE e \in K
    <3>1. Selected(Append(s, e), K) = Append(Selected(s, K), e) /\ e \in S \cap K
      BY <2>3, SelectedAppend
    <3>2. \A x : Has(Append(Selected(s, K), e), x) <=> Has(Selected(s, K), x) \/ x = e
      BY <1>0, <2>1, <3>1
    <3> HIDE DEF Has
    <3> QED
      BY <2>1, <2>2, <2>3, <3>1, <3>2
  <2>4. CASE e \notin K
    <3>1. Selected(Append(s, e), K) = Selected(s, K)
      BY <2>4, SelectedAppend
    <3> HIDE DEF Has
    <3> QED
      BY <2>1, <2>2, <2>4, <3>1
  <2> QED
    BY <2>3, <2>4
<1> HIDE DEF T
<1>3. \A s \in Seq(S) : s \in T
  BY <1>1, <1>2, SeqSetInduction
<1> QED
  BY <1>3 DEF T

\* The head of a sequence and the rest of it.
LEMMA HeadAndTail ==
  ASSUME NEW S, NEW s \in Seq(S), s # <<>>
  PROVE  /\ Head(s) \in S /\ Tail(s) \in Seq(S) /\ Head(s) = s[1]
         /\ <<Head(s)>> \in Seq(S)
         /\ s = <<Head(s)>> \o Tail(s)
<1>1. /\ Head(s) \in S /\ Tail(s) \in Seq(S)
      /\ Len(Tail(s)) = Len(s) - 1 /\ Len(s) \in Nat /\ Len(s) # 0
      /\ Head(s) = s[1]
      /\ \A i \in 1..Len(Tail(s)) : Tail(s)[i] = s[i + 1]
  BY HeadTailProperties, EmptySeq, LenProperties
<1>2. <<Head(s)>> \in Seq(S) /\ Len(<<Head(s)>>) = 1 /\ <<Head(s)>>[1] = Head(s)
  BY <1>1
<1> DEFINE u == <<Head(s)>>
           v == Tail(s)
<1> HIDE DEF u, v
<1>3. /\ u \o v \in Seq(S) /\ Len(u \o v) = Len(s)
      /\ \A i \in 1..Len(s) : (u \o v)[i] = IF i =< 1 THEN u[i] ELSE v[i - 1]
  BY <1>1, <1>2, ConcatProperties DEF u, v
<1>4. \A i \in 1..Len(s) : (u \o v)[i] = s[i]
  BY <1>1, <1>2, <1>3 DEF u, v
<1>5. s = u \o v
  BY <1>3, <1>4, SeqEqual
<1> QED
  BY <1>1, <1>2, <1>5 DEF u, v

LEMMA SelectedHeadTail ==
  ASSUME NEW S, NEW s \in Seq(S), s # <<>>, NEW K
  PROVE  Selected(s, K) =
           (IF Head(s) \in K THEN <<Head(s)>> ELSE <<>>) \o Selected(Tail(s), K)
<1> DEFINE u == <<Head(s)>>
           v == Tail(s)
<1>1. u \in Seq(S) /\ v \in Seq(S) /\ s = u \o v
  BY HeadAndTail
<1>2. Selected(u, K) = IF Head(s) \in K THEN <<Head(s)>> ELSE <<>>
  BY SelectedOne
<1> HIDE DEF u
<1>3. Selected(s, K) = Selected(u, K) \o Selected(v, K)
  BY <1>1, SelectedConcat
<1> QED
  BY <1>2, <1>3

-----------------------------------------------------------------------------
(* Beginnings                                                               *)

\* A beginning one element longer.
LEMMA BeginningStep ==
  ASSUME NEW S, NEW s \in Seq(S), NEW n \in 0..Len(s) - 1
  PROVE  /\ SubSeq(s, 1, n) \in Seq(S) /\ Len(SubSeq(s, 1, n)) = n
         /\ s[n + 1] \in S
         /\ SubSeq(s, 1, n + 1) = Append(SubSeq(s, 1, n), s[n + 1])
<1>1. Len(s) \in Nat /\ n \in Nat /\ n + 1 \in 1..Len(s) /\ n \in Int /\ n + 1 \in Int /\ 1 \in Int
  BY LenProperties
<1>2. \A i \in 1..Len(s) : s[i] \in S
  BY ElementOfSeq
<1>3. /\ SubSeq(s, 1, n) \in Seq(S) /\ Len(SubSeq(s, 1, n)) = n
      /\ \A i \in 1..n : SubSeq(s, 1, n)[i] = s[i]
  <2>1. \A i \in 1..n : s[i] \in S
    BY <1>1, <1>2
  <2> QED
    BY <1>1, <2>1, SubSeqProperties
<1>4. /\ SubSeq(s, 1, n + 1) \in Seq(S) /\ Len(SubSeq(s, 1, n + 1)) = n + 1
      /\ \A i \in 1..n + 1 : SubSeq(s, 1, n + 1)[i] = s[i]
  <2>1. \A i \in 1..n + 1 : s[i] \in S
    BY <1>1, <1>2
  <2> QED
    BY <1>1, <2>1, SubSeqProperties
<1> DEFINE b == SubSeq(s, 1, n)
           c == SubSeq(s, 1, n + 1)
<1> HIDE DEF b, c
<1>5. /\ Append(b, s[n + 1]) \in Seq(S) /\ Len(Append(b, s[n + 1])) = n + 1
      /\ \A i \in 1..n : Append(b, s[n + 1])[i] = b[i]
      /\ Append(b, s[n + 1])[n + 1] = s[n + 1]
  BY <1>1, <1>2, <1>3, AppendProperties DEF b
<1>6. \A i \in 1..n + 1 : c[i] = Append(b, s[n + 1])[i]
  BY <1>1, <1>3, <1>4, <1>5 DEF b, c
<1>7. c = Append(b, s[n + 1])
  BY <1>4, <1>5, <1>6, SeqEqual DEF c
<1> QED
  BY <1>1, <1>2, <1>3, <1>7 DEF b, c

LEMMA BeginningEnds ==
  ASSUME NEW S, NEW s \in Seq(S)
  PROVE  SubSeq(s, 1, 0) = <<>> /\ SubSeq(s, 1, Len(s)) = s
BY SubSeqEmpty, SubSeqFull

LEMMA PrefixConcat ==
  ASSUME NEW S, NEW s \in Seq(S), NEW t \in Seq(S)
  PROVE  IsPrefix(s, s \o t)
<1>1. /\ s \o t \in Seq(S) /\ Len(s \o t) = Len(s) + Len(t)
      /\ \A i \in 1..Len(s) + Len(t) : (s \o t)[i] = IF i <= Len(s) THEN s[i] ELSE t[i - Len(s)]
      /\ Len(s) \in Nat /\ Len(t) \in Nat
  BY ConcatProperties, LenProperties
<1> DEFINE u == s \o t
           n == Len(s)
<1> HIDE DEF u, n
<1>2. \A i \in 1..n : s[i] \in S /\ u[i] \in S /\ u[i] = s[i]
  BY <1>1, ElementOfSeq DEF u, n
<1>3. /\ SubSeq(s, 1, n) \in Seq(S) /\ Len(SubSeq(s, 1, n)) = n
      /\ \A i \in 1..n : SubSeq(s, 1, n)[i] = s[i]
  BY <1>1, <1>2, SubSeqProperties DEF n
<1>4. /\ SubSeq(u, 1, n) \in Seq(S) /\ Len(SubSeq(u, 1, n)) = n
      /\ \A i \in 1..n : SubSeq(u, 1, n)[i] = u[i]
  BY <1>1, <1>2, SubSeqProperties DEF n
<1>5. SubSeq(s, 1, n) = SubSeq(u, 1, n)
  BY <1>2, <1>3, <1>4, SeqEqual
<1> QED
  BY <1>1, <1>5 DEF IsPrefix, u, n

LEMMA PrefixTransitive ==
  ASSUME NEW S, NEW s \in Seq(S), NEW t \in Seq(S), NEW u \in Seq(S),
         IsPrefix(s, t), IsPrefix(t, u)
  PROVE  IsPrefix(s, u)
<1>1. /\ Len(s) \in Nat /\ Len(t) \in Nat /\ Len(u) \in Nat
      /\ Len(s) =< Len(t) /\ Len(t) =< Len(u)
      /\ SubSeq(s, 1, Len(s)) = SubSeq(t, 1, Len(s))
      /\ SubSeq(t, 1, Len(t)) = SubSeq(u, 1, Len(t))
  BY LenProperties DEF IsPrefix
<1> DEFINE n == Len(s)
           m == Len(t)
<1> HIDE DEF n, m
<1>2. \A i \in 1..m : t[i] \in S /\ u[i] \in S
  BY <1>1, ElementOfSeq DEF m
<1>3. \A i \in 1..m : t[i] = u[i]
  <2>1. /\ \A i \in 1..m : SubSeq(t, 1, m)[i] = t[i]
        /\ \A i \in 1..m : SubSeq(u, 1, m)[i] = u[i]
    BY <1>1, <1>2, SubSeqProperties DEF m
  <2> QED
    BY <1>1, <2>1 DEF m
<1>4. /\ SubSeq(t, 1, n) \in Seq(S) /\ Len(SubSeq(t, 1, n)) = n
      /\ \A i \in 1..n : SubSeq(t, 1, n)[i] = t[i]
      /\ SubSeq(u, 1, n) \in Seq(S) /\ Len(SubSeq(u, 1, n)) = n
      /\ \A i \in 1..n : SubSeq(u, 1, n)[i] = u[i]
  <2>1. /\ n \in Int /\ 1 \in Int /\ n \in Nat
        /\ \A i \in 1..n : t[i] \in S
        /\ \A i \in 1..n : u[i] \in S
    BY <1>1, <1>2 DEF n, m
  <2> QED
    BY <2>1, SubSeqProperties
<1>5. SubSeq(t, 1, n) = SubSeq(u, 1, n)
  <2>1. \A i \in 1..n : t[i] = u[i]
    BY <1>1, <1>3 DEF n, m
  <2> QED
    BY <1>4, <2>1, SeqEqual
<1> QED
  BY <1>1, <1>5 DEF IsPrefix, n

\* What is equal on every place is a beginning of itself, the empty text of all.
LEMMA PrefixBounds ==
  ASSUME NEW S, NEW s \in Seq(S)
  PROVE  IsPrefix(<<>>, s) /\ IsPrefix(s, s)
<1>1. <<>> \in Seq(S) /\ <<>> \o s = s /\ s \o <<>> = s
  BY EmptySeq, ConcatEmptySeq
<1> QED
  BY <1>1, PrefixConcat

-----------------------------------------------------------------------------
(* A sequence of sequences laid end to end                                  *)

Flattens(s, n, f) ==
  f = [i \in 1..n |-> IF i = 1 THEN s[i] ELSE f[i - 1] \o s[i]]

LEMMA FlattensExists ==
  ASSUME NEW s
  PROVE  \A n \in Nat : \E f : Flattens(s, n, f)
<1> DEFINE Solved == {n \in Nat : \E f : Flattens(s, n, f)}
<1>1. 0 \in Solved
  <2>1. Flattens(s, 0, [i \in 1..0 |-> <<>>])
    BY DEF Flattens
  <2> QED
    BY <2>1
<1>2. ASSUME NEW n \in Nat, n \in Solved
      PROVE  n + 1 \in Solved
  <2>1. PICK f : Flattens(s, n, f)
    BY <1>2
  <2> DEFINE g == [i \in 1..n + 1 |->
                     IF i =< n THEN f[i] ELSE IF i = 1 THEN s[i] ELSE f[i - 1] \o s[i]]
  <2>2. \A i \in 1..n : f[i] = IF i = 1 THEN s[i] ELSE f[i - 1] \o s[i]
    BY <2>1 DEF Flattens
  <2>3. \A i \in 1..n + 1 : g[i] = IF i = 1 THEN s[i] ELSE g[i - 1] \o s[i]
    <3>1. \A i \in 1..n : g[i] = f[i]
      OBVIOUS
    <3>2. \A i \in 1..n + 1 : i # 1 => i - 1 \in 1..n
      OBVIOUS
    <3> QED
      BY <2>2, <3>1, <3>2
  <2>4. g = [i \in 1..n + 1 |-> g[i]]
    OBVIOUS
  <2> HIDE DEF g
  <2>5. Flattens(s, n + 1, g)
    BY <2>3, <2>4 DEF Flattens
  <2> QED
    BY <2>5
<1> HIDE DEF Solved
<1>3. \A n \in Nat : n \in Solved
  BY <1>1, <1>2, NatSetInduction
<1> QED
  BY <1>3 DEF Solved

LEMMA FlattensAgree ==
  ASSUME NEW s, NEW t, NEW n \in Nat, NEW m \in Nat, NEW f, NEW g,
         Flattens(s, n, f), Flattens(t, m, g),
         NEW k \in Nat, k # 0, k =< n, k =< m,
         \A i \in 1..k : s[i] = t[i]
  PROVE  f[k] = g[k]
<1> DEFINE Same == {i \in Nat : i \in 1..k => f[i] = g[i]}
<1>0. /\ \A i \in 1..n : f[i] = IF i = 1 THEN s[i] ELSE f[i - 1] \o s[i]
      /\ \A i \in 1..m : g[i] = IF i = 1 THEN t[i] ELSE g[i - 1] \o t[i]
  BY DEF Flattens
<1>1. 0 \in Same
  OBVIOUS
<1>2. ASSUME NEW i \in Nat, i \in Same PROVE i + 1 \in Same
  <2> SUFFICES ASSUME i + 1 =< k PROVE f[i + 1] = g[i + 1]
    OBVIOUS
  <2>1. s[i + 1] = t[i + 1] /\ i + 1 \in 1..n /\ i + 1 \in 1..m /\ (i + 1) - 1 = i
    OBVIOUS
  <2>2. CASE i = 0
    BY <1>0, <2>1, <2>2
  <2>3. CASE i # 0
    <3>1. f[i] = g[i] /\ i + 1 # 1
      BY <1>2, <2>3
    <3> QED
      BY <1>0, <2>1, <3>1
  <2> QED
    BY <2>2, <2>3
<1> HIDE DEF Same
<1>3. \A i \in Nat : i \in Same
  BY <1>1, <1>2, NatSetInduction
<1> QED
  BY <1>3 DEF Same

LEMMA FlattenDef ==
  ASSUME NEW S, NEW s \in Seq(S), s # <<>>
  PROVE  \E f : Flattens(s, Len(s), f) /\ FlattenSeq(s) = f[Len(s)]
<1>1. Len(s) \in Nat /\ Len(s) # 0
  BY LenProperties, EmptySeq
<1> DEFINE f == CHOOSE g : Flattens(s, Len(s), g)
<1>2. Flattens(s, Len(s), f)
  BY <1>1, FlattensExists
<1>3. FlattenSeq(s) = f[Len(s)]
  BY <1>1 DEF FlattenSeq, Flattens
<1> QED
  BY <1>2, <1>3

LEMMA FlattenEmpty == FlattenSeq(<<>>) = <<>>
BY EmptySeq DEF FlattenSeq

LEMMA FlattenAppend ==
  ASSUME NEW S, NEW s \in Seq(Seq(S)), NEW x \in Seq(S)
  PROVE  FlattenSeq(Append(s, x)) = FlattenSeq(s) \o x
<1> DEFINE t == Append(s, x)
           n == Len(s)
<1>1. /\ t \in Seq(Seq(S)) /\ n \in Nat /\ Len(t) = n + 1 /\ t # <<>>
      /\ \A i \in 1..n : s[i] = t[i]
      /\ t[n + 1] = x
  BY AppendProperties, LenProperties
<1> HIDE DEF t
<1>2. PICK g : Flattens(t, n + 1, g) /\ FlattenSeq(t) = g[n + 1]
  BY <1>1, FlattenDef
<1> HIDE DEF n
<1>3. g[n + 1] = IF n + 1 = 1 THEN t[n + 1] ELSE g[(n + 1) - 1] \o t[n + 1]
  <2>1. n + 1 \in 1..n + 1
    BY <1>1
  <2> QED
    BY <1>2, <2>1 DEF Flattens
<1>4. CASE s = <<>>
  <2>1. n = 0 /\ FlattenSeq(s) = <<>> /\ <<>> \o x = x
    BY <1>4, EmptySeq, FlattenEmpty, ConcatEmptySeq DEF n
  <2> QED
    BY <1>1, <1>2, <1>3, <2>1 DEF t
<1>5. CASE s # <<>>
  <2>1. n # 0
    BY <1>5, EmptySeq DEF n
  <2>2. PICK f : Flattens(s, n, f) /\ FlattenSeq(s) = f[n]
    BY <1>5, FlattenDef DEF n
  <2>3. f[n] = g[n]
    <3>1. n + 1 \in Nat /\ n =< n /\ n =< n + 1
      BY <1>1
    <3> QED
      BY <1>1, <1>2, <2>1, <2>2, <3>1, FlattensAgree
  <2>4. n + 1 # 1 /\ (n + 1) - 1 = n
    BY <1>1, <2>1
  <2> QED
    BY <1>1, <1>2, <1>3, <2>2, <2>3, <2>4 DEF t
<1> QED
  BY <1>4, <1>5

LEMMA FlattenType ==
  ASSUME NEW S
  PROVE  \A s \in Seq(Seq(S)) : FlattenSeq(s) \in Seq(S)
<1> DEFINE T == {s \in Seq(Seq(S)) : FlattenSeq(s) \in Seq(S)}
<1>1. <<>> \in T
  BY FlattenEmpty, EmptySeq
<1>2. ASSUME NEW s \in Seq(Seq(S)), NEW x \in Seq(S), s \in T
      PROVE  Append(s, x) \in T
  <2>1. FlattenSeq(s) \in Seq(S)
    BY <1>2
  <2>2. FlattenSeq(s) \o x \in Seq(S)
    BY <2>1, ConcatProperties
  <2>3. Append(s, x) \in Seq(Seq(S))
    BY AppendProperties
  <2> QED
    BY <2>2, <2>3, FlattenAppend
<1> HIDE DEF T
<1>3. \A s \in Seq(Seq(S)) : s \in T
  BY <1>1, <1>2, SeqSetInduction
<1> QED
  BY <1>3 DEF T

\* One sequence more.
LEMMA FlattenStep ==
  ASSUME NEW S, NEW s \in Seq(Seq(S)), NEW n \in 0..Len(s) - 1
  PROVE  /\ FlattenSeq(SubSeq(s, 1, n)) \in Seq(S)
         /\ s[n + 1] \in Seq(S)
         /\ FlattenSeq(SubSeq(s, 1, n + 1)) = FlattenSeq(SubSeq(s, 1, n)) \o s[n + 1]
<1>1. /\ SubSeq(s, 1, n) \in Seq(Seq(S)) /\ s[n + 1] \in Seq(S)
      /\ SubSeq(s, 1, n + 1) = Append(SubSeq(s, 1, n), s[n + 1])
  BY BeginningStep
<1> QED
  BY <1>1, FlattenAppend, FlattenType

\* The first sequences laid end to end begin the whole.
LEMMA FlattenPrefix ==
  ASSUME NEW S, NEW s \in Seq(Seq(S)), NEW n \in 0..Len(s)
  PROVE  IsPrefix(FlattenSeq(SubSeq(s, 1, n)), FlattenSeq(s))
<1> DEFINE Flat(k) == FlattenSeq(SubSeq(s, 1, k))
           T == {k \in Nat : n + k =< Len(s) => /\ Flat(n + k) \in Seq(S)
                                                /\ IsPrefix(Flat(n), Flat(n + k))}
<1>0. Len(s) \in Nat /\ n \in Nat
  BY LenProperties
<1>1. 0 \in T
  <2>1. SubSeq(s, 1, n) \in Seq(Seq(S))
    <3>1. CASE n = Len(s)
      BY <3>1, BeginningEnds
    <3>2. CASE n # Len(s)
      BY <1>0, <3>2, BeginningStep
    <3> QED
      BY <3>1, <3>2
  <2>2. Flat(n) \in Seq(S)
    BY <2>1, FlattenType
  <2> QED
    BY <1>0, <2>2, PrefixBounds
<1>2. ASSUME NEW k \in Nat, k \in T
      PROVE  k + 1 \in T
  <2>1. SUFFICES ASSUME n + (k + 1) =< Len(s)
                 PROVE  Flat(n + (k + 1)) \in Seq(S) /\ IsPrefix(Flat(n), Flat(n + (k + 1)))
    OBVIOUS
  <2>2. Flat(n + k) \in Seq(S) /\ IsPrefix(Flat(n), Flat(n + k))
    BY <1>0, <1>2, <2>1
  <2>3. n + k \in 0..Len(s) - 1 /\ (n + k) + 1 = n + (k + 1)
    BY <1>0, <2>1
  <2>4. s[n + k + 1] \in Seq(S) /\ Flat(n + (k + 1)) = Flat(n + k) \o s[n + k + 1]
    BY <2>3, FlattenStep
  <2>5. Flat(n + (k + 1)) \in Seq(S) /\ IsPrefix(Flat(n + k), Flat(n + (k + 1)))
    BY <2>2, <2>4, ConcatProperties, PrefixConcat
  <2>6. Flat(n) \in Seq(S)
    <3>1. n \in 0..Len(s) - 1
      BY <1>0, <2>1
    <3> QED
      BY <3>1, FlattenStep
  <2> HIDE DEF Flat
  <2> QED
    BY <2>2, <2>5, <2>6, PrefixTransitive
<1>3. \A k \in Nat : k \in T
  <2> HIDE DEF T
  <2> QED
    BY <1>1, <1>2, NatSetInduction
<1>4. Len(s) - n \in Nat /\ n + (Len(s) - n) = Len(s)
  BY <1>0
<1>5. IsPrefix(Flat(n), Flat(Len(s)))
  <2> HIDE DEF Flat
  <2>1. Len(s) - n \in T
    BY <1>3, <1>4
  <2>2. n + (Len(s) - n) =< Len(s)
    BY <1>0
  <2> QED
    BY <1>4, <2>1, <2>2
<1> QED
  BY <1>5, BeginningEnds

LEMMA FlattenOne ==
  ASSUME NEW S, NEW x \in Seq(S)
  PROVE  <<x>> \in Seq(Seq(S)) /\ FlattenSeq(<<x>>) = x
<1>1. <<>> \in Seq(Seq(S)) /\ <<x>> \in Seq(Seq(S)) /\ Append(<<>>, x) = <<x>> /\ <<>> \o x = x
  BY EmptySeq, ConcatEmptySeq
<1>2. FlattenSeq(Append(<<>>, x)) = FlattenSeq(<<>>) \o x
  BY <1>1, FlattenAppend
<1> QED
  BY <1>1, <1>2, FlattenEmpty

\* Each element replaced by a sequence, h gives which.
FlatMap(s, h) == FlattenSeq([i \in 1..Len(s) |-> h[s[i]]])

LEMMA FlatMapEmpty ==
  ASSUME NEW h
  PROVE  FlatMap(<<>>, h) = <<>>
<1>1. Len(<<>>) = 0
  BY EmptySeq
<1>2. [i \in 1..Len(<<>>) |-> h[<<>>[i]]] = <<>>
  BY <1>1
<1> QED
  BY <1>2, FlattenEmpty DEF FlatMap

LEMMA FlatMapAppend ==
  ASSUME NEW A, NEW S, NEW h, \A a \in A : h[a] \in Seq(S),
         NEW s \in Seq(A), NEW x \in A
  PROVE  /\ FlatMap(s, h) \in Seq(S)
         /\ FlatMap(Append(s, x), h) = FlatMap(s, h) \o h[x]
<1> DEFINE t == Append(s, x)
           n == Len(s)
           u == [i \in 1..n |-> h[s[i]]]
           v == [i \in 1..n + 1 |-> h[t[i]]]
<1>1. /\ t \in Seq(A) /\ n \in Nat /\ Len(t) = n + 1
      /\ \A i \in 1..n : t[i] = s[i]
      /\ t[n + 1] = x
  BY AppendProperties, LenProperties
<1>2. \A i \in 1..n : s[i] \in A
  BY ElementOfSeq
<1>3. \A i \in 1..n + 1 : t[i] \in A
  BY <1>1, ElementOfSeq
<1> HIDE DEF t, n
<1>4. /\ u \in Seq(Seq(S)) /\ Len(u) = n /\ \A i \in 1..n : u[i] = h[s[i]]
  BY <1>1, <1>2
<1>5. /\ v \in Seq(Seq(S)) /\ Len(v) = n + 1 /\ \A i \in 1..n + 1 : v[i] = h[t[i]]
  BY <1>1, <1>3
<1> HIDE DEF u, v
<1>6. /\ Append(u, h[x]) \in Seq(Seq(S)) /\ Len(Append(u, h[x])) = n + 1
      /\ \A i \in 1..n : Append(u, h[x])[i] = u[i]
      /\ Append(u, h[x])[n + 1] = h[x]
  <2>1. h[x] \in Seq(S)
    OBVIOUS
  <2> QED
    BY <1>4, <2>1, AppendProperties
<1>7. ASSUME NEW i \in 1..n + 1 PROVE v[i] = Append(u, h[x])[i]
  <2>1. CASE i = n + 1
    BY <1>1, <1>5, <1>6, <2>1
  <2>2. CASE i # n + 1
    <3>1. i \in 1..n
      BY <1>1, <2>2
    <3>2. Append(u, h[x])[i] = u[i] /\ u[i] = h[s[i]] /\ t[i] = s[i]
      BY <1>1, <1>4, <1>6, <3>1
    <3> QED
      BY <1>5, <3>2
  <2> QED
    BY <2>1, <2>2
<1>8. v = Append(u, h[x])
  BY <1>5, <1>6, <1>7, SeqEqual
<1>9. FlattenSeq(v) = FlattenSeq(u) \o h[x] /\ FlattenSeq(u) \in Seq(S)
  BY <1>4, <1>8, FlattenAppend, FlattenType
<1>10. FlatMap(s, h) = FlattenSeq(u)
  BY DEF FlatMap, u, n
<1>11. FlatMap(t, h) = FlattenSeq(v)
  BY <1>1 DEF FlatMap, v
<1> QED
  BY <1>9, <1>10, <1>11 DEF t

=============================================================================
