-------------------------- MODULE WireReplayProofs --------------------------
(* A streamed answer says what the draft says, for every draft, every place  *)
(* where tokens may end and every mode: proofs about WireReplay.             *)
EXTENDS WireReplay, SelectionTheorems, FiniteSetTheorems

-----------------------------------------------------------------------------
(* The two readers, one chunk at a time                                     *)

\* What Reading means: the accumulator after every beginning of the frames.
Reads(frames, n, f) ==
  f = [i \in 0..n |-> IF i = 0 THEN Blank ELSE Read(f[i - 1], frames[i])]

LEMMA ReadsExists ==
  ASSUME NEW frames
  PROVE  \A n \in Nat : \E f : Reads(frames, n, f)
<1> DEFINE Solved == {n \in Nat : \E f : Reads(frames, n, f)}
<1>1. 0 \in Solved
  <2>1. Reads(frames, 0, [i \in 0..0 |-> Blank])
    BY DEF Reads
  <2> QED
    BY <2>1
<1>2. ASSUME NEW n \in Nat, n \in Solved
      PROVE  n + 1 \in Solved
  <2>1. PICK f : Reads(frames, n, f)
    BY <1>2
  <2> DEFINE g == [i \in 0..n + 1 |-> IF i =< n THEN f[i] ELSE Read(f[i - 1], frames[i])]
  <2>2. \A i \in 0..n : f[i] = IF i = 0 THEN Blank ELSE Read(f[i - 1], frames[i])
    BY <2>1 DEF Reads
  <2>3. \A i \in 0..n + 1 : g[i] = IF i = 0 THEN Blank ELSE Read(g[i - 1], frames[i])
    <3>1. \A i \in 0..n : g[i] = f[i]
      OBVIOUS
    <3>2. \A i \in 0..n + 1 : i # 0 => i - 1 \in 0..n
      OBVIOUS
    <3> QED
      BY <2>2, <3>1, <3>2
  <2>4. g = [i \in 0..n + 1 |-> g[i]]
    OBVIOUS
  <2> HIDE DEF g
  <2>5. Reads(frames, n + 1, g)
    BY <2>3, <2>4 DEF Reads
  <2> QED
    BY <2>5
<1> HIDE DEF Solved
<1>3. \A n \in Nat : n \in Solved
  BY <1>1, <1>2, NatSetInduction
<1> QED
  BY <1>3 DEF Solved

LEMMA ReadsDef ==
  ASSUME NEW S, NEW s \in Seq(S)
  PROVE  \E f : Reads(s, Len(s), f) /\ Reading(s) = f[Len(s)]
<1>1. Len(s) \in Nat
  BY LenProperties
<1> DEFINE f == CHOOSE g : Reads(s, Len(s), g)
<1>2. Reads(s, Len(s), f)
  BY <1>1, ReadsExists
<1>3. Reading(s) = f[Len(s)]
  BY DEF Reading, Reads
<1> QED
  BY <1>2, <1>3

LEMMA ReadsAgree ==
  ASSUME NEW s, NEW t, NEW n \in Nat, NEW m \in Nat, NEW f, NEW g,
         Reads(s, n, f), Reads(t, m, g),
         NEW k \in Nat, k =< n, k =< m,
         \A i \in 1..k : s[i] = t[i]
  PROVE  f[k] = g[k]
<1> DEFINE Same == {i \in Nat : i =< k => f[i] = g[i]}
<1>0. /\ \A i \in 0..n : f[i] = IF i = 0 THEN Blank ELSE Read(f[i - 1], s[i])
      /\ \A i \in 0..m : g[i] = IF i = 0 THEN Blank ELSE Read(g[i - 1], t[i])
  BY DEF Reads
<1>1. 0 \in Same
  BY <1>0
<1>2. ASSUME NEW i \in Nat, i \in Same PROVE i + 1 \in Same
  <2> SUFFICES ASSUME i + 1 =< k PROVE f[i + 1] = g[i + 1]
    OBVIOUS
  <2>1. /\ f[i] = g[i] /\ s[i + 1] = t[i + 1] /\ i + 1 \in 0..n /\ i + 1 \in 0..m
        /\ i + 1 # 0 /\ (i + 1) - 1 = i
    BY <1>2
  <2> QED
    BY <1>0, <2>1
<1> HIDE DEF Same
<1>3. \A i \in Nat : i \in Same
  BY <1>1, <1>2, NatSetInduction
<1> QED
  BY <1>3 DEF Same

LEMMA ReadingEmpty == Reading(<<>>) = Blank
<1>1. <<>> \in Seq({}) /\ Len(<<>>) = 0
  BY EmptySeq
<1>2. PICK f : Reads(<<>>, 0, f) /\ Reading(<<>>) = f[0]
  BY <1>1, ReadsDef
<1> QED
  BY <1>2 DEF Reads

LEMMA ReadingAppend ==
  ASSUME NEW S, NEW s \in Seq(S), NEW c \in S
  PROVE  Reading(Append(s, c)) = Read(Reading(s), c)
<1> DEFINE t == Append(s, c)
           n == Len(s)
<1>1. /\ t \in Seq(S) /\ n \in Nat /\ Len(t) = n + 1
      /\ \A i \in 1..n : s[i] = t[i]
      /\ t[n + 1] = c
  BY AppendProperties, LenProperties
<1>2. PICK f : Reads(s, n, f) /\ Reading(s) = f[n]
  BY ReadsDef
<1> HIDE DEF t, n
<1>3. PICK g : Reads(t, n + 1, g) /\ Reading(t) = g[n + 1]
  BY <1>1, ReadsDef
<1>4. f[n] = g[n]
  <2>1. n + 1 \in Nat /\ n =< n /\ n =< n + 1
    BY <1>1
  <2> QED
    BY <1>1, <1>2, <1>3, <2>1, ReadsAgree
<1>5. n + 1 \in 0..n + 1 /\ n + 1 # 0 /\ (n + 1) - 1 = n
  BY <1>1
<1>6. g[n + 1] = Read(g[n], c)
  BY <1>1, <1>3, <1>5 DEF Reads
<1> QED
  BY <1>2, <1>3, <1>4, <1>6 DEF t

\* The same of the client's calls.
CallStep(calls, c) ==
  IF c.kind \in {"call", "fragment"} THEN StreamCall(calls, c) ELSE calls

Hears(frames, n, f) ==
  f = [i \in 0..n |-> IF i = 0 THEN <<>> ELSE CallStep(f[i - 1], frames[i])]

LEMMA HearsExists ==
  ASSUME NEW frames
  PROVE  \A n \in Nat : \E f : Hears(frames, n, f)
<1> DEFINE Solved == {n \in Nat : \E f : Hears(frames, n, f)}
<1>1. 0 \in Solved
  <2>1. Hears(frames, 0, [i \in 0..0 |-> <<>>])
    BY DEF Hears
  <2> QED
    BY <2>1
<1>2. ASSUME NEW n \in Nat, n \in Solved
      PROVE  n + 1 \in Solved
  <2>1. PICK f : Hears(frames, n, f)
    BY <1>2
  <2> DEFINE g == [i \in 0..n + 1 |-> IF i =< n THEN f[i] ELSE CallStep(f[i - 1], frames[i])]
  <2>2. \A i \in 0..n : f[i] = IF i = 0 THEN <<>> ELSE CallStep(f[i - 1], frames[i])
    BY <2>1 DEF Hears
  <2>3. \A i \in 0..n + 1 : g[i] = IF i = 0 THEN <<>> ELSE CallStep(g[i - 1], frames[i])
    <3>1. \A i \in 0..n : g[i] = f[i]
      OBVIOUS
    <3>2. \A i \in 0..n + 1 : i # 0 => i - 1 \in 0..n
      OBVIOUS
    <3> QED
      BY <2>2, <3>1, <3>2
  <2>4. g = [i \in 0..n + 1 |-> g[i]]
    OBVIOUS
  <2> HIDE DEF g
  <2>5. Hears(frames, n + 1, g)
    BY <2>3, <2>4 DEF Hears
  <2> QED
    BY <2>5
<1> HIDE DEF Solved
<1>3. \A n \in Nat : n \in Solved
  BY <1>1, <1>2, NatSetInduction
<1> QED
  BY <1>3 DEF Solved

LEMMA HearsDef ==
  ASSUME NEW S, NEW s \in Seq(S)
  PROVE  \E f : Hears(s, Len(s), f) /\ StreamCalls(s) = f[Len(s)]
<1>1. Len(s) \in Nat
  BY LenProperties
<1> DEFINE f == CHOOSE g : Hears(s, Len(s), g)
<1>2. Hears(s, Len(s), f)
  BY <1>1, HearsExists
<1>3. StreamCalls(s) = f[Len(s)]
  BY DEF StreamCalls, Hears, CallStep
<1> QED
  BY <1>2, <1>3

LEMMA HearsAgree ==
  ASSUME NEW s, NEW t, NEW n \in Nat, NEW m \in Nat, NEW f, NEW g,
         Hears(s, n, f), Hears(t, m, g),
         NEW k \in Nat, k =< n, k =< m,
         \A i \in 1..k : s[i] = t[i]
  PROVE  f[k] = g[k]
<1> DEFINE Same == {i \in Nat : i =< k => f[i] = g[i]}
<1>0. /\ \A i \in 0..n : f[i] = IF i = 0 THEN <<>> ELSE CallStep(f[i - 1], s[i])
      /\ \A i \in 0..m : g[i] = IF i = 0 THEN <<>> ELSE CallStep(g[i - 1], t[i])
  BY DEF Hears
<1>1. 0 \in Same
  BY <1>0
<1>2. ASSUME NEW i \in Nat, i \in Same PROVE i + 1 \in Same
  <2> SUFFICES ASSUME i + 1 =< k PROVE f[i + 1] = g[i + 1]
    OBVIOUS
  <2>1. /\ f[i] = g[i] /\ s[i + 1] = t[i + 1] /\ i + 1 \in 0..n /\ i + 1 \in 0..m
        /\ i + 1 # 0 /\ (i + 1) - 1 = i
    BY <1>2
  <2> QED
    BY <1>0, <2>1
<1> HIDE DEF Same
<1>3. \A i \in Nat : i \in Same
  BY <1>1, <1>2, NatSetInduction
<1> QED
  BY <1>3 DEF Same

LEMMA StreamCallsEmpty == StreamCalls(<<>>) = <<>>
<1>1. <<>> \in Seq({}) /\ Len(<<>>) = 0
  BY EmptySeq
<1>2. PICK f : Hears(<<>>, 0, f) /\ StreamCalls(<<>>) = f[0]
  BY <1>1, HearsDef
<1> QED
  BY <1>2 DEF Hears

LEMMA StreamCallsAppend ==
  ASSUME NEW S, NEW s \in Seq(S), NEW c \in S
  PROVE  StreamCalls(Append(s, c)) = CallStep(StreamCalls(s), c)
<1> DEFINE t == Append(s, c)
           n == Len(s)
<1>1. /\ t \in Seq(S) /\ n \in Nat /\ Len(t) = n + 1
      /\ \A i \in 1..n : s[i] = t[i]
      /\ t[n + 1] = c
  BY AppendProperties, LenProperties
<1>2. PICK f : Hears(s, n, f) /\ StreamCalls(s) = f[n]
  BY HearsDef
<1> HIDE DEF t, n
<1>3. PICK g : Hears(t, n + 1, g) /\ StreamCalls(t) = g[n + 1]
  BY <1>1, HearsDef
<1>4. f[n] = g[n]
  <2>1. n + 1 \in Nat /\ n =< n /\ n =< n + 1
    BY <1>1
  <2> QED
    BY <1>1, <1>2, <1>3, <2>1, HearsAgree
<1>5. n + 1 \in 0..n + 1 /\ n + 1 # 0 /\ (n + 1) - 1 = n
  BY <1>1
<1>6. g[n + 1] = CallStep(g[n], c)
  BY <1>1, <1>3, <1>5 DEF Hears
<1> QED
  BY <1>2, <1>3, <1>4, <1>6 DEF t

-----------------------------------------------------------------------------
(* A text, its bytes and its pieces                                         *)

ByteSet == Chars \X {1, 2}

LastOf(b) == b[2] = Width(b[1])    \* the last byte of its character

LEMMA WidthType ==
  ASSUME NEW c
  PROVE  Width(c) \in {1, 2}
BY DEF Width

\* The bytes of one character.
LEMMA BytesAppend ==
  ASSUME NEW t \in Texts, NEW c \in Chars
  PROVE  /\ Bytes(t) \in Seq(ByteSet)
         /\ Bytes(Append(t, c)) =
              IF Width(c) = 1 THEN Append(Bytes(t), <<c, 1>>)
                              ELSE Append(Append(Bytes(t), <<c, 1>>), <<c, 2>>)
<1> DEFINE one == <<c, 1>>
           two == <<c, 2>>
<1>0. PICK h : h = [x \in Chars |-> [k \in 1..Width(x) |-> <<x, k>>]]
  OBVIOUS
<1>1. \A x \in Chars : h[x] \in Seq(ByteSet)
  <2>1. \A x \in Chars : [k \in 1..Width(x) |-> <<x, k>>] \in Seq(ByteSet)
    BY WidthType DEF ByteSet
  <2> QED
    BY <1>0, <2>1
<1>2. h[c] = IF Width(c) = 1 THEN <<one>> ELSE <<one, two>>
  <2>1. h[c] = [k \in 1..Width(c) |-> <<c, k>>]
    BY <1>0
  <2>2. /\ [k \in 1..1 |-> <<c, k>>] = <<one>>
        /\ [k \in 1..2 |-> <<c, k>>] = <<one, two>>
    OBVIOUS
  <2> QED
    BY <2>1, <2>2, WidthType
<1>3. \A s \in Texts : Bytes(s) = FlatMap(s, h)
  <2>1. SUFFICES ASSUME NEW s \in Texts PROVE Bytes(s) = FlatMap(s, h)
    OBVIOUS
  <2>2. \A i \in 1..Len(s) : s[i] \in Chars
    BY ElementOfSeq DEF Texts
  <2>3. [i \in 1..Len(s) |-> h[s[i]]] = [i \in 1..Len(s) |-> [k \in 1..Width(s[i]) |-> <<s[i], k>>]]
    BY <1>0, <2>2
  <2> QED
    BY <2>3 DEF Bytes, FlatMap
<1>4. one \in ByteSet /\ two \in ByteSet /\ Append(t, c) \in Texts
  BY AppendProperties DEF ByteSet, Texts
<1> HIDE DEF one, two
<1>5. Bytes(t) \in Seq(ByteSet) /\ Bytes(Append(t, c)) = Bytes(t) \o h[c]
  <2>1. t \in Seq(Chars)
    BY DEF Texts
  <2>2. FlatMap(t, h) \in Seq(ByteSet)
    BY <1>1, <2>1, FlatMapAppend
  <2>3. FlatMap(Append(t, c), h) = FlatMap(t, h) \o h[c]
    BY <1>1, <2>1, FlatMapAppend
  <2> QED
    BY <1>3, <1>4, <2>2, <2>3
<1> DEFINE b == Bytes(t)
<1> HIDE DEF b
<1>6. b \o <<one>> = Append(b, one)
  BY <1>4, <1>5, AppendIsConcat DEF b
<1>7. b \o <<one, two>> = Append(Append(b, one), two)
  <2>1. <<one>> \in Seq(ByteSet) /\ <<two>> \in Seq(ByteSet) /\ <<one>> \o <<two>> = <<one, two>>
    BY <1>4, Tuples
  <2>2. (b \o <<one>>) \o <<two>> = b \o (<<one>> \o <<two>>)
    BY <1>5, <2>1, ConcatAssociative DEF b
  <2>3. Append(b, one) \in Seq(ByteSet)
    BY <1>4, <1>5, AppendProperties DEF b
  <2>4. Append(b, one) \o <<two>> = Append(Append(b, one), two)
    BY <1>4, <2>3, AppendIsConcat
  <2> QED
    BY <1>6, <2>1, <2>2, <2>4
<1> QED
  BY <1>2, <1>5, <1>6, <1>7 DEF b, one, two

LEMMA BytesEmpty == Bytes(<<>>) = <<>>
<1>1. Len(<<>>) = 0
  BY EmptySeq
<1>2. [i \in 1..Len(<<>>) |-> [k \in 1..Width(<<>>[i]) |-> <<<<>>[i], k>>]] = <<>>
  BY <1>1
<1> QED
  BY <1>2, FlattenEmpty DEF Bytes

First(b) == IF b[2] = 1 THEN <<b[1]>> ELSE <<>>

LEMMA FirstsAppend ==
  ASSUME NEW s \in Seq(ByteSet), NEW b \in ByteSet
  PROVE  /\ Firsts(s) \in Texts /\ First(b) \in Texts
         /\ Firsts(Append(s, b)) = Firsts(s) \o First(b)
<1>0. PICK h : h = [x \in ByteSet |-> First(x)]
  OBVIOUS
<1>1. \A x \in ByteSet : First(x) \in Texts
  BY EmptySeq DEF First, Texts, ByteSet
<1>2. \A x \in ByteSet : h[x] \in Seq(Chars)
  BY <1>0, <1>1 DEF Texts
<1>3. \A r \in Seq(ByteSet) : Firsts(r) = FlatMap(r, h)
  <2>1. SUFFICES ASSUME NEW r \in Seq(ByteSet) PROVE Firsts(r) = FlatMap(r, h)
    OBVIOUS
  <2>2. \A i \in 1..Len(r) : r[i] \in ByteSet
    BY ElementOfSeq
  <2>3. [i \in 1..Len(r) |-> h[r[i]]] = [i \in 1..Len(r) |-> IF r[i][2] = 1 THEN <<r[i][1]>> ELSE <<>>]
    BY <1>0, <2>2 DEF First
  <2> QED
    BY <2>3 DEF Firsts, FlatMap
<1>4. h[b] = First(b) /\ Append(s, b) \in Seq(ByteSet)
  BY <1>0, AppendProperties
<1>5. FlatMap(s, h) \in Seq(Chars)
  BY <1>2, FlatMapAppend
<1>6. FlatMap(Append(s, b), h) = FlatMap(s, h) \o h[b]
  BY <1>2, FlatMapAppend
<1> QED
  BY <1>1, <1>3, <1>4, <1>5, <1>6 DEF Texts

LEMMA FirstsEmpty == Firsts(<<>>) = <<>>
<1>1. Len(<<>>) = 0
  BY EmptySeq
<1>2. [k \in 1..Len(<<>>) |-> IF <<>>[k][2] = 1 THEN <<<<>>[k][1]>> ELSE <<>>] = <<>>
  BY <1>1
<1> QED
  BY <1>2, FlattenEmpty DEF Firsts

\* Bytes begin with the first byte of a character and end with the last byte of
\* one, and after the last byte of a character comes the first of the next.
Fits(b) ==
  /\ b \in Seq(ByteSet)
  /\ b # <<>> => b[1][2] = 1 /\ LastOf(b[Len(b)])
  /\ \A k \in 1..Len(b) : k + 1 =< Len(b) /\ LastOf(b[k]) => b[k + 1][2] = 1

LEMMA BytesFit ==
  \A t \in Texts : /\ Fits(Bytes(t))
                   /\ Firsts(Bytes(t)) = t
                   /\ t # <<>> => Bytes(t) # <<>>
<1> DEFINE T == {t \in Texts : /\ Fits(Bytes(t))
                               /\ Firsts(Bytes(t)) = t
                               /\ t # <<>> => Bytes(t) # <<>>}
<1>1. <<>> \in T
  <2>1. <<>> \in Texts /\ <<>> \in Seq(ByteSet) /\ Len(<<>>) = 0
    BY EmptySeq DEF Texts
  <2>2. Fits(<<>>)
    BY <2>1 DEF Fits
  <2> QED
    BY <2>1, <2>2, BytesEmpty, FirstsEmpty
<1>2. ASSUME NEW t \in Seq(Chars), NEW c \in Chars, t \in T
      PROVE  Append(t, c) \in T
  <2> DEFINE b == Bytes(t)
             one == <<c, 1>>
             two == <<c, 2>>
             b1 == Append(b, one)
             b2 == Append(b1, two)
  <2>1. Fits(b) /\ Firsts(b) = t /\ t \in Texts /\ Append(t, c) \in Texts
    BY <1>2, AppendProperties DEF Texts
  <2>2. Bytes(Append(t, c)) = IF Width(c) = 1 THEN b1 ELSE b2
    BY <2>1, BytesAppend
  <2>3. one \in ByteSet /\ two \in ByteSet /\ one[2] = 1 /\ one[1] = c /\ two[2] = 2 /\ two[1] = c
    BY DEF ByteSet
  <2> HIDE DEF b, one, two
  <2>4. b \in Seq(ByteSet) /\ Len(b) \in Nat
    BY <2>1, LenProperties DEF Fits
  <2>5. /\ b1 \in Seq(ByteSet) /\ b1 # <<>> /\ Len(b1) = Len(b) + 1
        /\ \A i \in 1..Len(b) : b1[i] = b[i]
        /\ b1[Len(b) + 1] = one
    BY <2>3, <2>4, AppendProperties
  <2> HIDE DEF b1
  <2>6. /\ b2 \in Seq(ByteSet) /\ b2 # <<>> /\ Len(b2) = Len(b) + 2
        /\ \A i \in 1..Len(b) + 1 : b2[i] = b1[i]
        /\ b2[Len(b) + 2] = two
    <3>1. /\ Append(b1, two) \in Seq(ByteSet) /\ Append(b1, two) # <<>>
          /\ Len(Append(b1, two)) = Len(b1) + 1
          /\ \A i \in 1..Len(b1) : Append(b1, two)[i] = b1[i]
          /\ Append(b1, two)[Len(b1) + 1] = two
      BY <2>3, <2>5, AppendProperties
    <3>2. Len(b1) + 1 = Len(b) + 2
      BY <2>4, <2>5
    <3> QED
      BY <2>5, <3>1, <3>2
  <2> HIDE DEF b2
  <2>7. b # <<>> => Len(b) # 0 /\ b[1][2] = 1 /\ LastOf(b[Len(b)])
    BY <2>1, <2>4, EmptySeq DEF Fits
  <2>8. b = <<>> => Len(b) = 0
    BY EmptySeq
  <2>9. b1[1][2] = 1
    BY <2>3, <2>4, <2>5, <2>7, <2>8
  <2>10. \A k \in 1..Len(b1) : k + 1 =< Len(b1) /\ LastOf(b1[k]) => b1[k + 1][2] = 1
    <3>1. SUFFICES ASSUME NEW k \in 1..Len(b), LastOf(b1[k]) PROVE b1[k + 1][2] = 1
      BY <2>4, <2>5
    <3>2. CASE k = Len(b)
      BY <2>3, <2>5, <3>2
    <3>3. CASE k # Len(b)
      <4>1. k + 1 \in 1..Len(b) /\ k + 1 =< Len(b) /\ b1[k] = b[k] /\ b1[k + 1] = b[k + 1]
        BY <2>4, <2>5, <3>3
      <4> QED
        BY <2>1, <3>1, <4>1 DEF Fits
    <3> QED
      BY <3>2, <3>3
  <2>11. CASE Width(c) = 1
    <3>1. LastOf(one)
      BY <2>3, <2>11 DEF LastOf
    <3>2. Fits(b1)
      BY <2>5, <2>9, <2>10, <3>1 DEF Fits
    <3>3. Firsts(b1) = Firsts(b) \o First(one)
      BY <2>3, <2>4, FirstsAppend DEF b1
    <3>4. First(one) = <<c>>
      BY <2>3 DEF First
    <3>5. Append(t, c) = t \o <<c>>
      BY AppendIsConcat
    <3> QED
      BY <2>1, <2>2, <2>5, <2>11, <3>2, <3>3, <3>4, <3>5
  <2>12. CASE Width(c) # 1
    <3>1. LastOf(two) /\ ~LastOf(one)
      BY <2>3, <2>12, WidthType DEF LastOf
    <3>2. \A k \in 1..Len(b2) : k + 1 =< Len(b2) /\ LastOf(b2[k]) => b2[k + 1][2] = 1
      <4>1. SUFFICES ASSUME NEW k \in 1..Len(b) + 1, LastOf(b2[k]) PROVE b2[k + 1][2] = 1
        BY <2>4, <2>6
      <4>2. k # Len(b) + 1
        BY <2>4, <2>5, <2>6, <3>1, <4>1
      <4>3. k \in 1..Len(b1) /\ k + 1 =< Len(b1) /\ b2[k] = b1[k] /\ b2[k + 1] = b1[k + 1]
        BY <2>4, <2>5, <2>6, <4>2
      <4> QED
        BY <2>10, <4>1, <4>3
    <3>3. b2[1][2] = 1
      BY <2>4, <2>6, <2>9
    <3>4. Fits(b2)
      BY <2>6, <3>1, <3>2, <3>3 DEF Fits
    <3>5. Firsts(b1) = Firsts(b) \o First(one)
      BY <2>3, <2>4, FirstsAppend DEF b1
    <3>6. Firsts(b2) = Firsts(b1) \o First(two) /\ Firsts(b1) \in Texts
      BY <2>3, <2>5, FirstsAppend DEF b2
    <3>7. First(one) = <<c>> /\ First(two) = <<>>
      BY <2>3 DEF First
    <3>8. Append(t, c) = t \o <<c>> /\ Firsts(b1) \o <<>> = Firsts(b1)
      BY <3>6, AppendIsConcat, ConcatEmptySeq DEF Texts
    <3> QED
      BY <2>1, <2>2, <2>6, <2>12, <3>4, <3>5, <3>6, <3>7, <3>8
  <2> QED
    BY <2>11, <2>12
<1> HIDE DEF T
<1>3. \A t \in Seq(Chars) : t \in T
  BY <1>1, <1>2, SeqSetInduction
<1> QED
  BY <1>3 DEF T, Texts

\* What SplitPieces means: the accumulator after every beginning of the bytes.
Nothing == [pieces |-> <<>>, buf |-> <<>>]

Takes(bytes, ends, n, f) ==
  f = [i \in 0..n |->
         IF i = 0 THEN Nothing
         ELSE TakeByte(f[i - 1], bytes[i], i \in ends \/ i = Len(bytes))]

LEMMA TakesExists ==
  ASSUME NEW bytes, NEW ends
  PROVE  \A n \in Nat : \E f : Takes(bytes, ends, n, f)
<1> DEFINE Solved == {n \in Nat : \E f : Takes(bytes, ends, n, f)}
           Taken(acc, i) == TakeByte(acc, bytes[i], i \in ends \/ i = Len(bytes))
<1>1. 0 \in Solved
  <2>1. Takes(bytes, ends, 0, [i \in 0..0 |-> Nothing])
    BY DEF Takes
  <2> QED
    BY <2>1
<1>2. ASSUME NEW n \in Nat, n \in Solved
      PROVE  n + 1 \in Solved
  <2>1. PICK f : Takes(bytes, ends, n, f)
    BY <1>2
  <2> HIDE DEF Taken
  <2> DEFINE g == [i \in 0..n + 1 |-> IF i =< n THEN f[i] ELSE Taken(f[i - 1], i)]
  <2>2. \A i \in 0..n : f[i] = IF i = 0 THEN Nothing ELSE Taken(f[i - 1], i)
    BY <2>1 DEF Takes, Taken
  <2>3. \A i \in 0..n + 1 : g[i] = IF i = 0 THEN Nothing ELSE Taken(g[i - 1], i)
    <3>1. \A i \in 0..n : g[i] = f[i]
      OBVIOUS
    <3>2. \A i \in 0..n + 1 : i # 0 => i - 1 \in 0..n
      OBVIOUS
    <3> QED
      BY <2>2, <3>1, <3>2
  <2>4. g = [i \in 0..n + 1 |-> g[i]]
    OBVIOUS
  <2> HIDE DEF g
  <2>5. g = [i \in 0..n + 1 |-> IF i = 0 THEN Nothing ELSE Taken(g[i - 1], i)]
    BY <2>3, <2>4
  <2>6. Takes(bytes, ends, n + 1, g)
    BY <2>5 DEF Takes, Taken
  <2> QED
    BY <2>6
<1> HIDE DEF Solved
<1>3. \A n \in Nat : n \in Solved
  BY <1>1, <1>2, NatSetInduction
<1> QED
  BY <1>3 DEF Solved

LEMMA SplitDef ==
  ASSUME NEW text, NEW ends, Bytes(text) \in Seq(ByteSet)
  PROVE  \E f : /\ Takes(Bytes(text), ends, Len(Bytes(text)), f)
                /\ f[Len(Bytes(text))].buf = <<>> =>
                     SplitPieces(text, ends) = f[Len(Bytes(text))].pieces
<1>1. Len(Bytes(text)) \in Nat
  BY LenProperties
<1> DEFINE f == CHOOSE g : Takes(Bytes(text), ends, Len(Bytes(text)), g)
<1>2. Takes(Bytes(text), ends, Len(Bytes(text)), f)
  BY <1>1, TakesExists
<1>3. SplitPieces(text, ends) =
        IF f[Len(Bytes(text))].buf = <<>> THEN f[Len(Bytes(text))].pieces
        ELSE Append(f[Len(Bytes(text))].pieces, Decode(f[Len(Bytes(text))].buf))
  BY DEF SplitPieces, Takes, Nothing
<1> HIDE DEF f
<1> QED
  BY <1>2, <1>3

\* After n bytes: what was cut off and what is kept say what was read, the kept
\* bytes start where a character starts, and so does what comes next if none is kept.
Halfway(bytes, n, acc) ==
  /\ acc = [pieces |-> acc.pieces, buf |-> acc.buf]
  /\ acc.pieces \in Seq(Texts) /\ acc.buf \in Seq(ByteSet)
  /\ FlattenSeq(acc.pieces) \o Firsts(acc.buf) = Firsts(SubSeq(bytes, 1, n))
  /\ acc.buf # <<>> => acc.buf[1][2] = 1
  /\ acc.buf = <<>> /\ n < Len(bytes) => bytes[n + 1][2] = 1
  /\ n = Len(bytes) => acc.buf = <<>>

LEMMA TakesOne ==
  ASSUME NEW bytes, Fits(bytes), NEW n \in 0..Len(bytes) - 1, NEW acc,
         Halfway(bytes, n, acc), NEW ended \in BOOLEAN, n + 1 = Len(bytes) => ended
  PROVE  Halfway(bytes, n + 1, TakeByte(acc, bytes[n + 1], ended))
<1>0. /\ bytes \in Seq(ByteSet) /\ Len(bytes) \in Nat /\ n \in Nat
      /\ n + 1 \in 1..Len(bytes)
  BY LenProperties DEF Fits
<1>1. PICK b : b = bytes[n + 1] /\ b \in ByteSet
  BY <1>0, ElementOfSeq
<1>2. PICK p, q : p = acc.pieces /\ q = acc.buf
  OBVIOUS
<1>3. /\ p \in Seq(Texts) /\ q \in Seq(ByteSet)
      /\ FlattenSeq(p) \o Firsts(q) = Firsts(SubSeq(bytes, 1, n))
      /\ q # <<>> => q[1][2] = 1
      /\ q = <<>> => b[2] = 1
  BY <1>0, <1>1, <1>2 DEF Halfway
<1>4. PICK r : r = Append(q, b)
  OBVIOUS
<1>5. /\ r \in Seq(ByteSet) /\ r # <<>> /\ Len(q) \in Nat /\ Len(r) = Len(q) + 1
      /\ \A i \in 1..Len(q) : r[i] = q[i]
      /\ r[Len(q) + 1] = b
  BY <1>1, <1>3, <1>4, AppendProperties, LenProperties
<1>6. r[1][2] = 1
  <2>1. CASE q = <<>>
    <3>1. Len(q) = 0
      BY <2>1, EmptySeq
    <3> QED
      BY <1>3, <1>5, <2>1, <3>1
  <2>2. CASE q # <<>>
    <3>1. Len(q) # 0
      BY <1>3, <2>2, EmptySeq
    <3>2. 1 \in 1..Len(q)
      BY <1>5, <3>1
    <3> QED
      BY <1>3, <1>5, <2>2, <3>2
  <2> QED
    BY <2>1, <2>2
<1>7. Whole(r) <=> LastOf(b)
  BY <1>5, <1>6 DEF Whole, LastOf
<1>8. FlattenSeq(p) \in Texts
  <2>1. p \in Seq(Seq(Chars))
    BY <1>3 DEF Texts
  <2> QED
    BY <2>1, FlattenType DEF Texts
<1>9. Firsts(q) \in Texts /\ First(b) \in Texts /\ Firsts(r) = Firsts(q) \o First(b)
  BY <1>1, <1>3, <1>4, FirstsAppend
<1>10. Firsts(r) \in Texts
  BY <1>9, ConcatProperties DEF Texts
<1>11. FlattenSeq(p) \o Firsts(r) = Firsts(SubSeq(bytes, 1, n + 1))
  <2>1. /\ SubSeq(bytes, 1, n) \in Seq(ByteSet)
        /\ SubSeq(bytes, 1, n + 1) = Append(SubSeq(bytes, 1, n), b)
    BY <1>0, <1>1, BeginningStep
  <2>2. Firsts(SubSeq(bytes, 1, n + 1)) = Firsts(SubSeq(bytes, 1, n)) \o First(b)
    BY <1>1, <2>1, FirstsAppend
  <2>3. (FlattenSeq(p) \o Firsts(q)) \o First(b) = FlattenSeq(p) \o (Firsts(q) \o First(b))
    BY <1>8, <1>9, ConcatAssociative DEF Texts
  <2> QED
    BY <1>3, <1>9, <2>2, <2>3
<1>12. LastOf(b) /\ n + 1 < Len(bytes) => bytes[(n + 1) + 1][2] = 1
  <2>1. n + 1 < Len(bytes) => (n + 1) + 1 =< Len(bytes)
    BY <1>0
  <2>2. \A k \in 1..Len(bytes) : k + 1 =< Len(bytes) /\ LastOf(bytes[k]) => bytes[k + 1][2] = 1
    BY DEF Fits
  <2> QED
    BY <1>0, <1>1, <2>1, <2>2
<1>13. n + 1 = Len(bytes) => LastOf(b)
  <2>1. bytes # <<>>
    BY <1>0, EmptySeq
  <2> QED
    BY <1>1, <2>1 DEF Fits
<1>14. CASE ended /\ LastOf(b)
  <2>1. TakeByte(acc, b, ended) = [pieces |-> Append(p, Firsts(r)), buf |-> <<>>]
    BY <1>2, <1>4, <1>7, <1>14 DEF TakeByte, Decode
  <2>2. PICK t : t = Append(p, Firsts(r))
    OBVIOUS
  <2>3. t \in Seq(Texts) /\ <<>> \in Seq(ByteSet)
    BY <1>3, <1>10, <2>2, AppendProperties, EmptySeq
  <2>4. FlattenSeq(t) = FlattenSeq(p) \o Firsts(r)
    <3>1. p \in Seq(Seq(Chars)) /\ Firsts(r) \in Seq(Chars)
      BY <1>3, <1>10 DEF Texts
    <3> QED
      BY <2>2, <3>1, FlattenAppend
  <2>5. FlattenSeq(t) \o Firsts(<<>>) = Firsts(SubSeq(bytes, 1, n + 1))
    <3>1. FlattenSeq(t) \in Seq(Chars)
      BY <1>8, <1>10, <2>4, ConcatProperties DEF Texts
    <3> QED
      BY <1>11, <2>4, <3>1, FirstsEmpty, ConcatEmptySeq
  <2>6. PICK new : new = TakeByte(acc, b, ended)
    OBVIOUS
  <2>7. new.pieces = t /\ new.buf = <<>> /\ new = [pieces |-> new.pieces, buf |-> new.buf]
    BY <2>1, <2>2, <2>6
  <2>8. n + 1 < Len(bytes) => bytes[(n + 1) + 1][2] = 1
    BY <1>12, <1>14
  <2>9. Halfway(bytes, n + 1, new)
    BY <2>3, <2>5, <2>7, <2>8 DEF Halfway
  <2> QED
    BY <1>1, <2>6, <2>9
<1>15. CASE ~(ended /\ LastOf(b))
  <2>1. TakeByte(acc, b, ended) = [pieces |-> p, buf |-> r]
    BY <1>2, <1>4, <1>7, <1>15 DEF TakeByte
  <2>2. n + 1 # Len(bytes)
    BY <1>13, <1>15
  <2> QED
    BY <1>1, <1>3, <1>5, <1>6, <1>11, <2>1, <2>2 DEF Halfway
<1> QED
  BY <1>14, <1>15

\* The pieces of a text, laid end to end, are the text, wherever its tokens end.
LEMMA SplitJoins ==
  ASSUME NEW text \in Texts, text # <<>>, NEW ends
  PROVE  /\ SplitPieces(text, ends) \in Seq(Texts)
         /\ FlattenSeq(SplitPieces(text, ends)) = text
<1>1. PICK bytes : bytes = Bytes(text)
  OBVIOUS
<1>2. Fits(bytes) /\ Firsts(bytes) = text /\ bytes # <<>>
  BY <1>1, BytesFit
<1>3. bytes \in Seq(ByteSet) /\ Len(bytes) \in Nat /\ Len(bytes) # 0
  BY <1>2, LenProperties, EmptySeq DEF Fits
<1>4. PICK f : /\ Takes(bytes, ends, Len(bytes), f)
               /\ f[Len(bytes)].buf = <<>> => SplitPieces(text, ends) = f[Len(bytes)].pieces
  BY <1>1, <1>3, SplitDef
<1>5. \A i \in 0..Len(bytes) :
        f[i] = IF i = 0 THEN Nothing
               ELSE TakeByte(f[i - 1], bytes[i], i \in ends \/ i = Len(bytes))
  BY <1>4 DEF Takes
<1> DEFINE T == {n \in Nat : n =< Len(bytes) => Halfway(bytes, n, f[n])}
<1>6. 0 \in T
  <2>1. f[0] = Nothing
    BY <1>3, <1>5
  <2>2. /\ <<>> \in Seq(Texts) /\ <<>> \in Seq(ByteSet) /\ <<>> \in Seq(Chars)
        /\ SubSeq(bytes, 1, 0) = <<>> /\ <<>> \o <<>> = <<>>
    BY <1>3, EmptySeq, BeginningEnds, ConcatEmptySeq
  <2>3. bytes[0 + 1][2] = 1
    BY <1>2 DEF Fits
  <2>4. Halfway(bytes, 0, Nothing)
    BY <1>3, <2>2, <2>3, FlattenEmpty, FirstsEmpty DEF Halfway, Nothing
  <2> QED
    BY <2>1, <2>4
<1>7. ASSUME NEW n \in Nat, n \in T
      PROVE  n + 1 \in T
  <2>1. SUFFICES ASSUME n + 1 =< Len(bytes) PROVE Halfway(bytes, n + 1, f[n + 1])
    OBVIOUS
  <2>2. /\ n \in 0..Len(bytes) - 1 /\ Halfway(bytes, n, f[n])
        /\ n + 1 \in 0..Len(bytes) /\ n + 1 # 0 /\ (n + 1) - 1 = n
    BY <1>3, <1>7, <2>1
  <2>3. f[n + 1] = TakeByte(f[n], bytes[n + 1], n + 1 \in ends \/ n + 1 = Len(bytes))
    BY <1>5, <2>2
  <2>4. PICK ended \in BOOLEAN : ended = (n + 1 \in ends \/ n + 1 = Len(bytes))
    OBVIOUS
  <2>5. Halfway(bytes, n + 1, TakeByte(f[n], bytes[n + 1], ended))
    BY <1>2, <2>2, <2>4, TakesOne
  <2> QED
    BY <2>3, <2>4, <2>5
<1> HIDE DEF T
<1>8. \A n \in Nat : n \in T
  BY <1>6, <1>7, NatSetInduction
<1>9. Halfway(bytes, Len(bytes), f[Len(bytes)])
  BY <1>3, <1>8 DEF T
<1>10. PICK acc : acc = f[Len(bytes)]
  OBVIOUS
<1>11. /\ acc.buf = <<>> /\ acc.pieces \in Seq(Texts)
       /\ FlattenSeq(acc.pieces) \o Firsts(<<>>) = Firsts(SubSeq(bytes, 1, Len(bytes)))
  BY <1>9, <1>10 DEF Halfway
<1>12. FlattenSeq(acc.pieces) \in Seq(Chars)
  BY <1>11, FlattenType DEF Texts
<1>13. FlattenSeq(acc.pieces) = text
  BY <1>2, <1>3, <1>11, <1>12, FirstsEmpty, ConcatEmptySeq, BeginningEnds
<1> QED
  BY <1>4, <1>10, <1>11, <1>13

\* Wherever tokens end, the pieces of a text are texts and lie end to end as the text
\* (tokenizer.split_pieces): no character is lost, repeated or torn.
THEOREM PiecesJoin ==
  ASSUME NEW text \in Texts, NEW m \in Modes
  PROVE  Pieces(text, m) \in Seq(Texts) /\ FlattenSeq(Pieces(text, m)) = text
<1>1. CASE m.instant
  <2>1. Pieces(text, m) = <<text>> /\ text \in Seq(Chars)
    BY <1>1 DEF Pieces, Texts
  <2> QED
    BY <2>1, FlattenOne DEF Texts
<1>2. CASE ~m.instant /\ text = <<>>
  <2>1. Pieces(text, m) = SplitPieces(text, m.ends) /\ Bytes(text) = <<>> /\ <<>> \in Seq(ByteSet)
    BY <1>2, BytesEmpty, EmptySeq DEF Pieces
  <2>2. PICK f : /\ Takes(<<>>, m.ends, 0, f)
                 /\ f[0].buf = <<>> => SplitPieces(text, m.ends) = f[0].pieces
    <3>1. Len(<<>>) = 0
      BY EmptySeq
    <3> QED
      BY <2>1, <3>1, SplitDef
  <2>3. f[0] = Nothing
    BY <2>2 DEF Takes
  <2>4. SplitPieces(text, m.ends) = <<>> /\ <<>> \in Seq(Texts)
    BY <2>2, <2>3, EmptySeq DEF Nothing
  <2> QED
    BY <1>2, <2>1, <2>4, FlattenEmpty
<1>3. CASE ~m.instant /\ text # <<>>
  <2>1. Pieces(text, m) = SplitPieces(text, m.ends)
    BY <1>3 DEF Pieces
  <2> QED
    BY <1>3, <2>1, SplitJoins
<1> QED
  BY <1>1, <1>2, <1>3

-----------------------------------------------------------------------------
(* Both readers keep a list of calls                                        *)

Names    == STRING \cup {"none", "auto", "stop", "length", "tool_calls"}
Kinds    == {"role", "reasoning", "content", "call", "fragment", "finish", "usage", "done"}
ChunkSet == [kind : Kinds, index : Nat, label : Names, text : Texts]
SlotSet  == [id : Names, args : Texts]
DraftSet == [reasoning : Texts, content : Texts, tools : Seq(SlotSet), finish : Names]
AccSet   == [reasoning : Texts, content : Texts, slots : Seq(SlotSet),
             reason : Names, usage : BOOLEAN]

\* A call that comes next opens a slot, in the record and at the client.
LEMMA CallOpens ==
  ASSUME NEW slots \in Seq(SlotSet), NEW c \in ChunkSet,
         c.index = Len(slots) + 1, c.text = <<>>
  PROVE  /\ Append(slots, [id |-> c.label, args |-> <<>>]) \in Seq(SlotSet)
         /\ Slot(slots, c) = Append(slots, [id |-> c.label, args |-> <<>>])
         /\ StreamCall(slots, c) = Append(slots, [id |-> c.label, args |-> <<>>])
<1>1. /\ Len(slots) \in Nat /\ DOMAIN slots = 1..Len(slots)
      /\ c.index \notin DOMAIN slots
  BY LenProperties
<1>2. <<>> \o <<>> = <<>> /\ <<>> \in Texts
  BY EmptySeq, ConcatEmptySeq DEF Texts
<1>3. PICK new : new = [id |-> c.label, args |-> <<>>]
  OBVIOUS
<1>4. new \in SlotSet /\ new.id = c.label /\ new.args = <<>>
  BY <1>2, <1>3 DEF SlotSet, ChunkSet
<1>5. PICK r : r = Append(slots, new)
  OBVIOUS
<1>6. /\ r \in Seq(SlotSet) /\ Len(r) = Len(slots) + 1
      /\ \A i \in 1..Len(slots) : r[i] = slots[i]
      /\ r[Len(slots) + 1] = new
      /\ DOMAIN r = 1..Len(slots) + 1
  BY <1>4, <1>5, AppendProperties, LenProperties
<1>7. Slot(slots, c) = r
  <2>1. PICK empty : empty = [id |-> "none", args |-> <<>>]
    OBVIOUS
  <2>2. [id |-> IF c.label = "none" THEN empty.id ELSE c.label, args |-> empty.args \o c.text] = new
    BY <1>2, <1>3, <2>1
  <2>3. Slot(slots, c) = [j \in DOMAIN slots \cup {c.index} |->
                            IF j # c.index THEN slots[j] ELSE new]
    BY <1>1, <2>1, <2>2 DEF Slot
  <2>4. DOMAIN slots \cup {c.index} = 1..Len(slots) + 1
    BY <1>1
  <2>5. \A j \in 1..Len(slots) + 1 : r[j] = IF j # c.index THEN slots[j] ELSE new
    BY <1>1, <1>6
  <2>6. r = [j \in 1..Len(slots) + 1 |-> r[j]]
    BY <1>6
  <2> QED
    BY <2>3, <2>4, <2>5, <2>6
<1>8. StreamCall(slots, c) = r
  <2>1. PICK made : made = Append(slots, [id |-> "none", args |-> <<>>])
    OBVIOUS
  <2>2. PICK empty : empty = [id |-> "none", args |-> <<>>]
    OBVIOUS
  <2>3. empty \in SlotSet /\ made = Append(slots, empty)
    <3>1. empty \in SlotSet
      <4>1. "none" \in Names
        BY DEF Names
      <4>2. \A x \in Names, y \in Texts : [id |-> x, args |-> y] \in SlotSet
        BY DEF SlotSet
      <4> QED
        BY <1>2, <2>2, <4>1, <4>2
    <3>2. made = Append(slots, empty)
      BY <2>1, <2>2
    <3> QED
      BY <3>1, <3>2
  <2>4. /\ made \in Seq(SlotSet) /\ Len(made) = Len(slots) + 1
        /\ \A i \in 1..Len(slots) : made[i] = slots[i]
        /\ made[Len(slots) + 1] = empty
    BY <2>3, AppendProperties
  <2>5. c.index \in 1..Len(made)
    BY <1>1, <2>4
  <2>6. [id |-> IF c.label = "none" THEN made[c.index].id ELSE c.label,
         args |-> made[c.index].args \o c.text] = new
    BY <1>2, <1>3, <2>2, <2>4
  <2>7. StreamCall(slots, c) =
          [made EXCEPT ![c.index] =
             [id |-> IF c.label = "none" THEN made[c.index].id ELSE c.label,
              args |-> made[c.index].args \o c.text]]
    BY <1>1, <2>1, <2>4, <2>5, LenProperties DEF StreamCall
  <2>8. StreamCall(slots, c) = [made EXCEPT ![c.index] = new]
    BY <2>6, <2>7
  <2>9. PICK w : w = [made EXCEPT ![c.index] = new]
    OBVIOUS
  <2>10. /\ w \in Seq(SlotSet) /\ Len(w) = Len(made)
         /\ \A j \in 1..Len(made) : w[j] = IF j = c.index THEN new ELSE made[j]
    BY <1>4, <2>4, <2>5, <2>9, ExceptSeq
  <2>11. \A j \in 1..Len(made) : w[j] = r[j]
    BY <1>1, <1>6, <2>4, <2>10
  <2>12. w = r
    BY <1>6, <2>4, <2>10, <2>11, SeqEqual
  <2> QED
    BY <2>8, <2>9, <2>12
<1> QED
  BY <1>3, <1>5, <1>6, <1>7, <1>8

\* A fragment goes to the call it names, in the record and at the client.
Grown(slots, i, text) ==
  [slots EXCEPT ![i] = [id |-> slots[i].id, args |-> slots[i].args \o text]]

LEMMA FragmentGrows ==
  ASSUME NEW slots \in Seq(SlotSet), NEW c \in ChunkSet,
         c.index \in 1..Len(slots), c.label = "none"
  PROVE  /\ Grown(slots, c.index, c.text) \in Seq(SlotSet)
         /\ Slot(slots, c) = Grown(slots, c.index, c.text)
         /\ StreamCall(slots, c) = Grown(slots, c.index, c.text)
<1>1. Len(slots) \in Nat /\ DOMAIN slots = 1..Len(slots) /\ slots[c.index] \in SlotSet
  BY LenProperties, ElementOfSeq
<1>2. PICK new : new = [id |-> slots[c.index].id, args |-> slots[c.index].args \o c.text]
  OBVIOUS
<1>3. new \in SlotSet
  <2>1. slots[c.index].args \o c.text \in Texts
    BY <1>1, ConcatProperties DEF SlotSet, ChunkSet, Texts
  <2> QED
    BY <1>1, <1>2, <2>1 DEF SlotSet
<1>4. PICK r : r = [slots EXCEPT ![c.index] = new]
  OBVIOUS
<1>5. r \in Seq(SlotSet) /\ Grown(slots, c.index, c.text) = r
  BY <1>2, <1>3, <1>4, ExceptSeq DEF Grown
<1>6. Slot(slots, c) = r
  <2>1. DOMAIN slots \cup {c.index} = DOMAIN slots
    BY <1>1
  <2>2. Slot(slots, c) = [j \in DOMAIN slots |-> IF j # c.index THEN slots[j] ELSE new]
    BY <1>1, <1>2, <2>1 DEF Slot
  <2> QED
    BY <1>1, <1>4, <2>2
<1>7. StreamCall(slots, c) = r
  BY <1>1, <1>2, <1>4 DEF StreamCall
<1> QED
  BY <1>5, <1>6, <1>7

\* Slots without a gap are in the order of their indexes already.
LEMMA InOrderSeq ==
  ASSUME NEW slots \in Seq(SlotSet)
  PROVE  InOrder(slots) = slots
<1>1. /\ Len(slots) \in Nat /\ DOMAIN slots = 1..Len(slots)
      /\ slots = [k \in 1..Len(slots) |-> slots[k]]
  BY LenProperties
<1>2. \A i \in 1..Len(slots) : Cardinality({j \in DOMAIN slots : j =< i}) = i
  <2>1. SUFFICES ASSUME NEW i \in 1..Len(slots)
                 PROVE  Cardinality({j \in DOMAIN slots : j =< i}) = i
    OBVIOUS
  <2>2. {j \in DOMAIN slots : j =< i} = 1..i
    BY <1>1
  <2>3. Cardinality(1..i) = i
    BY FS_Interval
  <2> QED
    BY <2>2, <2>3
<1>3. Cardinality(DOMAIN slots) = Len(slots)
  BY <1>1, FS_Interval
<1>4. \A k \in 1..Len(slots) :
        (CHOOSE i \in DOMAIN slots : Cardinality({j \in DOMAIN slots : j =< i}) = k) = k
  <2>1. SUFFICES ASSUME NEW k \in 1..Len(slots)
                 PROVE  (CHOOSE i \in DOMAIN slots :
                           Cardinality({j \in DOMAIN slots : j =< i}) = k) = k
    OBVIOUS
  <2>2. \A i \in DOMAIN slots : Cardinality({j \in DOMAIN slots : j =< i}) = k <=> i = k
    BY <1>1, <1>2
  <2> QED
    BY <1>1, <2>2
<1>5. InOrder(slots) =
        [k \in 1..Len(slots) |->
           slots[CHOOSE i \in DOMAIN slots : Cardinality({j \in DOMAIN slots : j =< i}) = k]]
  BY <1>3 DEF InOrder
<1> QED
  BY <1>1, <1>4, <1>5

-----------------------------------------------------------------------------
(* What a chunk adds                                                        *)

\* What the client's three readers make of one frame more.
Added(c, kind) == IF c.kind = kind THEN c.text ELSE <<>>

LEMMA StreamTextAppend ==
  ASSUME NEW s \in Seq(ChunkSet), NEW c \in ChunkSet, NEW kind
  PROVE  /\ StreamText(s, kind) \in Texts /\ Added(c, kind) \in Texts
         /\ StreamText(Append(s, c), kind) = StreamText(s, kind) \o Added(c, kind)
<1>0. PICK h : h = [x \in ChunkSet |-> Added(x, kind)]
  OBVIOUS
<1>1. \A x \in ChunkSet : Added(x, kind) \in Texts
  BY EmptySeq DEF Added, Texts, ChunkSet
<1>2. \A x \in ChunkSet : h[x] \in Seq(Chars)
  BY <1>0, <1>1 DEF Texts
<1>3. \A r \in Seq(ChunkSet) : StreamText(r, kind) = FlatMap(r, h)
  <2>1. SUFFICES ASSUME NEW r \in Seq(ChunkSet) PROVE StreamText(r, kind) = FlatMap(r, h)
    OBVIOUS
  <2>2. \A i \in 1..Len(r) : r[i] \in ChunkSet
    BY ElementOfSeq
  <2>3. [i \in 1..Len(r) |-> h[r[i]]]
          = [i \in 1..Len(r) |-> IF r[i].kind = kind THEN r[i].text ELSE <<>>]
    BY <1>0, <2>2 DEF Added
  <2> QED
    BY <2>3 DEF StreamText, FlatMap
<1>4. h[c] = Added(c, kind) /\ Append(s, c) \in Seq(ChunkSet)
  BY <1>0, AppendProperties
<1>5. FlatMap(s, h) \in Seq(Chars)
  BY <1>2, FlatMapAppend
<1>6. FlatMap(Append(s, c), h) = FlatMap(s, h) \o h[c]
  BY <1>2, FlatMapAppend
<1> QED
  BY <1>1, <1>3, <1>4, <1>5, <1>6 DEF Texts

LEMMA StreamTextEmpty ==
  ASSUME NEW kind
  PROVE  StreamText(<<>>, kind) = <<>>
<1>1. Len(<<>>) = 0
  BY EmptySeq
<1>2. [i \in 1..Len(<<>>) |-> IF <<>>[i].kind = kind THEN <<>>[i].text ELSE <<>>] = <<>>
  BY <1>1
<1> QED
  BY <1>2, FlattenEmpty DEF StreamText

\* The message an accumulator stands for.
MessageOf(acc) == Message(acc.reasoning, acc.content, acc.slots)

\* A legal next delta: where the reading of the draft stands, this may come.
Legal(d, acc, c) ==
  \/ /\ c.kind = "role"
     /\ acc = Blank
  \/ /\ c.kind = "reasoning"
     /\ acc.content = <<>> /\ acc.slots = <<>>
     /\ IsPrefix(acc.reasoning \o c.text, d.reasoning)
  \/ /\ c.kind = "content"
     /\ acc.reasoning = d.reasoning /\ acc.slots = <<>>
     /\ IsPrefix(acc.content \o c.text, d.content)
  \/ /\ c.kind = "call"
     /\ acc.reasoning = d.reasoning /\ acc.content = d.content
     /\ c.index = Len(acc.slots) + 1 /\ c.index =< Len(d.tools)
     /\ c.label = d.tools[c.index].id /\ c.text = <<>>
  \/ /\ c.kind = "fragment"
     /\ acc.reasoning = d.reasoning /\ acc.content = d.content
     /\ c.index \in 1..Len(acc.slots) /\ c.label = "none"
     /\ IsPrefix(acc.slots[c.index].args \o c.text, d.tools[c.index].args)

\* What has been read is a beginning of the draft.
Beginning(d, acc) ==
  /\ acc \in AccSet
  /\ IsPrefix(acc.reasoning, d.reasoning)
  /\ IsPrefix(acc.content, d.content)
  /\ Len(acc.slots) =< Len(d.tools)
  /\ \A i \in 1..Len(acc.slots) : /\ acc.slots[i].id = d.tools[i].id
                                  /\ IsPrefix(acc.slots[i].args, d.tools[i].args)
  /\ acc.slots # <<>> => acc.content = d.content /\ acc.reasoning = d.reasoning
  /\ acc.content # <<>> => acc.reasoning = d.reasoning

\* What one legal delta makes of the accumulator.
LEMMA LegalReads ==
  ASSUME NEW d \in DraftSet, NEW acc, Beginning(d, acc),
         NEW c \in ChunkSet, Legal(d, acc, c)
  PROVE  /\ Beginning(d, Read(acc, c))
         /\ Read(acc, c).reasoning = acc.reasoning \o Added(c, "reasoning")
         /\ Read(acc, c).content = acc.content \o Added(c, "content")
         /\ Read(acc, c).slots = CallStep(acc.slots, c)
         /\ Read(acc, c).reason = acc.reason /\ Read(acc, c).usage = acc.usage
<1>1. /\ acc \in AccSet /\ acc.reasoning \in Texts /\ acc.content \in Texts
      /\ acc.slots \in Seq(SlotSet) /\ c.text \in Texts /\ acc.reason \in Names
      /\ acc.usage \in BOOLEAN /\ <<>> \in Texts
  BY EmptySeq DEF Beginning, AccSet, ChunkSet, Texts
<1>2. /\ acc.reasoning \o <<>> = acc.reasoning /\ acc.content \o <<>> = acc.content
      /\ acc.reasoning \o c.text \in Texts /\ acc.content \o c.text \in Texts
  BY <1>1, ConcatEmptySeq, ConcatProperties DEF Texts
<1>3. /\ d.reasoning \in Texts /\ d.content \in Texts /\ d.tools \in Seq(SlotSet)
      /\ Len(d.tools) \in Nat /\ Len(acc.slots) \in Nat
  BY <1>1, LenProperties DEF DraftSet
<1>4. PICK new : new = Read(acc, c)
  OBVIOUS
<1>5. CASE c.kind = "role"
  <2>1. new = acc /\ Added(c, "reasoning") = <<>> /\ Added(c, "content") = <<>>
        /\ CallStep(acc.slots, c) = acc.slots
    BY <1>4, <1>5 DEF Read, Added, CallStep
  <2> QED
    BY <1>2, <1>4, <2>1
<1>6. CASE c.kind = "reasoning"
  <2>1. /\ new = [acc EXCEPT !.reasoning = acc.reasoning \o c.text]
        /\ Added(c, "reasoning") = c.text /\ Added(c, "content") = <<>>
        /\ CallStep(acc.slots, c) = acc.slots
    BY <1>4, <1>6 DEF Read, Added, CallStep
  <2>2. /\ new \in AccSet /\ new.reasoning = acc.reasoning \o c.text
        /\ new.content = acc.content /\ new.slots = acc.slots
        /\ new.reason = acc.reason /\ new.usage = acc.usage
    BY <1>1, <1>2, <2>1 DEF AccSet
  <2>3. /\ acc.content = <<>> /\ acc.slots = <<>>
        /\ IsPrefix(acc.reasoning \o c.text, d.reasoning)
    BY <1>6 DEF Legal
  <2>4. Beginning(d, new)
    BY <2>2, <2>3 DEF Beginning
  <2> QED
    BY <1>2, <1>4, <2>1, <2>2, <2>4
<1>7. CASE c.kind = "content"
  <2>1. /\ new = [acc EXCEPT !.content = acc.content \o c.text]
        /\ Added(c, "reasoning") = <<>> /\ Added(c, "content") = c.text
        /\ CallStep(acc.slots, c) = acc.slots
    BY <1>4, <1>7 DEF Read, Added, CallStep
  <2>2. /\ new \in AccSet /\ new.reasoning = acc.reasoning
        /\ new.content = acc.content \o c.text /\ new.slots = acc.slots
        /\ new.reason = acc.reason /\ new.usage = acc.usage
    BY <1>1, <1>2, <2>1 DEF AccSet
  <2>3. /\ acc.reasoning = d.reasoning /\ acc.slots = <<>>
        /\ IsPrefix(acc.content \o c.text, d.content)
    BY <1>7 DEF Legal
  <2>4. Beginning(d, new)
    BY <2>2, <2>3 DEF Beginning
  <2> QED
    BY <1>2, <1>4, <2>1, <2>2, <2>4
<1>8. ASSUME NEW slots \in Seq(SlotSet), c.kind \in {"call", "fragment"},
             Slot(acc.slots, c) = slots, StreamCall(acc.slots, c) = slots
      PROVE  /\ new \in AccSet /\ new.reasoning = acc.reasoning /\ new.content = acc.content
             /\ new.slots = slots /\ new.slots = CallStep(acc.slots, c)
             /\ new.reason = acc.reason /\ new.usage = acc.usage
             /\ Added(c, "reasoning") = <<>> /\ Added(c, "content") = <<>>
  <2>1. new = [acc EXCEPT !.slots = slots]
    BY <1>4, <1>8 DEF Read
  <2>2. CallStep(acc.slots, c) = slots
    BY <1>8 DEF CallStep
  <2>3. Added(c, "reasoning") = <<>> /\ Added(c, "content") = <<>>
    BY <1>8 DEF Added
  <2>4. /\ new \in AccSet /\ new.reasoning = acc.reasoning /\ new.content = acc.content
        /\ new.slots = slots /\ new.reason = acc.reason /\ new.usage = acc.usage
    BY <1>1, <1>8, <2>1 DEF AccSet
  <2> QED
    BY <2>2, <2>3, <2>4
<1>9. CASE c.kind = "call"
  <2>1. /\ acc.reasoning = d.reasoning /\ acc.content = d.content
        /\ c.index = Len(acc.slots) + 1 /\ c.index =< Len(d.tools)
        /\ c.label = d.tools[c.index].id /\ c.text = <<>>
    BY <1>9 DEF Legal
  <2>2. PICK slot : slot = [id |-> c.label, args |-> <<>>]
    OBVIOUS
  <2>3. PICK slots : slots = Append(acc.slots, slot)
    OBVIOUS
  <2>4. slots \in Seq(SlotSet) /\ Slot(acc.slots, c) = slots /\ StreamCall(acc.slots, c) = slots
    BY <1>1, <2>1, <2>2, <2>3, CallOpens
  <2>5. slot \in SlotSet
    BY <1>1, <2>2 DEF SlotSet, ChunkSet
  <2>6. /\ Len(slots) = Len(acc.slots) + 1
        /\ \A i \in 1..Len(acc.slots) : slots[i] = acc.slots[i]
        /\ slots[Len(acc.slots) + 1] = slot
    BY <1>1, <2>3, <2>5, AppendProperties
  <2>7. IsPrefix(<<>>, d.tools[c.index].args)
    <3>1. c.index \in 1..Len(d.tools)
      BY <1>3, <2>1
    <3>2. d.tools[c.index] \in SlotSet
      BY <1>3, <3>1, ElementOfSeq
    <3> QED
      BY <3>2, PrefixBounds DEF SlotSet, Texts
  <2>8. \A i \in 1..Len(slots) : slots[i].id = d.tools[i].id /\ IsPrefix(slots[i].args, d.tools[i].args)
    <3>1. SUFFICES ASSUME NEW i \in 1..Len(slots)
                   PROVE  slots[i].id = d.tools[i].id /\ IsPrefix(slots[i].args, d.tools[i].args)
      OBVIOUS
    <3>2. CASE i = c.index
      BY <2>1, <2>2, <2>6, <2>7, <3>2
    <3>3. CASE i # c.index
      <4>1. i \in 1..Len(acc.slots)
        BY <1>3, <2>1, <2>6, <3>3
      <4> QED
        BY <2>6, <4>1 DEF Beginning
    <3> QED
      BY <3>2, <3>3
  <2>9. /\ new \in AccSet /\ new.reasoning = acc.reasoning /\ new.content = acc.content
        /\ new.slots = slots /\ new.slots = CallStep(acc.slots, c)
        /\ new.reason = acc.reason /\ new.usage = acc.usage
        /\ Added(c, "reasoning") = <<>> /\ Added(c, "content") = <<>>
    BY <1>8, <1>9, <2>4
  <2>10. IsPrefix(d.reasoning, d.reasoning) /\ IsPrefix(d.content, d.content)
    BY <1>3, PrefixBounds DEF Texts
  <2>11. Beginning(d, new)
    BY <1>3, <2>1, <2>6, <2>8, <2>9, <2>10 DEF Beginning
  <2> QED
    BY <1>2, <1>4, <2>9, <2>11
<1>10. CASE c.kind = "fragment"
  <2>1. /\ acc.reasoning = d.reasoning /\ acc.content = d.content
        /\ c.index \in 1..Len(acc.slots) /\ c.label = "none"
        /\ IsPrefix(acc.slots[c.index].args \o c.text, d.tools[c.index].args)
    BY <1>10 DEF Legal
  <2>2. PICK slots : slots = Grown(acc.slots, c.index, c.text)
    OBVIOUS
  <2>3. slots \in Seq(SlotSet) /\ Slot(acc.slots, c) = slots /\ StreamCall(acc.slots, c) = slots
    BY <1>1, <2>1, <2>2, FragmentGrows
  <2>4. PICK slot : slot = [id |-> acc.slots[c.index].id, args |-> acc.slots[c.index].args \o c.text]
    OBVIOUS
  <2>5. slot.id = acc.slots[c.index].id /\ slot.args = acc.slots[c.index].args \o c.text
    BY <2>4
  <2>6. slots = [acc.slots EXCEPT ![c.index] = slot]
    BY <2>2, <2>4 DEF Grown
  <2>7. DOMAIN acc.slots = 1..Len(acc.slots)
    BY <1>1, LenProperties
  <2>8. /\ DOMAIN slots = 1..Len(acc.slots)
        /\ \A i \in 1..Len(acc.slots) : slots[i] = IF i = c.index THEN slot ELSE acc.slots[i]
    BY <2>6, <2>7
  <2>9. Len(slots) = Len(acc.slots)
    BY <1>3, <2>3, <2>8, LenProperties
  <2>10. \A i \in 1..Len(slots) : slots[i].id = d.tools[i].id /\ IsPrefix(slots[i].args, d.tools[i].args)
    <3>1. SUFFICES ASSUME NEW i \in 1..Len(acc.slots)
                   PROVE  slots[i].id = d.tools[i].id /\ IsPrefix(slots[i].args, d.tools[i].args)
      BY <2>9
    <3>2. acc.slots[i].id = d.tools[i].id /\ IsPrefix(acc.slots[i].args, d.tools[i].args)
      BY DEF Beginning
    <3>3. CASE i = c.index
      BY <2>1, <2>5, <2>8, <3>2, <3>3
    <3>4. CASE i # c.index
      BY <2>8, <3>2, <3>4
    <3> QED
      BY <3>3, <3>4
  <2>11. /\ new \in AccSet /\ new.reasoning = acc.reasoning /\ new.content = acc.content
         /\ new.slots = slots /\ new.slots = CallStep(acc.slots, c)
         /\ new.reason = acc.reason /\ new.usage = acc.usage
         /\ Added(c, "reasoning") = <<>> /\ Added(c, "content") = <<>>
    BY <1>8, <1>10, <2>3
  <2>12. IsPrefix(d.reasoning, d.reasoning) /\ IsPrefix(d.content, d.content)
         /\ Len(acc.slots) =< Len(d.tools)
    BY <1>3, PrefixBounds DEF Texts, Beginning
  <2>13. Beginning(d, new)
    BY <2>1, <2>9, <2>10, <2>11, <2>12 DEF Beginning
  <2> QED
    BY <1>2, <1>4, <2>11, <2>13
<1> QED
  BY <1>5, <1>6, <1>7, <1>9, <1>10 DEF Legal

-----------------------------------------------------------------------------
(* What a log tells                                                         *)

\* The frames so far read as a beginning of the draft, by the client as by the record.
Told(d, s) ==
  /\ s \in Seq(ChunkSet)
  /\ Beginning(d, Reading(s))
  /\ StreamOnce(s) = MessageOf(Reading(s))

LEMMA BlankBegins ==
  ASSUME NEW d \in DraftSet
  PROVE  Beginning(d, Blank)
<1>1. /\ d.reasoning \in Texts /\ d.content \in Texts /\ Len(d.tools) \in Nat
      /\ <<>> \in Texts /\ <<>> \in Seq(SlotSet) /\ Len(<<>>) = 0
  BY EmptySeq, LenProperties DEF DraftSet, Texts
<1>2. IsPrefix(<<>>, d.reasoning) /\ IsPrefix(<<>>, d.content)
  BY <1>1, PrefixBounds DEF Texts
<1>3. Blank \in AccSet
  <2>1. "none" \in Names
    BY DEF Names
  <2> QED
    BY <1>1, <2>1 DEF Blank, AccSet
<1>4. Blank.reasoning = <<>> /\ Blank.content = <<>> /\ Blank.slots = <<>>
  BY DEF Blank
<1> QED
  BY <1>1, <1>2, <1>3, <1>4 DEF Beginning

LEMMA ToldEmpty ==
  ASSUME NEW d \in DraftSet
  PROVE  Told(d, <<>>)
<1>1. StreamOnce(<<>>) = Message(<<>>, <<>>, <<>>)
  BY StreamTextEmpty, StreamCallsEmpty DEF StreamOnce
<1>2. MessageOf(Blank) = Message(<<>>, <<>>, <<>>)
  BY DEF MessageOf, Blank
<1>3. <<>> \in Seq(ChunkSet)
  BY EmptySeq
<1> QED
  BY <1>1, <1>2, <1>3, BlankBegins, ReadingEmpty DEF Told

\* What the client reads of one frame more.
LEMMA StreamOnceAppend ==
  ASSUME NEW s \in Seq(ChunkSet), NEW c \in ChunkSet
  PROVE  StreamOnce(Append(s, c)) =
           Message(StreamText(s, "reasoning") \o Added(c, "reasoning"),
                   StreamText(s, "content") \o Added(c, "content"),
                   CallStep(StreamCalls(s), c))
<1>1. StreamText(Append(s, c), "reasoning") = StreamText(s, "reasoning") \o Added(c, "reasoning")
  BY StreamTextAppend
<1>2. StreamText(Append(s, c), "content") = StreamText(s, "content") \o Added(c, "content")
  BY StreamTextAppend
<1>3. StreamCalls(Append(s, c)) = CallStep(StreamCalls(s), c)
  BY StreamCallsAppend
<1> QED
  BY <1>1, <1>2, <1>3 DEF StreamOnce

LEMMA ToldSame ==
  ASSUME NEW d, NEW s, Told(d, s)
  PROVE  /\ StreamText(s, "reasoning") = Reading(s).reasoning
         /\ StreamText(s, "content") = Reading(s).content
         /\ StreamCalls(s) = Reading(s).slots
<1>1. Message(StreamText(s, "reasoning"), StreamText(s, "content"), StreamCalls(s))
        = Message(Reading(s).reasoning, Reading(s).content, Reading(s).slots)
  BY DEF Told, StreamOnce, MessageOf
<1>2. ASSUME NEW a, NEW b, NEW c, NEW x, NEW y, NEW z, Message(a, b, c) = Message(x, y, z)
      PROVE  a = x /\ b = y /\ c = z
  <2>1. Message(a, b, c).reasoning = a /\ Message(a, b, c).content = b /\ Message(a, b, c).tools = c
    BY DEF Message
  <2>2. Message(x, y, z).reasoning = x /\ Message(x, y, z).content = y /\ Message(x, y, z).tools = z
    BY DEF Message
  <2> QED
    BY <1>2, <2>1, <2>2
<1> QED
  BY <1>1, <1>2

LEMMA ToldDelta ==
  ASSUME NEW d \in DraftSet, NEW s, Told(d, s), NEW c \in ChunkSet, Legal(d, Reading(s), c)
  PROVE  Told(d, Append(s, c))
<1>1. PICK acc, new : acc = Reading(s) /\ new = Read(acc, c)
  OBVIOUS
<1>2. s \in Seq(ChunkSet) /\ Append(s, c) \in Seq(ChunkSet) /\ Beginning(d, acc)
  BY <1>1, AppendProperties DEF Told
<1>3. Reading(Append(s, c)) = new
  BY <1>1, <1>2, ReadingAppend
<1>4. /\ Beginning(d, new)
      /\ new.reasoning = acc.reasoning \o Added(c, "reasoning")
      /\ new.content = acc.content \o Added(c, "content")
      /\ new.slots = CallStep(acc.slots, c)
  BY <1>1, <1>2, LegalReads
<1>5. StreamOnce(Append(s, c)) = MessageOf(new)
  BY <1>1, <1>2, <1>4, StreamOnceAppend, ToldSame DEF MessageOf
<1> QED
  BY <1>2, <1>3, <1>4, <1>5 DEF Told

\* The frames that say nothing of the draft.
LEMMA ToldOther ==
  ASSUME NEW d \in DraftSet, NEW s, Told(d, s), NEW c \in ChunkSet,
         c.kind \in {"role", "finish", "usage", "done"}
  PROVE  /\ Told(d, Append(s, c))
         /\ Reading(Append(s, c)) =
              [reasoning |-> Reading(s).reasoning, content |-> Reading(s).content,
               slots |-> Reading(s).slots,
               reason |-> IF c.kind = "finish" THEN c.label ELSE Reading(s).reason,
               usage |-> IF c.kind = "usage" THEN TRUE ELSE Reading(s).usage]
<1>1. PICK acc, new : acc = Reading(s) /\ new = Read(acc, c)
  OBVIOUS
<1>2. s \in Seq(ChunkSet) /\ Append(s, c) \in Seq(ChunkSet) /\ Beginning(d, acc)
  BY <1>1, AppendProperties DEF Told
<1>3. Reading(Append(s, c)) = new
  BY <1>1, <1>2, ReadingAppend
<1>4. /\ acc \in AccSet /\ acc.reasoning \in Texts /\ acc.content \in Texts
      /\ acc.slots \in Seq(SlotSet) /\ acc.reason \in Names /\ acc.usage \in BOOLEAN
      /\ c.label \in Names
      /\ acc = [reasoning |-> acc.reasoning, content |-> acc.content, slots |-> acc.slots,
                reason |-> acc.reason, usage |-> acc.usage]
  BY <1>2 DEF Beginning, AccSet, ChunkSet
<1>5. new = [reasoning |-> acc.reasoning, content |-> acc.content, slots |-> acc.slots,
             reason |-> IF c.kind = "finish" THEN c.label ELSE acc.reason,
             usage |-> IF c.kind = "usage" THEN TRUE ELSE acc.usage]
  <2>1. CASE c.kind = "finish"
    BY <1>1, <1>4, <2>1 DEF Read
  <2>2. CASE c.kind = "usage"
    BY <1>1, <1>4, <2>2 DEF Read
  <2>3. CASE c.kind \in {"role", "done"}
    BY <1>1, <1>4, <2>3 DEF Read
  <2> QED
    BY <2>1, <2>2, <2>3
<1>6. /\ new \in AccSet /\ new.reasoning = acc.reasoning /\ new.content = acc.content
      /\ new.slots = acc.slots
  BY <1>4, <1>5 DEF AccSet
<1>7. Beginning(d, new)
  BY <1>2, <1>6 DEF Beginning
<1>8. /\ Added(c, "reasoning") = <<>> /\ Added(c, "content") = <<>>
      /\ CallStep(acc.slots, c) = acc.slots
  BY DEF Added, CallStep
<1>9. acc.reasoning \o <<>> = acc.reasoning /\ acc.content \o <<>> = acc.content
  BY <1>4, ConcatEmptySeq DEF Texts
<1>10. StreamOnce(Append(s, c)) = MessageOf(new)
  BY <1>1, <1>2, <1>6, <1>8, <1>9, StreamOnceAppend, ToldSame DEF MessageOf
<1> QED
  BY <1>1, <1>2, <1>3, <1>5, <1>7, <1>10 DEF Told

-----------------------------------------------------------------------------
(* How a plan is built                                                      *)

RankOf(c)  == Rank[PhaseOf(c)]
DeltaKinds == {"role", "reasoning", "content", "call", "fragment"}

LEMMA RankOfKinds ==
  ASSUME NEW c
  PROVE  /\ c.kind = "role" => RankOf(c) = 1
         /\ c.kind = "reasoning" => RankOf(c) = 2
         /\ c.kind = "content" => RankOf(c) = 3
         /\ c.kind \in {"call", "fragment"} => RankOf(c) = 4
BY DEF RankOf, PhaseOf, Rank

\* The first deltas of a plan: the role, then one legal delta after another, in the
\* order of their phases, none beyond the phase of rank r.
Begins(d, p, r) ==
  /\ p \in Seq(ChunkSet) /\ p # <<>> /\ p[1] = Role
  /\ Told(d, p)
  /\ \A n \in 1..Len(p) : Legal(d, Reading(SubSeq(p, 1, n - 1)), p[n])
  /\ \A n \in 1..Len(p) : p[n].kind \in DeltaKinds /\ RankOf(p[n]) =< r
  /\ \A n \in 2..Len(p) : RankOf(p[n]) > 1
  /\ \A i, j \in 1..Len(p) : i < j => RankOf(p[i]) =< RankOf(p[j])

LEMMA ChunkTypes ==
  /\ Role \in ChunkSet /\ Usage \in ChunkSet /\ Done \in ChunkSet
  /\ Role.kind = "role" /\ Usage.kind = "usage" /\ Done.kind = "done"
  /\ \A x \in Names : FinishAs(x) \in ChunkSet /\ FinishAs(x).kind = "finish"
                      /\ FinishAs(x).label = x
  /\ \A t \in Texts, kind \in {"reasoning", "content"} :
       Says(kind, t) \in ChunkSet /\ Says(kind, t).kind = kind /\ Says(kind, t).text = t
  /\ \A i \in Nat, x \in Names : Call(i, x) \in ChunkSet /\ Call(i, x).kind = "call"
       /\ Call(i, x).index = i /\ Call(i, x).label = x /\ Call(i, x).text = <<>>
  /\ \A i \in Nat, t \in Texts : Fragment(i, t) \in ChunkSet /\ Fragment(i, t).kind = "fragment"
       /\ Fragment(i, t).index = i /\ Fragment(i, t).label = "none" /\ Fragment(i, t).text = t
<1>1. "none" \in Names /\ <<>> \in Texts
  BY EmptySeq DEF Names, Texts
<1>2. \A k \in Kinds, i \in Nat, x \in Names, t \in Texts :
        /\ Chunk(k, i, x, t) \in ChunkSet
        /\ Chunk(k, i, x, t).kind = k /\ Chunk(k, i, x, t).index = i
        /\ Chunk(k, i, x, t).label = x /\ Chunk(k, i, x, t).text = t
  BY DEF Chunk, ChunkSet
<1>3. /\ "role" \in Kinds /\ "reasoning" \in Kinds /\ "content" \in Kinds /\ "call" \in Kinds
      /\ "fragment" \in Kinds /\ "finish" \in Kinds /\ "usage" \in Kinds /\ "done" \in Kinds
  BY DEF Kinds
<1>4. /\ Role \in ChunkSet /\ Role.kind = "role"
      /\ Usage \in ChunkSet /\ Usage.kind = "usage"
      /\ Done \in ChunkSet /\ Done.kind = "done"
  <2>1. \A k \in Kinds : /\ Chunk(k, 0, "none", <<>>) \in ChunkSet
                         /\ Chunk(k, 0, "none", <<>>).kind = k
    BY <1>1, <1>2
  <2>2. Role \in ChunkSet /\ Role.kind = "role"
    BY <1>3, <2>1 DEF Role
  <2>3. Usage \in ChunkSet /\ Usage.kind = "usage"
    BY <1>3, <2>1 DEF Usage
  <2>4. Done \in ChunkSet /\ Done.kind = "done"
    BY <1>3, <2>1 DEF Done
  <2> QED
    BY <2>2, <2>3, <2>4
<1>5. \A x \in Names : FinishAs(x) \in ChunkSet /\ FinishAs(x).kind = "finish"
                        /\ FinishAs(x).label = x
  BY <1>1, <1>2, <1>3 DEF FinishAs
<1>6. \A t \in Texts, kind \in {"reasoning", "content"} :
        Says(kind, t) \in ChunkSet /\ Says(kind, t).kind = kind /\ Says(kind, t).text = t
  <2>1. \A k \in Kinds, t \in Texts : /\ Chunk(k, 0, "none", t) \in ChunkSet
                                     /\ Chunk(k, 0, "none", t).kind = k
                                     /\ Chunk(k, 0, "none", t).text = t
    BY <1>1, <1>2
  <2>2. \A kind \in {"reasoning", "content"} : kind \in Kinds
    BY <1>3
  <2> QED
    BY <2>1, <2>2 DEF Says
<1>7. \A i \in Nat, x \in Names : Call(i, x) \in ChunkSet /\ Call(i, x).kind = "call"
        /\ Call(i, x).index = i /\ Call(i, x).label = x /\ Call(i, x).text = <<>>
  BY <1>1, <1>2, <1>3 DEF Call
<1>8. \A i \in Nat, t \in Texts : Fragment(i, t) \in ChunkSet /\ Fragment(i, t).kind = "fragment"
        /\ Fragment(i, t).index = i /\ Fragment(i, t).label = "none" /\ Fragment(i, t).text = t
  BY <1>1, <1>2, <1>3 DEF Fragment
<1> QED
  BY <1>4, <1>5, <1>6, <1>7, <1>8

LEMMA BeginsRole ==
  ASSUME NEW d \in DraftSet
  PROVE  Begins(d, <<Role>>, 1) /\ Reading(<<Role>>) = Blank
<1>1. PICK p : p = <<Role>>
  OBVIOUS
<1>2. /\ p \in Seq(ChunkSet) /\ p # <<>> /\ p[1] = Role /\ Len(p) = 1
      /\ <<>> \in Seq(ChunkSet) /\ Append(<<>>, Role) = p
  BY <1>1, ChunkTypes, EmptySeq
<1>3. Reading(p) = Blank
  <2>0. Role \in ChunkSet
    BY ChunkTypes
  <2>1. Reading(p) = Read(Blank, Role)
    <3>1. Reading(Append(<<>>, Role)) = Read(Reading(<<>>), Role)
      BY <1>2, <2>0, ReadingAppend
    <3> QED
      BY <1>2, <3>1, ReadingEmpty
  <2> QED
    BY <2>1, ChunkTypes DEF Read
<1>4. Told(d, p)
  <2>1. Role \in ChunkSet /\ Role.kind \in {"role", "finish", "usage", "done"}
    BY ChunkTypes
  <2>2. Told(d, <<>>)
    BY ToldEmpty
  <2>3. Told(d, Append(<<>>, Role))
    BY <2>1, <2>2, ToldOther
  <2> QED
    BY <1>2, <2>3
<1>5. SubSeq(p, 1, 0) = <<>>
  BY <1>2, BeginningEnds
<1>6. Legal(d, Blank, Role)
  BY ChunkTypes DEF Legal
<1>7. RankOf(Role) = 1 /\ Role.kind \in DeltaKinds
  BY ChunkTypes, RankOfKinds DEF DeltaKinds
<1>8. \A n \in 1..Len(p) : Legal(d, Reading(SubSeq(p, 1, n - 1)), p[n])
  <2>1. SUFFICES ASSUME NEW n \in 1..Len(p)
                 PROVE  Legal(d, Reading(SubSeq(p, 1, n - 1)), p[n])
    OBVIOUS
  <2>2. n = 1 /\ n - 1 = 0
    BY <1>2
  <2> QED
    BY <1>2, <1>5, <1>6, <2>2, ReadingEmpty
<1>9. \A n \in 1..Len(p) : p[n].kind \in DeltaKinds /\ RankOf(p[n]) =< 1
  BY <1>2, <1>7
<1>10. /\ \A n \in 2..Len(p) : RankOf(p[n]) > 1
       /\ \A i, j \in 1..Len(p) : i < j => RankOf(p[i]) =< RankOf(p[j])
  BY <1>2
<1>11. Begins(d, p, 1)
  BY <1>2, <1>4, <1>8, <1>9, <1>10 DEF Begins
<1> QED
  BY <1>1, <1>3, <1>11

\* One legal delta more, of the same phase or a later one.
LEMMA BeginsAppend ==
  ASSUME NEW d \in DraftSet, NEW p, NEW r \in Nat, Begins(d, p, r),
         NEW c \in ChunkSet, Legal(d, Reading(p), c), c.kind \in DeltaKinds \ {"role"},
         r =< RankOf(c)
  PROVE  /\ Begins(d, Append(p, c), RankOf(c))
         /\ Reading(Append(p, c)) = Read(Reading(p), c)
<1>1. PICK q, k : q = Append(p, c) /\ k = Len(p)
  OBVIOUS
<1>2. /\ p \in Seq(ChunkSet) /\ p # <<>> /\ k \in Nat /\ k # 0
  BY <1>1, EmptySeq, LenProperties DEF Begins
<1>3. /\ q \in Seq(ChunkSet) /\ q # <<>> /\ Len(q) = k + 1
      /\ \A i \in 1..k : q[i] = p[i]
      /\ q[k + 1] = c
  BY <1>1, <1>2, AppendProperties
<1>4. Told(d, q)
  BY <1>1, ToldDelta DEF Begins
<1>5. q[1] = Role
  BY <1>1, <1>2, <1>3 DEF Begins
<1>6. \A n \in 0..k : SubSeq(q, 1, n) = SubSeq(p, 1, n)
  <2>1. SUFFICES ASSUME NEW n \in 0..k PROVE SubSeq(q, 1, n) = SubSeq(p, 1, n)
    OBVIOUS
  <2>2. \A i \in 1..n : p[i] \in ChunkSet /\ q[i] \in ChunkSet /\ q[i] = p[i]
    BY <1>1, <1>2, <1>3, ElementOfSeq
  <2>3. /\ SubSeq(p, 1, n) \in Seq(ChunkSet) /\ Len(SubSeq(p, 1, n)) = n
        /\ \A i \in 1..n : SubSeq(p, 1, n)[i] = p[i]
    BY <2>2, SubSeqProperties
  <2>4. /\ SubSeq(q, 1, n) \in Seq(ChunkSet) /\ Len(SubSeq(q, 1, n)) = n
        /\ \A i \in 1..n : SubSeq(q, 1, n)[i] = q[i]
    BY <2>2, SubSeqProperties
  <2> QED
    BY <2>2, <2>3, <2>4, SeqEqual
<1>7. SubSeq(p, 1, k) = p
  BY <1>1, <1>2, BeginningEnds
<1>8. \A n \in 1..k + 1 : Legal(d, Reading(SubSeq(q, 1, n - 1)), q[n])
  <2>1. SUFFICES ASSUME NEW n \in 1..k + 1
                 PROVE  Legal(d, Reading(SubSeq(q, 1, n - 1)), q[n])
    OBVIOUS
  <2>2. CASE n = k + 1
    <3>1. n - 1 = k /\ k \in 0..k
      BY <1>2, <2>2
    <3>2. SubSeq(q, 1, k) = p
      BY <1>6, <1>7, <3>1
    <3> QED
      BY <1>1, <1>3, <2>2, <3>1, <3>2
  <2>3. CASE n # k + 1
    <3>1. n \in 1..k /\ n - 1 \in 0..k
      BY <1>2, <2>3
    <3>2. Legal(d, Reading(SubSeq(p, 1, n - 1)), p[n])
      BY <1>1, <3>1 DEF Begins
    <3>3. q[n] = p[n] /\ SubSeq(q, 1, n - 1) = SubSeq(p, 1, n - 1)
      BY <1>3, <1>6, <3>1
    <3> QED
      BY <3>2, <3>3
  <2> QED
    BY <2>2, <2>3
<1>9. RankOf(c) \in {2, 3, 4}
  BY RankOfKinds DEF DeltaKinds
<1>10. \A n \in 1..k : RankOf(p[n]) \in {1, 2, 3, 4} /\ RankOf(p[n]) =< r
  BY <1>1, RankOfKinds DEF Begins, DeltaKinds
<1>11. \A n \in 1..k + 1 : q[n].kind \in DeltaKinds /\ RankOf(q[n]) =< RankOf(c)
  <2>1. SUFFICES ASSUME NEW n \in 1..k + 1
                 PROVE  q[n].kind \in DeltaKinds /\ RankOf(q[n]) =< RankOf(c)
    OBVIOUS
  <2>2. CASE n = k + 1
    BY <1>3, <1>9, <2>2
  <2>3. CASE n # k + 1
    <3>1. n \in 1..k
      BY <1>2, <2>3
    <3>2. p[n].kind \in DeltaKinds
      BY <1>1, <3>1 DEF Begins
    <3> QED
      BY <1>3, <1>9, <1>10, <3>1, <3>2
  <2> QED
    BY <2>2, <2>3
<1>12. \A n \in 2..k + 1 : RankOf(q[n]) > 1
  <2>1. SUFFICES ASSUME NEW n \in 2..k + 1 PROVE RankOf(q[n]) > 1
    OBVIOUS
  <2>2. CASE n = k + 1
    BY <1>3, <1>9, <2>2
  <2>3. CASE n # k + 1
    <3>1. n \in 2..k /\ n \in 1..k
      BY <1>2, <2>3
    <3> QED
      BY <1>1, <1>3, <3>1 DEF Begins
  <2> QED
    BY <2>2, <2>3
<1>13. \A i, j \in 1..k + 1 : i < j => RankOf(q[i]) =< RankOf(q[j])
  <2>1. SUFFICES ASSUME NEW i \in 1..k + 1, NEW j \in 1..k + 1, i < j
                 PROVE  RankOf(q[i]) =< RankOf(q[j])
    OBVIOUS
  <2>2. CASE j = k + 1
    BY <1>3, <1>11, <2>2
  <2>3. CASE j # k + 1
    <3>1. i \in 1..k /\ j \in 1..k
      BY <1>2, <2>1, <2>3
    <3> QED
      BY <1>1, <1>3, <2>1, <3>1 DEF Begins
  <2> QED
    BY <2>2, <2>3
<1>14. Begins(d, q, RankOf(c))
  BY <1>3, <1>4, <1>5, <1>8, <1>11, <1>12, <1>13 DEF Begins
<1>15. Reading(q) = Read(Reading(p), c)
  BY <1>1, <1>2, ReadingAppend
<1> QED
  BY <1>1, <1>14, <1>15

\* A phase may be over before a delta of the next one comes.
LEMMA BeginsLater ==
  ASSUME NEW d, NEW p, NEW r \in 1..4, NEW q \in 1..4, Begins(d, p, r), r =< q
  PROVE  Begins(d, p, q)
<1>1. \A n \in 1..Len(p) : RankOf(p[n]) \in {1, 2, 3, 4} /\ RankOf(p[n]) =< r
  BY RankOfKinds DEF Begins, DeltaKinds
<1>2. \A n \in 1..Len(p) : RankOf(p[n]) =< q
  BY <1>1
<1> QED
  BY <1>2 DEF Begins


-----------------------------------------------------------------------------
(* Along a sequence                                                         *)

\* What every element of t keeps up, all of t does: G[k] are the sequences that may
\* stand where k elements of t have come.
LEMMA Along ==
  ASSUME NEW S, NEW t \in Seq(S), NEW p \in Seq(S), NEW G,
         p \in G[0],
         \A k \in 0..Len(t) - 1 : \A q \in Seq(S) :
           q \in G[k] => Append(q, t[k + 1]) \in G[k + 1]
  PROVE  p \o t \in G[Len(t)]
<1> DEFINE T == {k \in Nat : k =< Len(t) => p \o SubSeq(t, 1, k) \in G[k]}
<1>0. Len(t) \in Nat
  BY LenProperties
<1>1. 0 \in T
  BY BeginningEnds, ConcatEmptySeq
<1>2. ASSUME NEW k \in Nat, k \in T
      PROVE  k + 1 \in T
  <2>1. SUFFICES ASSUME k + 1 =< Len(t)
                 PROVE  p \o SubSeq(t, 1, k + 1) \in G[k + 1]
    OBVIOUS
  <2>2. k \in 0..Len(t) - 1 /\ p \o SubSeq(t, 1, k) \in G[k]
    BY <1>0, <1>2, <2>1
  <2>3. PICK b : b = SubSeq(t, 1, k)
    OBVIOUS
  <2>4. b \in Seq(S) /\ t[k + 1] \in S /\ SubSeq(t, 1, k + 1) = Append(b, t[k + 1])
    BY <2>2, <2>3, BeginningStep
  <2>5. p \o b \in Seq(S)
    BY <2>4, ConcatProperties
  <2>6. p \o Append(b, t[k + 1]) = Append(p \o b, t[k + 1])
    <3>1. PICK e : e = <<t[k + 1]>>
      OBVIOUS
    <3>2. e \in Seq(S)
      BY <2>4, <3>1
    <3>3. Append(b, t[k + 1]) = b \o e
      BY <2>4, <3>1, AppendIsConcat
    <3>4. Append(p \o b, t[k + 1]) = (p \o b) \o e
      BY <2>4, <2>5, <3>1, AppendIsConcat
    <3>5. (p \o b) \o e = p \o (b \o e)
      BY <2>4, <3>2, ConcatAssociative
    <3> QED
      BY <3>3, <3>4, <3>5
  <2>7. Append(p \o b, t[k + 1]) \in G[k + 1]
    BY <2>2, <2>3, <2>5
  <2> QED
    BY <2>4, <2>6, <2>7
<1> HIDE DEF T
<1>3. \A k \in Nat : k \in T
  BY <1>1, <1>2, NatSetInduction
<1>4. PICK n : n = Len(t)
  OBVIOUS
<1>5. n \in Nat /\ n =< Len(t)
  BY <1>0, <1>4
<1>6. p \o SubSeq(t, 1, n) \in G[n]
  BY <1>3, <1>5 DEF T
<1>7. SubSeq(t, 1, n) = t
  BY <1>4, BeginningEnds
<1> QED
  BY <1>4, <1>6, <1>7

\* The same of sequences laid end to end.
LEMMA AlongEach ==
  ASSUME NEW S, NEW t \in Seq(Seq(S)), NEW p \in Seq(S), NEW G,
         p \in G[0],
         \A k \in 0..Len(t) - 1 : \A q \in Seq(S) :
           q \in G[k] => q \o t[k + 1] \in G[k + 1]
  PROVE  p \o FlattenSeq(t) \in G[Len(t)]
<1> DEFINE T == {k \in Nat : k =< Len(t) => p \o FlattenSeq(SubSeq(t, 1, k)) \in G[k]}
<1>0. Len(t) \in Nat
  BY LenProperties
<1>1. 0 \in T
  <2>1. SubSeq(t, 1, 0) = <<>>
    BY BeginningEnds
  <2>2. p \o <<>> = p
    BY ConcatEmptySeq
  <2> QED
    BY <2>1, <2>2, FlattenEmpty
<1>2. ASSUME NEW k \in Nat, k \in T
      PROVE  k + 1 \in T
  <2>1. SUFFICES ASSUME k + 1 =< Len(t)
                 PROVE  p \o FlattenSeq(SubSeq(t, 1, k + 1)) \in G[k + 1]
    OBVIOUS
  <2>2. k \in 0..Len(t) - 1 /\ p \o FlattenSeq(SubSeq(t, 1, k)) \in G[k]
    BY <1>0, <1>2, <2>1
  <2>3. PICK b : b = FlattenSeq(SubSeq(t, 1, k))
    OBVIOUS
  <2>4. b \in Seq(S) /\ t[k + 1] \in Seq(S) /\ FlattenSeq(SubSeq(t, 1, k + 1)) = b \o t[k + 1]
    BY <2>2, <2>3, FlattenStep
  <2>5. p \o b \in Seq(S)
    BY <2>4, ConcatProperties
  <2>6. (p \o b) \o t[k + 1] = p \o (b \o t[k + 1])
    <3>1. PICK x : x = t[k + 1]
      OBVIOUS
    <3>2. x \in Seq(S)
      BY <2>4, <3>1
    <3>3. (p \o b) \o x = p \o (b \o x)
      BY <2>4, <3>2, ConcatAssociative
    <3> QED
      BY <3>1, <3>3
  <2>7. (p \o b) \o t[k + 1] \in G[k + 1]
    BY <2>2, <2>3, <2>5
  <2> QED
    BY <2>4, <2>6, <2>7
<1> HIDE DEF T
<1>3. \A k \in Nat : k \in T
  BY <1>1, <1>2, NatSetInduction
<1>4. PICK n : n = Len(t)
  OBVIOUS
<1>5. n \in Nat /\ n =< Len(t)
  BY <1>0, <1>4
<1>6. p \o FlattenSeq(SubSeq(t, 1, n)) \in G[n]
  BY <1>3, <1>5 DEF T
<1>7. SubSeq(t, 1, n) = t
  BY <1>4, BeginningEnds
<1> QED
  BY <1>4, <1>6, <1>7

-----------------------------------------------------------------------------
(* Reasoning and content                                                    *)

\* Where the reading of an answer stands.
At(reasoning, content, slots) ==
  [reasoning |-> reasoning, content |-> content, slots |-> slots,
   reason |-> "none", usage |-> FALSE]

LEMMA SaysReasoning ==
  ASSUME NEW d \in DraftSet, NEW p, Begins(d, p, 1), Reading(p) = Blank,
         NEW pieces \in Seq(Texts), FlattenSeq(pieces) = d.reasoning
  PROVE  /\ Begins(d, p \o SaysAll("reasoning", pieces), 2)
         /\ Reading(p \o SaysAll("reasoning", pieces)) = At(d.reasoning, <<>>, <<>>)
<1> DEFINE flat(k) == FlattenSeq(SubSeq(pieces, 1, k))
<1>1. PICK n : n = Len(pieces)
  OBVIOUS
<1>2. n \in Nat /\ \A k \in 1..n : pieces[k] \in Texts
  BY <1>1, LenProperties, ElementOfSeq
<1>3. PICK t : t = SaysAll("reasoning", pieces)
  OBVIOUS
<1>4. /\ t \in Seq(ChunkSet) /\ Len(t) = n
      /\ \A k \in 1..n : t[k] = Says("reasoning", pieces[k])
  BY <1>1, <1>2, <1>3, ChunkTypes DEF SaysAll
<1>5. PICK G : G = [k \in 0..n |-> {q \in Seq(ChunkSet) :
                      Begins(d, q, 2) /\ Reading(q) = At(flat(k), <<>>, <<>>)}]
  OBVIOUS
<1>6. p \in G[0]
  <2>1. Begins(d, p, 2) /\ p \in Seq(ChunkSet)
    BY BeginsLater DEF Begins
  <2>2. flat(0) = <<>>
    BY BeginningEnds, FlattenEmpty
  <2>3. Blank = At(<<>>, <<>>, <<>>)
    BY DEF Blank, At
  <2> QED
    BY <1>2, <1>5, <2>1, <2>2, <2>3
<1>7. ASSUME NEW k \in 0..n - 1, NEW q \in Seq(ChunkSet), q \in G[k]
      PROVE  Append(q, t[k + 1]) \in G[k + 1]
  <2>1. k \in 0..n /\ k + 1 \in 0..n /\ k + 1 \in 1..n
    BY <1>2
  <2>2. Begins(d, q, 2) /\ Reading(q) = At(flat(k), <<>>, <<>>)
    BY <1>5, <1>7, <2>1
  <2>3. PICK c : c = t[k + 1]
    OBVIOUS
  <2>4. c \in ChunkSet /\ c.kind = "reasoning" /\ c.text = pieces[k + 1]
    BY <1>2, <1>4, <2>1, <2>3, ChunkTypes
  <2>5. flat(k + 1) = flat(k) \o pieces[k + 1]
    BY <1>1, FlattenStep DEF Texts
  <2>6. IsPrefix(flat(k + 1), d.reasoning)
    BY <1>1, <2>1, FlattenPrefix DEF Texts
  <2> HIDE DEF flat
  <2>7. /\ Reading(q).reasoning = flat(k) /\ Reading(q).content = <<>>
        /\ Reading(q).slots = <<>>
    BY <2>2 DEF At
  <2>8. Legal(d, Reading(q), c)
    BY <2>4, <2>5, <2>6, <2>7 DEF Legal
  <2>9. RankOf(c) = 2 /\ c.kind \in DeltaKinds \ {"role"}
    BY <2>4, RankOfKinds DEF DeltaKinds
  <2>10. Begins(d, Append(q, c), 2) /\ Reading(Append(q, c)) = Read(Reading(q), c)
    BY <2>2, <2>4, <2>8, <2>9, BeginsAppend
  <2>11. Read(At(flat(k), <<>>, <<>>), c) = At(flat(k + 1), <<>>, <<>>)
    BY <2>4, <2>5 DEF Read, At
  <2>12. Append(q, c) \in Seq(ChunkSet)
    BY <2>4, AppendProperties
  <2> QED
    BY <1>5, <2>1, <2>2, <2>3, <2>10, <2>11, <2>12
<1>8. p \in Seq(ChunkSet)
  BY DEF Begins
<1>9. p \o t \in G[n]
  BY <1>4, <1>6, <1>7, <1>8, Along
<1>10. flat(n) = d.reasoning /\ n \in 0..n
  <2>1. SubSeq(pieces, 1, n) = pieces
    BY <1>1, BeginningEnds
  <2>2. n \in 0..n
    BY <1>2
  <2>3. flat(n) = FlattenSeq(pieces)
    BY <2>1
  <2> HIDE DEF flat
  <2> QED
    BY <2>2, <2>3
<1> HIDE DEF flat
<1> QED
  BY <1>3, <1>5, <1>9, <1>10

LEMMA SaysContent ==
  ASSUME NEW d \in DraftSet, NEW p, Begins(d, p, 2), Reading(p) = At(d.reasoning, <<>>, <<>>),
         NEW pieces \in Seq(Texts), FlattenSeq(pieces) = d.content
  PROVE  /\ Begins(d, p \o SaysAll("content", pieces), 3)
         /\ Reading(p \o SaysAll("content", pieces)) = At(d.reasoning, d.content, <<>>)
<1> DEFINE flat(k) == FlattenSeq(SubSeq(pieces, 1, k))
<1>1. PICK n : n = Len(pieces)
  OBVIOUS
<1>2. n \in Nat /\ \A k \in 1..n : pieces[k] \in Texts
  BY <1>1, LenProperties, ElementOfSeq
<1>3. PICK t : t = SaysAll("content", pieces)
  OBVIOUS
<1>4. /\ t \in Seq(ChunkSet) /\ Len(t) = n
      /\ \A k \in 1..n : t[k] = Says("content", pieces[k])
  BY <1>1, <1>2, <1>3, ChunkTypes DEF SaysAll
<1>5. PICK G : G = [k \in 0..n |-> {q \in Seq(ChunkSet) :
                      Begins(d, q, 3) /\ Reading(q) = At(d.reasoning, flat(k), <<>>)}]
  OBVIOUS
<1>6. p \in G[0]
  <2>1. Begins(d, p, 3) /\ p \in Seq(ChunkSet)
    BY BeginsLater DEF Begins
  <2>2. flat(0) = <<>>
    BY BeginningEnds, FlattenEmpty
  <2> QED
    BY <1>2, <1>5, <2>1, <2>2
<1>7. ASSUME NEW k \in 0..n - 1, NEW q \in Seq(ChunkSet), q \in G[k]
      PROVE  Append(q, t[k + 1]) \in G[k + 1]
  <2>1. k \in 0..n /\ k + 1 \in 0..n /\ k + 1 \in 1..n
    BY <1>2
  <2>2. Begins(d, q, 3) /\ Reading(q) = At(d.reasoning, flat(k), <<>>)
    BY <1>5, <1>7, <2>1
  <2>3. PICK c : c = t[k + 1]
    OBVIOUS
  <2>4. c \in ChunkSet /\ c.kind = "content" /\ c.text = pieces[k + 1]
    BY <1>2, <1>4, <2>1, <2>3, ChunkTypes
  <2>5. flat(k + 1) = flat(k) \o pieces[k + 1]
    BY <1>1, FlattenStep DEF Texts
  <2>6. IsPrefix(flat(k + 1), d.content)
    BY <1>1, <2>1, FlattenPrefix DEF Texts
  <2> HIDE DEF flat
  <2>7. /\ Reading(q).reasoning = d.reasoning /\ Reading(q).content = flat(k)
        /\ Reading(q).slots = <<>>
    BY <2>2 DEF At
  <2>8. Legal(d, Reading(q), c)
    BY <2>4, <2>5, <2>6, <2>7 DEF Legal
  <2>9. RankOf(c) = 3 /\ c.kind \in DeltaKinds \ {"role"}
    BY <2>4, RankOfKinds DEF DeltaKinds
  <2>10. Begins(d, Append(q, c), 3) /\ Reading(Append(q, c)) = Read(Reading(q), c)
    BY <2>2, <2>4, <2>8, <2>9, BeginsAppend
  <2>11. Read(At(d.reasoning, flat(k), <<>>), c) = At(d.reasoning, flat(k + 1), <<>>)
    BY <2>4, <2>5 DEF Read, At
  <2>12. Append(q, c) \in Seq(ChunkSet)
    BY <2>4, AppendProperties
  <2> QED
    BY <1>5, <2>1, <2>2, <2>3, <2>10, <2>11, <2>12
<1>8. p \in Seq(ChunkSet)
  BY DEF Begins
<1>9. p \o t \in G[n]
  BY <1>4, <1>6, <1>7, <1>8, Along
<1>10. flat(n) = d.content /\ n \in 0..n
  <2>1. SubSeq(pieces, 1, n) = pieces
    BY <1>1, BeginningEnds
  <2>2. n \in 0..n
    BY <1>2
  <2>3. flat(n) = FlattenSeq(pieces)
    BY <2>1
  <2> HIDE DEF flat
  <2> QED
    BY <2>2, <2>3
<1> HIDE DEF flat
<1> QED
  BY <1>3, <1>5, <1>9, <1>10

\* The role and the speech.
LEMMA SpeechReads ==
  ASSUME NEW d \in DraftSet, NEW m \in Modes
  PROVE  /\ Begins(d, <<Role>> \o Speech(d, m), 3)
         /\ Reading(<<Role>> \o Speech(d, m)) = At(d.reasoning, d.content, <<>>)
<1>1. PICK first, second :
        /\ first = (IF d.reasoning = <<>> THEN <<>>
                    ELSE SaysAll("reasoning", Pieces(d.reasoning, m)))
        /\ second = (IF d.content = <<>> THEN <<>>
                     ELSE SaysAll("content", Pieces(d.content, m)))
  OBVIOUS
<1>2. PICK p : p = <<Role>>
  OBVIOUS
<1>3. Begins(d, p, 1) /\ Reading(p) = Blank /\ p \in Seq(ChunkSet) /\ <<>> \in Seq(ChunkSet)
  BY <1>2, BeginsRole, EmptySeq DEF Begins
<1>4. d.reasoning \in Texts /\ d.content \in Texts
  BY DEF DraftSet
<1>5. Begins(d, p \o first, 2) /\ Reading(p \o first) = At(d.reasoning, <<>>, <<>>)
  <2>1. CASE d.reasoning = <<>>
    <3>1. p \o first = p
      BY <1>1, <1>3, <2>1, ConcatEmptySeq
    <3>2. Begins(d, p, 2)
      BY <1>3, BeginsLater
    <3>3. Blank = At(d.reasoning, <<>>, <<>>)
      BY <2>1 DEF Blank, At
    <3> QED
      BY <1>3, <3>1, <3>2, <3>3
  <2>2. CASE d.reasoning # <<>>
    <3>1. PICK pieces : pieces = Pieces(d.reasoning, m)
      OBVIOUS
    <3>2. pieces \in Seq(Texts) /\ FlattenSeq(pieces) = d.reasoning
      BY <1>4, <3>1, PiecesJoin
    <3>3. first = SaysAll("reasoning", pieces)
      BY <1>1, <2>2, <3>1
    <3> QED
      BY <1>3, <3>2, <3>3, SaysReasoning
  <2> QED
    BY <2>1, <2>2
<1>6. p \o first \in Seq(ChunkSet)
  BY <1>5 DEF Begins
<1>7. /\ Begins(d, (p \o first) \o second, 3)
      /\ Reading((p \o first) \o second) = At(d.reasoning, d.content, <<>>)
  <2>1. CASE d.content = <<>>
    <3>1. (p \o first) \o second = p \o first
      BY <1>1, <1>6, <2>1, ConcatEmptySeq
    <3>2. Begins(d, p \o first, 3)
      BY <1>5, BeginsLater
    <3> QED
      BY <1>5, <2>1, <3>1, <3>2
  <2>2. CASE d.content # <<>>
    <3>1. PICK pieces : pieces = Pieces(d.content, m)
      OBVIOUS
    <3>2. pieces \in Seq(Texts) /\ FlattenSeq(pieces) = d.content
      BY <1>4, <3>1, PiecesJoin
    <3>3. second = SaysAll("content", pieces)
      BY <1>1, <2>2, <3>1
    <3> QED
      BY <1>5, <3>2, <3>3, SaysContent
  <2> QED
    BY <2>1, <2>2
<1>8. first \in Seq(ChunkSet) /\ second \in Seq(ChunkSet)
  <2>1. \A kind \in {"reasoning", "content"}, pieces \in Seq(Texts) :
          SaysAll(kind, pieces) \in Seq(ChunkSet)
    BY ElementOfSeq, LenProperties, ChunkTypes DEF SaysAll
  <2> QED
    BY <1>1, <1>3, <1>4, <2>1, PiecesJoin
<1>9. (p \o first) \o second = p \o (first \o second)
  BY <1>3, <1>8, ConcatAssociative
<1>10. Speech(d, m) = first \o second
  BY <1>1 DEF Speech
<1> QED
  BY <1>2, <1>7, <1>9, <1>10

-----------------------------------------------------------------------------
(* The calls, one after the other or interleaved                            *)

\* F cuts the arguments of the calls of d.
Cuts(d, F) ==
  /\ F \in Seq(Seq(Texts)) /\ Len(F) = Len(d.tools)
  /\ \A j \in 1..Len(d.tools) : FlattenSeq(F[j]) = d.tools[j].args

\* A call of which k pieces have come, and the first n calls, prog[j] of the j-th.
Grows(d, F, j, k)   == [id |-> d.tools[j].id, args |-> FlattenSeq(SubSeq(F[j], 1, k))]
Sent(d, F, n, prog) == [j \in 1..n |-> Grows(d, F, j, prog[j])]

\* q has opened n calls and told prog[j] pieces of the j-th.
Reaches(d, F, q, n, prog) ==
  /\ n \in 0..Len(d.tools)
  /\ prog \in [1..Len(d.tools) -> Nat]
  /\ \A j \in 1..Len(d.tools) : prog[j] =< Len(F[j])
  /\ q \in Seq(ChunkSet) /\ Begins(d, q, 4)
  /\ Reading(q) = At(d.reasoning, d.content, Sent(d, F, n, prog))

LEMMA GrowsType ==
  ASSUME NEW d \in DraftSet, NEW F, Cuts(d, F),
         NEW j \in 1..Len(d.tools), NEW k \in 0..Len(F[j])
  PROVE  /\ Grows(d, F, j, k) \in SlotSet
         /\ Grows(d, F, j, k).id = d.tools[j].id
         /\ IsPrefix(Grows(d, F, j, k).args, d.tools[j].args)
<1>1. /\ d.tools \in Seq(SlotSet) /\ d.tools[j] \in SlotSet /\ F[j] \in Seq(Texts)
      /\ Len(F[j]) \in Nat
  <2>1. d.tools \in Seq(SlotSet)
    BY DEF DraftSet
  <2>2. F[j] \in Seq(Texts)
    BY ElementOfSeq DEF Cuts
  <2> QED
    BY <2>1, <2>2, ElementOfSeq, LenProperties
<1>2. PICK text : text = FlattenSeq(SubSeq(F[j], 1, k))
  OBVIOUS
<1>3. IsPrefix(text, d.tools[j].args)
  <2>1. IsPrefix(text, FlattenSeq(F[j]))
    BY <1>1, <1>2, FlattenPrefix DEF Texts
  <2> QED
    BY <2>1 DEF Cuts
<1>4. text \in Texts
  <2>1. SubSeq(F[j], 1, k) \in Seq(Texts)
    <3>1. CASE k = Len(F[j])
      BY <1>1, <3>1, BeginningEnds
    <3>2. CASE k # Len(F[j])
      <4>1. k \in 0..Len(F[j]) - 1
        BY <1>1, <3>2
      <4> QED
        BY <1>1, <4>1, BeginningStep
    <3> QED
      BY <3>1, <3>2
  <2> QED
    BY <1>2, <2>1, FlattenType DEF Texts
<1>5. PICK slot : slot = Grows(d, F, j, k)
  OBVIOUS
<1>6. slot = [id |-> d.tools[j].id, args |-> text]
  BY <1>2, <1>5 DEF Grows
<1>7. d.tools[j].id \in Names
  BY <1>1 DEF SlotSet
<1> QED
  BY <1>3, <1>4, <1>5, <1>6, <1>7 DEF SlotSet

\* No piece, one piece more, all pieces.
LEMMA GrowsStep ==
  ASSUME NEW d \in DraftSet, NEW F, Cuts(d, F), NEW j \in 1..Len(d.tools)
  PROVE  /\ Grows(d, F, j, 0) = [id |-> d.tools[j].id, args |-> <<>>]
         /\ \A k \in 0..Len(F[j]) - 1 :
              /\ F[j][k + 1] \in Texts
              /\ Grows(d, F, j, k + 1) =
                   [id |-> Grows(d, F, j, k).id, args |-> Grows(d, F, j, k).args \o F[j][k + 1]]
         /\ Grows(d, F, j, Len(F[j])) = d.tools[j]
<1>1. d.tools[j] \in SlotSet /\ F[j] \in Seq(Texts)
  <2>1. d.tools \in Seq(SlotSet)
    BY DEF DraftSet
  <2> QED
    BY <2>1, ElementOfSeq DEF Cuts
<1>2. PICK pieces : pieces = F[j]
  OBVIOUS
<1>3. pieces \in Seq(Texts)
  BY <1>1, <1>2
<1>4. Grows(d, F, j, 0) = [id |-> d.tools[j].id, args |-> <<>>]
  <2>1. SubSeq(pieces, 1, 0) = <<>>
    BY <1>3, BeginningEnds
  <2> QED
    BY <1>2, <2>1, FlattenEmpty DEF Grows
<1>5. ASSUME NEW k \in 0..Len(pieces) - 1
      PROVE  /\ pieces[k + 1] \in Texts
             /\ Grows(d, F, j, k + 1) =
                  [id |-> Grows(d, F, j, k).id, args |-> Grows(d, F, j, k).args \o pieces[k + 1]]
  <2>1. /\ pieces[k + 1] \in Texts
        /\ FlattenSeq(SubSeq(pieces, 1, k + 1)) = FlattenSeq(SubSeq(pieces, 1, k)) \o pieces[k + 1]
    BY <1>3, FlattenStep DEF Texts
  <2> QED
    BY <1>2, <2>1 DEF Grows
<1>6. Grows(d, F, j, Len(pieces)) = d.tools[j]
  <2>1. SubSeq(pieces, 1, Len(pieces)) = pieces
    BY <1>3, BeginningEnds
  <2>2. FlattenSeq(pieces) = d.tools[j].args
    BY <1>2 DEF Cuts
  <2>3. d.tools[j] = [id |-> d.tools[j].id, args |-> d.tools[j].args]
    BY <1>1 DEF SlotSet
  <2> QED
    BY <1>2, <2>1, <2>2, <2>3 DEF Grows
<1> QED
  BY <1>2, <1>4, <1>5, <1>6

LEMMA SentType ==
  ASSUME NEW d \in DraftSet, NEW F, Cuts(d, F), NEW n \in 0..Len(d.tools),
         NEW prog, \A j \in 1..n : prog[j] \in 0..Len(F[j])
  PROVE  /\ Sent(d, F, n, prog) \in Seq(SlotSet) /\ Len(Sent(d, F, n, prog)) = n
         /\ \A j \in 1..n : Sent(d, F, n, prog)[j] = Grows(d, F, j, prog[j])
<1>1. Len(d.tools) \in Nat /\ n \in Nat
  <2>1. d.tools \in Seq(SlotSet)
    BY DEF DraftSet
  <2> QED
    BY <2>1, LenProperties
<1>2. \A j \in 1..n : j \in 1..Len(d.tools)
  BY <1>1
<1>3. \A j \in 1..n : Grows(d, F, j, prog[j]) \in SlotSet
  BY <1>2, GrowsType
<1> QED
  BY <1>1, <1>3 DEF Sent

\* The next call is opened.
LEMMA CallReaches ==
  ASSUME NEW d \in DraftSet, NEW F, Cuts(d, F), NEW q, NEW n, NEW prog,
         Reaches(d, F, q, n, prog), n < Len(d.tools), prog[n + 1] = 0
  PROVE  Reaches(d, F, Append(q, Call(n + 1, d.tools[n + 1].id)), n + 1, prog)
<1>1. PICK c : c = Call(n + 1, d.tools[n + 1].id)
  OBVIOUS
<1>2. PICK sent, more : sent = Sent(d, F, n, prog) /\ more = Sent(d, F, n + 1, prog)
  OBVIOUS
<1>3. /\ Len(d.tools) \in Nat /\ n \in Nat /\ n + 1 \in 1..Len(d.tools)
      /\ d.tools[n + 1] \in SlotSet /\ d.tools[n + 1].id \in Names
      /\ n + 1 \in 0..Len(d.tools)
  <2>1. d.tools \in Seq(SlotSet) /\ Len(d.tools) \in Nat
    BY LenProperties DEF DraftSet
  <2>2. n \in Nat /\ n + 1 \in 1..Len(d.tools)
    BY <2>1 DEF Reaches
  <2>3. d.tools[n + 1] \in SlotSet
    BY <2>1, <2>2, ElementOfSeq
  <2> QED
    BY <2>1, <2>2, <2>3 DEF SlotSet
<1>4. /\ c \in ChunkSet /\ c.kind = "call" /\ c.index = n + 1
      /\ c.label = d.tools[n + 1].id /\ c.text = <<>>
  BY <1>1, <1>3, ChunkTypes
<1>5. \A j \in 1..n + 1 : prog[j] \in 0..Len(F[j])
  BY <1>3 DEF Reaches
<1>6. /\ sent \in Seq(SlotSet) /\ Len(sent) = n
      /\ \A j \in 1..n : sent[j] = Grows(d, F, j, prog[j])
  <2>1. n \in 0..Len(d.tools) /\ \A j \in 1..n : prog[j] \in 0..Len(F[j])
    BY <1>3, <1>5
  <2> QED
    BY <1>2, <2>1, SentType
<1>7. /\ more \in Seq(SlotSet) /\ Len(more) = n + 1
      /\ \A j \in 1..n + 1 : more[j] = Grows(d, F, j, prog[j])
  BY <1>2, <1>3, <1>5, SentType
<1>8. PICK new : new = [id |-> c.label, args |-> <<>>]
  OBVIOUS
<1>9. Append(sent, new) \in Seq(SlotSet) /\ Slot(sent, c) = Append(sent, new)
  BY <1>4, <1>6, <1>8, CallOpens
<1>10. new \in SlotSet /\ Grows(d, F, n + 1, 0) = new
  <2>1. <<>> \in Texts
    BY EmptySeq DEF Texts
  <2>2. new \in SlotSet
    BY <1>3, <1>4, <1>8, <2>1 DEF SlotSet
  <2> QED
    BY <1>3, <1>4, <1>8, <2>2, GrowsStep
<1>11. Append(sent, new) = more
  <2>1. PICK s : s = Append(sent, new)
    OBVIOUS
  <2>2. /\ s \in Seq(SlotSet) /\ Len(s) = n + 1 /\ s[n + 1] = new
        /\ \A j \in 1..n : s[j] = sent[j]
    BY <1>6, <1>10, <2>1, AppendProperties
  <2>3. \A j \in 1..n + 1 : s[j] = more[j]
    <3>1. SUFFICES ASSUME NEW j \in 1..n + 1 PROVE s[j] = more[j]
      OBVIOUS
    <3>2. CASE j = n + 1
      BY <1>7, <1>10, <2>2, <3>2
    <3>3. CASE j # n + 1
      <4>1. j \in 1..n
        BY <1>3, <3>3
      <4> QED
        BY <1>6, <1>7, <2>2, <4>1
    <3> QED
      BY <3>2, <3>3
  <2> QED
    BY <1>7, <2>1, <2>2, <2>3, SeqEqual
<1>12. Reading(q) = At(d.reasoning, d.content, sent)
  BY <1>2 DEF Reaches
<1>13. Legal(d, Reading(q), c)
  <2>1. /\ At(d.reasoning, d.content, sent).reasoning = d.reasoning
        /\ At(d.reasoning, d.content, sent).content = d.content
        /\ At(d.reasoning, d.content, sent).slots = sent
    BY DEF At
  <2>2. c.index =< Len(d.tools)
    BY <1>3, <1>4
  <2> QED
    BY <1>4, <1>6, <1>12, <2>1, <2>2 DEF Legal
<1>14. RankOf(c) = 4 /\ c.kind \in DeltaKinds \ {"role"}
  BY <1>4, RankOfKinds DEF DeltaKinds
<1>15. Begins(d, Append(q, c), 4) /\ Reading(Append(q, c)) = Read(Reading(q), c)
  <2>1. Begins(d, q, 4)
    BY DEF Reaches
  <2> QED
    BY <1>4, <1>13, <1>14, <2>1, BeginsAppend
<1>16. Read(At(d.reasoning, d.content, sent), c) = At(d.reasoning, d.content, more)
  BY <1>4, <1>9, <1>11 DEF Read, At
<1>17. Append(q, c) \in Seq(ChunkSet)
  BY <1>15 DEF Begins
<1> QED
  BY <1>1, <1>2, <1>3, <1>12, <1>15, <1>16, <1>17 DEF Reaches

\* One piece more of a call that is open.
LEMMA FragmentReaches ==
  ASSUME NEW d \in DraftSet, NEW F, Cuts(d, F), NEW q, NEW n, NEW prog,
         Reaches(d, F, q, n, prog), NEW i \in 1..n, prog[i] < Len(F[i])
  PROVE  Reaches(d, F, Append(q, Fragment(i, F[i][prog[i] + 1])), n,
                 [prog EXCEPT ![i] = prog[i] + 1])
<1>1. PICK c, next : /\ c = Fragment(i, F[i][prog[i] + 1])
                     /\ next = [prog EXCEPT ![i] = prog[i] + 1]
  OBVIOUS
<1>2. PICK sent, more : sent = Sent(d, F, n, prog) /\ more = Sent(d, F, n, next)
  OBVIOUS
<1>3. /\ Len(d.tools) \in Nat /\ n \in Nat /\ n =< Len(d.tools)
      /\ \A j \in 1..n : j \in 1..Len(d.tools)
  <2>1. d.tools \in Seq(SlotSet) /\ Len(d.tools) \in Nat
    BY LenProperties DEF DraftSet
  <2> QED
    BY <2>1 DEF Reaches
<1>4. \A j \in 1..Len(d.tools) : Len(F[j]) \in Nat /\ prog[j] \in 0..Len(F[j])
  <2>1. \A j \in 1..Len(d.tools) : F[j] \in Seq(Texts)
    BY ElementOfSeq DEF Cuts
  <2>2. \A j \in 1..Len(d.tools) : Len(F[j]) \in Nat
    BY <2>1, LenProperties
  <2>3. \A j \in 1..Len(d.tools) : prog[j] \in Nat /\ prog[j] =< Len(F[j])
    BY DEF Reaches
  <2> QED
    BY <2>2, <2>3
<1>5. i \in 1..Len(d.tools) /\ prog[i] \in 0..Len(F[i]) - 1 /\ prog[i] + 1 \in 0..Len(F[i])
  BY <1>3, <1>4
<1>6. PICK text : text = F[i][prog[i] + 1]
  OBVIOUS
<1>7. /\ text \in Texts
      /\ Grows(d, F, i, prog[i] + 1) =
           [id |-> Grows(d, F, i, prog[i]).id, args |-> Grows(d, F, i, prog[i]).args \o text]
  BY <1>5, <1>6, GrowsStep
<1>8. /\ c \in ChunkSet /\ c.kind = "fragment" /\ c.index = i /\ c.label = "none" /\ c.text = text
  BY <1>1, <1>3, <1>6, <1>7, ChunkTypes
<1>9. /\ next \in [1..Len(d.tools) -> Nat] /\ next[i] = prog[i] + 1
      /\ \A j \in 1..Len(d.tools) : j # i => next[j] = prog[j]
  BY <1>1, <1>5 DEF Reaches
<1>10. \A j \in 1..Len(d.tools) : next[j] \in 0..Len(F[j])
  BY <1>4, <1>5, <1>9
<1>11. n \in 0..Len(d.tools)
  BY <1>3
<1>12. /\ sent \in Seq(SlotSet) /\ Len(sent) = n
       /\ \A j \in 1..n : sent[j] = Grows(d, F, j, prog[j])
  <2>1. \A j \in 1..n : prog[j] \in 0..Len(F[j])
    BY <1>3, <1>4
  <2> QED
    BY <1>2, <1>11, <2>1, SentType
<1>13. /\ more \in Seq(SlotSet) /\ Len(more) = n
       /\ \A j \in 1..n : more[j] = Grows(d, F, j, next[j])
  <2>1. \A j \in 1..n : next[j] \in 0..Len(F[j])
    BY <1>3, <1>10
  <2> QED
    BY <1>2, <1>11, <2>1, SentType
<1>14. Grown(sent, i, text) \in Seq(SlotSet) /\ Slot(sent, c) = Grown(sent, i, text)
  BY <1>8, <1>12, FragmentGrows
<1>15. Grown(sent, i, text) = more
  <2>1. PICK new : new = [id |-> sent[i].id, args |-> sent[i].args \o text]
    OBVIOUS
  <2>2. new = more[i]
    BY <1>7, <1>9, <1>5, <1>12, <1>13, <2>1
  <2>3. PICK s : s = Grown(sent, i, text)
    OBVIOUS
  <2>4. s = [sent EXCEPT ![i] = new]
    BY <2>1, <2>3 DEF Grown
  <2>5. DOMAIN sent = 1..n
    BY <1>12, LenProperties
  <2>6. \A j \in 1..n : s[j] = IF j = i THEN new ELSE sent[j]
    BY <2>4, <2>5
  <2>7. \A j \in 1..n : s[j] = more[j]
    <3>1. SUFFICES ASSUME NEW j \in 1..n PROVE s[j] = more[j]
      OBVIOUS
    <3>2. CASE j = i
      BY <2>2, <2>6, <3>2
    <3>3. CASE j # i
      <4>1. next[j] = prog[j]
        BY <1>3, <1>9, <3>3
      <4> QED
        BY <1>12, <1>13, <2>6, <3>3, <4>1
    <3> QED
      BY <3>2, <3>3
  <2>8. s \in Seq(SlotSet) /\ Len(s) = n
    <3>1. DOMAIN s = 1..n /\ s \in Seq(SlotSet)
      BY <1>14, <2>3, <2>4, <2>5
    <3> QED
      BY <1>3, <3>1, LenProperties
  <2> QED
    BY <1>13, <2>3, <2>7, <2>8, SeqEqual
<1>16. Reading(q) = At(d.reasoning, d.content, sent)
  BY <1>2 DEF Reaches
<1>17. Legal(d, Reading(q), c)
  <2>1. /\ At(d.reasoning, d.content, sent).reasoning = d.reasoning
        /\ At(d.reasoning, d.content, sent).content = d.content
        /\ At(d.reasoning, d.content, sent).slots = sent
    BY DEF At
  <2>2. IsPrefix(Grows(d, F, i, prog[i] + 1).args, d.tools[i].args)
    BY <1>5, GrowsType
  <2>3. IsPrefix(sent[i].args \o text, d.tools[i].args)
    <3>1. Grows(d, F, i, prog[i] + 1).args = Grows(d, F, i, prog[i]).args \o text
      BY <1>7
    <3>2. sent[i] = Grows(d, F, i, prog[i])
      BY <1>12
    <3> QED
      BY <2>2, <3>1, <3>2
  <2> QED
    BY <1>8, <1>12, <1>16, <2>1, <2>3 DEF Legal
<1>18. RankOf(c) = 4 /\ c.kind \in DeltaKinds \ {"role"}
  BY <1>8, RankOfKinds DEF DeltaKinds
<1>19. Begins(d, Append(q, c), 4) /\ Reading(Append(q, c)) = Read(Reading(q), c)
  <2>1. Begins(d, q, 4)
    BY DEF Reaches
  <2> QED
    BY <1>8, <1>17, <1>18, <2>1, BeginsAppend
<1>20. Read(At(d.reasoning, d.content, sent), c) = At(d.reasoning, d.content, more)
  BY <1>8, <1>14, <1>15 DEF Read, At
<1>21. Append(q, c) \in Seq(ChunkSet)
  BY <1>19 DEF Begins
<1>22. \A j \in 1..Len(d.tools) : next[j] =< Len(F[j])
  BY <1>4, <1>10
<1>23. Reading(Append(q, c)) = At(d.reasoning, d.content, Sent(d, F, n, next))
  BY <1>2, <1>16, <1>19, <1>20
<1>24. Reaches(d, F, Append(q, c), n, next)
  BY <1>9, <1>11, <1>19, <1>21, <1>22, <1>23 DEF Reaches
<1> QED
  BY <1>1, <1>24

\* The pieces of the first i calls, k pieces of the next one.
InTurnAt(d, F, i, k) ==
  [j \in 1..Len(d.tools) |-> IF j =< i THEN Len(F[j]) ELSE IF j = i + 1 THEN k ELSE 0]

\* In round r the first i calls have had their turn.
InRound(d, F, r, i) ==
  [j \in 1..Len(d.tools) |->
     LET k == IF j =< i THEN r ELSE r - 1
     IN  IF k =< Len(F[j]) THEN k ELSE Len(F[j])]

LEMMA CutLengths ==
  ASSUME NEW d \in DraftSet, NEW F, Cuts(d, F)
  PROVE  /\ Len(d.tools) \in Nat
         /\ \A j \in 1..Len(d.tools) : /\ F[j] \in Seq(Texts) /\ Len(F[j]) \in Nat
                                       /\ d.tools[j].id \in Names
<1>1. d.tools \in Seq(SlotSet) /\ Len(d.tools) \in Nat
  BY LenProperties DEF DraftSet
<1>2. \A j \in 1..Len(d.tools) : F[j] \in Seq(Texts)
  BY ElementOfSeq DEF Cuts
<1>3. \A j \in 1..Len(d.tools) : Len(F[j]) \in Nat
  BY <1>2, LenProperties
<1>4. \A j \in 1..Len(d.tools) : d.tools[j].id \in Names
  <2>1. \A j \in 1..Len(d.tools) : d.tools[j] \in SlotSet
    BY <1>1, ElementOfSeq
  <2> QED
    BY <2>1 DEF SlotSet
<1> QED
  BY <1>1, <1>2, <1>3, <1>4

\* The deltas of one call in a row.
CallDeltas(d, F, i) ==
  <<Call(i, d.tools[i].id)>> \o [k \in 1..Len(F[i]) |-> Fragment(i, F[i][k])]

LEMMA CallInTurn ==
  ASSUME NEW d \in DraftSet, NEW F, Cuts(d, F), NEW i \in 1..Len(d.tools), NEW q,
         Reaches(d, F, q, i - 1, InTurnAt(d, F, i - 1, 0))
  PROVE  /\ CallDeltas(d, F, i) \in Seq(ChunkSet)
         /\ Reaches(d, F, q \o CallDeltas(d, F, i), i, InTurnAt(d, F, i, 0))
<1>1. /\ Len(d.tools) \in Nat
      /\ \A j \in 1..Len(d.tools) : /\ F[j] \in Seq(Texts) /\ Len(F[j]) \in Nat
                                    /\ d.tools[j].id \in Names
  BY CutLengths
<1>2. PICK n : n = Len(F[i])
  OBVIOUS
<1>3. i \in Nat /\ n \in Nat /\ i - 1 \in Nat /\ (i - 1) + 1 = i /\ i - 1 < Len(d.tools)
  BY <1>1, <1>2
<1>4. PICK c, t : /\ c = Call(i, d.tools[i].id)
                  /\ t = [k \in 1..n |-> Fragment(i, F[i][k])]
  OBVIOUS
<1>5. \A k \in 1..n : F[i][k] \in Texts
  BY <1>1, <1>2, ElementOfSeq
<1>6. /\ c \in ChunkSet /\ t \in Seq(ChunkSet) /\ Len(t) = n
      /\ \A k \in 1..n : t[k] = Fragment(i, F[i][k])
  BY <1>1, <1>3, <1>4, <1>5, ChunkTypes
<1>7. PICK prog : prog = [k \in 0..n |-> InTurnAt(d, F, i - 1, k)]
  OBVIOUS
<1>8. \A k \in 0..n : /\ prog[k] \in [1..Len(d.tools) -> Nat]
                      /\ \A j \in 1..Len(d.tools) :
                           prog[k][j] = IF j < i THEN Len(F[j]) ELSE IF j = i THEN k ELSE 0
  <2>1. SUFFICES ASSUME NEW k \in 0..n
                 PROVE  /\ prog[k] \in [1..Len(d.tools) -> Nat]
                        /\ \A j \in 1..Len(d.tools) :
                             prog[k][j] = IF j < i THEN Len(F[j]) ELSE IF j = i THEN k ELSE 0
    OBVIOUS
  <2>2. prog[k] = [j \in 1..Len(d.tools) |->
                     IF j =< i - 1 THEN Len(F[j]) ELSE IF j = (i - 1) + 1 THEN k ELSE 0]
    BY <1>7 DEF InTurnAt
  <2>3. \A j \in 1..Len(d.tools) : /\ j =< i - 1 <=> j < i
                                   /\ j = (i - 1) + 1 <=> j = i
    BY <1>3
  <2>4. \A j \in 1..Len(d.tools) :
          prog[k][j] = IF j < i THEN Len(F[j]) ELSE IF j = i THEN k ELSE 0
    BY <2>2, <2>3
  <2>5. \A j \in 1..Len(d.tools) : prog[k][j] \in Nat
    BY <1>1, <1>3, <2>4
  <2> QED
    BY <2>2, <2>4, <2>5
<1>9. PICK p : p = Append(q, c)
  OBVIOUS
<1>10. Reaches(d, F, p, i, prog[0])
  <2>1. prog[0] = InTurnAt(d, F, i - 1, 0) /\ prog[0][i] = 0
    BY <1>3, <1>7, <1>8
  <2>2. prog[0][(i - 1) + 1] = 0
    BY <1>3, <2>1
  <2> QED
    BY <1>3, <1>4, <1>9, <2>1, <2>2, CallReaches
<1>11. PICK G : G = [k \in 0..n |-> {s \in Seq(ChunkSet) : Reaches(d, F, s, i, prog[k])}]
  OBVIOUS
<1>12. p \in Seq(ChunkSet) /\ p \in G[0]
  BY <1>3, <1>10, <1>11 DEF Reaches
<1>13. ASSUME NEW k \in 0..n - 1, NEW s \in Seq(ChunkSet), s \in G[k]
       PROVE  Append(s, t[k + 1]) \in G[k + 1]
  <2>1. k \in 0..n /\ k + 1 \in 0..n /\ k + 1 \in 1..n /\ k < n
    BY <1>3
  <2>2. Reaches(d, F, s, i, prog[k])
    BY <1>11, <1>13, <2>1
  <2>3. prog[k][i] = k
    BY <1>8, <2>1
  <2>4. t[k + 1] = Fragment(i, F[i][prog[k][i] + 1])
    BY <1>6, <2>1, <2>3
  <2>5. i \in 1..i /\ prog[k][i] < Len(F[i])
    BY <1>2, <1>3, <2>1, <2>3
  <2>6. Reaches(d, F, Append(s, t[k + 1]), i, [prog[k] EXCEPT ![i] = prog[k][i] + 1])
    BY <2>2, <2>4, <2>5, FragmentReaches
  <2>7. [prog[k] EXCEPT ![i] = k + 1] = prog[k + 1]
    <3>1. PICK f : f = [prog[k] EXCEPT ![i] = k + 1]
      OBVIOUS
    <3>2. f = [j \in 1..Len(d.tools) |-> IF j = i THEN k + 1 ELSE prog[k][j]]
      BY <1>8, <2>1, <3>1
    <3>3. \A j \in 1..Len(d.tools) : prog[k + 1][j] = IF j = i THEN k + 1 ELSE prog[k][j]
      BY <1>3, <1>8, <2>1
    <3>4. prog[k + 1] = [j \in 1..Len(d.tools) |-> prog[k + 1][j]]
      BY <1>8, <2>1
    <3> QED
      BY <3>1, <3>2, <3>3, <3>4
  <2>8. Append(s, t[k + 1]) \in Seq(ChunkSet)
    BY <2>6 DEF Reaches
  <2> QED
    BY <1>11, <2>1, <2>3, <2>6, <2>7, <2>8
<1>14. p \o t \in G[n]
  BY <1>6, <1>12, <1>13, Along
<1>15. Reaches(d, F, p \o t, i, prog[n])
  BY <1>3, <1>11, <1>14
<1>16. prog[n] = InTurnAt(d, F, i, 0)
  <2>1. n \in 0..n
    BY <1>3
  <2>2. \A j \in 1..Len(d.tools) : prog[n][j] = InTurnAt(d, F, i, 0)[j]
    BY <1>2, <1>3, <1>8, <2>1 DEF InTurnAt
  <2>3. InTurnAt(d, F, i, 0) = [j \in 1..Len(d.tools) |-> InTurnAt(d, F, i, 0)[j]]
    BY DEF InTurnAt
  <2>4. prog[n] = [j \in 1..Len(d.tools) |-> prog[n][j]]
    BY <1>8, <2>1
  <2> QED
    BY <2>2, <2>3, <2>4
<1>17. CallDeltas(d, F, i) \in Seq(ChunkSet) /\ p \o t = q \o CallDeltas(d, F, i)
  <2>1. PICK e : e = <<c>>
    OBVIOUS
  <2>2. e \in Seq(ChunkSet) /\ q \in Seq(ChunkSet)
    BY <1>6, <2>1 DEF Reaches
  <2>3. CallDeltas(d, F, i) = e \o t
    BY <1>2, <1>4, <2>1 DEF CallDeltas
  <2>4. p = q \o e
    BY <1>6, <1>9, <2>1, <2>2, AppendIsConcat
  <2>5. (q \o e) \o t = q \o (e \o t)
    BY <1>6, <2>2, ConcatAssociative
  <2>6. e \o t \in Seq(ChunkSet)
    BY <1>6, <2>2, ConcatProperties
  <2> QED
    BY <2>3, <2>4, <2>5, <2>6
<1> QED
  BY <1>15, <1>16, <1>17

\* Nothing of the calls has been told yet.
LEMMA NothingReached ==
  ASSUME NEW d \in DraftSet, NEW F, Cuts(d, F), NEW p, Begins(d, p, 3),
         Reading(p) = At(d.reasoning, d.content, <<>>),
         NEW prog \in [1..Len(d.tools) -> {0}]
  PROVE  Reaches(d, F, p, 0, prog)
<1>1. /\ Len(d.tools) \in Nat
      /\ \A j \in 1..Len(d.tools) : Len(F[j]) \in Nat
  BY CutLengths
<1>2. Sent(d, F, 0, prog) = <<>>
  BY DEF Sent
<1>3. prog \in [1..Len(d.tools) -> Nat] /\ \A j \in 1..Len(d.tools) : prog[j] =< Len(F[j])
  BY <1>1
<1>4. Begins(d, p, 4) /\ p \in Seq(ChunkSet)
  BY BeginsLater DEF Begins
<1> QED
  BY <1>1, <1>2, <1>3, <1>4 DEF Reaches

\* Everything of the calls has been told.
LEMMA AllReached ==
  ASSUME NEW d \in DraftSet, NEW F, Cuts(d, F), NEW q, NEW prog,
         Reaches(d, F, q, Len(d.tools), prog),
         \A j \in 1..Len(d.tools) : prog[j] = Len(F[j])
  PROVE  Begins(d, q, 4) /\ Reading(q) = At(d.reasoning, d.content, d.tools)
<1>1. /\ Len(d.tools) \in Nat
      /\ \A j \in 1..Len(d.tools) : Len(F[j]) \in Nat
  BY CutLengths
<1>2. d.tools \in Seq(SlotSet)
  BY DEF DraftSet
<1>3. PICK sent : sent = Sent(d, F, Len(d.tools), prog)
  OBVIOUS
<1>4. /\ sent \in Seq(SlotSet) /\ Len(sent) = Len(d.tools)
      /\ \A j \in 1..Len(d.tools) : sent[j] = Grows(d, F, j, prog[j])
  <2>1. Len(d.tools) \in 0..Len(d.tools) /\ \A j \in 1..Len(d.tools) : prog[j] \in 0..Len(F[j])
    BY <1>1
  <2> QED
    BY <1>3, <2>1, SentType
<1>5. ASSUME NEW j \in 1..Len(d.tools) PROVE sent[j] = d.tools[j]
  <2>1. Grows(d, F, j, Len(F[j])) = d.tools[j]
    BY GrowsStep
  <2> QED
    BY <1>4, <2>1
<1>6. sent = d.tools
  BY <1>2, <1>4, <1>5, SeqEqual
<1> QED
  BY <1>3, <1>6 DEF Reaches

\* The calls one after the other.
LEMMA InTurnReads ==
  ASSUME NEW d \in DraftSet, NEW F, Cuts(d, F), NEW p, Begins(d, p, 3),
         Reading(p) = At(d.reasoning, d.content, <<>>)
  PROVE  /\ Begins(d, p \o InTurn(d.tools, F), 4)
         /\ Reading(p \o InTurn(d.tools, F)) = At(d.reasoning, d.content, d.tools)
<1>1. /\ Len(d.tools) \in Nat
      /\ \A j \in 1..Len(d.tools) : Len(F[j]) \in Nat /\ F[j] \in Seq(Texts)
                                    /\ d.tools[j].id \in Names
  BY CutLengths
<1>2. PICK n : n = Len(d.tools)
  OBVIOUS
<1>3. PICK t : t = [i \in 1..n |-> CallDeltas(d, F, i)]
  OBVIOUS
<1>4. InTurn(d.tools, F) = FlattenSeq(t)
  BY <1>2, <1>3 DEF InTurn, CallDeltas
<1>5. \A i \in 1..n : CallDeltas(d, F, i) \in Seq(ChunkSet)
  <2>1. SUFFICES ASSUME NEW i \in 1..n PROVE CallDeltas(d, F, i) \in Seq(ChunkSet)
    OBVIOUS
  <2>2. PICK c, u : c = <<Call(i, d.tools[i].id)>> /\ u = [k \in 1..Len(F[i]) |-> Fragment(i, F[i][k])]
    OBVIOUS
  <2>3. Call(i, d.tools[i].id) \in ChunkSet
    BY <1>1, <1>2, ChunkTypes
  <2>4. \A k \in 1..Len(F[i]) : Fragment(i, F[i][k]) \in ChunkSet
    BY <1>1, <1>2, ElementOfSeq, ChunkTypes
  <2>5. c \in Seq(ChunkSet) /\ u \in Seq(ChunkSet)
    BY <1>1, <1>2, <2>2, <2>3, <2>4
  <2> QED
    BY <2>2, <2>5, ConcatProperties DEF CallDeltas
<1>6. /\ t \in Seq(Seq(ChunkSet)) /\ Len(t) = n /\ n \in Nat
      /\ \A i \in 1..n : t[i] = CallDeltas(d, F, i)
  BY <1>1, <1>2, <1>3, <1>5
<1>7. PICK G : G = [i \in 0..n |-> {q \in Seq(ChunkSet) :
                      Reaches(d, F, q, i, InTurnAt(d, F, i, 0))}]
  OBVIOUS
<1>8. p \in Seq(ChunkSet) /\ p \in G[0]
  <2>1. InTurnAt(d, F, 0, 0) \in [1..Len(d.tools) -> {0}]
    BY <1>1 DEF InTurnAt
  <2>2. Reaches(d, F, p, 0, InTurnAt(d, F, 0, 0))
    BY <2>1, NothingReached
  <2> QED
    BY <1>6, <1>7, <2>2 DEF Reaches
<1>9. ASSUME NEW k \in 0..n - 1, NEW q \in Seq(ChunkSet), q \in G[k]
      PROVE  q \o t[k + 1] \in G[k + 1]
  <2>1. PICK i : i = k + 1
    OBVIOUS
  <2>2. i \in 1..n /\ i \in 0..n /\ i - 1 = k /\ k \in 0..n
    BY <1>6, <2>1
  <2>3. Reaches(d, F, q, i - 1, InTurnAt(d, F, i - 1, 0))
    BY <1>7, <1>9, <2>2
  <2>4. Reaches(d, F, q \o CallDeltas(d, F, i), i, InTurnAt(d, F, i, 0))
    BY <1>2, <2>2, <2>3, CallInTurn
  <2>5. q \o CallDeltas(d, F, i) \in Seq(ChunkSet)
    BY <2>4 DEF Reaches
  <2> QED
    BY <1>6, <1>7, <2>1, <2>2, <2>4, <2>5
<1>10. p \o FlattenSeq(t) \in G[n]
  BY <1>6, <1>8, <1>9, AlongEach
<1>11. Reaches(d, F, p \o FlattenSeq(t), n, InTurnAt(d, F, n, 0))
  BY <1>6, <1>7, <1>10
<1>12. \A j \in 1..Len(d.tools) : InTurnAt(d, F, n, 0)[j] = Len(F[j])
  BY <1>2 DEF InTurnAt
<1> QED
  BY <1>2, <1>4, <1>11, <1>12, AllReached

\* What call i says in round r.
TurnDeltas(d, F, r, i) ==
  (IF r = 1 THEN <<Call(i, d.tools[i].id)>> ELSE <<>>)
  \o (IF r =< Len(F[i]) THEN <<Fragment(i, F[i][r])>> ELSE <<>>)

\* The calls that are open when the first i have had their turn in round r.
Opened(d, r, i) == IF r = 1 THEN i ELSE Len(d.tools)

LEMMA TurnType ==
  ASSUME NEW d \in DraftSet, NEW F, Cuts(d, F), NEW r \in Nat \ {0},
         NEW i \in 1..Len(d.tools)
  PROVE  TurnDeltas(d, F, r, i) \in Seq(ChunkSet)
<1>1. PICK a, b : /\ a = (IF r = 1 THEN <<Call(i, d.tools[i].id)>> ELSE <<>>)
                  /\ b = (IF r =< Len(F[i]) THEN <<Fragment(i, F[i][r])>> ELSE <<>>)
  OBVIOUS
<1>2. /\ Len(d.tools) \in Nat /\ i \in Nat
      /\ F[i] \in Seq(Texts) /\ Len(F[i]) \in Nat /\ d.tools[i].id \in Names
  <2>1. /\ Len(d.tools) \in Nat
        /\ \A j \in 1..Len(d.tools) : /\ F[j] \in Seq(Texts) /\ Len(F[j]) \in Nat
                                      /\ d.tools[j].id \in Names
    BY CutLengths
  <2> QED
    BY <2>1
<1>3. Call(i, d.tools[i].id) \in ChunkSet
  BY <1>2, ChunkTypes
<1>4. r =< Len(F[i]) => Fragment(i, F[i][r]) \in ChunkSet
  <2>1. SUFFICES ASSUME r =< Len(F[i]) PROVE Fragment(i, F[i][r]) \in ChunkSet
    OBVIOUS
  <2>2. F[i][r] \in Texts
    BY <1>2, <2>1, ElementOfSeq
  <2> QED
    BY <1>2, <2>2, ChunkTypes
<1>5. a \in Seq(ChunkSet) /\ b \in Seq(ChunkSet)
  BY <1>1, <1>3, <1>4
<1> QED
  BY <1>1, <1>5, ConcatProperties DEF TurnDeltas

LEMMA TurnReaches ==
  ASSUME NEW d \in DraftSet, NEW F, Cuts(d, F), NEW r \in Nat \ {0},
         NEW i \in 1..Len(d.tools), NEW q,
         Reaches(d, F, q, Opened(d, r, i - 1), InRound(d, F, r, i - 1))
  PROVE  Reaches(d, F, q \o TurnDeltas(d, F, r, i), Opened(d, r, i), InRound(d, F, r, i))
<1>1. PICK a, b : /\ a = (IF r = 1 THEN <<Call(i, d.tools[i].id)>> ELSE <<>>)
                  /\ b = (IF r =< Len(F[i]) THEN <<Fragment(i, F[i][r])>> ELSE <<>>)
  OBVIOUS
<1>2. /\ Len(d.tools) \in Nat /\ i \in Nat
      /\ F[i] \in Seq(Texts) /\ Len(F[i]) \in Nat /\ d.tools[i].id \in Names
  <2>1. /\ Len(d.tools) \in Nat
        /\ \A j \in 1..Len(d.tools) : /\ F[j] \in Seq(Texts) /\ Len(F[j]) \in Nat
                                      /\ d.tools[j].id \in Names
    BY CutLengths
  <2> QED
    BY <2>1
<1>3. PICK prog, next : prog = InRound(d, F, r, i - 1) /\ next = InRound(d, F, r, i)
  OBVIOUS
<1>4. /\ prog = [j \in 1..Len(d.tools) |-> prog[j]] /\ next = [j \in 1..Len(d.tools) |-> next[j]]
      /\ DOMAIN prog = 1..Len(d.tools)
  BY <1>3 DEF InRound
<1>5. /\ \A j \in 1..Len(d.tools) : j # i => next[j] = prog[j]
      /\ prog[i] = IF r - 1 =< Len(F[i]) THEN r - 1 ELSE Len(F[i])
      /\ next[i] = IF r =< Len(F[i]) THEN r ELSE Len(F[i])
  <2>1. \A j \in 1..Len(d.tools) : j # i => (j =< i - 1 <=> j =< i)
    BY <1>2
  <2>2. ~(i =< i - 1) /\ i =< i
    BY <1>2
  <2> QED
    BY <1>3, <2>1, <2>2 DEF InRound
<1>6. q \in Seq(ChunkSet) /\ <<>> \in Seq(ChunkSet)
  BY EmptySeq DEF Reaches
<1>7. PICK p : p = q \o a
  OBVIOUS
<1>8. Reaches(d, F, p, Opened(d, r, i), prog) /\ a \in Seq(ChunkSet)
  <2>1. CASE r = 1
    <3>1. PICK c : c = Call(i, d.tools[i].id)
      OBVIOUS
    <3>2. c \in ChunkSet /\ a = <<c>> /\ a \in Seq(ChunkSet)
      BY <1>1, <1>2, <2>1, <3>1, ChunkTypes
    <3>3. p = Append(q, c)
      BY <1>6, <1>7, <3>2, AppendIsConcat
    <3>4. Opened(d, r, i - 1) = i - 1 /\ Opened(d, r, i) = i /\ (i - 1) + 1 = i
          /\ i - 1 < Len(d.tools)
      BY <1>2, <2>1 DEF Opened
    <3>5. prog[i] = 0
      BY <1>2, <1>5, <2>1
    <3>6. Reaches(d, F, q, i - 1, prog) /\ prog[(i - 1) + 1] = 0
      BY <1>3, <3>4, <3>5
    <3>7. Reaches(d, F, Append(q, Call((i - 1) + 1, d.tools[(i - 1) + 1].id)), (i - 1) + 1, prog)
      BY <3>4, <3>6, CallReaches
    <3> QED
      BY <3>1, <3>2, <3>3, <3>4, <3>7
  <2>2. CASE r # 1
    <3>1. a = <<>> /\ Opened(d, r, i - 1) = Opened(d, r, i)
      BY <1>1, <2>2 DEF Opened
    <3>2. p = q
      BY <1>6, <1>7, <3>1, ConcatEmptySeq
    <3> QED
      BY <1>3, <1>6, <3>1, <3>2
  <2> QED
    BY <2>1, <2>2
<1>9. p \in Seq(ChunkSet)
  BY <1>8 DEF Reaches
<1>10. i \in 1..Opened(d, r, i)
  BY <1>2 DEF Opened
<1>11. Reaches(d, F, p \o b, Opened(d, r, i), next) /\ b \in Seq(ChunkSet)
  <2>1. CASE r =< Len(F[i])
    <3>1. PICK c : c = Fragment(i, F[i][r])
      OBVIOUS
    <3>2. F[i][r] \in Texts
      BY <1>2, <2>1, ElementOfSeq
    <3>3. c \in ChunkSet /\ b = <<c>> /\ b \in Seq(ChunkSet)
      BY <1>1, <1>2, <2>1, <3>1, <3>2, ChunkTypes
    <3>4. p \o b = Append(p, c)
      BY <1>9, <3>3, AppendIsConcat
    <3>5. prog[i] = r - 1 /\ prog[i] + 1 = r /\ prog[i] < Len(F[i])
      BY <1>2, <1>5, <2>1
    <3>6. Reaches(d, F, Append(p, Fragment(i, F[i][prog[i] + 1])), Opened(d, r, i),
                  [prog EXCEPT ![i] = prog[i] + 1])
      BY <1>8, <1>10, <3>5, FragmentReaches
    <3>7. [prog EXCEPT ![i] = r] = next
      <4>1. PICK f : f = [prog EXCEPT ![i] = r]
        OBVIOUS
      <4>2. f = [j \in 1..Len(d.tools) |-> IF j = i THEN r ELSE prog[j]]
        BY <1>4, <4>1
      <4>3. \A j \in 1..Len(d.tools) : next[j] = IF j = i THEN r ELSE prog[j]
        BY <1>5, <2>1
      <4> QED
        BY <1>4, <4>1, <4>2, <4>3
    <3> QED
      BY <3>1, <3>3, <3>4, <3>5, <3>6, <3>7
  <2>2. CASE ~(r =< Len(F[i]))
    <3>1. b = <<>>
      BY <1>1, <2>2
    <3>2. p \o b = p
      BY <1>9, <3>1, ConcatEmptySeq
    <3>3. prog[i] = next[i]
      BY <1>2, <1>5, <2>2
    <3>4. prog = next
      <4>1. \A j \in 1..Len(d.tools) : prog[j] = next[j]
        BY <1>5, <3>3
      <4> QED
        BY <1>4, <4>1
    <3> QED
      BY <1>6, <1>8, <3>1, <3>2, <3>4
  <2> QED
    BY <2>1, <2>2
<1>12. (q \o a) \o b = q \o (a \o b)
  BY <1>6, <1>8, <1>11, ConcatAssociative
<1>13. TurnDeltas(d, F, r, i) = a \o b
  BY <1>1 DEF TurnDeltas
<1> QED
  BY <1>3, <1>7, <1>11, <1>12, <1>13

\* What all calls say in round r.
RoundDeltas(d, F, r) == FlattenSeq([i \in 1..Len(d.tools) |-> TurnDeltas(d, F, r, i)])

LEMMA RoundReaches ==
  ASSUME NEW d \in DraftSet, NEW F, Cuts(d, F), NEW r \in Nat \ {0}, NEW p,
         Reaches(d, F, p, Opened(d, r, 0), InRound(d, F, r, 0))
  PROVE  /\ RoundDeltas(d, F, r) \in Seq(ChunkSet)
         /\ Reaches(d, F, p \o RoundDeltas(d, F, r), Len(d.tools),
                    InRound(d, F, r, Len(d.tools)))
<1>1. PICK n : n = Len(d.tools)
  OBVIOUS
<1>2. n \in Nat
  BY <1>1, CutLengths
<1>3. PICK t : t = [i \in 1..n |-> TurnDeltas(d, F, r, i)]
  OBVIOUS
<1>4. RoundDeltas(d, F, r) = FlattenSeq(t)
  BY <1>1, <1>3 DEF RoundDeltas
<1>5. \A i \in 1..n : TurnDeltas(d, F, r, i) \in Seq(ChunkSet)
  BY <1>1, TurnType
<1>6. /\ t \in Seq(Seq(ChunkSet)) /\ Len(t) = n
      /\ \A i \in 1..n : t[i] = TurnDeltas(d, F, r, i)
  BY <1>2, <1>3, <1>5
<1>7. PICK G : G = [i \in 0..n |-> {q \in Seq(ChunkSet) :
                      Reaches(d, F, q, Opened(d, r, i), InRound(d, F, r, i))}]
  OBVIOUS
<1>8. p \in Seq(ChunkSet) /\ p \in G[0]
  BY <1>2, <1>7 DEF Reaches
<1>9. ASSUME NEW k \in 0..n - 1, NEW q \in Seq(ChunkSet), q \in G[k]
      PROVE  q \o t[k + 1] \in G[k + 1]
  <2>1. PICK i : i = k + 1
    OBVIOUS
  <2>2. i \in 1..n /\ i \in 0..n /\ i - 1 = k /\ k \in 0..n
    BY <1>2, <2>1
  <2>3. Reaches(d, F, q, Opened(d, r, i - 1), InRound(d, F, r, i - 1))
    BY <1>7, <1>9, <2>2
  <2>4. Reaches(d, F, q \o TurnDeltas(d, F, r, i), Opened(d, r, i), InRound(d, F, r, i))
    BY <1>1, <2>2, <2>3, TurnReaches
  <2>5. q \o TurnDeltas(d, F, r, i) \in Seq(ChunkSet)
    BY <2>4 DEF Reaches
  <2> QED
    BY <1>6, <1>7, <2>1, <2>2, <2>4, <2>5
<1>10. p \o FlattenSeq(t) \in G[n]
  BY <1>6, <1>8, <1>9, AlongEach
<1>11. Reaches(d, F, p \o FlattenSeq(t), Opened(d, r, n), InRound(d, F, r, n))
  BY <1>2, <1>7, <1>10
<1>12. Opened(d, r, n) = n
  BY <1>1 DEF Opened
<1>13. FlattenSeq(t) \in Seq(ChunkSet)
  BY <1>6, FlattenType
<1> QED
  BY <1>1, <1>4, <1>11, <1>12, <1>13

\* Some sequence is the longest of all.
LEMMA Longest ==
  ASSUME NEW S
  PROVE  \A s \in Seq(Seq(S)) : s # <<>> =>
           \E i \in 1..Len(s) : \A j \in 1..Len(s) : Len(s[j]) =< Len(s[i])
<1> DEFINE Best(s) == \E i \in 1..Len(s) : \A j \in 1..Len(s) : Len(s[j]) =< Len(s[i])
           T == {s \in Seq(Seq(S)) : s # <<>> => Best(s)}
<1>1. <<>> \in T
  BY EmptySeq
<1>2. ASSUME NEW s \in Seq(Seq(S)), NEW x \in Seq(S), s \in T
      PROVE  Append(s, x) \in T
  <2>1. PICK t, n : t = Append(s, x) /\ n = Len(s)
    OBVIOUS
  <2>2. /\ t \in Seq(Seq(S)) /\ n \in Nat /\ Len(t) = n + 1 /\ t[n + 1] = x
        /\ \A i \in 1..n : t[i] = s[i]
        /\ Len(x) \in Nat
    BY <2>1, AppendProperties, LenProperties
  <2>3. \A i \in 1..n : Len(s[i]) \in Nat
    <3>1. \A i \in 1..n : s[i] \in Seq(S)
      BY <2>1, ElementOfSeq
    <3> QED
      BY <3>1, LenProperties
  <2>4. CASE s = <<>>
    <3>1. n = 0
      BY <2>1, <2>4, EmptySeq
    <3>2. 1 \in 1..Len(t) /\ \A j \in 1..Len(t) : j = 1
      BY <2>2, <3>1
    <3>3. Best(t)
      BY <2>2, <3>1, <3>2
    <3> QED
      BY <2>1, <2>2, <3>3
  <2>5. CASE s # <<>>
    <3>1. PICK i \in 1..n : \A j \in 1..n : Len(s[j]) =< Len(s[i])
      BY <1>2, <2>1, <2>5
    <3>2. CASE Len(x) =< Len(s[i])
      <4>1. i \in 1..Len(t) /\ t[i] = s[i]
        BY <2>2
      <4>2. \A j \in 1..Len(t) : Len(t[j]) =< Len(t[i])
        <5>1. SUFFICES ASSUME NEW j \in 1..Len(t) PROVE Len(t[j]) =< Len(t[i])
          OBVIOUS
        <5>2. CASE j = n + 1
          BY <2>2, <3>2, <4>1, <5>2
        <5>3. CASE j # n + 1
          <6>1. j \in 1..n
            BY <2>2, <5>3
          <6> QED
            BY <2>2, <3>1, <4>1, <6>1
        <5> QED
          BY <5>2, <5>3
      <4> QED
        BY <2>1, <2>2, <4>1, <4>2
    <3>3. CASE ~(Len(x) =< Len(s[i]))
      <4>1. n + 1 \in 1..Len(t)
        BY <2>2
      <4>2. \A j \in 1..n : Len(s[j]) =< Len(x)
        BY <2>2, <2>3, <3>1, <3>3
      <4>3. \A j \in 1..Len(t) : Len(t[j]) =< Len(t[n + 1])
        <5>1. SUFFICES ASSUME NEW j \in 1..Len(t) PROVE Len(t[j]) =< Len(t[n + 1])
          OBVIOUS
        <5>2. CASE j = n + 1
          BY <2>2, <5>2
        <5>3. CASE j # n + 1
          <6>1. j \in 1..n
            BY <2>2, <5>3
          <6> QED
            BY <2>2, <4>2, <6>1
        <5> QED
          BY <5>2, <5>3
      <4> QED
        BY <2>1, <2>2, <4>1, <4>3
    <3> QED
      BY <3>2, <3>3
  <2> QED
    BY <2>4, <2>5
<1> HIDE DEF T
<1>3. \A s \in Seq(Seq(S)) : s \in T
  BY <1>1, <1>2, SeqSetInduction
<1> QED
  BY <1>3 DEF T

\* The calls round after round.
LEMMA InterleavedReads ==
  ASSUME NEW d \in DraftSet, NEW F, Cuts(d, F), Len(d.tools) > 1, NEW p, Begins(d, p, 3),
         Reading(p) = At(d.reasoning, d.content, <<>>)
  PROVE  /\ Begins(d, p \o Interleaved(d.tools, F), 4)
         /\ Reading(p \o Interleaved(d.tools, F)) = At(d.reasoning, d.content, d.tools)
<1>1. /\ Len(d.tools) \in Nat
      /\ \A j \in 1..Len(d.tools) : Len(F[j]) \in Nat /\ F[j] \in Seq(Texts)
  BY CutLengths
<1>2. PICK n : n = Len(d.tools)
  OBVIOUS
<1>3. PICK best : best = CHOOSE f \in ToSet(F) : \A g \in ToSet(F) : Len(g) =< Len(f)
  OBVIOUS
<1>4. best \in ToSet(F) /\ \A g \in ToSet(F) : Len(g) =< Len(best)
  <2>1. F \in Seq(Seq(Texts)) /\ Len(F) = n
    BY <1>2 DEF Cuts
  <2>2. F # <<>>
    BY <1>2, <2>1, EmptySeq
  <2>3. PICK i \in 1..n : \A j \in 1..n : Len(F[j]) =< Len(F[i])
    BY <2>1, <2>2, Longest
  <2>4. ToSet(F) = {F[j] : j \in 1..n}
    BY <2>1, LenProperties DEF ToSet
  <2>5. F[i] \in ToSet(F) /\ \A g \in ToSet(F) : Len(g) =< Len(F[i])
    BY <2>3, <2>4
  <2> QED
    BY <1>3, <2>5
<1>5. PICK rounds : rounds = 1 + Len(best)
  OBVIOUS
<1>6. rounds \in Nat /\ \A j \in 1..n : Len(F[j]) < rounds
  <2>1. F \in Seq(Seq(Texts)) /\ Len(F) = n
    BY <1>2 DEF Cuts
  <2>2. ToSet(F) = {F[j] : j \in 1..n}
    BY <2>1, LenProperties DEF ToSet
  <2>3. Len(best) \in Nat
    BY <1>1, <1>2, <1>4, <2>2
  <2> QED
    BY <1>1, <1>2, <1>4, <1>5, <2>2, <2>3
<1>7. PICK t : t = [r \in 1..rounds |-> RoundDeltas(d, F, r)]
  OBVIOUS
<1>8. Interleaved(d.tools, F) = FlattenSeq(t)
  BY <1>3, <1>5, <1>7 DEF Interleaved, RoundDeltas, TurnDeltas
<1>9. \A r \in 1..rounds : RoundDeltas(d, F, r) \in Seq(ChunkSet)
  <2>1. SUFFICES ASSUME NEW r \in 1..rounds PROVE RoundDeltas(d, F, r) \in Seq(ChunkSet)
    OBVIOUS
  <2>2. PICK u : u = [i \in 1..n |-> TurnDeltas(d, F, r, i)]
    OBVIOUS
  <2>3. \A i \in 1..n : TurnDeltas(d, F, r, i) \in Seq(ChunkSet)
    BY <1>2, <1>6, TurnType
  <2>4. u \in Seq(Seq(ChunkSet))
    BY <1>1, <1>2, <2>2, <2>3
  <2> QED
    BY <1>2, <2>2, <2>4, FlattenType DEF RoundDeltas
<1>10. /\ t \in Seq(Seq(ChunkSet)) /\ Len(t) = rounds
       /\ \A r \in 1..rounds : t[r] = RoundDeltas(d, F, r)
  BY <1>6, <1>7, <1>9
<1>11. PICK G : G = [r \in 0..rounds |-> {q \in Seq(ChunkSet) :
                       Reaches(d, F, q, IF r = 0 THEN 0 ELSE n, InRound(d, F, r, n))}]
  OBVIOUS
<1>12. p \in Seq(ChunkSet) /\ p \in G[0]
  <2>1. \A j \in 1..n : InRound(d, F, 0, n)[j] = 0
    BY <1>1, <1>2 DEF InRound
  <2>2. InRound(d, F, 0, n) = [j \in 1..n |-> InRound(d, F, 0, n)[j]]
    BY <1>2 DEF InRound
  <2>3. InRound(d, F, 0, n) \in [1..Len(d.tools) -> {0}]
    BY <1>2, <2>1, <2>2
  <2>4. Reaches(d, F, p, 0, InRound(d, F, 0, n))
    BY <2>3, NothingReached
  <2> QED
    BY <1>6, <1>11, <2>4 DEF Reaches
<1>13. ASSUME NEW k \in 0..rounds - 1, NEW q \in Seq(ChunkSet), q \in G[k]
       PROVE  q \o t[k + 1] \in G[k + 1]
  <2>1. PICK r : r = k + 1
    OBVIOUS
  <2>2. /\ r \in 1..rounds /\ r \in 0..rounds /\ r - 1 = k /\ k \in 0..rounds
        /\ r \in Nat \ {0} /\ r # 0 /\ (r = 1 <=> k = 0)
    BY <1>6, <2>1
  <2>3. Reaches(d, F, q, IF k = 0 THEN 0 ELSE n, InRound(d, F, k, n))
    BY <1>11, <1>13, <2>2
  <2>4. Opened(d, r, 0) = IF k = 0 THEN 0 ELSE n
    BY <1>2, <2>2 DEF Opened
  <2>5. InRound(d, F, r, 0) = InRound(d, F, k, n)
    <3>1. \A j \in 1..n : ~(j =< 0) /\ j =< n
      BY <1>1, <1>2
    <3>2. \A j \in 1..n : InRound(d, F, r, 0)[j] = InRound(d, F, k, n)[j]
      BY <1>2, <2>2, <3>1 DEF InRound
    <3>3. /\ InRound(d, F, r, 0) = [j \in 1..n |-> InRound(d, F, r, 0)[j]]
          /\ InRound(d, F, k, n) = [j \in 1..n |-> InRound(d, F, k, n)[j]]
      BY <1>2 DEF InRound
    <3> QED
      BY <3>2, <3>3
  <2>6. Reaches(d, F, q \o RoundDeltas(d, F, r), n, InRound(d, F, r, n))
    BY <1>2, <2>2, <2>3, <2>4, <2>5, RoundReaches
  <2>7. q \o RoundDeltas(d, F, r) \in Seq(ChunkSet)
    BY <2>6 DEF Reaches
  <2> QED
    BY <1>10, <1>11, <2>1, <2>2, <2>6, <2>7
<1>14. p \o FlattenSeq(t) \in G[rounds]
  BY <1>10, <1>12, <1>13, AlongEach
<1>15. Reaches(d, F, p \o FlattenSeq(t), n, InRound(d, F, rounds, n))
  <2>1. rounds # 0 /\ rounds \in 0..rounds
    BY <1>2, <1>1, <1>6
  <2> QED
    BY <1>11, <1>14, <2>1
<1>16. \A j \in 1..Len(d.tools) : InRound(d, F, rounds, n)[j] = Len(F[j])
  BY <1>1, <1>2, <1>6 DEF InRound
<1> QED
  BY <1>2, <1>8, <1>15, <1>16, AllReached

-----------------------------------------------------------------------------
(* The whole plan                                                           *)

\* A plan begins with the role and tells, one legal delta after another, all of the draft:
\* reasoning, content and every call with all its arguments, in every mode, interleaved
\* or not (wire.plan_deltas).
THEOREM PlanReads ==
  ASSUME NEW d \in DraftSet, NEW m \in Modes
  PROVE  /\ Begins(d, PlanDeltas(d, m), 4)
         /\ Reading(PlanDeltas(d, m)) = At(d.reasoning, d.content, d.tools)
<1>1. PICK F : F = [i \in 1..Len(d.tools) |-> Pieces(d.tools[i].args, m)]
  OBVIOUS
<1>2. Cuts(d, F)
  <2>1. d.tools \in Seq(SlotSet) /\ Len(d.tools) \in Nat
    BY LenProperties DEF DraftSet
  <2>2. \A i \in 1..Len(d.tools) : d.tools[i].args \in Texts
    <3>1. \A i \in 1..Len(d.tools) : d.tools[i] \in SlotSet
      BY <2>1, ElementOfSeq
    <3> QED
      BY <3>1 DEF SlotSet
  <2>3. \A i \in 1..Len(d.tools) : /\ Pieces(d.tools[i].args, m) \in Seq(Texts)
                                   /\ FlattenSeq(Pieces(d.tools[i].args, m)) = d.tools[i].args
    BY <2>2, PiecesJoin
  <2>4. F \in Seq(Seq(Texts)) /\ Len(F) = Len(d.tools)
    BY <1>1, <2>1, <2>3
  <2> QED
    BY <1>1, <2>3, <2>4 DEF Cuts
<1>3. PICK p : p = <<Role>> \o Speech(d, m)
  OBVIOUS
<1>4. Begins(d, p, 3) /\ Reading(p) = At(d.reasoning, d.content, <<>>)
  BY <1>3, SpeechReads
<1>5. CASE m.interleave /\ Len(d.tools) > 1
  <2>1. PlanDeltas(d, m) = p \o Interleaved(d.tools, F)
    BY <1>1, <1>3, <1>5 DEF PlanDeltas
  <2> QED
    BY <1>2, <1>4, <1>5, <2>1, InterleavedReads
<1>6. CASE ~(m.interleave /\ Len(d.tools) > 1)
  <2>1. PlanDeltas(d, m) = p \o InTurn(d.tools, F)
    BY <1>1, <1>3, <1>6 DEF PlanDeltas
  <2> QED
    BY <1>2, <1>4, <2>1, InTurnReads
<1> QED
  BY <1>5, <1>6

-----------------------------------------------------------------------------
(* The record of a log                                                      *)

\* A log that begins with the role is recorded as what has been read of it.
LEMMA RecordOf ==
  ASSUME NEW d, NEW s, Told(d, s), s # <<>>, s[1] = Role
  PROVE  Reconstruct(s) = [message |-> MessageOf(Reading(s)), reason |-> Reading(s).reason,
                           usage |-> Reading(s).usage, made |-> TRUE]
<1>1. s \in Seq(ChunkSet) /\ Reading(s) \in AccSet
  BY DEF Told, Beginning
<1>2. 1 \in 1..Len(s)
  BY <1>1, EmptySeq, LenProperties
<1>3. ~(\A i \in 1..Len(s) : s[i].kind = "done")
  BY <1>2, ChunkTypes
<1>4. PICK acc : acc = Reading(s)
  OBVIOUS
<1>5. acc.slots \in Seq(SlotSet)
  BY <1>1, <1>4 DEF AccSet
<1>6. InOrder(acc.slots) = acc.slots
  BY <1>5, InOrderSeq
<1> QED
  BY <1>3, <1>4, <1>6 DEF Reconstruct, MessageOf

LEMMA MessageOfRecord ==
  ASSUME NEW d, NEW s, Told(d, s), s # <<>> => s[1] = Role
  PROVE  Reconstruct(s).message = MessageOf(Reading(s))
<1>1. CASE s = <<>>
  <2>1. Len(<<>>) = 0
    BY EmptySeq
  <2>2. Reconstruct(<<>>) = NoObject
    BY <2>1 DEF Reconstruct
  <2>3. NoObject.message = Message(<<>>, <<>>, <<>>)
    BY DEF NoObject
  <2>4. MessageOf(Blank) = Message(<<>>, <<>>, <<>>)
    BY DEF MessageOf, Blank
  <2> QED
    BY <1>1, <2>2, <2>3, <2>4, ReadingEmpty
<1>2. CASE s # <<>>
  BY <1>2, RecordOf
<1> QED
  BY <1>1, <1>2

\* The frames that end a stream.
Closed(s, reason) ==
  s \o (IF s = <<>> THEN <<Role>> ELSE <<>>)
    \o <<FinishAs(reason)>>
    \o (IF IncludeUsage THEN <<Usage>> ELSE <<>>)
    \o <<Done>>

LEMMA ClosedReads ==
  ASSUME NEW d \in DraftSet, NEW s, Told(d, s), s # <<>> => s[1] = Role,
         NEW reason \in Names
  PROVE  /\ Told(d, Closed(s, reason))
         /\ Closed(s, reason) # <<>> /\ Closed(s, reason)[1] = Role
         /\ Reading(Closed(s, reason)) =
              [reasoning |-> Reading(s).reasoning, content |-> Reading(s).content,
               slots |-> Reading(s).slots, reason |-> reason,
               usage |-> IF IncludeUsage THEN TRUE ELSE Reading(s).usage]
<1>1. PICK t : t = s \o (IF s = <<>> THEN <<Role>> ELSE <<>>)
  OBVIOUS
<1>2. PICK acc : acc = Reading(s)
  OBVIOUS
<1>3. s \in Seq(ChunkSet) /\ <<>> \in Seq(ChunkSet)
  BY EmptySeq DEF Told
<1>4. /\ Told(d, t) /\ t \in Seq(ChunkSet) /\ t # <<>> /\ t[1] = Role
      /\ Reading(t).reasoning = acc.reasoning /\ Reading(t).content = acc.content
      /\ Reading(t).slots = acc.slots /\ Reading(t).usage = acc.usage
  <2>1. CASE s = <<>>
    <3>1. Role \in ChunkSet /\ Role.kind = "role"
      BY ChunkTypes
    <3>2. t = Append(s, Role)
      BY <1>1, <1>3, <2>1
    <3>3. Told(d, Append(s, Role))
      BY <3>1, ToldOther
    <3>4. /\ Reading(Append(s, Role)).reasoning = acc.reasoning
          /\ Reading(Append(s, Role)).content = acc.content
          /\ Reading(Append(s, Role)).slots = acc.slots
          /\ Reading(Append(s, Role)).usage = acc.usage
      <4>1. PICK c : c = Role
        OBVIOUS
      <4>2. c \in ChunkSet /\ c.kind = "role"
        BY <3>1, <4>1
      <4>3. Reading(Append(s, c)) =
              [reasoning |-> acc.reasoning, content |-> acc.content, slots |-> acc.slots,
               reason |-> IF c.kind = "finish" THEN c.label ELSE acc.reason,
               usage |-> IF c.kind = "usage" THEN TRUE ELSE acc.usage]
        BY <1>2, <4>2, ToldOther
      <4> QED
        BY <4>1, <4>2, <4>3
    <3>5. t # <<>> /\ t[1] = Role
      BY <2>1, <3>2
    <3>6. t \in Seq(ChunkSet)
      BY <1>3, <3>1, <3>2, AppendProperties
    <3> QED
      BY <3>2, <3>3, <3>4, <3>5, <3>6
  <2>2. CASE s # <<>>
    <3>1. t = s
      BY <1>1, <1>3, <2>2, ConcatEmptySeq
    <3> QED
      BY <1>2, <1>3, <2>2, <3>1
  <2> QED
    BY <2>1, <2>2
<1>5. PICK f : f = FinishAs(reason)
  OBVIOUS
<1>6. f \in ChunkSet /\ f.kind = "finish" /\ f.label = reason
  BY <1>5, ChunkTypes
<1>7. PICK u : u = Append(t, f)
  OBVIOUS
<1>8. /\ Told(d, u)
      /\ Reading(u) = [reasoning |-> acc.reasoning, content |-> acc.content,
                       slots |-> acc.slots, reason |-> reason, usage |-> acc.usage]
  <2>1. Told(d, u)
    BY <1>4, <1>6, <1>7, ToldOther
  <2>2. Reading(u) = [reasoning |-> Reading(t).reasoning, content |-> Reading(t).content,
                      slots |-> Reading(t).slots, reason |-> f.label, usage |-> Reading(t).usage]
    BY <1>4, <1>6, <1>7, ToldOther
  <2> QED
    BY <1>4, <1>6, <2>1, <2>2
<1>9. u \in Seq(ChunkSet) /\ u # <<>> /\ u[1] = Role /\ u = t \o <<f>>
  <2>1. 1 \in 1..Len(t)
    BY <1>4, EmptySeq, LenProperties
  <2>2. u \in Seq(ChunkSet) /\ u # <<>> /\ u[1] = t[1]
    BY <1>4, <1>6, <1>7, <2>1, AppendProperties
  <2>3. u = t \o <<f>>
    BY <1>4, <1>6, <1>7, AppendIsConcat
  <2> QED
    BY <1>4, <2>2, <2>3
<1>10. PICK v : v = u \o (IF IncludeUsage THEN <<Usage>> ELSE <<>>)
  OBVIOUS
<1>11. /\ Told(d, v) /\ v \in Seq(ChunkSet) /\ v # <<>> /\ v[1] = Role
       /\ Reading(v) = [reasoning |-> acc.reasoning, content |-> acc.content,
                        slots |-> acc.slots, reason |-> reason,
                        usage |-> IF IncludeUsage THEN TRUE ELSE acc.usage]
  <2>1. CASE IncludeUsage
    <3>1. PICK c : c = Usage
      OBVIOUS
    <3>2. c \in ChunkSet /\ c.kind = "usage"
      BY <3>1, ChunkTypes
    <3>3. v = Append(u, c)
      BY <1>9, <1>10, <2>1, <3>1, <3>2, AppendIsConcat
    <3>4. Told(d, v)
      BY <1>8, <3>2, <3>3, ToldOther
    <3>5. Reading(v) = [reasoning |-> Reading(u).reasoning, content |-> Reading(u).content,
                        slots |-> Reading(u).slots, reason |-> Reading(u).reason, usage |-> TRUE]
      BY <1>8, <3>2, <3>3, ToldOther
    <3>6. Reading(v) = [reasoning |-> acc.reasoning, content |-> acc.content,
                        slots |-> acc.slots, reason |-> reason, usage |-> TRUE]
      BY <1>8, <3>5
    <3>7. 1 \in 1..Len(u)
      BY <1>9, EmptySeq, LenProperties
    <3>8. v \in Seq(ChunkSet) /\ v # <<>> /\ v[1] = Role
      BY <1>9, <3>2, <3>3, <3>7, AppendProperties
    <3> QED
      BY <2>1, <3>4, <3>6, <3>8
  <2>2. CASE ~IncludeUsage
    <3>1. v = u
      BY <1>9, <1>10, <2>2, ConcatEmptySeq
    <3> QED
      BY <1>8, <1>9, <2>2, <3>1
  <2> QED
    BY <2>1, <2>2
<1>12. PICK e : e = Done
  OBVIOUS
<1>13. e \in ChunkSet /\ e.kind = "done"
  BY <1>12, ChunkTypes
<1>14. PICK w : w = Append(v, e)
  OBVIOUS
<1>15. Told(d, w)
  BY <1>11, <1>13, <1>14, ToldOther
<1>16. Reading(w) = [reasoning |-> Reading(v).reasoning, content |-> Reading(v).content,
                     slots |-> Reading(v).slots, reason |-> Reading(v).reason,
                     usage |-> Reading(v).usage]
  BY <1>11, <1>13, <1>14, ToldOther
<1>17. w = v \o <<e>>
  BY <1>11, <1>13, <1>14, AppendIsConcat
<1>18. w # <<>> /\ w[1] = Role
  <2>1. 1 \in 1..Len(v)
    BY <1>11, EmptySeq, LenProperties
  <2> QED
    BY <1>11, <1>13, <1>14, <2>1, AppendProperties
<1>19. Closed(s, reason) = w
  BY <1>1, <1>5, <1>9, <1>10, <1>12, <1>17 DEF Closed
<1> QED
  BY <1>2, <1>11, <1>15, <1>16, <1>18, <1>19

-----------------------------------------------------------------------------
(* The inductive invariant                                                  *)

Record(d) == [message |-> BuildMessage(d),
              reason  |-> ResolveFinishReason(d.finish, d.tools # <<>>),
              usage   |-> IncludeUsage,
              made    |-> TRUE]

\* What has been logged tells a beginning of the draft; as long as the stream is open,
\* the log and what is still to send are the plan; what was recorded is the log's.
TellsDraft ==
  /\ draft \in DraftSet
  /\ Told(draft, log)
  /\ log # <<>> => log[1] = Role
SplitsPlan ==
  /\ status = "pending" => log = <<>>
  /\ status = "active" => /\ mode \in Modes
                          /\ plan \in Seq(ChunkSet)
                          /\ log \o plan = PlanDeltas(draft, mode)
Recorded ==
  /\ status = "completed" => stored = Reconstruct(log)
  /\ status = "completed" /\ ~partial => stored = Record(draft)

ReplayInv == TellsDraft /\ SplitsPlan /\ Recorded

LEMMA DraftTypes ==
  /\ EmptyDraft \in DraftSet
  /\ Drafts \subseteq DraftSet
<1>1. EmptyDraft \in DraftSet
  <2>1. <<>> \in Texts /\ <<>> \in Seq(SlotSet) /\ "auto" \in Names
    BY EmptySeq DEF Texts, Names
  <2> QED
    BY <2>1 DEF EmptyDraft, DraftSet
<1>2. STRING \subseteq Names
  BY DEF Names
<1>3. [id : STRING, args : Texts] \subseteq SlotSet
  BY <1>2 DEF SlotSet
<1>4. Seq([id : STRING, args : Texts]) \subseteq Seq(SlotSet)
  <2>1. SUFFICES ASSUME NEW s \in Seq([id : STRING, args : Texts])
                 PROVE  s \in Seq(SlotSet)
    OBVIOUS
  <2>2. Len(s) \in Nat /\ s = [i \in 1..Len(s) |-> s[i]]
    BY LenProperties
  <2>3. \A i \in 1..Len(s) : s[i] \in SlotSet
    BY <1>3, ElementOfSeq
  <2>4. [i \in 1..Len(s) |-> s[i]] \in Seq(SlotSet)
    BY <2>2, <2>3
  <2> QED
    BY <2>2, <2>4
<1>5. Drafts \subseteq DraftSet
  <2>1. SUFFICES ASSUME NEW d \in Drafts PROVE d \in DraftSet
    OBVIOUS
  <2>2. d \in [reasoning : Texts, content : Texts,
               tools : Seq([id : STRING, args : Texts]), finish : STRING]
    BY WireAssumption
  <2> QED
    BY <1>2, <1>4, <2>2 DEF DraftSet
<1> QED
  BY <1>1, <1>5

LEMMA ReplayInit == Init => ReplayInv
<1> SUFFICES ASSUME Init PROVE ReplayInv
  OBVIOUS
<1>1. /\ draft = EmptyDraft /\ log = <<>> /\ status = "pending"
  BY DEF Init
<1>2. TellsDraft
  BY <1>1, DraftTypes, ToldEmpty DEF TellsDraft
<1>3. SplitsPlan
  BY <1>1 DEF SplitsPlan
<1>4. Recorded
  BY <1>1 DEF Recorded
<1> QED
  BY <1>2, <1>3, <1>4 DEF ReplayInv

LEMMA SubmitStep ==
  ASSUME ReplayInv, NEW d \in Drafts, NEW m \in Modes, Submit(d, m)
  PROVE  ReplayInv'
<1>1. /\ status = "pending" /\ status' = "active" /\ draft' = d /\ mode' = m
      /\ plan' = PlanDeltas(d, m) /\ log' = log
  BY DEF Submit
<1>2. log = <<>> /\ d \in DraftSet
  BY <1>1, DraftTypes DEF ReplayInv, SplitsPlan
<1>3. PlanDeltas(d, m) \in Seq(ChunkSet)
  BY <1>2, PlanReads DEF Begins
<1>4. TellsDraft'
  <2>1. Told(d, <<>>)
    BY <1>2, ToldEmpty
  <2> QED
    BY <1>1, <1>2, <2>1 DEF TellsDraft
<1>5. SplitsPlan'
  <2>1. <<>> \o PlanDeltas(d, m) = PlanDeltas(d, m)
    BY <1>3, ConcatEmptySeq
  <2>2. log' \o plan' = PlanDeltas(draft', mode')
    BY <1>1, <1>2, <2>1
  <2> QED
    BY <1>1, <1>3, <2>2 DEF SplitsPlan
<1>6. Recorded'
  BY <1>1 DEF Recorded
<1> QED
  BY <1>4, <1>5, <1>6 DEF ReplayInv

\* What comes next is legal where the log stands.
LEMMA SendStep ==
  ASSUME ReplayInv, SendDelta
  PROVE  ReplayInv'
<1>1. PICK c : c = Head(plan)
  OBVIOUS
<1>2. /\ status = "active" /\ plan # <<>> /\ log' = Append(log, c) /\ plan' = Tail(plan)
      /\ draft' = draft /\ mode' = mode /\ status' = status
  BY <1>1 DEF SendDelta
<1>3. PICK p : p = PlanDeltas(draft, mode)
  OBVIOUS
<1>4. /\ draft \in DraftSet /\ mode \in Modes /\ Told(draft, log)
      /\ log \in Seq(ChunkSet) /\ plan \in Seq(ChunkSet) /\ log \o plan = p
  BY <1>2, <1>3 DEF ReplayInv, TellsDraft, SplitsPlan, Told
<1>5. Begins(draft, p, 4)
  BY <1>3, <1>4, PlanReads
<1>6. PICK k : k = Len(log)
  OBVIOUS
<1>7. /\ c \in ChunkSet /\ c = plan[1] /\ Tail(plan) \in Seq(ChunkSet)
      /\ <<c>> \in Seq(ChunkSet) /\ plan = <<c>> \o Tail(plan)
  BY <1>1, <1>2, <1>4, HeadAndTail
<1>8. /\ p \in Seq(ChunkSet) /\ Len(p) = k + Len(plan) /\ k \in Nat /\ Len(plan) \in Nat
      /\ Len(plan) # 0
      /\ \A i \in 1..k + Len(plan) : p[i] = IF i =< k THEN log[i] ELSE plan[i - k]
  BY <1>2, <1>4, <1>6, ConcatProperties, LenProperties, EmptySeq
<1>9. k + 1 \in 1..Len(p) /\ p[k + 1] = c
  <2>1. k + 1 \in 1..k + Len(plan) /\ ~(k + 1 =< k) /\ (k + 1) - k = 1
    BY <1>8
  <2> QED
    BY <1>7, <1>8, <2>1
<1>10. SubSeq(p, 1, k) = log
  <2>1. IsPrefix(log, p)
    BY <1>4, PrefixConcat
  <2>2. SubSeq(p, 1, k) = SubSeq(log, 1, k)
    BY <1>6, <2>1 DEF IsPrefix
  <2> QED
    BY <1>4, <1>6, <2>2, BeginningEnds
<1>11. Legal(draft, Reading(log), c)
  <2>1. (k + 1) - 1 = k
    BY <1>8
  <2>2. Legal(draft, Reading(SubSeq(p, 1, (k + 1) - 1)), p[k + 1])
    BY <1>5, <1>9 DEF Begins
  <2> QED
    BY <1>9, <1>10, <2>1, <2>2
<1>12. Told(draft, Append(log, c))
  BY <1>4, <1>7, <1>11, ToldDelta
<1>13. Append(log, c)[1] = Role
  <2>1. CASE log = <<>>
    <3>1. k = 0 /\ p[1] = Role
      BY <1>5, <1>6, <2>1, EmptySeq DEF Begins
    <3>2. c = Role
      BY <1>9, <3>1
    <3> QED
      BY <2>1, <3>2
  <2>2. CASE log # <<>>
    <3>1. 1 \in 1..Len(log)
      BY <1>4, <2>2, EmptySeq, LenProperties
    <3>2. log[1] = Role
      BY <2>2 DEF ReplayInv, TellsDraft
    <3> QED
      BY <1>4, <1>7, <3>1, <3>2, AppendProperties
  <2> QED
    BY <2>1, <2>2
<1>14. Append(log, c) \o Tail(plan) = p
  <2>1. PICK e, t : e = <<c>> /\ t = Tail(plan)
    OBVIOUS
  <2>2. e \in Seq(ChunkSet) /\ t \in Seq(ChunkSet) /\ plan = e \o t
    BY <1>7, <2>1
  <2>3. Append(log, c) = log \o e
    BY <1>4, <1>7, <2>1, AppendIsConcat
  <2>4. (log \o e) \o t = log \o (e \o t)
    BY <1>4, <2>2, ConcatAssociative
  <2> QED
    BY <1>4, <2>1, <2>2, <2>3, <2>4
<1>15. TellsDraft'
  BY <1>2, <1>4, <1>12, <1>13 DEF TellsDraft
<1>16. SplitsPlan'
  BY <1>2, <1>3, <1>4, <1>7, <1>14 DEF SplitsPlan
<1>17. Recorded'
  BY <1>2 DEF Recorded
<1> QED
  BY <1>15, <1>16, <1>17 DEF ReplayInv

\* The answer to a finish frame, cut off or not.
LEMMA CompleteStep ==
  ASSUME ReplayInv, NEW reason \in Names, NEW cutOff \in BOOLEAN, Complete(reason, cutOff),
         ~cutOff => /\ Reading(log) = At(draft.reasoning, draft.content, draft.tools)
                    /\ reason = ResolveFinishReason(draft.finish, draft.tools # <<>>)
  PROVE  ReplayInv'
<1>1. /\ log' = Closed(log, reason) /\ stored' = Reconstruct(log')
      /\ status' = "completed" /\ partial' = cutOff /\ draft' = draft
  BY DEF Complete, Closed
<1>2. draft \in DraftSet /\ Told(draft, log) /\ (log # <<>> => log[1] = Role)
  BY DEF ReplayInv, TellsDraft
<1>3. PICK s : s = Closed(log, reason)
  OBVIOUS
<1>4. /\ Told(draft, s) /\ s # <<>> /\ s[1] = Role
      /\ Reading(s) =
           [reasoning |-> Reading(log).reasoning, content |-> Reading(log).content,
            slots |-> Reading(log).slots, reason |-> reason,
            usage |-> IF IncludeUsage THEN TRUE ELSE Reading(log).usage]
  BY <1>2, <1>3, ClosedReads
<1>5. TellsDraft'
  BY <1>1, <1>2, <1>3, <1>4 DEF TellsDraft
<1>6. SplitsPlan'
  BY <1>1 DEF SplitsPlan
<1>7. ~cutOff => Reconstruct(s) = Record(draft)
  <2>1. SUFFICES ASSUME ~cutOff PROVE Reconstruct(s) = Record(draft)
    OBVIOUS
  <2>2. PICK acc : acc = Reading(s)
    OBVIOUS
  <2>3. Reconstruct(s) = [message |-> MessageOf(acc), reason |-> acc.reason,
                          usage |-> acc.usage, made |-> TRUE]
    BY <1>4, <2>2, RecordOf
  <2>4. /\ acc.reasoning = draft.reasoning /\ acc.content = draft.content
        /\ acc.slots = draft.tools /\ acc.reason = reason /\ acc.usage = IncludeUsage
    <3>1. /\ Reading(log).reasoning = draft.reasoning /\ Reading(log).content = draft.content
          /\ Reading(log).slots = draft.tools /\ Reading(log).usage = FALSE
      BY <2>1 DEF At
    <3>2. IncludeUsage \in BOOLEAN
      BY WireAssumption
    <3>3. PICK old : old = Reading(log)
      OBVIOUS
    <3>4. /\ acc.reasoning = old.reasoning /\ acc.content = old.content
          /\ acc.slots = old.slots /\ acc.reason = reason
      BY <1>4, <2>2, <3>3
    <3>5. acc.usage = IF IncludeUsage THEN TRUE ELSE old.usage
      BY <1>4, <2>2, <3>3
    <3>6. acc.usage = IncludeUsage
      <4>1. old.usage = FALSE
        BY <3>1, <3>3
      <4>2. CASE IncludeUsage = TRUE
        BY <3>5, <4>2
      <4>3. CASE IncludeUsage = FALSE
        BY <3>5, <4>1, <4>3
      <4> QED
        BY <3>2, <4>2, <4>3
    <3> QED
      BY <3>1, <3>3, <3>4, <3>6
  <2>5. MessageOf(acc) = BuildMessage(draft)
    BY <2>4 DEF MessageOf, BuildMessage
  <2> QED
    BY <2>1, <2>3, <2>4, <2>5 DEF Record
<1>8. Recorded'
  <2>1. stored' = Reconstruct(s)
    BY <1>1, <1>3
  <2> QED
    BY <1>1, <1>3, <1>7, <2>1 DEF Recorded
<1> QED
  BY <1>5, <1>6, <1>8 DEF ReplayInv

LEMMA ReplayStep == ReplayInv /\ [Next]_vars => ReplayInv'
<1> SUFFICES ASSUME ReplayInv, [Next]_vars PROVE ReplayInv'
  OBVIOUS
<1>1. CASE \E d \in Drafts, m \in Modes : Submit(d, m)
  BY <1>1, SubmitStep
<1>2. CASE SendDelta
  BY <1>2, SendStep
<1>3. CASE Finish
  <2>1. PICK reason : reason = ResolveFinishReason(draft.finish, draft.tools # <<>>)
    OBVIOUS
  <2>2. status = "active" /\ plan = <<>> /\ Complete(reason, FALSE)
    BY <1>3, <2>1 DEF Finish
  <2>3. /\ draft \in DraftSet /\ mode \in Modes /\ log \in Seq(ChunkSet)
        /\ log \o plan = PlanDeltas(draft, mode)
    BY <2>2 DEF ReplayInv, TellsDraft, SplitsPlan, Told
  <2>4. log = PlanDeltas(draft, mode)
    BY <2>2, <2>3, ConcatEmptySeq
  <2>5. Reading(log) = At(draft.reasoning, draft.content, draft.tools)
    BY <2>3, <2>4, PlanReads
  <2>6. reason \in Names
    <3>1. draft.finish \in Names /\ "tool_calls" \in Names /\ "stop" \in Names
      BY <2>3 DEF DraftSet, Names
    <3> QED
      BY <2>1, <3>1 DEF ResolveFinishReason
  <2> QED
    BY <2>1, <2>2, <2>5, <2>6, CompleteStep
<1>4. CASE \E reason \in {"stop", "length"} : FinishPartial(reason)
  <2>1. PICK reason \in {"stop", "length"} : FinishPartial(reason)
    BY <1>4
  <2>2. Complete(reason, TRUE)
    BY <2>1 DEF FinishPartial
  <2>3. reason \in Names
    BY <2>1 DEF Names
  <2> QED
    BY <2>2, <2>3, CompleteStep
<1>5. CASE CutShort
  <2>1. status' = "aborted" /\ draft' = draft /\ log' = log
    BY <1>5 DEF CutShort
  <2> QED
    BY <2>1 DEF ReplayInv, TellsDraft, SplitsPlan, Recorded
<1>6. CASE UNCHANGED vars
  BY <1>6 DEF vars, ReplayInv, TellsDraft, SplitsPlan, Recorded
<1>7. CASE Ended
  BY <1>6, <1>7 DEF Ended
<1> QED
  BY <1>1, <1>2, <1>3, <1>4, <1>5, <1>6, <1>7 DEF Next

\* The invariant holds in every state of every behaviour.
THEOREM Replays == Spec => []ReplayInv
<1>1. Init => ReplayInv
  BY ReplayInit
<1>2. ReplayInv /\ [Next]_vars => ReplayInv'
  BY ReplayStep
<1> QED
  BY <1>1, <1>2, PTL DEF Spec

-----------------------------------------------------------------------------
(* The properties                                                           *)

\* A plan opens with the role and keeps its phases in order, in every mode
\* (wire.plan_deltas).
THEOREM PlansArePhased == Spec => []PlanPhased
<1>1. ReplayInv => PlanPhased
  <2> SUFFICES ASSUME ReplayInv, status = "active"
               PROVE  IsPlan([i \in 1..Len(Deltas) |-> AsStep(Deltas[i])])
    BY DEF PlanPhased
  <2>1. PICK p : p = Deltas
    OBVIOUS
  <2>2. Begins(draft, p, 4)
    BY <2>1, PlanReads DEF ReplayInv, TellsDraft, SplitsPlan, Deltas
  <2>3. p \in Seq(ChunkSet) /\ p # <<>> /\ Len(p) \in Nat /\ 1 \in 1..Len(p)
    <3>1. p \in Seq(ChunkSet) /\ p # <<>>
      BY <2>2 DEF Begins
    <3> QED
      BY <3>1, EmptySeq, LenProperties
  <2>4. PICK steps : steps = [i \in 1..Len(p) |-> AsStep(p[i])]
    OBVIOUS
  <2>5. \A i \in 1..Len(p) : AsStep(p[i]) \in Step
    <3>1. SUFFICES ASSUME NEW i \in 1..Len(p) PROVE AsStep(p[i]) \in Step
      OBVIOUS
    <3>2. p[i].kind \in DeltaKinds
      BY <2>2 DEF Begins
    <3>3. PhaseOf(p[i]) \in Phases
      BY <3>2 DEF PhaseOf, Phases, DeltaKinds
    <3> QED
      BY <3>3 DEF AsStep, Step
  <2>6. /\ steps \in Seq(Step) /\ Len(steps) = Len(p)
        /\ \A i \in 1..Len(p) : steps[i].what = PhaseOf(p[i])
    <3>1. \A i \in 1..Len(p) : AsStep(p[i]).what = PhaseOf(p[i])
      BY DEF AsStep
    <3> QED
      BY <2>3, <2>4, <2>5, <3>1
  <2>7. steps # <<>>
    BY <2>3, <2>6, EmptySeq
  <2>8. steps[1] = [what |-> "role", paced |-> FALSE]
    <3>1. p[1] = Role
      BY <2>2 DEF Begins
    <3>2. Role.kind = "role"
      BY ChunkTypes
    <3>3. AsStep(Role) = [what |-> "role", paced |-> FALSE]
      <4>1. PhaseOf(Role) = "role"
        BY <3>2 DEF PhaseOf
      <4>2. (Role.kind \in {"reasoning", "content", "fragment"}) = FALSE
        BY <3>2
      <4> QED
        BY <4>1, <4>2 DEF AsStep
    <3> QED
      BY <2>3, <2>4, <3>1, <3>3
  <2>9. \A i \in 1..Len(p) : Rank[steps[i].what] = RankOf(p[i])
    BY <2>6 DEF RankOf
  <2>10. \A i \in 2..Len(p) : Rank[steps[i].what] > 1
    <3>1. \A i \in 2..Len(p) : i \in 1..Len(p) /\ RankOf(p[i]) > 1
      BY <2>2, <2>3 DEF Begins
    <3> QED
      BY <2>9, <3>1
  <2>11. \A i, j \in 1..Len(p) : i < j => Rank[steps[i].what] =< Rank[steps[j].what]
    <3>1. \A i, j \in 1..Len(p) : i < j => RankOf(p[i]) =< RankOf(p[j])
      BY <2>2 DEF Begins
    <3> QED
      BY <2>9, <3>1
  <2>12. IsPlan(steps)
    BY <2>6, <2>7, <2>8, <2>10, <2>11 DEF IsPlan
  <2> QED
    BY <2>1, <2>4, <2>12
<1> QED
  BY <1>1, Replays, PTL

\* Whatever has been sent so far rebuilds to a beginning of the draft
\* (wire.reconstruct_from_frames).
THEOREM LogsReadAsPrefixes == Spec => []PrefixReplay
<1>1. ReplayInv => PrefixReplay
  <2> SUFFICES ASSUME ReplayInv PROVE PrefixReplay
    OBVIOUS
  <2>1. PICK acc : acc = Reading(log)
    OBVIOUS
  <2>2. Told(draft, log) /\ (log # <<>> => log[1] = Role)
    BY DEF ReplayInv, TellsDraft
  <2>3. Beginning(draft, acc)
    BY <2>1, <2>2 DEF Told
  <2>4. Reconstruct(log).message = MessageOf(acc)
    BY <2>1, <2>2, MessageOfRecord
  <2>5. /\ MessageOf(acc).reasoning = acc.reasoning /\ MessageOf(acc).content = acc.content
        /\ MessageOf(acc).tools = acc.slots
    BY DEF MessageOf, Message
  <2> QED
    BY <2>3, <2>4, <2>5 DEF PrefixReplay, Beginning
<1> QED
  BY <1>1, Replays, PTL

\* A stream that ran to its end is recorded as the message the non-streaming endpoint
\* would have returned (state.py:598).
THEOREM StreamsRoundTrip == Spec => []RoundTrip
<1>1. ReplayInv => RoundTrip
  BY DEF ReplayInv, Recorded, RoundTrip, Record
<1> QED
  BY <1>1, Replays, PTL

\* The client that accumulates the stream and the server that rebuilds it from the log
\* read the same message (demo_client.py:32-88).
THEOREM ClientReadsTheSame == Spec => []ClientAgrees
<1>1. ReplayInv => ClientAgrees
  <2> SUFFICES ASSUME ReplayInv PROVE ClientAgrees
    OBVIOUS
  <2>1. Told(draft, log) /\ (log # <<>> => log[1] = Role)
    BY DEF ReplayInv, TellsDraft
  <2>2. Reconstruct(log).message = MessageOf(Reading(log))
    BY <2>1, MessageOfRecord
  <2> QED
    BY <2>1, <2>2 DEF ClientAgrees, Told
<1> QED
  BY <1>1, Replays, PTL

\* What `maycomb verify` replays is what was stored, as long as the log is no longer than
\* what the query returns (cli.py:84-108).
THEOREM VerifyAgrees == Spec => [](Len(log) =< EventLimit => DualRepresentation)
<1>1. ReplayInv => (Len(log) =< EventLimit => DualRepresentation)
  <2> SUFFICES ASSUME ReplayInv, Len(log) =< EventLimit, status = "completed"
               PROVE  Reconstruct(Events) = stored
    BY DEF DualRepresentation
  <2>1. log \in Seq(ChunkSet) /\ stored = Reconstruct(log)
    BY DEF ReplayInv, TellsDraft, Told, Recorded
  <2>2. Events = SubSeq(log, 1, Len(log))
    <3>1. Len(log) \in Nat /\ EventLimit \in Nat
      BY <2>1, LenProperties, WireAssumption
    <3>2. (IF Len(log) < EventLimit THEN Len(log) ELSE EventLimit) = Len(log)
      BY <3>1
    <3> QED
      BY <3>2 DEF Events
  <2>3. Events = log
    BY <2>1, <2>2, BeginningEnds
  <2> QED
    BY <2>1, <2>3
<1> QED
  BY <1>1, Replays, PTL

=============================================================================
