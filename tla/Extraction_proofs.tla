-------------------------- MODULE Extraction_proofs --------------------------
(***************************************************************************)
(* Proofs about the extraction of messages and the reading of them: the    *)
(* loops of module MessageExtractor store what module MessageReading reads,*)
(* for requests of any length and depth.                                   *)
(*                                                                         *)
(* The loops are folds.  That a fold goes through a sequence step by step  *)
(* is shown for each of them (the provers take no theorem about a fold of  *)
(* any operator); the induction over the steps is one over sets of numbers.*)
(***************************************************************************)
EXTENDS MessageExtractor, MessageReading, SequenceTheorems, WellFoundedInduction, TLAPS

-----------------------------------------------------------------------------
(* Induction and recursion up to a bound *)

\* A set that holds 0 and the successor of each of its numbers holds them all.
LEMMA SetInduction ==
    ASSUME NEW S, 0 \in S, \A k \in Nat : k \in S => k+1 \in S
    PROVE  Nat \subseteq S
<1> DEFINE T == Nat \ S
<1>1. SUFFICES ASSUME T # {} PROVE FALSE
    OBVIOUS
<1>2. IsWellFoundedOn(OpToRel(<, Nat), Nat)
    BY NatLessThanWellFounded
<1>3. PICK x \in T : \A y \in T : ~ (<<y, x>> \in OpToRel(<, Nat))
    BY <1>1, <1>2, WFMin
<1>4. \A y \in T : ~(y < x)
    BY <1>3 DEF OpToRel
<1>5. x \in Nat /\ x # 0 /\ x-1 \in Nat /\ x-1 \notin T
    BY <1>4
<1>6. QED
    BY <1>5

\* Induction up to a bound.
LEMMA UpTo ==
    ASSUME NEW n \in Nat, NEW S, 0 \in S, \A k \in 1 .. n : k-1 \in S => k \in S
    PROVE  0 .. n \subseteq S
<1> DEFINE T == {k \in Nat : k <= n => k \in S}
<1>1. 0 \in T
    OBVIOUS
<1>2. ASSUME NEW k \in Nat, k \in T PROVE k+1 \in T
  <2> SUFFICES ASSUME k+1 <= n PROVE k+1 \in S
      OBVIOUS
  <2>1. k+1 \in 1 .. n /\ (k+1)-1 = k /\ k \in S
      BY <1>2
  <2> QED
      BY <2>1
<1>3. Nat \subseteq T
  <2> HIDE DEF T
  <2> QED
      BY <1>1, <1>2, SetInduction
<1> QED
    BY <1>3

\* A function is defined by its first value and how each follows from the one before.
IsRecursion(h, S, n, base, next) ==
    /\ h \in [0 .. n -> S]
    /\ h[0] = base
    /\ \A k \in 1 .. n : h[k] = next[<<k, h[k-1]>>]

\* Such a function exists.
LEMMA Recursion ==
    ASSUME NEW S, NEW n \in Nat, NEW base \in S, NEW next \in [(1 .. n) \X S -> S]
    PROVE  \E h : IsRecursion(h, S, n, base, next)
<1> DEFINE Solves(h, k) ==
               /\ h \in [0 .. k -> S]
               /\ h[0] = base
               /\ \A j \in 1 .. k : h[j] = next[<<j, h[j-1]>>]
           K == {k \in 0 .. n : \E h : Solves(h, k)}
<1>1. 0 \in K
  <2> DEFINE h == [j \in 0 .. 0 |-> base]
  <2>1. Solves(h, 0)
      OBVIOUS
  <2> HIDE DEF h
  <2> QED
      BY <2>1
<1>2. ASSUME NEW k \in 1 .. n, k-1 \in K PROVE k \in K
  <2>1. PICK h : Solves(h, k-1)
    <3> HIDE DEF Solves
    <3> QED
        BY <1>2
  <2> DEFINE g == [j \in 0 .. k |-> IF j = k THEN next[<<k, h[k-1]>>] ELSE h[j]]
  <2>2. g \in [0 .. k -> S]
    <3>1. h[k-1] \in S /\ \A j \in 0 .. k : j # k => j \in 0 .. k-1
        BY <2>1
    <3> QED
        BY <2>1, <3>1
  <2>3. g[0] = base
      BY <2>1
  <2>4. ASSUME NEW j \in 1 .. k PROVE g[j] = next[<<j, g[j-1]>>]
    <3>1. j-1 \in 0 .. k-1 /\ g[j-1] = h[j-1]
        OBVIOUS
    <3>2. CASE j = k
        BY <3>1, <3>2
    <3>3. CASE j # k
      <4>1. j \in 1 .. k-1 /\ g[j] = h[j]
          BY <3>3
      <4> HIDE DEF g
      <4> QED
          BY <4>1, <3>1, <2>1
    <3> QED
        BY <3>2, <3>3
  <2>5. Solves(g, k)
    <3> HIDE DEF g
    <3> QED
        BY <2>2, <2>3, <2>4
  <2> HIDE DEF g, Solves
  <2> QED
      BY <2>5
<1>3. 0 .. n \subseteq K
  <2> HIDE DEF K
  <2> QED
      BY <1>1, <1>2, UpTo
<1>4. \E h : Solves(h, n)
  <2> HIDE DEF Solves
  <2> QED
      BY <1>3
<1> QED
    BY <1>4 DEF IsRecursion

\* Nothing flattens to nothing.
LEMMA FlattenEmpty == FlattenSeq(<<>>) = <<>>
BY DEF FlattenSeq

\* Flattening goes through the sequences one by one.
LEMMA FlattenSteps ==
    ASSUME NEW S, NEW ss \in Seq(Seq(S))
    PROVE  \E h : /\ h \in [0 .. Len(ss) -> Seq(S)]
                  /\ h[0] = <<>>
                  /\ \A k \in 1 .. Len(ss) : h[k] = h[k-1] \o ss[k]
                  /\ FlattenSeq(ss) = h[Len(ss)]
<1> DEFINE n == Len(ss)
           next == [p \in (1 .. n) \X Seq(S) |-> p[2] \o ss[p[1]]]
<1>1. n \in Nat /\ <<>> \in Seq(S) /\ \A k \in 1 .. n : ss[k] \in Seq(S)
    OBVIOUS
<1>2. next \in [(1 .. n) \X Seq(S) -> Seq(S)]
    BY <1>1
<1>3. PICK h : IsRecursion(h, Seq(S), n, <<>>, next)
  <2> HIDE DEF n, next
  <2> QED
      BY <1>1, <1>2, Recursion
<1>4. /\ h \in [0 .. n -> Seq(S)]
      /\ h[0] = <<>>
      /\ \A k \in 1 .. n : h[k] = h[k-1] \o ss[k]
  <2>1. \A k \in 1 .. n : k-1 \in 0 .. n /\ h[k-1] \in Seq(S)
    <3> HIDE DEF n, next
    <3> QED
        BY <1>1, <1>3 DEF IsRecursion
  <2>2. \A k \in 1 .. n : next[<<k, h[k-1]>>] = h[k-1] \o ss[k]
      BY <2>1
  <2> HIDE DEF next
  <2> QED
      BY <1>3, <2>2 DEF IsRecursion
<1> DEFINE Equation(f) == f = [i \in 1 .. n |-> IF i = 1 THEN ss[i] ELSE f[i-1] \o ss[i]]
           flatten == CHOOSE f : Equation(f)
<1> HIDE DEF n, next
<1>a. n # 0 => h[1] = ss[1]
  <2>1. SUFFICES ASSUME n # 0 PROVE h[1] = ss[1]
      OBVIOUS
  <2>0. 1 \in 1 .. n
      BY <1>1, <2>1
  <2>3. ss[1] \in Seq(S) /\ h[1] = h[1-1] \o ss[1]
      BY <1>1, <1>4, <2>0
  <2>2. h[1] = h[0] \o ss[1] /\ ss[1] \in Seq(S)
      BY <2>3
  <2> QED
      BY <2>2, <1>4, ConcatEmptySeq
<1>5. ASSUME n = 0 PROVE FlattenSeq(ss) = h[n]
    BY <1>4, <1>5 DEF FlattenSeq, n
<1>6. ASSUME n # 0 PROVE FlattenSeq(ss) = h[n]
  <2>1. \E f : Equation(f)
    <3> DEFINE f == [i \in 1 .. n |-> h[i]]
    <3>1. ASSUME NEW i \in 1 .. n
          PROVE  h[i] = IF i = 1 THEN ss[i] ELSE f[i-1] \o ss[i]
      <4>1. CASE i = 1
          BY <4>1, <1>a
      <4>2. CASE i # 1
        <5>1. i-1 \in 1 .. n
            BY <4>2, <1>1
        <5> QED
            BY <4>2, <5>1, <1>4
      <4> QED
          BY <4>1, <4>2
    <3>2. Equation(f)
        BY <3>1
    <3> QED
        BY <3>2
  <2>2. Equation(flatten)
    <3> HIDE DEF Equation
    <3> QED
        BY <2>1
  <2>3. FlattenSeq(ss) = flatten[n]
      BY <1>6, <1>1, Zenon DEF FlattenSeq, n
  <2> HIDE DEF flatten
  <2>4. 0 .. n \subseteq {k \in Nat : k # 0 => flatten[k] = h[k]}
    <3> DEFINE K == {k \in Nat : k # 0 => flatten[k] = h[k]}
    <3>1. 0 \in K
        OBVIOUS
    <3>2. ASSUME NEW k \in 1 .. n, k-1 \in K PROVE k \in K
      <4>1. CASE k = 1
          BY <4>1, <1>a, <2>2, <1>6
      <4>2. CASE k # 1
        <5>1. k-1 \in 1 .. n /\ k-1 # 0
            BY <4>2, <1>1
        <5>2. flatten[k] = flatten[k-1] \o ss[k]
            BY <2>2, <4>2
        <5>3. h[k] = h[k-1] \o ss[k]
            BY <1>4
        <5>4. flatten[k-1] = h[k-1]
            BY <5>1, <3>2
        <5>5. k \in Nat
            BY <1>1
        <5> QED
            BY <5>2, <5>3, <5>4, <5>5
      <4> QED
          BY <4>1, <4>2
    <3> HIDE DEF K
    <3>3. 0 .. n \subseteq K
        BY <3>1, <3>2, <1>1, UpTo
    <3> QED
        BY <3>3 DEF K
  <2>5. flatten[n] = h[n]
      BY <1>1, <1>6, <2>4
  <2> QED
      BY <2>3, <2>5
<1> QED
    BY <1>4, <1>5, <1>6 DEF n

\* One sequence more is flattened to the end.
LEMMA FlattenAppend ==
    ASSUME NEW S, NEW ss \in Seq(Seq(S)), NEW t \in Seq(S)
    PROVE  /\ FlattenSeq(ss) \in Seq(S)
           /\ FlattenSeq(Append(ss, t)) = FlattenSeq(ss) \o t
<1> DEFINE n == Len(ss)
           tt == Append(ss, t)
<1>1. PICK h : /\ h \in [0 .. n -> Seq(S)]
               /\ h[0] = <<>>
               /\ \A k \in 1 .. n : h[k] = h[k-1] \o ss[k]
               /\ FlattenSeq(ss) = h[n]
    BY FlattenSteps
<1>2. /\ tt \in Seq(Seq(S)) /\ Len(tt) = n+1 /\ n \in Nat
      /\ \A k \in 1 .. n : tt[k] = ss[k]
      /\ tt[n+1] = t
    OBVIOUS
<1> HIDE DEF n, tt
<1>a. PICK g : /\ g \in [0 .. Len(tt) -> Seq(S)]
               /\ g[0] = <<>>
               /\ \A k \in 1 .. Len(tt) : g[k] = g[k-1] \o tt[k]
               /\ FlattenSeq(tt) = g[Len(tt)]
    BY <1>2, FlattenSteps
<1>3. /\ g[0] = <<>>
      /\ \A k \in 1 .. n+1 : g[k] = g[k-1] \o tt[k]
      /\ FlattenSeq(tt) = g[n+1]
    BY <1>2, <1>a
<1>4. 0 .. n \subseteq {k \in Nat : g[k] = h[k]}
  <2> DEFINE K == {k \in Nat : g[k] = h[k]}
  <2>1. 0 \in K
      BY <1>1, <1>3
  <2>2. ASSUME NEW k \in 1 .. n, k-1 \in K PROVE k \in K
    <3>1. k \in 1 .. n+1 /\ k \in Nat
        BY <1>2
    <3>2. g[k] = g[k-1] \o tt[k] /\ h[k] = h[k-1] \o ss[k] /\ tt[k] = ss[k]
        BY <3>1, <1>1, <1>2, <1>3
    <3> QED
        BY <2>2, <3>1, <3>2
  <2> HIDE DEF K
  <2>3. 0 .. n \subseteq K
      BY <2>1, <2>2, <1>2, UpTo
  <2> QED
      BY <2>3 DEF K
<1>5. n+1 \in 1 .. n+1 /\ (n+1)-1 = n /\ n \in 0 .. n
    BY <1>2
<1>6. g[n+1] = g[n] \o t /\ g[n] = h[n] /\ h[n] \in Seq(S)
    BY <1>1, <1>2, <1>3, <1>4, <1>5
<1>7. FlattenSeq(ss) \in Seq(S) /\ FlattenSeq(tt) = FlattenSeq(ss) \o t
    BY <1>1, <1>3, <1>6
<1> QED
    BY <1>7 DEF tt

\* The first k elements of a sequence.
Begin(s, k) == SubSeq(s, 1, k)

\* The beginnings of a sequence grow by one element at a time.
LEMMA BeginSteps ==
    ASSUME NEW S, NEW s \in Seq(S)
    PROVE  /\ Len(s) \in Nat
           /\ Begin(s, 0) = <<>>
           /\ Begin(s, Len(s)) = s
           /\ \A k \in 1 .. Len(s) :
                 /\ s[k] \in S
                 /\ k-1 \in 0 .. Len(s)
                 /\ Begin(s, k-1) \in Seq(S)
                 /\ Len(Begin(s, k-1)) = k-1
                 /\ Begin(s, k) = Append(Begin(s, k-1), s[k])
<1>1. Len(s) \in Nat /\ Begin(s, 0) = <<>>
    BY DEF Begin
<1>2. Begin(s, Len(s)) = s
    BY SubSeqFull DEF Begin
<1>3. ASSUME NEW k \in 1 .. Len(s)
      PROVE  /\ s[k] \in S
             /\ k-1 \in 0 .. Len(s)
             /\ Begin(s, k-1) \in Seq(S)
             /\ Len(Begin(s, k-1)) = k-1
             /\ Begin(s, k) = Append(Begin(s, k-1), s[k])
  <2>1. s[k] \in S /\ k-1 \in 0 .. Len(s)
      BY <1>1
  <2>2. Begin(s, k-1) \in Seq(S)
      BY <1>1, <2>1 DEF Begin
  <2>2a. Len(Begin(s, k-1)) = k-1
      BY <1>1, <2>1 DEF Begin
  <2>3. 1 \in 1 .. Len(s) /\ k \in 1 .. Len(s)
      BY <1>1
  <2>4. SubSeq(s, 1, k) = SubSeq(s, 1, k-1) \o <<s[k]>>
      BY <2>3, SubSeqRecursiveSecond
  <2>5. Begin(s, k) = Append(Begin(s, k-1), s[k])
      BY <2>1, <2>2, <2>4, AppendIsConcat DEF Begin
  <2> QED
      BY <2>1, <2>2, <2>2a, <2>5
<1> QED
    BY <1>1, <1>2, <1>3

\* What Having, Within and TextsOf put one after the other.
Singles(avps, code) ==
    [i \in DOMAIN avps |-> IF avps[i].code = code THEN <<avps[i]>> ELSE <<>>]

Members(avps, code) ==
    [i \in DOMAIN avps |-> IF avps[i].code = code THEN avps[i].members ELSE <<>>]

Pieces(avps, code) ==
    [i \in DOMAIN avps |-> IF avps[i].code = code THEN avps[i].text ELSE <<>>]

\* An empty message has no AVP.
LEMMA ReadingEmpty ==
    ASSUME NEW code
    PROVE  Having(<<>>, code) = <<>> /\ Within(<<>>, code) = <<>>
<1>1. Singles(<<>>, code) = <<>> /\ Members(<<>>, code) = <<>>
    BY DEF Singles, Members
<1> QED
    BY <1>1, FlattenEmpty DEF Having, Within, Singles, Members

\* The AVPs of a code are AVPs of the message.
LEMMA HavingType ==
    ASSUME NEW S, NEW s \in Seq(S), NEW code
    PROVE  Singles(s, code) \in Seq(Seq(S)) /\ Having(s, code) \in Seq(S)
<1>1. Singles(s, code) \in Seq(Seq(S))
  <2>1. DOMAIN s = 1 .. Len(s) /\ Len(s) \in Nat /\ \A i \in 1 .. Len(s) : s[i] \in S
      OBVIOUS
  <2>2. \A i \in DOMAIN s : (IF s[i].code = code THEN <<s[i]>> ELSE <<>>) \in Seq(S)
      BY <2>1
  <2>3. Singles(s, code) \in [1 .. Len(s) -> Seq(S)]
      BY <2>1, <2>2 DEF Singles
  <2> QED
      BY <2>1, <2>3, SeqDef
<1>2. <<>> \in Seq(S)
    OBVIOUS
<1>3. FlattenSeq(Singles(s, code)) \in Seq(S)
    BY <1>1, <1>2, FlattenAppend
<1> QED
    BY <1>1, <1>3 DEF Having, Singles

\* One AVP more is found last, if it has the code.
LEMMA HavingAppend ==
    ASSUME NEW S, NEW s \in Seq(S), NEW a \in S, NEW code
    PROVE  /\ Having(s, code) \in Seq(S)
           /\ Having(Append(s, a), code) =
                  IF a.code = code THEN Append(Having(s, code), a) ELSE Having(s, code)
<1> DEFINE t == IF a.code = code THEN <<a>> ELSE <<>>
<1>1. Singles(s, code) \in Seq(Seq(S)) /\ t \in Seq(S)
    BY HavingType
<1>2. Singles(Append(s, a), code) = Append(Singles(s, code), t)
  <2>1. Append(s, a) \in Seq(S) /\ Len(Append(s, a)) = Len(s) + 1
      OBVIOUS
  <2>2. Singles(Append(s, a), code) \in Seq(Seq(S)) /\ Append(Singles(s, code), t) \in Seq(Seq(S))
      BY <2>1, <1>1 DEF Singles
  <2>3. Len(Singles(Append(s, a), code)) = Len(s) + 1 /\ Len(Append(Singles(s, code), t)) = Len(s) + 1
      BY <2>1, <1>1 DEF Singles
  <2>4. \A i \in 1 .. Len(s)+1 : Singles(Append(s, a), code)[i] = Append(Singles(s, code), t)[i]
      BY <2>1, <1>1 DEF Singles
  <2> HIDE DEF t
  <2> QED
      BY <2>2, <2>3, <2>4, SeqEqual
<1>3. FlattenSeq(Singles(s, code)) \in Seq(S)
   /\ FlattenSeq(Append(Singles(s, code), t)) = FlattenSeq(Singles(s, code)) \o t
  <2> HIDE DEF t
  <2> QED
      BY <1>1, FlattenAppend
<1>4. Having(s, code) \in Seq(S) /\ Having(Append(s, a), code) = Having(s, code) \o t
    BY <1>2, <1>3 DEF Having, Singles
<1>5. Having(s, code) \o <<>> = Having(s, code)
    BY <1>4, ConcatEmptySeq
<1>6. Having(s, code) \o <<a>> = Append(Having(s, code), a)
    BY <1>4, AppendIsConcat
<1> QED
    BY <1>4, <1>5, <1>6

\* The members of the AVPs of S are in T.
Groups(S, T) == \A a \in S : a.members \in Seq(T)

\* The members of groups are AVPs.
LEMMA WithinType ==
    ASSUME NEW S, NEW T, Groups(S, T), NEW s \in Seq(S), NEW code
    PROVE  Members(s, code) \in Seq(Seq(T)) /\ Within(s, code) \in Seq(T)
<1>1. Members(s, code) \in Seq(Seq(T))
  <2>1. DOMAIN s = 1 .. Len(s) /\ Len(s) \in Nat /\ \A i \in 1 .. Len(s) : s[i] \in S
      OBVIOUS
  <2>2. \A i \in DOMAIN s : (IF s[i].code = code THEN s[i].members ELSE <<>>) \in Seq(T)
      BY <2>1 DEF Groups
  <2>3. Members(s, code) \in [1 .. Len(s) -> Seq(T)]
      BY <2>1, <2>2 DEF Members
  <2> QED
      BY <2>1, <2>3, SeqDef
<1>2. <<>> \in Seq(T)
    OBVIOUS
<1>3. FlattenSeq(Members(s, code)) \in Seq(T)
    BY <1>1, <1>2, FlattenAppend
<1> QED
    BY <1>1, <1>3 DEF Within, Members

\* The members of one group more come last.
LEMMA WithinAppend ==
    ASSUME NEW S, NEW T, Groups(S, T),
           NEW s \in Seq(S), NEW a \in S, NEW code
    PROVE  /\ Within(s, code) \in Seq(T)
           /\ Within(Append(s, a), code) =
                  IF a.code = code THEN Within(s, code) \o a.members ELSE Within(s, code)
<1> DEFINE t == IF a.code = code THEN a.members ELSE <<>>
<1>1. Members(s, code) \in Seq(Seq(T)) /\ t \in Seq(T)
    BY WithinType DEF Groups
<1>2. Members(Append(s, a), code) = Append(Members(s, code), t)
  <2>1. Append(s, a) \in Seq(S) /\ Len(Append(s, a)) = Len(s) + 1
      OBVIOUS
  <2>2. Members(Append(s, a), code) \in Seq(Seq(T)) /\ Append(Members(s, code), t) \in Seq(Seq(T))
      BY <2>1, <1>1 DEF Members
  <2>3. Len(Members(Append(s, a), code)) = Len(s) + 1 /\ Len(Append(Members(s, code), t)) = Len(s) + 1
      BY <2>1, <1>1 DEF Members
  <2>4. \A i \in 1 .. Len(s)+1 : Members(Append(s, a), code)[i] = Append(Members(s, code), t)[i]
      BY <2>1, <1>1 DEF Members
  <2> HIDE DEF t
  <2> QED
      BY <2>2, <2>3, <2>4, SeqEqual
<1>3. FlattenSeq(Members(s, code)) \in Seq(T)
   /\ FlattenSeq(Append(Members(s, code), t)) = FlattenSeq(Members(s, code)) \o t
  <2> HIDE DEF t
  <2> QED
      BY <1>1, FlattenAppend
<1>4. Within(s, code) \in Seq(T) /\ Within(Append(s, a), code) = Within(s, code) \o t
    BY <1>2, <1>3 DEF Within, Members
<1>5. Within(s, code) \o <<>> = Within(s, code)
    BY <1>4, ConcatEmptySeq
<1> QED
    BY <1>4, <1>5

\* The texts of the AVPs of S are in T.
Writings(S, T) == \A a \in S : a.text \in Seq(T)

\* Their texts are texts.
LEMMA TextsType ==
    ASSUME NEW S, NEW T, Writings(S, T), NEW s \in Seq(S), NEW code
    PROVE  Pieces(s, code) \in Seq(Seq(T)) /\ TextsOf(s, code) \in Seq(T)
<1>1. Pieces(s, code) \in Seq(Seq(T))
  <2>1. DOMAIN s = 1 .. Len(s) /\ Len(s) \in Nat /\ \A i \in 1 .. Len(s) : s[i] \in S
      OBVIOUS
  <2>2. \A i \in DOMAIN s : (IF s[i].code = code THEN s[i].text ELSE <<>>) \in Seq(T)
      BY <2>1 DEF Writings
  <2>3. Pieces(s, code) \in [1 .. Len(s) -> Seq(T)]
      BY <2>1, <2>2 DEF Pieces
  <2> QED
      BY <2>1, <2>3, SeqDef
<1>2. <<>> \in Seq(T)
    OBVIOUS
<1>3. FlattenSeq(Pieces(s, code)) \in Seq(T)
    BY <1>1, <1>2, FlattenAppend
<1> QED
    BY <1>1, <1>3 DEF TextsOf, Pieces

\* The text of one AVP more comes last.
LEMMA TextsAppend ==
    ASSUME NEW S, NEW T, Writings(S, T),
           NEW s \in Seq(S), NEW a \in S, NEW code
    PROVE  /\ TextsOf(s, code) \in Seq(T)
           /\ TextsOf(Append(s, a), code) =
                  IF a.code = code THEN TextsOf(s, code) \o a.text ELSE TextsOf(s, code)
<1> DEFINE t == IF a.code = code THEN a.text ELSE <<>>
<1>1. Pieces(s, code) \in Seq(Seq(T)) /\ t \in Seq(T)
    BY TextsType DEF Writings
<1>2. Pieces(Append(s, a), code) = Append(Pieces(s, code), t)
  <2>1. Append(s, a) \in Seq(S) /\ Len(Append(s, a)) = Len(s) + 1
      OBVIOUS
  <2>2. Pieces(Append(s, a), code) \in Seq(Seq(T)) /\ Append(Pieces(s, code), t) \in Seq(Seq(T))
      BY <2>1, <1>1 DEF Pieces
  <2>3. Len(Pieces(Append(s, a), code)) = Len(s) + 1 /\ Len(Append(Pieces(s, code), t)) = Len(s) + 1
      BY <2>1, <1>1 DEF Pieces
  <2>4. \A i \in 1 .. Len(s)+1 : Pieces(Append(s, a), code)[i] = Append(Pieces(s, code), t)[i]
      BY <2>1, <1>1 DEF Pieces
  <2> HIDE DEF t
  <2> QED
      BY <2>2, <2>3, <2>4, SeqEqual
<1>3. FlattenSeq(Pieces(s, code)) \in Seq(T)
   /\ FlattenSeq(Append(Pieces(s, code), t)) = FlattenSeq(Pieces(s, code)) \o t
  <2> HIDE DEF t
  <2> QED
      BY <1>1, FlattenAppend
<1>4. TextsOf(s, code) \in Seq(T) /\ TextsOf(Append(s, a), code) = TextsOf(s, code) \o t
    BY <1>2, <1>3 DEF TextsOf, Pieces
<1>5. TextsOf(s, code) \o <<>> = TextsOf(s, code)
    BY <1>4, ConcatEmptySeq
<1> QED
    BY <1>4, <1>5

\* What is found in two messages, one after the other.
LEMMA HavingConcat ==
    ASSUME NEW S, NEW s \in Seq(S), NEW t \in Seq(S), NEW code
    PROVE  Having(s \o t, code) = Having(s, code) \o Having(t, code)
<1> DEFINE n == Len(t)
           K == {k \in 0 .. n : Having(s \o Begin(t, k), code) = Having(s, code) \o Having(Begin(t, k), code)}
<1>1. n \in Nat /\ Having(s, code) \in Seq(S)
    BY HavingType
<1>2. 0 \in K
  <2>1. s \o <<>> = s /\ Having(s, code) \o <<>> = Having(s, code)
      BY <1>1, ConcatEmptySeq
  <2>2. Begin(t, 0) = <<>> /\ Having(<<>>, code) = <<>>
      BY BeginSteps, ReadingEmpty
  <2>3. 0 \in 0 .. n
      BY <1>1
  <2> QED
      BY <2>1, <2>2, <2>3
<1>3. ASSUME NEW k \in 1 .. n, k-1 \in K PROVE k \in K
  <2> DEFINE b == Begin(t, k-1)
             a == t[k]
  <2>1. b \in Seq(S) /\ a \in S /\ Begin(t, k) = Append(b, a)
      BY BeginSteps
  <2>2. Having(s \o b, code) = Having(s, code) \o Having(b, code)
      BY <1>3
  <2> HIDE DEF b, a
  <2>3. s \o b \in Seq(S) /\ s \o Append(b, a) = Append(s \o b, a)
      BY <2>1
  <2>4. Having(b, code) \in Seq(S)
      BY <2>1, HavingAppend
  <2>h. Having(Append(s \o b, a), code) =
            IF a.code = code THEN Append(Having(s \o b, code), a) ELSE Having(s \o b, code)
    <3> DEFINE sb == s \o b
    <3>1. sb \in Seq(S)
        BY <2>3
    <3> HIDE DEF sb
    <3>2. Having(Append(sb, a), code) =
              IF a.code = code THEN Append(Having(sb, code), a) ELSE Having(sb, code)
        BY <2>1, <3>1, HavingAppend
    <3> QED
        BY <3>2 DEF sb
  <2>5. Having(s \o Append(b, a), code) = Having(s, code) \o Having(Append(b, a), code)
    <3>1. CASE a.code = code
      <4>1. Having(s \o Append(b, a), code) = Append(Having(s \o b, code), a)
          BY <3>1, <2>1, <2>3, HavingAppend
      <4>2. Having(Append(b, a), code) = Append(Having(b, code), a)
          BY <3>1, <2>1, HavingAppend
      <4>3. Having(s, code) \o Append(Having(b, code), a) = Append(Having(s, code) \o Having(b, code), a)
          BY <1>1, <2>1, <2>4
      <4> QED
          BY <4>1, <4>2, <4>3, <2>2
    <3>2. CASE a.code # code
      <4>0. Having(Append(s \o b, a), code) = Having(s \o b, code)
          BY <3>2, <2>h
      <4>1. Having(s \o Append(b, a), code) = Having(s \o b, code)
          BY <4>0, <2>3
      <4>2. Having(Append(b, a), code) = Having(b, code)
          BY <3>2, <2>1, HavingAppend
      <4> QED
          BY <4>1, <4>2, <2>2
    <3> QED
        BY <3>1, <3>2
  <2>6. k \in 0 .. n
      BY <1>1
  <2> QED
      BY <2>1, <2>5, <2>6
<1>4. 0 .. n \subseteq K
  <2> HIDE DEF K
  <2> QED
      BY <1>1, <1>2, <1>3, UpTo
<1>5. n \in 0 .. n /\ Begin(t, n) = t
    BY <1>1, BeginSteps
<1> QED
    BY <1>4, <1>5

\* The same of the members of groups.
LEMMA WithinConcat ==
    ASSUME NEW S, NEW T, Groups(S, T),
           NEW s \in Seq(S), NEW t \in Seq(S), NEW code
    PROVE  Within(s \o t, code) = Within(s, code) \o Within(t, code)
<1> DEFINE n == Len(t)
           K == {k \in 0 .. n : Within(s \o Begin(t, k), code) = Within(s, code) \o Within(Begin(t, k), code)}
<1>1. n \in Nat /\ Within(s, code) \in Seq(T)
    BY WithinType
<1>2. 0 \in K
  <2>1. s \o <<>> = s /\ Within(s, code) \o <<>> = Within(s, code)
      BY <1>1, ConcatEmptySeq
  <2>2. Begin(t, 0) = <<>> /\ Within(<<>>, code) = <<>>
      BY BeginSteps, ReadingEmpty
  <2>3. 0 \in 0 .. n
      BY <1>1
  <2> QED
      BY <2>1, <2>2, <2>3
<1>3. ASSUME NEW k \in 1 .. n, k-1 \in K PROVE k \in K
  <2> DEFINE b == Begin(t, k-1)
             a == t[k]
             sb == s \o b
  <2>1. b \in Seq(S) /\ a \in S /\ Begin(t, k) = Append(b, a)
      BY BeginSteps
  <2>2. Within(sb, code) = Within(s, code) \o Within(b, code)
      BY <1>3
  <2> HIDE DEF b, a
  <2>3. sb \in Seq(S) /\ s \o Append(b, a) = Append(sb, a)
      BY <2>1
  <2> HIDE DEF sb
  <2>4. Within(b, code) \in Seq(T) /\ a.members \in Seq(T)
      BY <2>1, WithinType DEF Groups
  <2>5. Within(Append(sb, a), code) =
            IF a.code = code THEN Within(sb, code) \o a.members ELSE Within(sb, code)
      BY <2>1, <2>3, WithinAppend
  <2>6. Within(Append(b, a), code) =
            IF a.code = code THEN Within(b, code) \o a.members ELSE Within(b, code)
      BY <2>1, WithinAppend
  <2>7. Within(s \o Append(b, a), code) = Within(s, code) \o Within(Append(b, a), code)
    <3>1. (Within(s, code) \o Within(b, code)) \o a.members =
              Within(s, code) \o (Within(b, code) \o a.members)
      <4> DEFINE x == Within(s, code)
                 y == Within(b, code)
                 z == a.members
      <4>1. x \in Seq(T) /\ y \in Seq(T) /\ z \in Seq(T)
          BY <1>1, <2>4
      <4> HIDE DEF x, y, z
      <4>2. (x \o y) \o z = x \o (y \o z)
          BY <4>1, ConcatAssociative
      <4> QED
          BY <4>2 DEF x, y, z
    <3> QED
        BY <2>2, <2>3, <2>5, <2>6, <3>1
  <2>8. k \in 0 .. n
      BY <1>1
  <2> QED
      BY <2>1, <2>7, <2>8
<1>4. 0 .. n \subseteq K
  <2> HIDE DEF K
  <2> QED
      BY <1>1, <1>2, <1>3, UpTo
<1>5. n \in 0 .. n /\ Begin(t, n) = t
    BY <1>1, BeginSteps
<1> QED
    BY <1>4, <1>5

\* One AVP more decides the value, if it has the code.
LEMMA LastAppend ==
    ASSUME NEW S, NEW s \in Seq(S), NEW a \in S, NEW code, NEW default
    PROVE  LastNumber(Append(s, a), code, default) =
               IF a.code = code THEN a.number ELSE LastNumber(s, code, default)
<1> DEFINE h == Having(s, code)
<1>1. h \in Seq(S)
    BY HavingType
<1>2. Having(Append(s, a), code) = IF a.code = code THEN Append(h, a) ELSE h
    BY HavingAppend
<1> HIDE DEF h
<1>3. Append(h, a) # <<>> /\ Last(Append(h, a)) = a
    BY <1>1 DEF Last
<1> QED
    BY <1>2, <1>3 DEF LastNumber, h

\* The same of a text, if the AVP has one.
LEMMA LastTextAppend ==
    ASSUME NEW A, AreAVPs(A), NEW s \in Seq(A), NEW a \in A, NEW code
    PROVE  /\ TextsOf(s, code) \in Seq(Seq(STRING))
           /\ LastText(Append(s, a), code) =
                  IF a.code = code /\ a.text # <<>> THEN a.text[1] ELSE LastText(s, code)
<1> DEFINE h == TextsOf(s, code)
<1>0. Writings(A, Seq(STRING)) /\ a.text \in Seq(Seq(STRING)) /\ Len(a.text) <= 1
    BY DEF AreAVPs, Writings
<1>1. /\ h \in Seq(Seq(STRING))
      /\ TextsOf(Append(s, a), code) = IF a.code = code THEN h \o a.text ELSE h
    BY <1>0, TextsAppend
<1> HIDE DEF h
<1>2. CASE a.text = <<>>
  <2>1. h \o a.text = h
      BY <1>1, <1>2, ConcatEmptySeq
  <2> QED
      BY <1>1, <1>2, <2>1 DEF LastText, h
<1>3. CASE a.text # <<>>
  <2>1. Len(a.text) = 1
    <3>1. Len(a.text) \in Nat \ {0}
        BY <1>0, <1>3, EmptySeq
    <3>2. \A n \in Nat \ {0} : n <= 1 => n = 1
        OBVIOUS
    <3> QED
        BY <1>0, <3>1, <3>2, Zenon
  <2>2. h \o a.text # <<>> /\ Last(h \o a.text) = a.text[1]
      BY <1>0, <1>1, <2>1 DEF Last
  <2> QED
      BY <1>1, <1>3, <2>2 DEF LastText, h
<1> QED
    BY <1>2, <1>3

\* The second of two messages decides the value, if it has the code.
LEMMA LastConcat ==
    ASSUME NEW S, NEW s \in Seq(S), NEW t \in Seq(S), NEW code, NEW default
    PROVE  LastNumber(s \o t, code, default) =
               LastNumber(t, code, LastNumber(s, code, default))
<1> DEFINE g == Having(s, code)
           h == Having(t, code)
<1>1. g \in Seq(S) /\ h \in Seq(S)
    BY HavingType
<1>2. Having(s \o t, code) = g \o h
    BY HavingConcat
<1> HIDE DEF g, h
<1>3. CASE h = <<>>
  <2>1. g \o h = g
      BY <1>1, <1>3, ConcatEmptySeq
  <2> QED
      BY <1>2, <1>3, <2>1 DEF LastNumber, g, h
<1>4. CASE h # <<>>
  <2>1. g \o h # <<>> /\ Last(g \o h) = Last(h)
      BY <1>1, <1>4 DEF Last
  <2> QED
      BY <1>2, <1>4, <2>1 DEF LastNumber, g, h
<1> QED
    BY <1>3, <1>4

\* An absent AVP has its default value.
LEMMA LastEmpty ==
    ASSUME NEW code, NEW default
    PROVE  LastNumber(<<>>, code, default) = default /\ LastText(<<>>, code) = <<>>
<1>1. TextsOf(<<>>, code) = <<>>
  <2>1. Pieces(<<>>, code) = <<>>
      BY DEF Pieces
  <2> QED
      BY <2>1, FlattenEmpty DEF TextsOf, Pieces
<1> QED
    BY <1>1, ReadingEmpty DEF LastNumber, LastText

-----------------------------------------------------------------------------
(* The loops of the extraction: folds step by step *)

\* The greatest element of a set that reaches up to its bound.
LEMMA MaxOfLast ==
    ASSUME NEW k \in Nat, NEW s \in SUBSET (1 .. k+1), k+1 \in s
    PROVE  Max(s) = k+1
<1>1. k+1 \in s /\ \A y \in s : k+1 >= y
    OBVIOUS
<1>2. Max(s) \in s /\ \A y \in s : Max(s) >= y
    BY <1>1, Zenon DEF Max
<1>3. Max(s) \in 1 .. k+1
    BY <1>2
<1>4. QED
    BY <1>1, <1>2, <1>3

\* What MapThenFoldSet computes for each set of positions.
IsIteration(it, S, n, base, next) ==
    /\ it \in [SUBSET (1 .. n) -> S]
    /\ \A s \in SUBSET (1 .. n) :
          it[s] = IF s = {} THEN base ELSE next[<<Max(s), it[s \ {Max(s)}]>>]

\* The iteration that MapThenFoldSet chooses exists.
LEMMA SubsetRecursion ==
    ASSUME NEW S, NEW n \in Nat, NEW base \in S, NEW next \in [(1 .. n) \X S -> S]
    PROVE  \E it : IsIteration(it, S, n, base, next)
<1> DEFINE Solves(it, k) ==
               /\ it \in [SUBSET (1 .. k) -> S]
               /\ \A s \in SUBSET (1 .. k) :
                     it[s] = IF s = {} THEN base ELSE next[<<Max(s), it[s \ {Max(s)}]>>]
<1> DEFINE K == {k \in Nat : k <= n => \E it : Solves(it, k)}
<1>1. 0 \in K
  <2> DEFINE it == [s \in SUBSET (1 .. 0) |-> base]
  <2>1. SUBSET (1 .. 0) = {{}}
      OBVIOUS
  <2>2. Solves(it, 0)
      BY <2>1
  <2> HIDE DEF it
  <2> QED
      BY <2>2
<1>2. ASSUME NEW k \in Nat, k \in K PROVE k+1 \in K
  <2> SUFFICES ASSUME k+1 <= n PROVE \E it : Solves(it, k+1)
      <3> HIDE DEF Solves
      <3> QED
          OBVIOUS
  <2>1. k+1 \in 1 .. n
      OBVIOUS
  <2>2. PICK it : Solves(it, k)
      <3> HIDE DEF Solves
      <3> QED
          BY <1>2, <2>1
  <2> DEFINE jt == [s \in SUBSET (1 .. k+1) |->
                       IF k+1 \in s THEN next[<<k+1, it[s \ {k+1}]>>] ELSE it[s]]
  <2>3. \A s \in SUBSET (1 .. k+1) : s \ {k+1} \in SUBSET (1 .. k)
      OBVIOUS
  <2>4. jt \in [SUBSET (1 .. k+1) -> S]
      <3>1. \A s \in SUBSET (1 .. k+1) : k+1 \notin s => s \in SUBSET (1 .. k)
        OBVIOUS
      <3> QED BY <2>1, <2>2, <2>3, <3>1
  <2>5. ASSUME NEW s \in SUBSET (1 .. k+1), k+1 \in s
        PROVE  jt[s] = next[<<Max(s), jt[s \ {Max(s)}]>>]
      <3>1. Max(s) = k+1
          BY <2>5, MaxOfLast
      <3>2. jt[s \ {k+1}] = it[s \ {k+1}]
          BY <2>3
      <3> QED
          BY <2>5, <3>1, <3>2
  <2>6. ASSUME NEW s \in SUBSET (1 .. k+1), k+1 \notin s
        PROVE  jt[s] = IF s = {} THEN base ELSE next[<<Max(s), jt[s \ {Max(s)}]>>]
      <3>0. s \in SUBSET (1 .. k)
          BY <2>6
      <3>1. s \in SUBSET (1 .. k) /\ s \ {Max(s)} \in SUBSET (1 .. k) /\ k+1 \notin s \ {Max(s)}
          BY <3>0, <2>6
      <3>2. s \ {Max(s)} \in SUBSET (1 .. k+1)
          BY <3>1
      <3>3. jt[s] = it[s] /\ jt[s \ {Max(s)}] = it[s \ {Max(s)}]
          BY <3>1, <3>2, <2>6
      <3> HIDE DEF jt
      <3> QED
          BY <3>1, <3>3, <2>2
  <2>7. Solves(jt, k+1)
      <3> HIDE DEF jt
      <3> QED
          BY <2>4, <2>5, <2>6
  <2> HIDE DEF jt
  <2> QED
      BY <2>7
<1>3. Nat \subseteq K
  <2> HIDE DEF K
  <2> QED
      BY <1>1, <1>2, SetInduction
<1>4. \E it : Solves(it, n)
  <2> HIDE DEF Solves
  <2> QED
      BY <1>3
<1> QED
    BY <1>4 DEF IsIteration

\* A set of numbers has a greatest element.
LEMMA MaxIsIn ==
    ASSUME NEW n \in Nat, NEW s \in SUBSET (1 .. n), s # {}
    PROVE  Max(s) \in s
<1> DEFINE K == {k \in 0 .. n : \A t \in SUBSET (1 .. k) : t # {} => Max(t) \in t}
<1>1. 0 \in K
  <2>1. 0 \in 0 .. n /\ 1 .. 0 = {}
      OBVIOUS
  <2> QED
      BY <2>1
<1>2. ASSUME NEW k \in 1 .. n, k-1 \in K PROVE k \in K
  <2>1. ASSUME NEW t \in SUBSET (1 .. k), t # {} PROVE Max(t) \in t
    <3>1. k-1 \in Nat /\ (k-1)+1 = k
        OBVIOUS
    <3>2. CASE k \in t
        BY <3>1, <3>2, MaxOfLast
    <3>3. CASE k \notin t
      <4>1. t \in SUBSET (1 .. k-1)
          BY <3>3
      <4> QED
          BY <4>1, <1>2, <2>1
    <3> QED
        BY <3>2, <3>3
  <2> QED
      BY <2>1
<1>3. 0 .. n \subseteq K
  <2> HIDE DEF K
  <2> QED
      BY <1>1, <1>2, UpTo
<1> QED
    BY <1>3

\* The greatest element of an interval, and what is left without it.
LEMMA MaxOfInterval ==
  /\ 1 .. 0 = {}
  /\ \A n \in Nat : \A k \in 1 .. n :
           /\ 1 .. k \in SUBSET (1 .. n)
           /\ 1 .. k # {}
           /\ Max(1 .. k) = k
           /\ (1 .. k) \ {Max(1 .. k)} = 1 .. k-1
<1> SUFFICES ASSUME NEW n \in Nat, NEW k \in 1 .. n
             PROVE  /\ 1 .. k \in SUBSET (1 .. n)
                    /\ 1 .. k # {}
                    /\ Max(1 .. k) = k
                    /\ (1 .. k) \ {Max(1 .. k)} = 1 .. k-1
    OBVIOUS
<1>1. k-1 \in Nat /\ 1 .. k \in SUBSET (1 .. (k-1)+1) /\ (k-1)+1 \in 1 .. k
    OBVIOUS
<1>2. Max(1 .. k) = (k-1)+1
    BY <1>1, MaxOfLast
<1> QED
    BY <1>2

\* As IsIteration, with what is used of it.
Iterates(it, S, n, base, next) ==
    /\ it \in [SUBSET (1 .. n) -> S]
    /\ \A t \in SUBSET (1 .. n) :
          /\ t # {} => Max(t) \in 1 .. n /\ it[t \ {Max(t)}] \in S
          /\ it[t] = IF t = {} THEN base ELSE next[<<Max(t), it[t \ {Max(t)}]>>]

\* There is such an iteration.
LEMMA IterationExists ==
    ASSUME NEW S, NEW n \in Nat, NEW base \in S, NEW next \in [(1 .. n) \X S -> S]
    PROVE  \E it : Iterates(it, S, n, base, next)
<1>1. PICK it : IsIteration(it, S, n, base, next)
    BY SubsetRecursion
<1>2. ASSUME NEW t \in SUBSET (1 .. n), t # {}
      PROVE  Max(t) \in 1 .. n /\ it[t \ {Max(t)}] \in S
  <2>1. Max(t) \in t
      BY <1>2, MaxIsIn
  <2>2. t \ {Max(t)} \in SUBSET (1 .. n)
      OBVIOUS
  <2> QED
      BY <1>1, <2>1, <2>2 DEF IsIteration
<1>3. Iterates(it, S, n, base, next)
    BY <1>1, <1>2 DEF IsIteration, Iterates
<1> QED
    BY <1>3

\* A type of structures is closed under what is stored.
StoredStays(field, S, T) == \A s \in S, a \in T : Stored(field, s, a) \in S

\* A history of the structure, from one AVP to the next.
StoredSteps(h, field, struct, avps) ==
    /\ h[0] = struct
    /\ \A k \in 1 .. Len(avps) : h[k] = Stored(field, h[k-1], avps[k])
    /\ StoredAll(field, struct, avps) = h[Len(avps)]

\* StoredAll goes through the AVPs one by one.
LEMMA StoredFold ==
    ASSUME NEW field, NEW S, NEW struct \in S, NEW T, NEW avps \in Seq(T),
           StoredStays(field, S, T)
    PROVE  \E h : StoredSteps(h, field, struct, avps)
<1> DEFINE s == avps
           n == Len(s)
           next == [p \in (1 .. n) \X S |-> Stored(field, p[2], s[p[1]])]
           Equation(f) == f = [t \in SUBSET (1 .. n) |->
                                  IF t = {} THEN struct
                                  ELSE Stored(field, f[t \ {Max(t)}], s[Max(t)])]
           iter == CHOOSE f : Equation(f)
           h == [k \in 0 .. n |-> iter[1 .. k]]
<1>1. s \in Seq(T) /\ n \in Nat /\ DOMAIN s = 1 .. n /\ \A k \in 1 .. n : s[k] \in T
    OBVIOUS
<1> HIDE DEF s, n
<1>2. next \in [(1 .. n) \X S -> S]
    BY <1>1 DEF StoredStays
<1>3. PICK it : Iterates(it, S, n, struct, next)
  <2> HIDE DEF next
  <2> QED
      BY <1>1, <1>2, IterationExists
<1>4. Equation(it)
  <2> HIDE DEF next
  <2>1. \A t \in SUBSET (1 .. n) :
           it[t] = IF t = {} THEN struct ELSE next[<<Max(t), it[t \ {Max(t)}]>>]
      BY <1>3 DEF Iterates
  <2>2. \A t \in SUBSET (1 .. n) : t # {} => Max(t) \in 1 .. n /\ it[t \ {Max(t)}] \in S
      BY <1>3 DEF Iterates
  <2>3. it = [t \in SUBSET (1 .. n) |-> it[t]]
      BY <1>3 DEF Iterates
  <2> QED
      BY <2>1, <2>2, <2>3 DEF next
<1>5. Equation(iter)
  <2> HIDE DEF Equation
  <2> QED
      BY <1>4
<1>6. StoredAll(field, struct, avps) = iter[1 .. n]
    BY <1>1, Zenon DEF StoredAll, FoldLeft, MapThenFoldSet, s
<1> HIDE DEF iter
<1>7. iter[1 .. 0] = struct
    BY <1>5, MaxOfInterval
<1>8. ASSUME NEW k \in 1 .. n PROVE iter[1 .. k] = Stored(field, iter[1 .. k-1], s[k])
  <2>1. /\ 1 .. k \in SUBSET (1 .. n) /\ 1 .. k # {}
        /\ Max(1 .. k) = k /\ (1 .. k) \ {Max(1 .. k)} = 1 .. k-1
      BY <1>1, MaxOfInterval
  <2>2. iter[1 .. k] = Stored(field, iter[(1 .. k) \ {Max(1 .. k)}], s[Max(1 .. k)])
      BY <1>5, <2>1
  <2> QED
      BY <2>1, <2>2
<1>9. /\ h[0] = iter[1 .. 0]
      /\ h[n] = iter[1 .. n]
      /\ \A k \in 1 .. n : h[k] = iter[1 .. k] /\ h[k-1] = iter[1 .. k-1]
    BY <1>1
<1> HIDE DEF h
<1>10. /\ h[0] = struct
       /\ \A k \in 1 .. n : h[k] = Stored(field, h[k-1], s[k])
       /\ StoredAll(field, struct, avps) = h[n]
    BY <1>6, <1>7, <1>8, <1>9
<1> QED
    BY <1>10 DEF n, s, StoredSteps

MoneyStays(S, T) == \A s \in S, a \in T : StoredMoney(s, a) \in S

MoneySteps(h, money, avp) ==
    /\ h[0] = money
    /\ \A k \in 1 .. Len(avp.members) : h[k] = StoredMoney(h[k-1], avp.members[k])
    /\ OCF_ExtractCCMoney(avp, money) = h[Len(avp.members)]

\* So does OCF_ExtractCCMoney.
LEMMA MoneyFold ==
    ASSUME NEW S, NEW money \in S, NEW T, NEW avp, avp.members \in Seq(T),
           MoneyStays(S, T)
    PROVE  \E h : MoneySteps(h, money, avp)
<1> DEFINE s == avp.members
           n == Len(s)
           next == [p \in (1 .. n) \X S |-> StoredMoney(p[2], s[p[1]])]
           Equation(f) == f = [t \in SUBSET (1 .. n) |->
                                  IF t = {} THEN money
                                  ELSE StoredMoney(f[t \ {Max(t)}], s[Max(t)])]
           iter == CHOOSE f : Equation(f)
           h == [k \in 0 .. n |-> iter[1 .. k]]
<1>1. s \in Seq(T) /\ n \in Nat /\ DOMAIN s = 1 .. n /\ \A k \in 1 .. n : s[k] \in T
    OBVIOUS
<1> HIDE DEF s, n
<1>2. next \in [(1 .. n) \X S -> S]
    BY <1>1 DEF MoneyStays
<1>3. PICK it : Iterates(it, S, n, money, next)
  <2> HIDE DEF next
  <2> QED
      BY <1>1, <1>2, IterationExists
<1>4. Equation(it)
  <2> HIDE DEF next
  <2>1. \A t \in SUBSET (1 .. n) :
           it[t] = IF t = {} THEN money ELSE next[<<Max(t), it[t \ {Max(t)}]>>]
      BY <1>3 DEF Iterates
  <2>2. \A t \in SUBSET (1 .. n) : t # {} => Max(t) \in 1 .. n /\ it[t \ {Max(t)}] \in S
      BY <1>3 DEF Iterates
  <2>3. it = [t \in SUBSET (1 .. n) |-> it[t]]
      BY <1>3 DEF Iterates
  <2> QED
      BY <2>1, <2>2, <2>3 DEF next
<1>5. Equation(iter)
  <2> HIDE DEF Equation
  <2> QED
      BY <1>4
<1>6. OCF_ExtractCCMoney(avp, money) = iter[1 .. n]
    BY <1>1, Zenon DEF OCF_ExtractCCMoney, FoldLeft, MapThenFoldSet, s
<1> HIDE DEF iter
<1>7. iter[1 .. 0] = money
    BY <1>5, MaxOfInterval
<1>8. ASSUME NEW k \in 1 .. n PROVE iter[1 .. k] = StoredMoney(iter[1 .. k-1], s[k])
  <2>1. /\ 1 .. k \in SUBSET (1 .. n) /\ 1 .. k # {}
        /\ Max(1 .. k) = k /\ (1 .. k) \ {Max(1 .. k)} = 1 .. k-1
      BY <1>1, MaxOfInterval
  <2>2. iter[1 .. k] = StoredMoney(iter[(1 .. k) \ {Max(1 .. k)}], s[Max(1 .. k)])
      BY <1>5, <2>1
  <2> QED
      BY <2>1, <2>2
<1>9. /\ h[0] = iter[1 .. 0]
      /\ h[n] = iter[1 .. n]
      /\ \A k \in 1 .. n : h[k] = iter[1 .. k] /\ h[k-1] = iter[1 .. k-1]
    BY <1>1
<1> HIDE DEF h
<1>10. /\ h[0] = money
       /\ \A k \in 1 .. n : h[k] = StoredMoney(h[k-1], s[k])
       /\ OCF_ExtractCCMoney(avp, money) = h[n]
    BY <1>6, <1>7, <1>8, <1>9
<1> QED
    BY <1>10 DEF n, s, MoneySteps

QuantityStays(S, T) == \A s \in S, a \in T : StoredQuantity(s, a) \in S

QuantitySteps(h, units, avp) ==
    /\ h[0] = units
    /\ \A k \in 1 .. Len(avp.members) : h[k] = StoredQuantity(h[k-1], avp.members[k])
    /\ OCF_ExtractReqServiceUnit(avp, units) = h[Len(avp.members)]

\* So does OCF_ExtractReqServiceUnit.
LEMMA QuantityFold ==
    ASSUME NEW S, NEW units \in S, NEW T, NEW avp, avp.members \in Seq(T),
           QuantityStays(S, T)
    PROVE  \E h : QuantitySteps(h, units, avp)
<1> DEFINE s == avp.members
           n == Len(s)
           next == [p \in (1 .. n) \X S |-> StoredQuantity(p[2], s[p[1]])]
           Equation(f) == f = [t \in SUBSET (1 .. n) |->
                                  IF t = {} THEN units
                                  ELSE StoredQuantity(f[t \ {Max(t)}], s[Max(t)])]
           iter == CHOOSE f : Equation(f)
           h == [k \in 0 .. n |-> iter[1 .. k]]
<1>1. s \in Seq(T) /\ n \in Nat /\ DOMAIN s = 1 .. n /\ \A k \in 1 .. n : s[k] \in T
    OBVIOUS
<1> HIDE DEF s, n
<1>2. next \in [(1 .. n) \X S -> S]
    BY <1>1 DEF QuantityStays
<1>3. PICK it : Iterates(it, S, n, units, next)
  <2> HIDE DEF next
  <2> QED
      BY <1>1, <1>2, IterationExists
<1>4. Equation(it)
  <2> HIDE DEF next
  <2>1. \A t \in SUBSET (1 .. n) :
           it[t] = IF t = {} THEN units ELSE next[<<Max(t), it[t \ {Max(t)}]>>]
      BY <1>3 DEF Iterates
  <2>2. \A t \in SUBSET (1 .. n) : t # {} => Max(t) \in 1 .. n /\ it[t \ {Max(t)}] \in S
      BY <1>3 DEF Iterates
  <2>3. it = [t \in SUBSET (1 .. n) |-> it[t]]
      BY <1>3 DEF Iterates
  <2> QED
      BY <2>1, <2>2, <2>3 DEF next
<1>5. Equation(iter)
  <2> HIDE DEF Equation
  <2> QED
      BY <1>4
<1>6. OCF_ExtractReqServiceUnit(avp, units) = iter[1 .. n]
    BY <1>1, Zenon DEF OCF_ExtractReqServiceUnit, FoldLeft, MapThenFoldSet, s
<1> HIDE DEF iter
<1>7. iter[1 .. 0] = units
    BY <1>5, MaxOfInterval
<1>8. ASSUME NEW k \in 1 .. n PROVE iter[1 .. k] = StoredQuantity(iter[1 .. k-1], s[k])
  <2>1. /\ 1 .. k \in SUBSET (1 .. n) /\ 1 .. k # {}
        /\ Max(1 .. k) = k /\ (1 .. k) \ {Max(1 .. k)} = 1 .. k-1
      BY <1>1, MaxOfInterval
  <2>2. iter[1 .. k] = StoredQuantity(iter[(1 .. k) \ {Max(1 .. k)}], s[Max(1 .. k)])
      BY <1>5, <2>1
  <2> QED
      BY <2>1, <2>2
<1>9. /\ h[0] = iter[1 .. 0]
      /\ h[n] = iter[1 .. n]
      /\ \A k \in 1 .. n : h[k] = iter[1 .. k] /\ h[k-1] = iter[1 .. k-1]
    BY <1>1
<1> HIDE DEF h
<1>10. /\ h[0] = units
       /\ \A k \in 1 .. n : h[k] = StoredQuantity(h[k-1], s[k])
       /\ OCF_ExtractReqServiceUnit(avp, units) = h[n]
    BY <1>6, <1>7, <1>8, <1>9
<1> QED
    BY <1>10 DEF n, s, QuantitySteps

ServiceStays(S, T) == \A s \in S, a \in T : StoredService(s, a) \in S

ServiceSteps(h, service, avp) ==
    /\ h[0] = service
    /\ \A k \in 1 .. Len(avp.members) : h[k] = StoredService(h[k-1], avp.members[k])
    /\ OCF_ExtractMultiServiceCC(avp, service) = h[Len(avp.members)]

\* So does OCF_ExtractMultiServiceCC.
LEMMA ServiceFold ==
    ASSUME NEW S, NEW service \in S, NEW T, NEW avp, avp.members \in Seq(T),
           ServiceStays(S, T)
    PROVE  \E h : ServiceSteps(h, service, avp)
<1> DEFINE s == avp.members
           n == Len(s)
           next == [p \in (1 .. n) \X S |-> StoredService(p[2], s[p[1]])]
           Equation(f) == f = [t \in SUBSET (1 .. n) |->
                                  IF t = {} THEN service
                                  ELSE StoredService(f[t \ {Max(t)}], s[Max(t)])]
           iter == CHOOSE f : Equation(f)
           h == [k \in 0 .. n |-> iter[1 .. k]]
<1>1. s \in Seq(T) /\ n \in Nat /\ DOMAIN s = 1 .. n /\ \A k \in 1 .. n : s[k] \in T
    OBVIOUS
<1> HIDE DEF s, n
<1>2. next \in [(1 .. n) \X S -> S]
    BY <1>1 DEF ServiceStays
<1>3. PICK it : Iterates(it, S, n, service, next)
  <2> HIDE DEF next
  <2> QED
      BY <1>1, <1>2, IterationExists
<1>4. Equation(it)
  <2> HIDE DEF next
  <2>1. \A t \in SUBSET (1 .. n) :
           it[t] = IF t = {} THEN service ELSE next[<<Max(t), it[t \ {Max(t)}]>>]
      BY <1>3 DEF Iterates
  <2>2. \A t \in SUBSET (1 .. n) : t # {} => Max(t) \in 1 .. n /\ it[t \ {Max(t)}] \in S
      BY <1>3 DEF Iterates
  <2>3. it = [t \in SUBSET (1 .. n) |-> it[t]]
      BY <1>3 DEF Iterates
  <2> QED
      BY <2>1, <2>2, <2>3 DEF next
<1>5. Equation(iter)
  <2> HIDE DEF Equation
  <2> QED
      BY <1>4
<1>6. OCF_ExtractMultiServiceCC(avp, service) = iter[1 .. n]
    BY <1>1, Zenon DEF OCF_ExtractMultiServiceCC, FoldLeft, MapThenFoldSet, s
<1> HIDE DEF iter
<1>7. iter[1 .. 0] = service
    BY <1>5, MaxOfInterval
<1>8. ASSUME NEW k \in 1 .. n PROVE iter[1 .. k] = StoredService(iter[1 .. k-1], s[k])
  <2>1. /\ 1 .. k \in SUBSET (1 .. n) /\ 1 .. k # {}
        /\ Max(1 .. k) = k /\ (1 .. k) \ {Max(1 .. k)} = 1 .. k-1
      BY <1>1, MaxOfInterval
  <2>2. iter[1 .. k] = StoredService(iter[(1 .. k) \ {Max(1 .. k)}], s[Max(1 .. k)])
      BY <1>5, <2>1
  <2> QED
      BY <2>1, <2>2
<1>9. /\ h[0] = iter[1 .. 0]
      /\ h[n] = iter[1 .. n]
      /\ \A k \in 1 .. n : h[k] = iter[1 .. k] /\ h[k-1] = iter[1 .. k-1]
    BY <1>1
<1> HIDE DEF h
<1>10. /\ h[0] = service
       /\ \A k \in 1 .. n : h[k] = StoredService(h[k-1], s[k])
       /\ OCF_ExtractMultiServiceCC(avp, service) = h[n]
    BY <1>6, <1>7, <1>8, <1>9
<1> QED
    BY <1>10 DEF n, s, ServiceSteps

AttributeStays(S, T) == \A s \in S, a \in T : StoredAttribute(s, a) \in S

AttributeSteps(h, avps) ==
    /\ h[0] = FreshCCR
    /\ \A k \in 1 .. Len(avps) : h[k] = StoredAttribute(h[k-1], avps[k])
    /\ OCF_ExtractCCRAttributes(avps) = h[Len(avps)]

\* So does OCF_ExtractCCRAttributes.
LEMMA AttributeFold ==
    ASSUME NEW S, FreshCCR \in S, NEW T, NEW avps \in Seq(T),
           AttributeStays(S, T)
    PROVE  \E h : AttributeSteps(h, avps)
<1> DEFINE s == avps
           n == Len(s)
           next == [p \in (1 .. n) \X S |-> StoredAttribute(p[2], s[p[1]])]
           Equation(f) == f = [t \in SUBSET (1 .. n) |->
                                  IF t = {} THEN FreshCCR
                                  ELSE StoredAttribute(f[t \ {Max(t)}], s[Max(t)])]
           iter == CHOOSE f : Equation(f)
           h == [k \in 0 .. n |-> iter[1 .. k]]
<1>1. s \in Seq(T) /\ n \in Nat /\ DOMAIN s = 1 .. n /\ \A k \in 1 .. n : s[k] \in T
    OBVIOUS
<1> HIDE DEF s, n
<1>2. next \in [(1 .. n) \X S -> S]
    BY <1>1 DEF AttributeStays
<1>3. PICK it : Iterates(it, S, n, FreshCCR, next)
  <2> HIDE DEF next
  <2> QED
      BY <1>1, <1>2, IterationExists
<1>4. Equation(it)
  <2> HIDE DEF next
  <2>1. \A t \in SUBSET (1 .. n) :
           it[t] = IF t = {} THEN FreshCCR ELSE next[<<Max(t), it[t \ {Max(t)}]>>]
      BY <1>3 DEF Iterates
  <2>2. \A t \in SUBSET (1 .. n) : t # {} => Max(t) \in 1 .. n /\ it[t \ {Max(t)}] \in S
      BY <1>3 DEF Iterates
  <2>3. it = [t \in SUBSET (1 .. n) |-> it[t]]
      BY <1>3 DEF Iterates
  <2> QED
      BY <2>1, <2>2, <2>3 DEF next
<1>5. Equation(iter)
  <2> HIDE DEF Equation
  <2> QED
      BY <1>4
<1>6. OCF_ExtractCCRAttributes(avps) = iter[1 .. n]
    BY <1>1, Zenon DEF OCF_ExtractCCRAttributes, FoldLeft, MapThenFoldSet, s
<1> HIDE DEF iter
<1>7. iter[1 .. 0] = FreshCCR
    BY <1>5, MaxOfInterval
<1>8. ASSUME NEW k \in 1 .. n PROVE iter[1 .. k] = StoredAttribute(iter[1 .. k-1], s[k])
  <2>1. /\ 1 .. k \in SUBSET (1 .. n) /\ 1 .. k # {}
        /\ Max(1 .. k) = k /\ (1 .. k) \ {Max(1 .. k)} = 1 .. k-1
      BY <1>1, MaxOfInterval
  <2>2. iter[1 .. k] = StoredAttribute(iter[(1 .. k) \ {Max(1 .. k)}], s[Max(1 .. k)])
      BY <1>5, <2>1
  <2> QED
      BY <2>1, <2>2
<1>9. /\ h[0] = iter[1 .. 0]
      /\ h[n] = iter[1 .. n]
      /\ \A k \in 1 .. n : h[k] = iter[1 .. k] /\ h[k-1] = iter[1 .. k-1]
    BY <1>1
<1> HIDE DEF h
<1>10. /\ h[0] = FreshCCR
       /\ \A k \in 1 .. n : h[k] = StoredAttribute(h[k-1], s[k])
       /\ OCF_ExtractCCRAttributes(avps) = h[n]
    BY <1>6, <1>7, <1>8, <1>9
<1> QED
    BY <1>10 DEF n, s, AttributeSteps

-----------------------------------------------------------------------------
(* Unit values and money *)

\* Unit values.
UnitValues == [llValueDigits : Int, nExponent : Int]

\* What is read of a group whose structure already holds u.
UnitValueFrom(avps, u) ==
    [llValueDigits |-> LastNumber(avps, "VALUE_DIGITS", u.llValueDigits),
     nExponent |-> LastNumber(avps, "EXPONENT", u.nExponent)]

\* What one AVP changes in a unit value.
LEMMA StoredAmount ==
    ASSUME NEW u \in UnitValues, NEW a, a.number \in Int
    PROVE  /\ Stored(Amount, u, a) \in UnitValues
           /\ Stored(Amount, u, a) =
                  [llValueDigits |-> IF a.code = "VALUE_DIGITS" THEN a.number ELSE u.llValueDigits,
                   nExponent |-> IF a.code = "EXPONENT" THEN a.number ELSE u.nExponent]
<1> DEFINE w == Stored(Amount, u, a)
           v == [llValueDigits |-> IF a.code = "VALUE_DIGITS" THEN a.number ELSE u.llValueDigits,
                   nExponent |-> IF a.code = "EXPONENT" THEN a.number ELSE u.nExponent]
<1>1. w \in UnitValues
    BY DEF Stored, Amount, UnitValues
<1>2. v \in UnitValues
    BY DEF UnitValues
<1>3. w.llValueDigits = v.llValueDigits /\ w.nExponent = v.nExponent
    BY DEF Stored, Amount, UnitValues
<1> HIDE DEF w, v
<1>4. w = v
    BY <1>1, <1>2, <1>3 DEF UnitValues
<1> QED
    BY <1>1, <1>4 DEF w, v

\* No AVP changes nothing.
LEMMA UnitValueFromEmpty ==
    ASSUME NEW u \in UnitValues
    PROVE  UnitValueFrom(<<>>, u) = u
BY LastEmpty DEF UnitValueFrom, UnitValues

\* A value is a number.
LEMMA NumberType ==
    ASSUME NEW S, \A a \in S : a.number \in Int, NEW s \in Seq(S), NEW code, NEW default \in Int
    PROVE  LastNumber(s, code, default) \in Int
<1>1. Having(s, code) \in Seq(S)
    BY HavingType
<1> DEFINE h == Having(s, code)
<1> HIDE DEF h
<1>2. h # <<>> => Last(h) \in S
    BY <1>1 DEF Last, h
<1> QED
    BY <1>2 DEF LastNumber, h

\* One AVP more is stored.
LEMMA UnitValueFromAppend ==
    ASSUME NEW A, AreAVPs(A), NEW s \in Seq(A), NEW a \in A, NEW u \in UnitValues
    PROVE  /\ UnitValueFrom(s, u) \in UnitValues
           /\ UnitValueFrom(Append(s, a), u) = Stored(Amount, UnitValueFrom(s, u), a)
<1>1. a.number \in Int /\ \A b \in A : b.number \in Int
    BY DEF AreAVPs
<1>2. u.llValueDigits \in Int /\ u.nExponent \in Int
    BY DEF UnitValues
<1>3. LastNumber(s, "VALUE_DIGITS", u.llValueDigits) \in Int /\ LastNumber(s, "EXPONENT", u.nExponent) \in Int
    BY <1>1, <1>2, NumberType
<1>4. UnitValueFrom(s, u) \in UnitValues
    BY <1>3 DEF UnitValueFrom, UnitValues
<1>5. /\ LastNumber(Append(s, a), "VALUE_DIGITS", u.llValueDigits) =
             IF a.code = "VALUE_DIGITS" THEN a.number ELSE LastNumber(s, "VALUE_DIGITS", u.llValueDigits)
      /\ LastNumber(Append(s, a), "EXPONENT", u.nExponent) =
             IF a.code = "EXPONENT" THEN a.number ELSE LastNumber(s, "EXPONENT", u.nExponent)
    BY LastAppend
<1>6. UnitValueFrom(Append(s, a), u) =
          [llValueDigits |-> IF a.code = "VALUE_DIGITS" THEN a.number ELSE UnitValueFrom(s, u).llValueDigits,
           nExponent |-> IF a.code = "EXPONENT" THEN a.number ELSE UnitValueFrom(s, u).nExponent]
    BY <1>5 DEF UnitValueFrom
<1> QED
    BY <1>1, <1>4, <1>6, StoredAmount

\* A repeated group is read into what the first one left.
LEMMA UnitValueFromConcat ==
    ASSUME NEW A, NEW s \in Seq(A), NEW t \in Seq(A), NEW u
    PROVE  UnitValueFrom(s \o t, u) = UnitValueFrom(t, UnitValueFrom(s, u))
BY LastConcat DEF UnitValueFrom

\* OCF_ExtractUnitValue stores what the group says.
LEMMA UnitValueExtracted ==
    ASSUME NEW A, AreAVPs(A), NEW avp \in A, NEW u \in UnitValues
    PROVE  OCF_ExtractUnitValue(avp, u) = UnitValueFrom(avp.members, u)
<1> DEFINE s == avp.members
           n == Len(s)
<1>1. s \in Seq(A) /\ n \in Nat /\ \A b \in A : b.number \in Int
    BY DEF AreAVPs
<1>2. StoredStays(Amount, UnitValues, A)
    BY <1>1, StoredAmount DEF StoredStays
<1> HIDE DEF s
<1>a. PICK h : StoredSteps(h, Amount, u, s)
    BY <1>1, <1>2, StoredFold
<1>3. /\ h[0] = u
      /\ \A k \in 1 .. n : h[k] = Stored(Amount, h[k-1], s[k])
      /\ StoredAll(Amount, u, s) = h[n]
    BY <1>a DEF StoredSteps
<1> DEFINE K == {k \in 0 .. n : h[k] = UnitValueFrom(Begin(s, k), u)}
<1> HIDE DEF n
<1>4. 0 \in K
    BY <1>1, <1>3, BeginSteps, UnitValueFromEmpty
<1>5. ASSUME NEW k \in 1 .. n, k-1 \in K PROVE k \in K
  <2>1. /\ Begin(s, k-1) \in Seq(A) /\ s[k] \in A
        /\ Begin(s, k) = Append(Begin(s, k-1), s[k])
      BY <1>1, BeginSteps DEF n
  <2>2. UnitValueFrom(Begin(s, k), u) = Stored(Amount, UnitValueFrom(Begin(s, k-1), u), s[k])
      BY <2>1, UnitValueFromAppend
  <2>3. k \in 0 .. n
      BY <1>1
  <2> QED
      BY <1>3, <1>5, <2>2, <2>3
<1>6. 0 .. n \subseteq K
  <2> HIDE DEF K
  <2> QED
      BY <1>1, <1>4, <1>5, UpTo
<1>7. n \in 0 .. n /\ Begin(s, n) = s
    BY <1>1, BeginSteps DEF n
<1>8. h[n] = UnitValueFrom(s, u)
    BY <1>6, <1>7
<1> QED
    BY <1>3, <1>8 DEF OCF_ExtractUnitValue, s

\* Amounts of money.
Moneys == [oUnitValue : UnitValues, unCurrencyCode : Int]

\* The same of an amount of money.
MoneyFrom(avps, m) ==
    [oUnitValue |-> UnitValueFrom(Within(avps, "UNIT_VALUE"), m.oUnitValue),
     unCurrencyCode |-> LastNumber(avps, "CURRENCY_CODE", m.unCurrencyCode)]

\* What one AVP but a Unit-Value changes in an amount of money.
LEMMA StoredCurrency ==
    ASSUME NEW m \in Moneys, NEW a, a.number \in Int
    PROVE  /\ Stored(Currency, m, a) \in Moneys
           /\ Stored(Currency, m, a).oUnitValue = m.oUnitValue
           /\ Stored(Currency, m, a).unCurrencyCode =
                  IF a.code = "CURRENCY_CODE" THEN a.number ELSE m.unCurrencyCode
BY DEF Stored, Currency, Moneys

\* No AVP changes nothing.
LEMMA MoneyFromEmpty ==
    ASSUME NEW m \in Moneys
    PROVE  MoneyFrom(<<>>, m) = m
<1>1. m.oUnitValue \in UnitValues
    BY DEF Moneys
<1>2. UnitValueFrom(<<>>, m.oUnitValue) = m.oUnitValue
    BY <1>1, UnitValueFromEmpty
<1> QED
    BY <1>2, LastEmpty, ReadingEmpty DEF MoneyFrom, Moneys

\* The parts of an AVP.
LEMMA MembersAreAVPs ==
    ASSUME NEW A, AreAVPs(A)
    PROVE  /\ Groups(A, A)
           /\ \A a \in A : a.number \in Int /\ a.members \in Seq(A)
           /\ \A a \in A : a.text \in Seq(Seq(STRING)) /\ Len(a.text) <= 1
BY DEF AreAVPs, Groups

\* A unit value is read.
LEMMA UnitValueFromType ==
    ASSUME NEW A, AreAVPs(A), NEW s \in Seq(A), NEW u \in UnitValues
    PROVE  UnitValueFrom(s, u) \in UnitValues
<1>1. u.llValueDigits \in Int /\ u.nExponent \in Int
    BY DEF UnitValues
<1>2. LastNumber(s, "VALUE_DIGITS", u.llValueDigits) \in Int /\ LastNumber(s, "EXPONENT", u.nExponent) \in Int
    BY <1>1, MembersAreAVPs, NumberType
<1> QED
    BY <1>2 DEF UnitValueFrom, UnitValues

\* An amount of money is read.
LEMMA MoneyFromType ==
    ASSUME NEW A, AreAVPs(A), NEW s \in Seq(A), NEW m \in Moneys
    PROVE  MoneyFrom(s, m) \in Moneys
<1>1. m.oUnitValue \in UnitValues /\ m.unCurrencyCode \in Int
    BY DEF Moneys
<1>2. Within(s, "UNIT_VALUE") \in Seq(A)
    BY MembersAreAVPs, WithinType
<1>3. UnitValueFrom(Within(s, "UNIT_VALUE"), m.oUnitValue) \in UnitValues
    BY <1>1, <1>2, UnitValueFromType
<1>4. LastNumber(s, "CURRENCY_CODE", m.unCurrencyCode) \in Int
    BY <1>1, MembersAreAVPs, NumberType
<1> QED
    BY <1>3, <1>4 DEF MoneyFrom, Moneys

\* An AVP leaves an amount of money.
LEMMA StoredMoneyType ==
    ASSUME NEW A, AreAVPs(A), NEW a \in A, NEW m \in Moneys
    PROVE  StoredMoney(m, a) \in Moneys
<1>1. CASE a.code = "UNIT_VALUE"
  <2>1. m.oUnitValue \in UnitValues /\ a.members \in Seq(A)
      BY MembersAreAVPs DEF Moneys
  <2>2. OCF_ExtractUnitValue(a, m.oUnitValue) \in UnitValues
      BY <2>1, UnitValueExtracted, UnitValueFromType
  <2> QED
      BY <1>1, <2>2 DEF StoredMoney, Moneys
<1>2. CASE a.code # "UNIT_VALUE"
    BY <1>2, MembersAreAVPs, StoredCurrency DEF StoredMoney
<1> QED
    BY <1>1, <1>2

\* One AVP more is stored.
LEMMA MoneyFromAppend ==
    ASSUME NEW A, AreAVPs(A), NEW s \in Seq(A), NEW a \in A, NEW m \in Moneys
    PROVE  MoneyFrom(Append(s, a), m) = StoredMoney(MoneyFrom(s, m), a)
<1> DEFINE w == Within(s, "UNIT_VALUE")
           v == UnitValueFrom(w, m.oUnitValue)
           c == LastNumber(s, "CURRENCY_CODE", m.unCurrencyCode)
           old == MoneyFrom(s, m)
<1>1. w \in Seq(A) /\ a.members \in Seq(A) /\ a.number \in Int /\ m.oUnitValue \in UnitValues
    BY MembersAreAVPs, WithinType DEF Moneys
<1>2. old \in Moneys /\ old.oUnitValue = v /\ old.unCurrencyCode = c /\ v \in UnitValues
    BY MoneyFromType DEF MoneyFrom, Moneys
<1>3. Within(Append(s, a), "UNIT_VALUE") = IF a.code = "UNIT_VALUE" THEN w \o a.members ELSE w
    BY MembersAreAVPs, WithinAppend
<1>4. LastNumber(Append(s, a), "CURRENCY_CODE", m.unCurrencyCode) =
          IF a.code = "CURRENCY_CODE" THEN a.number ELSE c
    BY LastAppend
<1> HIDE DEF w, v, c, old
<1>5. CASE a.code = "UNIT_VALUE"
  <2>1. UnitValueFrom(w \o a.members, m.oUnitValue) = OCF_ExtractUnitValue(a, v)
      BY <1>1, <1>2, UnitValueFromConcat, UnitValueExtracted DEF v
  <2>2. MoneyFrom(Append(s, a), m) = [oUnitValue |-> OCF_ExtractUnitValue(a, v), unCurrencyCode |-> c]
      BY <1>3, <1>4, <1>5, <2>1 DEF MoneyFrom
  <2>3. StoredMoney(old, a) = [old EXCEPT !.oUnitValue = OCF_ExtractUnitValue(a, v)]
      BY <1>2, <1>5 DEF StoredMoney
  <2> QED
      BY <1>2, <2>2, <2>3 DEF old, Moneys
<1>6. CASE a.code # "UNIT_VALUE"
  <2>1. MoneyFrom(Append(s, a), m) =
            [oUnitValue |-> v, unCurrencyCode |-> IF a.code = "CURRENCY_CODE" THEN a.number ELSE c]
      BY <1>3, <1>4, <1>6 DEF MoneyFrom, v
  <2>2. StoredMoney(old, a) = Stored(Currency, old, a)
      BY <1>6 DEF StoredMoney
  <2>3. /\ Stored(Currency, old, a) \in Moneys
        /\ Stored(Currency, old, a).oUnitValue = v
        /\ Stored(Currency, old, a).unCurrencyCode = IF a.code = "CURRENCY_CODE" THEN a.number ELSE c
      BY <1>1, <1>2, StoredCurrency
  <2> QED
      BY <2>1, <2>2, <2>3 DEF old, Moneys
<1> QED
    BY <1>5, <1>6

\* A repeated group is read into what the first one left.
LEMMA MoneyFromConcat ==
    ASSUME NEW A, AreAVPs(A), NEW s \in Seq(A), NEW t \in Seq(A), NEW m
    PROVE  MoneyFrom(s \o t, m) = MoneyFrom(t, MoneyFrom(s, m))
<1> DEFINE v == Within(s, "UNIT_VALUE")
           w == Within(t, "UNIT_VALUE")
<1>1. v \in Seq(A) /\ w \in Seq(A)
    BY MembersAreAVPs, WithinType
<1>2. Within(s \o t, "UNIT_VALUE") = v \o w
    BY MembersAreAVPs, WithinConcat
<1> HIDE DEF v, w
<1>3. UnitValueFrom(v \o w, m.oUnitValue) = UnitValueFrom(w, UnitValueFrom(v, m.oUnitValue))
    BY <1>1, UnitValueFromConcat
<1>4. LastNumber(s \o t, "CURRENCY_CODE", m.unCurrencyCode) =
          LastNumber(t, "CURRENCY_CODE", LastNumber(s, "CURRENCY_CODE", m.unCurrencyCode))
    BY LastConcat
<1> QED
    BY <1>2, <1>3, <1>4 DEF MoneyFrom, v, w

\* OCF_ExtractCCMoney stores what the group says.
LEMMA MoneyExtracted ==
    ASSUME NEW A, AreAVPs(A), NEW avp \in A, NEW m \in Moneys
    PROVE  OCF_ExtractCCMoney(avp, m) = MoneyFrom(avp.members, m)
<1> DEFINE s == avp.members
           n == Len(s)
<1>1. s \in Seq(A) /\ n \in Nat
    BY MembersAreAVPs
<1>2. MoneyStays(Moneys, A)
    BY StoredMoneyType DEF MoneyStays
<1>3. PICK h : MoneySteps(h, m, avp)
    BY <1>1, <1>2, MoneyFold
<1> HIDE DEF s
<1> DEFINE K == {k \in 0 .. n : h[k] = MoneyFrom(Begin(s, k), m)}
<1>4. /\ h[0] = m
      /\ \A k \in 1 .. n : h[k] = StoredMoney(h[k-1], s[k])
      /\ OCF_ExtractCCMoney(avp, m) = h[n]
    BY <1>3 DEF MoneySteps, s
<1> HIDE DEF n
<1>5. 0 \in K
    BY <1>1, <1>4, BeginSteps, MoneyFromEmpty
<1>6. ASSUME NEW k \in 1 .. n, k-1 \in K PROVE k \in K
  <2>1. /\ Begin(s, k-1) \in Seq(A) /\ s[k] \in A
        /\ Begin(s, k) = Append(Begin(s, k-1), s[k])
      BY <1>1, BeginSteps DEF n
  <2>2. MoneyFrom(Begin(s, k), m) = StoredMoney(MoneyFrom(Begin(s, k-1), m), s[k])
      BY <2>1, MoneyFromAppend
  <2>3. k \in 0 .. n
      BY <1>1
  <2> QED
      BY <1>4, <1>6, <2>2, <2>3
<1>7. 0 .. n \subseteq K
  <2> HIDE DEF K
  <2> QED
      BY <1>1, <1>5, <1>6, UpTo
<1>8. n \in 0 .. n /\ Begin(s, n) = s
    BY <1>1, BeginSteps DEF n
<1> QED
    BY <1>4, <1>7, <1>8 DEF s

-----------------------------------------------------------------------------
(* Requested units *)

\* Requested units.
Units == [unCCTime : Int, oCCMoney : Moneys, ullCCTotalOctets : Int,
          ullCCInputOctets : Int, ullCCOutputOctets : Int]

\* The same of requested units.
UnitsFrom(avps, u) ==
    [unCCTime |-> LastNumber(avps, "CC_TIME", u.unCCTime),
     oCCMoney |-> MoneyFrom(Within(avps, "CC_MONEY"), u.oCCMoney),
     ullCCTotalOctets |-> LastNumber(avps, "CC_TOTAL_OCTETS", u.ullCCTotalOctets),
     ullCCInputOctets |-> LastNumber(avps, "CC_INPUT_OCTETS", u.ullCCInputOctets),
     ullCCOutputOctets |-> LastNumber(avps, "CC_OUTPUT_OCTETS", u.ullCCOutputOctets)]

\* What one AVP but a CC-Money changes in the requested units.
LEMMA StoredUnits ==
    ASSUME NEW u \in Units, NEW a, a.number \in Int
    PROVE  /\ Stored(Quantity, u, a) \in Units
           /\ Stored(Quantity, u, a).oCCMoney = u.oCCMoney
           /\ Stored(Quantity, u, a).unCCTime =
                  IF a.code = "CC_TIME" THEN a.number ELSE u.unCCTime
           /\ Stored(Quantity, u, a).ullCCTotalOctets =
                  IF a.code = "CC_TOTAL_OCTETS" THEN a.number ELSE u.ullCCTotalOctets
           /\ Stored(Quantity, u, a).ullCCInputOctets =
                  IF a.code = "CC_INPUT_OCTETS" THEN a.number ELSE u.ullCCInputOctets
           /\ Stored(Quantity, u, a).ullCCOutputOctets =
                  IF a.code = "CC_OUTPUT_OCTETS" THEN a.number ELSE u.ullCCOutputOctets
<1>1. CASE a.code = "CC_TIME"
    BY <1>1 DEF Stored, Quantity, Units
<1>2. CASE a.code = "CC_TOTAL_OCTETS"
    BY <1>2 DEF Stored, Quantity, Units
<1>3. CASE a.code = "CC_INPUT_OCTETS"
    BY <1>3 DEF Stored, Quantity, Units
<1>4. CASE a.code = "CC_OUTPUT_OCTETS"
    BY <1>4 DEF Stored, Quantity, Units
<1>5. CASE a.code \notin {"CC_TIME", "CC_TOTAL_OCTETS", "CC_INPUT_OCTETS", "CC_OUTPUT_OCTETS"}
    BY <1>5 DEF Stored, Quantity, Units
<1> QED
    BY <1>1, <1>2, <1>3, <1>4, <1>5

\* No AVP changes nothing.
LEMMA UnitsFromEmpty ==
    ASSUME NEW u \in Units
    PROVE  UnitsFrom(<<>>, u) = u
<1>1. u.oCCMoney \in Moneys
    BY DEF Units
<1>2. MoneyFrom(<<>>, u.oCCMoney) = u.oCCMoney
    BY <1>1, MoneyFromEmpty
<1> QED
    BY <1>2, LastEmpty, ReadingEmpty DEF UnitsFrom, Units

\* Requested units are read.
LEMMA UnitsFromType ==
    ASSUME NEW A, AreAVPs(A), NEW s \in Seq(A), NEW u \in Units
    PROVE  UnitsFrom(s, u) \in Units
<1>1. /\ u.oCCMoney \in Moneys /\ u.unCCTime \in Int /\ u.ullCCTotalOctets \in Int
      /\ u.ullCCInputOctets \in Int /\ u.ullCCOutputOctets \in Int
    BY DEF Units
<1>2. Within(s, "CC_MONEY") \in Seq(A)
    BY MembersAreAVPs, WithinType
<1>3. MoneyFrom(Within(s, "CC_MONEY"), u.oCCMoney) \in Moneys
    BY <1>1, <1>2, MoneyFromType
<1>4. \A code : \A d \in Int : LastNumber(s, code, d) \in Int
    BY MembersAreAVPs, NumberType
<1> QED
    BY <1>1, <1>3, <1>4 DEF UnitsFrom, Units

\* An AVP leaves requested units.
LEMMA StoredQuantityType ==
    ASSUME NEW A, AreAVPs(A), NEW a \in A, NEW u \in Units
    PROVE  StoredQuantity(u, a) \in Units
<1>1. CASE a.code = "CC_MONEY"
  <2>1. u.oCCMoney \in Moneys /\ a.members \in Seq(A)
      BY MembersAreAVPs DEF Units
  <2>2. OCF_ExtractCCMoney(a, u.oCCMoney) \in Moneys
      BY <2>1, MoneyExtracted, MoneyFromType
  <2> QED
      BY <1>1, <2>2 DEF StoredQuantity, Units
<1>2. CASE a.code # "CC_MONEY"
    BY <1>2, MembersAreAVPs, StoredUnits DEF StoredQuantity
<1> QED
    BY <1>1, <1>2

\* One AVP more is stored.
LEMMA UnitsFromAppend ==
    ASSUME NEW A, AreAVPs(A), NEW s \in Seq(A), NEW a \in A, NEW u \in Units
    PROVE  UnitsFrom(Append(s, a), u) = StoredQuantity(UnitsFrom(s, u), a)
<1> DEFINE w == Within(s, "CC_MONEY")
           v == MoneyFrom(w, u.oCCMoney)
           old == UnitsFrom(s, u)
           new == UnitsFrom(Append(s, a), u)
<1>1. w \in Seq(A) /\ a.members \in Seq(A) /\ a.number \in Int /\ u.oCCMoney \in Moneys
    BY MembersAreAVPs, WithinType DEF Units
<1>2. old \in Units /\ old.oCCMoney = v /\ v \in Moneys
    BY UnitsFromType DEF UnitsFrom, Units
<1>3. Within(Append(s, a), "CC_MONEY") = IF a.code = "CC_MONEY" THEN w \o a.members ELSE w
    BY MembersAreAVPs, WithinAppend
<1>4. /\ new.unCCTime = IF a.code = "CC_TIME" THEN a.number ELSE old.unCCTime
      /\ new.ullCCTotalOctets =
             IF a.code = "CC_TOTAL_OCTETS" THEN a.number ELSE old.ullCCTotalOctets
      /\ new.ullCCInputOctets =
             IF a.code = "CC_INPUT_OCTETS" THEN a.number ELSE old.ullCCInputOctets
      /\ new.ullCCOutputOctets =
             IF a.code = "CC_OUTPUT_OCTETS" THEN a.number ELSE old.ullCCOutputOctets
    BY LastAppend DEF UnitsFrom
<1>5. new \in Units
  <2>1. Append(s, a) \in Seq(A)
      OBVIOUS
  <2> QED
      BY <2>1, UnitsFromType
<1>6. new.oCCMoney = MoneyFrom(Within(Append(s, a), "CC_MONEY"), u.oCCMoney)
    BY DEF UnitsFrom
<1> HIDE DEF w, v, old, new
<1>7. CASE a.code = "CC_MONEY"
  <2>1. MoneyFrom(w \o a.members, u.oCCMoney) = OCF_ExtractCCMoney(a, v)
      BY <1>1, <1>2, MoneyFromConcat, MoneyExtracted DEF v
  <2>2. new.oCCMoney = OCF_ExtractCCMoney(a, v)
      BY <1>3, <1>6, <1>7, <2>1
  <2>3. StoredQuantity(old, a) = [old EXCEPT !.oCCMoney = OCF_ExtractCCMoney(a, v)]
      BY <1>2, <1>7 DEF StoredQuantity
  <2>4. new = [old EXCEPT !.oCCMoney = OCF_ExtractCCMoney(a, v)]
      BY <1>2, <1>4, <1>5, <1>7, <2>2 DEF Units
  <2> QED
      BY <2>3, <2>4 DEF old, new
<1>8. CASE a.code # "CC_MONEY"
  <2>1. new.oCCMoney = v
      BY <1>3, <1>6, <1>8 DEF v
  <2>2. StoredQuantity(old, a) = Stored(Quantity, old, a)
      BY <1>8 DEF StoredQuantity
  <2> DEFINE z == Stored(Quantity, old, a)
  <2>3. /\ z \in Units
        /\ z.oCCMoney = v
        /\ z.unCCTime = new.unCCTime
        /\ z.ullCCTotalOctets = new.ullCCTotalOctets
        /\ z.ullCCInputOctets = new.ullCCInputOctets
        /\ z.ullCCOutputOctets = new.ullCCOutputOctets
      BY <1>1, <1>2, <1>4, StoredUnits
  <2> HIDE DEF z
  <2>4. new = z
      BY <1>5, <2>1, <2>3 DEF Units
  <2> QED
      BY <2>2, <2>4 DEF old, new, z
<1> QED
    BY <1>7, <1>8

\* A repeated group is read into what the first one left.
LEMMA UnitsFromConcat ==
    ASSUME NEW A, AreAVPs(A), NEW s \in Seq(A), NEW t \in Seq(A), NEW u
    PROVE  UnitsFrom(s \o t, u) = UnitsFrom(t, UnitsFrom(s, u))
<1> DEFINE v == Within(s, "CC_MONEY")
           w == Within(t, "CC_MONEY")
<1>1. v \in Seq(A) /\ w \in Seq(A)
    BY MembersAreAVPs, WithinType
<1>2. Within(s \o t, "CC_MONEY") = v \o w
    BY MembersAreAVPs, WithinConcat
<1> HIDE DEF v, w
<1>3. MoneyFrom(v \o w, u.oCCMoney) = MoneyFrom(w, MoneyFrom(v, u.oCCMoney))
    BY <1>1, MoneyFromConcat
<1>4. \A code, d : LastNumber(s \o t, code, d) = LastNumber(t, code, LastNumber(s, code, d))
    BY LastConcat
<1> QED
    BY <1>2, <1>3, <1>4 DEF UnitsFrom, v, w

\* OCF_ExtractReqServiceUnit stores what the group says.
LEMMA UnitsExtracted ==
    ASSUME NEW A, AreAVPs(A), NEW avp \in A, NEW u \in Units
    PROVE  OCF_ExtractReqServiceUnit(avp, u) = UnitsFrom(avp.members, u)
<1> DEFINE s == avp.members
           n == Len(s)
<1>1. s \in Seq(A) /\ n \in Nat
    BY MembersAreAVPs
<1>2. QuantityStays(Units, A)
    BY StoredQuantityType DEF QuantityStays
<1>3. PICK h : QuantitySteps(h, u, avp)
    BY <1>1, <1>2, QuantityFold
<1> HIDE DEF s
<1> DEFINE K == {k \in 0 .. n : h[k] = UnitsFrom(Begin(s, k), u)}
<1>4. /\ h[0] = u
      /\ \A k \in 1 .. n : h[k] = StoredQuantity(h[k-1], s[k])
      /\ OCF_ExtractReqServiceUnit(avp, u) = h[n]
    BY <1>3 DEF QuantitySteps, s
<1> HIDE DEF n
<1>5. 0 \in K
    BY <1>1, <1>4, BeginSteps, UnitsFromEmpty
<1>6. ASSUME NEW k \in 1 .. n, k-1 \in K PROVE k \in K
  <2>1. /\ Begin(s, k-1) \in Seq(A) /\ s[k] \in A
        /\ Begin(s, k) = Append(Begin(s, k-1), s[k])
      BY <1>1, BeginSteps DEF n
  <2>2. UnitsFrom(Begin(s, k), u) = StoredQuantity(UnitsFrom(Begin(s, k-1), u), s[k])
      BY <2>1, UnitsFromAppend
  <2>3. k \in 0 .. n
      BY <1>1
  <2> QED
      BY <1>4, <1>6, <2>2, <2>3
<1>7. 0 .. n \subseteq K
  <2> HIDE DEF K
  <2> QED
      BY <1>1, <1>5, <1>6, UpTo
<1>8. n \in 0 .. n /\ Begin(s, n) = s
    BY <1>1, BeginSteps DEF n
<1> QED
    BY <1>4, <1>7, <1>8 DEF s

\* The units a message asks for are read into a cleared structure.
LEMMA UnitsInIsFrom ==
    ASSUME NEW avps
    PROVE  UnitsIn(avps) = UnitsFrom(avps, ReqServiceUnit)
BY DEF UnitsIn, UnitsFrom, MoneyIn, MoneyFrom, UnitValueIn, UnitValueFrom, ReqServiceUnit,
       CCMoney, UnitValue

-----------------------------------------------------------------------------
(* Used units *)

\* Reports of used units.
UsedUnits == [unCCTime : Int, ullCCTotalOctets : Int,
              ullCCInputOctets : Int, ullCCOutputOctets : Int]

\* What a report of used units says.
UsedIn(avps) ==
    [unCCTime |-> LastNumber(avps, "CC_TIME", 0),
     ullCCTotalOctets |-> LastNumber(avps, "CC_TOTAL_OCTETS", 0),
     ullCCInputOctets |-> LastNumber(avps, "CC_INPUT_OCTETS", 0),
     ullCCOutputOctets |-> LastNumber(avps, "CC_OUTPUT_OCTETS", 0)]

\* What one AVP changes in a report of used units.
LEMMA StoredUsed ==
    ASSUME NEW u \in UsedUnits, NEW a, a.number \in Int
    PROVE  /\ Stored(Quantity, u, a) \in UsedUnits
           /\ Stored(Quantity, u, a) =
                  [unCCTime |-> IF a.code = "CC_TIME" THEN a.number ELSE u.unCCTime,
                   ullCCTotalOctets |->
                       IF a.code = "CC_TOTAL_OCTETS" THEN a.number ELSE u.ullCCTotalOctets,
                   ullCCInputOctets |->
                       IF a.code = "CC_INPUT_OCTETS" THEN a.number ELSE u.ullCCInputOctets,
                   ullCCOutputOctets |->
                       IF a.code = "CC_OUTPUT_OCTETS" THEN a.number ELSE u.ullCCOutputOctets]
<1> DEFINE z == Stored(Quantity, u, a)
           v == [unCCTime |-> IF a.code = "CC_TIME" THEN a.number ELSE u.unCCTime,
                 ullCCTotalOctets |->
                     IF a.code = "CC_TOTAL_OCTETS" THEN a.number ELSE u.ullCCTotalOctets,
                 ullCCInputOctets |->
                     IF a.code = "CC_INPUT_OCTETS" THEN a.number ELSE u.ullCCInputOctets,
                 ullCCOutputOctets |->
                     IF a.code = "CC_OUTPUT_OCTETS" THEN a.number ELSE u.ullCCOutputOctets]
<1>1. z \in UsedUnits
    BY DEF Stored, Quantity, UsedUnits
<1>2. v \in UsedUnits
    BY DEF UsedUnits
<1>3. /\ z.unCCTime = v.unCCTime /\ z.ullCCTotalOctets = v.ullCCTotalOctets
      /\ z.ullCCInputOctets = v.ullCCInputOctets /\ z.ullCCOutputOctets = v.ullCCOutputOctets
    BY DEF Stored, Quantity, UsedUnits
<1> HIDE DEF z, v
<1>4. z = v
    BY <1>1, <1>2, <1>3 DEF UsedUnits
<1> QED
    BY <1>1, <1>4 DEF z, v

\* A report is read.
LEMMA UsedInType ==
    ASSUME NEW A, AreAVPs(A), NEW s \in Seq(A)
    PROVE  UsedIn(s) \in UsedUnits
<1>1. \A code : LastNumber(s, code, 0) \in Int
    BY MembersAreAVPs, NumberType
<1> QED
    BY <1>1 DEF UsedIn, UsedUnits

\* One AVP more is stored.
LEMMA UsedInAppend ==
    ASSUME NEW A, AreAVPs(A), NEW s \in Seq(A), NEW a \in A
    PROVE  UsedIn(Append(s, a)) = Stored(Quantity, UsedIn(s), a)
<1>1. a.number \in Int /\ UsedIn(s) \in UsedUnits
    BY MembersAreAVPs, UsedInType
<1>2. \A code : LastNumber(Append(s, a), code, 0) =
                    IF a.code = code THEN a.number ELSE LastNumber(s, code, 0)
    BY LastAppend
<1>3. UsedIn(Append(s, a)) =
          [unCCTime |-> IF a.code = "CC_TIME" THEN a.number ELSE UsedIn(s).unCCTime,
           ullCCTotalOctets |->
               IF a.code = "CC_TOTAL_OCTETS" THEN a.number ELSE UsedIn(s).ullCCTotalOctets,
           ullCCInputOctets |->
               IF a.code = "CC_INPUT_OCTETS" THEN a.number ELSE UsedIn(s).ullCCInputOctets,
           ullCCOutputOctets |->
               IF a.code = "CC_OUTPUT_OCTETS" THEN a.number ELSE UsedIn(s).ullCCOutputOctets]
    BY <1>2 DEF UsedIn
<1> QED
    BY <1>1, <1>3, StoredUsed

\* OCF_ExtractUsedServiceUnit stores what the report says.
LEMMA UsedExtracted ==
    ASSUME NEW A, AreAVPs(A), NEW avp \in A
    PROVE  OCF_ExtractUsedServiceUnit(avp, UsedServiceUnit) = UsedIn(avp.members)
<1> DEFINE s == avp.members
           n == Len(s)
           u == UsedServiceUnit
<1>1. s \in Seq(A) /\ n \in Nat /\ u \in UsedUnits
    BY MembersAreAVPs DEF UsedServiceUnit, UsedUnits
<1>2. StoredStays(Quantity, UsedUnits, A)
    BY MembersAreAVPs, StoredUsed DEF StoredStays
<1> HIDE DEF s, u
<1>a. PICK h : StoredSteps(h, Quantity, u, s)
    BY <1>1, <1>2, StoredFold
<1>3. /\ h[0] = u
      /\ \A k \in 1 .. n : h[k] = Stored(Quantity, h[k-1], s[k])
      /\ StoredAll(Quantity, u, s) = h[n]
    BY <1>a DEF StoredSteps
<1> DEFINE K == {k \in 0 .. n : h[k] = UsedIn(Begin(s, k))}
<1> HIDE DEF n
<1>4. 0 \in K
  <2>1. UsedIn(<<>>) = u
      BY LastEmpty DEF UsedIn, u, UsedServiceUnit
  <2> QED
      BY <1>1, <1>3, <2>1, BeginSteps
<1>5. ASSUME NEW k \in 1 .. n, k-1 \in K PROVE k \in K
  <2>1. /\ Begin(s, k-1) \in Seq(A) /\ s[k] \in A
        /\ Begin(s, k) = Append(Begin(s, k-1), s[k])
      BY <1>1, BeginSteps DEF n
  <2>2. UsedIn(Begin(s, k)) = Stored(Quantity, UsedIn(Begin(s, k-1)), s[k])
      BY <2>1, UsedInAppend
  <2>3. k \in 0 .. n
      BY <1>1
  <2> QED
      BY <1>3, <1>5, <2>2, <2>3
<1>6. 0 .. n \subseteq K
  <2> HIDE DEF K
  <2> QED
      BY <1>1, <1>4, <1>5, UpTo
<1>7. n \in 0 .. n /\ Begin(s, n) = s
    BY <1>1, BeginSteps DEF n
<1>8. h[n] = UsedIn(s)
    BY <1>6, <1>7
<1> QED
    BY <1>3, <1>8 DEF OCF_ExtractUsedServiceUnit, s, u

\* How many of n structures find room in an array.
Room(n, size) == IF n < size THEN n ELSE size

\* The used units that are kept of these reports.
UsedOf(groups) ==
    [i \in 1 .. Room(Len(groups), OCS_MAX_USED_SERVICE_UNIT) |-> UsedIn(groups[i].members)]

\* The array of reports is as long as there is room.
LEMMA UsedOfType ==
    ASSUME NEW A, AreAVPs(A), NEW g \in Seq(A)
    PROVE  /\ UsedOf(g) \in Seq(UsedUnits)
           /\ Len(UsedOf(g)) = Room(Len(g), OCS_MAX_USED_SERVICE_UNIT)
<1> DEFINE m == Room(Len(g), OCS_MAX_USED_SERVICE_UNIT)
<1>1. m \in Nat /\ m <= Len(g)
    BY DefinesAssumption DEF Room
<1>2. \A i \in 1 .. m : UsedIn(g[i].members) \in UsedUnits
  <2> TAKE i \in 1 .. m
  <2>1. i \in 1 .. Len(g)
      BY <1>1
  <2>2. g[i].members \in Seq(A)
      BY <2>1, MembersAreAVPs
  <2> QED
      BY <2>2, UsedInType
<1>3. UsedOf(g) = [i \in 1 .. m |-> UsedIn(g[i].members)]
    BY DEF UsedOf
<1> HIDE DEF m
<1>4. UsedOf(g) \in Seq(UsedUnits) /\ Len(UsedOf(g)) = m
    BY <1>1, <1>2, <1>3
<1> QED
    BY <1>4 DEF m

\* One report more is kept, if there is room.
LEMMA UsedOfAppend ==
    ASSUME NEW A, AreAVPs(A), NEW g \in Seq(A), NEW a \in A
    PROVE  UsedOf(Append(g, a)) =
               Filled(UsedOf(g), OCS_MAX_USED_SERVICE_UNIT, UsedIn(a.members))
<1> DEFINE M == OCS_MAX_USED_SERVICE_UNIT
           ga == Append(g, a)
           u == UsedIn(a.members)
           old == UsedOf(g)
           n == Len(g)
<1>1. /\ n \in Nat /\ M \in Nat /\ ga \in Seq(A) /\ Len(ga) = n+1
      /\ ga[n+1] = a /\ \A i \in 1 .. n : ga[i] = g[i]
    BY DefinesAssumption
<1>2. old \in Seq(UsedUnits) /\ Len(old) = Room(n, M)
    BY UsedOfType
<1>3. old = [i \in 1 .. Room(n, M) |-> UsedIn(g[i].members)]
    BY DEF UsedOf
<1>4. UsedOf(ga) = [i \in 1 .. Room(n+1, M) |-> UsedIn(ga[i].members)]
    BY <1>1 DEF UsedOf
<1>5. u \in UsedUnits
  <2>1. a.members \in Seq(A)
      BY MembersAreAVPs
  <2> QED
      BY <2>1, UsedInType
<1>u. UsedIn(ga[n+1].members) = u
    BY <1>1
<1> HIDE DEF ga, old, n, M, u
<1>6. CASE n < M
  <2>1. Room(n, M) = n /\ Room(n+1, M) = n+1
      BY <1>1, <1>6 DEF Room
  <2>2. Filled(old, M, u) = Append(old, u)
      BY <1>2, <1>6, <2>1 DEF Filled
  <2>3. /\ Append(old, u) \in Seq(UsedUnits) /\ Len(Append(old, u)) = n+1
        /\ \A i \in 1 .. n+1 : Append(old, u)[i] = IF i = n+1 THEN u ELSE old[i]
      BY <1>1, <1>2, <1>5, <2>1
  <2>4. \A i \in 1 .. n+1 : UsedIn(ga[i].members) = IF i = n+1 THEN u ELSE old[i]
    <3> TAKE i \in 1 .. n+1
    <3>1. CASE i = n+1
        BY <1>u, <3>1
    <3>2. CASE i # n+1
      <4>1. i \in 1 .. n
          BY <1>1, <3>2
      <4> QED
          BY <1>1, <1>3, <2>1, <3>2, <4>1
    <3> QED
        BY <3>1, <3>2
  <2>a. UsedOf(ga) \in Seq(UsedUnits) /\ Len(UsedOf(ga)) = n+1
      BY <1>1, <2>1, UsedOfType DEF M
  <2>b. \A i \in 1 .. n+1 : UsedOf(ga)[i] = Append(old, u)[i]
      BY <1>4, <2>1, <2>3, <2>4
  <2>5. UsedOf(ga) = Append(old, u)
      BY <2>3, <2>a, <2>b, SeqEqual
  <2> QED
      BY <2>2, <2>5 DEF ga, old, M, u
<1>7. CASE ~(n < M)
  <2>1. Room(n, M) = M /\ Room(n+1, M) = M
      BY <1>1, <1>7 DEF Room
  <2>2. Filled(old, M, u) = old
      BY <1>1, <1>2, <2>1 DEF Filled
  <2>3. \A i \in 1 .. M : ga[i] = g[i]
      BY <1>1, <1>7
  <2>4. UsedOf(ga) = old
      BY <1>3, <1>4, <2>1, <2>3
  <2> QED
      BY <2>2, <2>4 DEF ga, old, M, u
<1> QED
    BY <1>6, <1>7

-----------------------------------------------------------------------------
(* Services *)

\* Services of a request.
Services == [unServiceId : Int, unRatingGroup : Int, oReqServiceUnit : Units,
             oUsedServiceUnit : Seq(UsedUnits)]

\* What the members of a service say.
ServiceIn(avps) ==
    [unServiceId |-> LastNumber(avps, "SERVICE_IDENTIFIER", 0),
     unRatingGroup |-> LastNumber(avps, "RATING_GROUP", 0),
     oReqServiceUnit |-> UnitsIn(Within(avps, "REQUESTED_SERVICE_UNIT")),
     oUsedServiceUnit |-> UsedOf(Having(avps, "USED_SERVICE_UNIT"))]

\* Cleared units are units.
LEMMA FreshUnits == ReqServiceUnit \in Units
BY DEF ReqServiceUnit, Units, CCMoney, Moneys, UnitValue, UnitValues

\* Requested units are read.
LEMMA UnitsInType ==
    ASSUME NEW A, AreAVPs(A), NEW s \in Seq(A)
    PROVE  UnitsIn(s) \in Units
BY FreshUnits, UnitsFromType, UnitsInIsFrom

\* A repeated Requested-Service-Unit is merged into the first.
LEMMA UnitsInConcat ==
    ASSUME NEW A, AreAVPs(A), NEW s \in Seq(A), NEW a \in A
    PROVE  UnitsIn(s \o a.members) = OCF_ExtractReqServiceUnit(a, UnitsIn(s))
<1> DEFINE t == a.members
           u == UnitsIn(s)
<1>1. t \in Seq(A) /\ u \in Units
    BY MembersAreAVPs, UnitsInType
<1>2. UnitsIn(s \o t) = UnitsFrom(s \o t, ReqServiceUnit)
    BY UnitsInIsFrom
<1>3. UnitsIn(s) = UnitsFrom(s, ReqServiceUnit)
    BY UnitsInIsFrom
<1>4. OCF_ExtractReqServiceUnit(a, u) = UnitsFrom(t, u)
    BY <1>1, UnitsExtracted
<1> HIDE DEF t, u
<1>5. UnitsFrom(s \o t, ReqServiceUnit) = UnitsFrom(t, UnitsFrom(s, ReqServiceUnit))
    BY <1>1, UnitsFromConcat
<1> QED
    BY <1>2, <1>3, <1>4, <1>5 DEF t, u

\* A service is read.
LEMMA ServiceInType ==
    ASSUME NEW A, AreAVPs(A), NEW s \in Seq(A)
    PROVE  ServiceIn(s) \in Services
<1>1. \A code : LastNumber(s, code, 0) \in Int
    BY MembersAreAVPs, NumberType
<1>2. Within(s, "REQUESTED_SERVICE_UNIT") \in Seq(A) /\ Having(s, "USED_SERVICE_UNIT") \in Seq(A)
    BY MembersAreAVPs, WithinType, HavingType
<1>3. UnitsIn(Within(s, "REQUESTED_SERVICE_UNIT")) \in Units
    BY <1>2, UnitsInType
<1>4. UsedOf(Having(s, "USED_SERVICE_UNIT")) \in Seq(UsedUnits)
    BY <1>2, UsedOfType
<1> QED
    BY <1>1, <1>3, <1>4 DEF ServiceIn, Services

\* What one AVP but a group changes in a service.
LEMMA StoredServiceNumber ==
    ASSUME NEW v \in Services, NEW a, a.number \in Int
    PROVE  /\ Stored(ServiceNumbers, v, a) \in Services
           /\ Stored(ServiceNumbers, v, a).unServiceId =
                  IF a.code = "SERVICE_IDENTIFIER" THEN a.number ELSE v.unServiceId
           /\ Stored(ServiceNumbers, v, a).unRatingGroup =
                  IF a.code = "RATING_GROUP" THEN a.number ELSE v.unRatingGroup
           /\ Stored(ServiceNumbers, v, a).oReqServiceUnit = v.oReqServiceUnit
           /\ Stored(ServiceNumbers, v, a).oUsedServiceUnit = v.oUsedServiceUnit
<1>1. CASE a.code = "SERVICE_IDENTIFIER"
    BY <1>1 DEF Stored, ServiceNumbers, Services
<1>2. CASE a.code = "RATING_GROUP"
    BY <1>2 DEF Stored, ServiceNumbers, Services
<1>3. CASE a.code \notin {"SERVICE_IDENTIFIER", "RATING_GROUP"}
    BY <1>3 DEF Stored, ServiceNumbers, Services
<1> QED
    BY <1>1, <1>2, <1>3

\* An array takes elements of its type.
LEMMA FilledType ==
    ASSUME NEW S, NEW array \in Seq(S), NEW size, NEW e \in S
    PROVE  Filled(array, size, e) \in Seq(S)
BY DEF Filled

\* One AVP of a service more.
LEMMA ServiceInAppend ==
    ASSUME NEW A, AreAVPs(A), NEW s \in Seq(A), NEW a \in A
    PROVE  ServiceIn(Append(s, a)) = StoredService(ServiceIn(s), a)
<1> DEFINE sa == Append(s, a)
           w == Within(s, "REQUESTED_SERVICE_UNIT")
           g == Having(s, "USED_SERVICE_UNIT")
           old == ServiceIn(s)
           new == ServiceIn(sa)
<1>1. /\ sa \in Seq(A) /\ w \in Seq(A) /\ g \in Seq(A)
      /\ a.members \in Seq(A) /\ a.number \in Int
    BY MembersAreAVPs, WithinType, HavingType
<1>2. old \in Services /\ new \in Services
    BY <1>1, ServiceInType
<1>3. /\ old.oReqServiceUnit = UnitsIn(w)
      /\ old.oUsedServiceUnit = UsedOf(g)
      /\ new.oReqServiceUnit = UnitsIn(Within(sa, "REQUESTED_SERVICE_UNIT"))
      /\ new.oUsedServiceUnit = UsedOf(Having(sa, "USED_SERVICE_UNIT"))
    BY DEF ServiceIn
<1>4. Within(sa, "REQUESTED_SERVICE_UNIT") =
          IF a.code = "REQUESTED_SERVICE_UNIT" THEN w \o a.members ELSE w
    BY MembersAreAVPs, WithinAppend
<1>5. Having(sa, "USED_SERVICE_UNIT") =
          IF a.code = "USED_SERVICE_UNIT" THEN Append(g, a) ELSE g
    BY HavingAppend
<1>6. /\ new.unServiceId = IF a.code = "SERVICE_IDENTIFIER" THEN a.number ELSE old.unServiceId
      /\ new.unRatingGroup = IF a.code = "RATING_GROUP" THEN a.number ELSE old.unRatingGroup
    BY LastAppend DEF ServiceIn
<1> HIDE DEF sa, w, g, old, new
<1>7. new.oReqServiceUnit =
          IF a.code = "REQUESTED_SERVICE_UNIT"
          THEN OCF_ExtractReqServiceUnit(a, old.oReqServiceUnit) ELSE old.oReqServiceUnit
  <2>1. UnitsIn(w \o a.members) = OCF_ExtractReqServiceUnit(a, UnitsIn(w))
      BY <1>1, UnitsInConcat
  <2> QED
      BY <1>3, <1>4, <2>1
<1>8. new.oUsedServiceUnit =
          IF a.code = "USED_SERVICE_UNIT"
          THEN Filled(old.oUsedServiceUnit, OCS_MAX_USED_SERVICE_UNIT,
                      OCF_ExtractUsedServiceUnit(a, UsedServiceUnit))
          ELSE old.oUsedServiceUnit
  <2>1. UsedOf(Append(g, a)) = Filled(UsedOf(g), OCS_MAX_USED_SERVICE_UNIT, UsedIn(a.members))
      BY <1>1, UsedOfAppend
  <2>2. OCF_ExtractUsedServiceUnit(a, UsedServiceUnit) = UsedIn(a.members)
      BY UsedExtracted
  <2> QED
      BY <1>3, <1>5, <2>1, <2>2
<1>9. new = StoredService(old, a)
  <2>1. CASE a.code = "REQUESTED_SERVICE_UNIT"
    <3> DEFINE x == OCF_ExtractReqServiceUnit(a, old.oReqServiceUnit)
    <3>1. /\ new.oReqServiceUnit = x /\ new.oUsedServiceUnit = old.oUsedServiceUnit
          /\ new.unServiceId = old.unServiceId /\ new.unRatingGroup = old.unRatingGroup
        BY <1>6, <1>7, <1>8, <2>1
    <3>2. StoredService(old, a) = [old EXCEPT !.oReqServiceUnit = x]
        BY <1>2, <2>1 DEF StoredService
    <3> HIDE DEF x
    <3> QED
        BY <1>2, <3>1, <3>2 DEF Services
  <2>2. CASE a.code = "USED_SERVICE_UNIT"
    <3> DEFINE x == Filled(old.oUsedServiceUnit, OCS_MAX_USED_SERVICE_UNIT,
                      OCF_ExtractUsedServiceUnit(a, UsedServiceUnit))
    <3>1. /\ new.oReqServiceUnit = old.oReqServiceUnit /\ new.oUsedServiceUnit = x
          /\ new.unServiceId = old.unServiceId /\ new.unRatingGroup = old.unRatingGroup
        BY <1>6, <1>7, <1>8, <2>2
    <3>2. StoredService(old, a) = [old EXCEPT !.oUsedServiceUnit = x]
        BY <1>2, <2>2 DEF StoredService
    <3> HIDE DEF x
    <3> QED
        BY <1>2, <3>1, <3>2 DEF Services
  <2>3. CASE a.code \notin {"REQUESTED_SERVICE_UNIT", "USED_SERVICE_UNIT"}
    <3> DEFINE z == Stored(ServiceNumbers, old, a)
    <3>1. StoredService(old, a) = z
        BY <2>3 DEF StoredService
    <3>2. /\ z \in Services
          /\ z.oReqServiceUnit = old.oReqServiceUnit /\ z.oUsedServiceUnit = old.oUsedServiceUnit
          /\ z.unServiceId = new.unServiceId /\ z.unRatingGroup = new.unRatingGroup
        BY <1>1, <1>2, <1>6, StoredServiceNumber
    <3>3. new.oReqServiceUnit = old.oReqServiceUnit /\ new.oUsedServiceUnit = old.oUsedServiceUnit
        BY <1>7, <1>8, <2>3
    <3> HIDE DEF z
    <3> QED
        BY <1>2, <3>1, <3>2, <3>3 DEF Services
  <2> QED
      BY <2>1, <2>2, <2>3
<1> QED
    BY <1>9 DEF old, new, sa

\* An AVP leaves a service.
LEMMA StoredServiceType ==
    ASSUME NEW A, AreAVPs(A), NEW a \in A, NEW v \in Services
    PROVE  StoredService(v, a) \in Services
<1>1. CASE a.code = "REQUESTED_SERVICE_UNIT"
  <2>1. v.oReqServiceUnit \in Units /\ a.members \in Seq(A)
      BY MembersAreAVPs DEF Services
  <2>2. OCF_ExtractReqServiceUnit(a, v.oReqServiceUnit) \in Units
      BY <2>1, UnitsExtracted, UnitsFromType
  <2> QED
      BY <1>1, <2>2 DEF StoredService, Services
<1>2. CASE a.code = "USED_SERVICE_UNIT"
  <2> DEFINE x == OCF_ExtractUsedServiceUnit(a, UsedServiceUnit)
             y == Filled(v.oUsedServiceUnit, OCS_MAX_USED_SERVICE_UNIT, x)
  <2>1. v.oUsedServiceUnit \in Seq(UsedUnits) /\ a.members \in Seq(A)
      BY MembersAreAVPs DEF Services
  <2>2. x \in UsedUnits
      BY <2>1, UsedExtracted, UsedInType
  <2> HIDE DEF x
  <2>3. y \in Seq(UsedUnits)
      BY <2>1, <2>2, FilledType
  <2>4. StoredService(v, a) = [v EXCEPT !.oUsedServiceUnit = y]
      BY <1>2 DEF StoredService, Services, x
  <2> HIDE DEF y
  <2> QED
      BY <2>3, <2>4 DEF Services
<1>3. CASE a.code \notin {"REQUESTED_SERVICE_UNIT", "USED_SERVICE_UNIT"}
  <2>1. StoredService(v, a) = Stored(ServiceNumbers, v, a)
      BY <1>3 DEF StoredService
  <2> QED
      BY <2>1, MembersAreAVPs, StoredServiceNumber
<1> QED
    BY <1>1, <1>2, <1>3

\* A service without members is cleared.
LEMMA ServiceInEmpty == ServiceIn(<<>>) = RequestedService
<1>1. UnitsIn(<<>>) = ReqServiceUnit
    BY FreshUnits, UnitsInIsFrom, UnitsFromEmpty
<1>2. UsedOf(<<>>) = <<>>
  <2>1. Room(0, OCS_MAX_USED_SERVICE_UNIT) = 0
      BY DefinesAssumption DEF Room
  <2> QED
      BY <2>1 DEF UsedOf
<1> QED
    BY <1>1, <1>2, LastEmpty, ReadingEmpty DEF ServiceIn, RequestedService

\* OCF_ExtractMultiServiceCC stores what the service says.
LEMMA ServiceExtracted ==
    ASSUME NEW A, AreAVPs(A), NEW avp \in A
    PROVE  OCF_ExtractMultiServiceCC(avp, RequestedService) = ServiceIn(avp.members)
<1> DEFINE s == avp.members
           n == Len(s)
           v == RequestedService
<1>1. s \in Seq(A) /\ n \in Nat
    BY MembersAreAVPs
<1>v. v \in Services
    BY FreshUnits DEF RequestedService, Services
<1>2. ServiceStays(Services, A)
    BY StoredServiceType DEF ServiceStays
<1> HIDE DEF v
<1>3. PICK h : ServiceSteps(h, v, avp)
    BY <1>1, <1>v, <1>2, ServiceFold
<1> HIDE DEF s
<1> DEFINE K == {k \in 0 .. n : h[k] = ServiceIn(Begin(s, k))}
<1>4. /\ h[0] = v
      /\ \A k \in 1 .. n : h[k] = StoredService(h[k-1], s[k])
      /\ OCF_ExtractMultiServiceCC(avp, v) = h[n]
    BY <1>3 DEF ServiceSteps, s
<1> HIDE DEF n
<1>5. 0 \in K
    BY <1>1, <1>4, BeginSteps, ServiceInEmpty DEF v
<1>6. ASSUME NEW k \in 1 .. n, k-1 \in K PROVE k \in K
  <2>1. /\ Begin(s, k-1) \in Seq(A) /\ s[k] \in A
        /\ Begin(s, k) = Append(Begin(s, k-1), s[k])
      BY <1>1, BeginSteps DEF n
  <2>2. ServiceIn(Begin(s, k)) = StoredService(ServiceIn(Begin(s, k-1)), s[k])
      BY <2>1, ServiceInAppend
  <2>3. k \in 0 .. n
      BY <1>1
  <2> QED
      BY <1>4, <1>6, <2>2, <2>3
<1>7. 0 .. n \subseteq K
  <2> HIDE DEF K
  <2> QED
      BY <1>1, <1>5, <1>6, UpTo
<1>8. n \in 0 .. n /\ Begin(s, n) = s
    BY <1>1, BeginSteps DEF n
<1> QED
    BY <1>4, <1>7, <1>8 DEF s, v

-----------------------------------------------------------------------------
(* Requests *)

\* Requests.
CCRs == [oSessionId : Seq(STRING), oServiceContextId : Seq(STRING), oUserName : Seq(STRING),
         oCCRequestType : Int, unCCRequestNum : Int, ullCCSubSessionId : Int,
         unServiceId : Int, unTerminationCause : Int, unRequestedAction : Int,
         unMultiServiceIndicator : Int, oReqServiceUnit : Units,
         oMultiServicesCC : Seq(Services)]

\* The services that are kept of these groups.
ServicesOf(groups) ==
    [i \in 1 .. Room(Len(groups), OCS_MAX_MULTI_SERVICE_CC) |-> ServiceIn(groups[i].members)]

\* What a Credit-Control-Request says.
CCRIn(avps) ==
    [oSessionId |-> Fitting(LastText(avps, "SESSION_ID")),
     oServiceContextId |-> Fitting(LastText(avps, "SERVICE_CONTEXT_ID")),
     oUserName |-> Fitting(LastText(avps, "USER_NAME")),
     oCCRequestType |-> LastNumber(avps, "CC_REQUEST_TYPE", 0),
     unCCRequestNum |-> LastNumber(avps, "CC_REQUEST_NUMBER", 0),
     ullCCSubSessionId |-> LastNumber(avps, "SUB_SESSION_ID", OCS_UNSUED_VALUE),
     unServiceId |-> LastNumber(avps, "SERVICE_IDENTIFIER", OCS_UNSUED_VALUE),
     unTerminationCause |-> Unsigned(LastNumber(avps, "TERMINATION_CAUSE", -1)),
     unRequestedAction |-> Unsigned(LastNumber(avps, "REQUESTED_ACTION", 0)),
     unMultiServiceIndicator |-> Unsigned(LastNumber(avps, "MULTIPLE_SERVICES_INDICATOR", 0)),
     oReqServiceUnit |-> UnitsIn(Within(avps, "REQUESTED_SERVICE_UNIT")),
     oMultiServicesCC |-> ServicesOf(Having(avps, "MULTIPLE_SERVICES_CREDIT_CONTROL"))]

\* The array of services is as long as there is room.
LEMMA ServicesOfType ==
    ASSUME NEW A, AreAVPs(A), NEW g \in Seq(A)
    PROVE  /\ ServicesOf(g) \in Seq(Services)
           /\ Len(ServicesOf(g)) = Room(Len(g), OCS_MAX_MULTI_SERVICE_CC)
<1> DEFINE m == Room(Len(g), OCS_MAX_MULTI_SERVICE_CC)
<1>1. m \in Nat /\ m <= Len(g)
    BY DefinesAssumption DEF Room
<1>2. \A i \in 1 .. m : ServiceIn(g[i].members) \in Services
  <2> TAKE i \in 1 .. m
  <2>1. i \in 1 .. Len(g)
      BY <1>1
  <2>2. g[i].members \in Seq(A)
      BY <2>1, MembersAreAVPs
  <2> QED
      BY <2>2, ServiceInType
<1>3. ServicesOf(g) = [i \in 1 .. m |-> ServiceIn(g[i].members)]
    BY DEF ServicesOf
<1> HIDE DEF m
<1>4. ServicesOf(g) \in Seq(Services) /\ Len(ServicesOf(g)) = m
    BY <1>1, <1>2, <1>3
<1> QED
    BY <1>4 DEF m

\* One service more is kept, if there is room.
LEMMA ServicesOfAppend ==
    ASSUME NEW A, AreAVPs(A), NEW g \in Seq(A), NEW a \in A
    PROVE  ServicesOf(Append(g, a)) =
               Filled(ServicesOf(g), OCS_MAX_MULTI_SERVICE_CC, ServiceIn(a.members))
<1> DEFINE M == OCS_MAX_MULTI_SERVICE_CC
           ga == Append(g, a)
           u == ServiceIn(a.members)
           old == ServicesOf(g)
           n == Len(g)
<1>1. /\ n \in Nat /\ M \in Nat /\ ga \in Seq(A) /\ Len(ga) = n+1
      /\ ga[n+1] = a /\ \A i \in 1 .. n : ga[i] = g[i]
    BY DefinesAssumption
<1>2. old \in Seq(Services) /\ Len(old) = Room(n, M)
    BY ServicesOfType
<1>3. old = [i \in 1 .. Room(n, M) |-> ServiceIn(g[i].members)]
    BY DEF ServicesOf
<1>4. ServicesOf(ga) = [i \in 1 .. Room(n+1, M) |-> ServiceIn(ga[i].members)]
    BY <1>1 DEF ServicesOf
<1>5. u \in Services
  <2>1. a.members \in Seq(A)
      BY MembersAreAVPs
  <2> QED
      BY <2>1, ServiceInType
<1>u. ServiceIn(ga[n+1].members) = u
    BY <1>1
<1> HIDE DEF ga, old, n, M, u
<1>6. CASE n < M
  <2>1. Room(n, M) = n /\ Room(n+1, M) = n+1
      BY <1>1, <1>6 DEF Room
  <2>2. Filled(old, M, u) = Append(old, u)
      BY <1>2, <1>6, <2>1 DEF Filled
  <2>3. /\ Append(old, u) \in Seq(Services) /\ Len(Append(old, u)) = n+1
        /\ \A i \in 1 .. n+1 : Append(old, u)[i] = IF i = n+1 THEN u ELSE old[i]
      BY <1>1, <1>2, <1>5, <2>1
  <2>4. \A i \in 1 .. n+1 : ServiceIn(ga[i].members) = IF i = n+1 THEN u ELSE old[i]
    <3> TAKE i \in 1 .. n+1
    <3>1. CASE i = n+1
        BY <1>u, <3>1
    <3>2. CASE i # n+1
      <4>1. i \in 1 .. n
          BY <1>1, <3>2
      <4> QED
          BY <1>1, <1>3, <2>1, <3>2, <4>1
    <3> QED
        BY <3>1, <3>2
  <2>5. ServicesOf(ga) \in Seq(Services) /\ Len(ServicesOf(ga)) = n+1
      BY <1>1, <2>1, ServicesOfType DEF M
  <2>6. \A i \in 1 .. n+1 : ServicesOf(ga)[i] = Append(old, u)[i]
      BY <1>4, <2>1, <2>3, <2>4
  <2>7. ServicesOf(ga) = Append(old, u)
      BY <2>3, <2>5, <2>6, SeqEqual
  <2> QED
      BY <2>2, <2>7 DEF ga, old, M, u
<1>7. CASE ~(n < M)
  <2>1. Room(n, M) = M /\ Room(n+1, M) = M
      BY <1>1, <1>7 DEF Room
  <2>2. Filled(old, M, u) = old
      BY <1>1, <1>2, <2>1 DEF Filled
  <2>3. \A i \in 1 .. M : ga[i] = g[i]
      BY <1>1, <1>7
  <2>4. ServicesOf(ga) = old
      BY <1>3, <1>4, <2>1, <2>3
  <2> QED
      BY <2>2, <2>4 DEF ga, old, M, u
<1> QED
    BY <1>6, <1>7

\* Unsigned values, and the one that marks an absent AVP.
LEMMA UnsignedType ==
    /\ \A n \in Int : Unsigned(n) \in 0 .. MaxUnsigned
    /\ Unsigned(0) = 0
    /\ OCS_UNSUED_VALUE = MaxUnsigned
    /\ \A n \in 0 .. MaxUnsigned : Unsigned(n) = n
BY DefinesAssumption DEF Unsigned, OCS_UNSUED_VALUE

\* A copied string is a string.
LEMMA CopyType ==
    ASSUME NEW s \in Seq(STRING)
    PROVE  /\ Fitting(s) \in Seq(STRING)
           /\ Fitting(<<>>) = <<>>
<1>1. Fitting(<<>>) = <<>>
    BY DefinesAssumption DEF Fitting
<1>2. CASE Len(s) < OCS_MAX_FIXED_LEN_UTF8STRING_SIZE
    BY <1>1, <1>2 DEF Fitting
<1>3. CASE ~(Len(s) < OCS_MAX_FIXED_LEN_UTF8STRING_SIZE)
  <2> DEFINE m == OCS_MAX_FIXED_LEN_UTF8STRING_SIZE - 1
  <2>1. m \in Nat /\ m <= Len(s)
      BY <1>3, DefinesAssumption
  <2> HIDE DEF m
  <2>2. \A i \in 1 .. m : s[i] \in STRING
      BY <2>1
  <2>3. SubSeq(s, 1, m) \in Seq(STRING)
      BY <2>1, <2>2
  <2> QED
      BY <1>1, <1>3, <2>3 DEF Fitting, m
<1> QED
    BY <1>2, <1>3

\* A text is read.
LEMMA TextType ==
    ASSUME NEW A, AreAVPs(A), NEW s \in Seq(A), NEW code
    PROVE  LastText(s, code) \in Seq(STRING)
<1> DEFINE h == TextsOf(s, code)
<1>1. h \in Seq(Seq(STRING))
  <2>1. Writings(A, Seq(STRING))
      BY DEF AreAVPs, Writings
  <2> QED
      BY <2>1, TextsType
<1>2. CASE h = <<>>
    BY <1>2 DEF LastText
<1>3. CASE h # <<>>
  <2> HIDE DEF h
  <2>1. Last(h) \in Seq(STRING)
      BY <1>1, <1>3 DEF Last
  <2> QED
      BY <1>3, <2>1 DEF LastText, h
<1> QED
    BY <1>2, <1>3

\* A request is read.
LEMMA CCRInType ==
    ASSUME NEW A, AreAVPs(A), NEW s \in Seq(A)
    PROVE  CCRIn(s) \in CCRs
<1>1. \A code : \A d \in Int : LastNumber(s, code, d) \in Int
    BY MembersAreAVPs, NumberType
<1>2. \A code : Fitting(LastText(s, code)) \in Seq(STRING)
    BY TextType, CopyType
<1>3. /\ Within(s, "REQUESTED_SERVICE_UNIT") \in Seq(A)
      /\ Having(s, "MULTIPLE_SERVICES_CREDIT_CONTROL") \in Seq(A)
    BY MembersAreAVPs, WithinType, HavingType
<1>4. UnitsIn(Within(s, "REQUESTED_SERVICE_UNIT")) \in Units
    BY <1>3, UnitsInType
<1>5. ServicesOf(Having(s, "MULTIPLE_SERVICES_CREDIT_CONTROL")) \in Seq(Services)
    BY <1>3, ServicesOfType
<1>6. OCS_UNSUED_VALUE \in Int /\ -1 \in Int /\ 0 \in Int
    BY UnsignedType, DefinesAssumption
<1>7. \A code : \A d \in Int : Unsigned(LastNumber(s, code, d)) \in Int
    BY <1>1, UnsignedType
<1> QED
    BY <1>1, <1>2, <1>4, <1>5, <1>6, <1>7 DEF CCRIn, CCRs

\* The services with that of one more AVP, if there is room.
WithService(services, a) ==
    Filled(services, OCS_MAX_MULTI_SERVICE_CC, OCF_ExtractMultiServiceCC(a, RequestedService))

\* The fields the AVPs of a request are stored in.
LEMMA Tables ==
    /\ DOMAIN Numbers = {"CC_REQUEST_TYPE", "CC_REQUEST_NUMBER",
                         "SUB_SESSION_ID", "SERVICE_IDENTIFIER"}
    /\ Numbers["CC_REQUEST_TYPE"] = "oCCRequestType"
    /\ Numbers["CC_REQUEST_NUMBER"] = "unCCRequestNum"
    /\ Numbers["SUB_SESSION_ID"] = "ullCCSubSessionId"
    /\ Numbers["SERVICE_IDENTIFIER"] = "unServiceId"
    /\ DOMAIN Enumerations = {"TERMINATION_CAUSE", "REQUESTED_ACTION",
                              "MULTIPLE_SERVICES_INDICATOR"}
    /\ Enumerations["TERMINATION_CAUSE"] = "unTerminationCause"
    /\ Enumerations["REQUESTED_ACTION"] = "unRequestedAction"
    /\ Enumerations["MULTIPLE_SERVICES_INDICATOR"] = "unMultiServiceIndicator"
    /\ DOMAIN Texts = {"SESSION_ID", "SERVICE_CONTEXT_ID", "USER_NAME"}
    /\ Texts["SESSION_ID"] = "oSessionId"
    /\ Texts["SERVICE_CONTEXT_ID"] = "oServiceContextId"
    /\ Texts["USER_NAME"] = "oUserName"
BY DEF Numbers, Enumerations, Texts

\* What one AVP of the request changes.
LEMMA AttributeStored ==
    ASSUME NEW A, AreAVPs(A), NEW c \in CCRs, NEW a \in A
    PROVE  /\ StoredAttribute(c, a) \in CCRs
           /\ StoredAttribute(c, a).oSessionId =
                  IF a.code = "SESSION_ID"
                  THEN OCS_CopyDiamUTF8String(c.oSessionId, a.text) ELSE c.oSessionId
           /\ StoredAttribute(c, a).oServiceContextId =
                  IF a.code = "SERVICE_CONTEXT_ID"
                  THEN OCS_CopyDiamUTF8String(c.oServiceContextId, a.text) ELSE c.oServiceContextId
           /\ StoredAttribute(c, a).oUserName =
                  IF a.code = "USER_NAME"
                  THEN OCS_CopyDiamUTF8String(c.oUserName, a.text) ELSE c.oUserName
           /\ StoredAttribute(c, a).oCCRequestType =
                  IF a.code = "CC_REQUEST_TYPE" THEN a.number ELSE c.oCCRequestType
           /\ StoredAttribute(c, a).unCCRequestNum =
                  IF a.code = "CC_REQUEST_NUMBER" THEN a.number ELSE c.unCCRequestNum
           /\ StoredAttribute(c, a).ullCCSubSessionId =
                  IF a.code = "SUB_SESSION_ID" THEN a.number ELSE c.ullCCSubSessionId
           /\ StoredAttribute(c, a).unServiceId =
                  IF a.code = "SERVICE_IDENTIFIER" THEN a.number ELSE c.unServiceId
           /\ StoredAttribute(c, a).unTerminationCause =
                  IF a.code = "TERMINATION_CAUSE" THEN Unsigned(a.number) ELSE c.unTerminationCause
           /\ StoredAttribute(c, a).unRequestedAction =
                  IF a.code = "REQUESTED_ACTION" THEN Unsigned(a.number) ELSE c.unRequestedAction
           /\ StoredAttribute(c, a).unMultiServiceIndicator =
                  IF a.code = "MULTIPLE_SERVICES_INDICATOR" THEN Unsigned(a.number) ELSE c.unMultiServiceIndicator
           /\ StoredAttribute(c, a).oReqServiceUnit =
                  IF a.code = "REQUESTED_SERVICE_UNIT" THEN OCF_ExtractReqServiceUnit(a, c.oReqServiceUnit) ELSE c.oReqServiceUnit
           /\ StoredAttribute(c, a).oMultiServicesCC =
                  IF a.code = "MULTIPLE_SERVICES_CREDIT_CONTROL" THEN WithService(c.oMultiServicesCC, a) ELSE c.oMultiServicesCC
<1> DEFINE z == StoredAttribute(c, a)
<1>a. /\ a.number \in Int /\ a.text \in Seq(Seq(STRING)) /\ a.members \in Seq(A)
      /\ Unsigned(a.number) \in Int
    BY MembersAreAVPs, UnsignedType
<1>b. \A old \in Seq(STRING) : OCS_CopyDiamUTF8String(old, a.text) \in Seq(STRING)
  <2>1. a.text # <<>> => Fitting(a.text[1]) \in Seq(STRING)
    <3> SUFFICES ASSUME a.text # <<>> PROVE Fitting(a.text[1]) \in Seq(STRING)
        OBVIOUS
    <3>1. a.text[1] \in Seq(STRING)
        BY <1>a
    <3> QED
        BY <3>1, CopyType
  <2> QED
      BY <2>1 DEF OCS_CopyDiamUTF8String
<1>c. c.oReqServiceUnit \in Units /\ c.oMultiServicesCC \in Seq(Services)
    BY DEF CCRs
<1>d. OCF_ExtractReqServiceUnit(a, c.oReqServiceUnit) \in Units
    BY <1>a, <1>c, UnitsExtracted, UnitsFromType
<1>e. WithService(c.oMultiServicesCC, a) \in Seq(Services)
  <2> DEFINE v == OCF_ExtractMultiServiceCC(a, RequestedService)
  <2>1. v \in Services
      BY <1>a, ServiceExtracted, ServiceInType
  <2> HIDE DEF v
  <2>2. Filled(c.oMultiServicesCC, OCS_MAX_MULTI_SERVICE_CC, v) \in Seq(Services)
      BY <1>c, <2>1, FilledType
  <2> QED
      BY <2>2 DEF WithService, v
<1>f. "number" \in DOMAIN a /\ [a EXCEPT !.number = Unsigned(@)].code = a.code
                            /\ [a EXCEPT !.number = Unsigned(@)].number = Unsigned(a.number)
    BY DEF AreAVPs
<1>1. CASE a.code = "SESSION_ID"
  <2> DEFINE x == OCS_CopyDiamUTF8String(c.oSessionId, a.text)
  <2>1. z = [c EXCEPT !.oSessionId = x]
      BY <1>1, Tables DEF StoredAttribute
  <2>2. x \in Seq(STRING)
      BY <1>b DEF CCRs
  <2> HIDE DEF x, z
  <2>3. z \in CCRs /\ z.oSessionId = x
      BY <2>1, <2>2 DEF CCRs
  <2>4. /\ z.oServiceContextId = c.oServiceContextId /\ z.oUserName = c.oUserName
        /\ z.oCCRequestType = c.oCCRequestType /\ z.unCCRequestNum = c.unCCRequestNum
        /\ z.ullCCSubSessionId = c.ullCCSubSessionId /\ z.unServiceId = c.unServiceId
        /\ z.unTerminationCause = c.unTerminationCause /\ z.unRequestedAction = c.unRequestedAction
        /\ z.unMultiServiceIndicator = c.unMultiServiceIndicator /\ z.oReqServiceUnit = c.oReqServiceUnit
        /\ z.oMultiServicesCC = c.oMultiServicesCC
      BY <2>1 DEF CCRs
  <2> QED
      BY <1>1, <2>3, <2>4 DEF x, z
<1>2. CASE a.code = "SERVICE_CONTEXT_ID"
  <2> DEFINE x == OCS_CopyDiamUTF8String(c.oServiceContextId, a.text)
  <2>1. z = [c EXCEPT !.oServiceContextId = x]
      BY <1>2, Tables DEF StoredAttribute
  <2>2. x \in Seq(STRING)
      BY <1>b DEF CCRs
  <2> HIDE DEF x, z
  <2>3. z \in CCRs /\ z.oServiceContextId = x
      BY <2>1, <2>2 DEF CCRs
  <2>4. /\ z.oSessionId = c.oSessionId /\ z.oUserName = c.oUserName
        /\ z.oCCRequestType = c.oCCRequestType /\ z.unCCRequestNum = c.unCCRequestNum
        /\ z.ullCCSubSessionId = c.ullCCSubSessionId /\ z.unServiceId = c.unServiceId
        /\ z.unTerminationCause = c.unTerminationCause /\ z.unRequestedAction = c.unRequestedAction
        /\ z.unMultiServiceIndicator = c.unMultiServiceIndicator /\ z.oReqServiceUnit = c.oReqServiceUnit
        /\ z.oMultiServicesCC = c.oMultiServicesCC
      BY <2>1 DEF CCRs
  <2> QED
      BY <1>2, <2>3, <2>4 DEF x, z
<1>3. CASE a.code = "USER_NAME"
  <2> DEFINE x == OCS_CopyDiamUTF8String(c.oUserName, a.text)
  <2>1. z = [c EXCEPT !.oUserName = x]
      BY <1>3, Tables DEF StoredAttribute
  <2>2. x \in Seq(STRING)
      BY <1>b DEF CCRs
  <2> HIDE DEF x, z
  <2>3. z \in CCRs /\ z.oUserName = x
      BY <2>1, <2>2 DEF CCRs
  <2>4. /\ z.oSessionId = c.oSessionId /\ z.oServiceContextId = c.oServiceContextId
        /\ z.oCCRequestType = c.oCCRequestType /\ z.unCCRequestNum = c.unCCRequestNum
        /\ z.ullCCSubSessionId = c.ullCCSubSessionId /\ z.unServiceId = c.unServiceId
        /\ z.unTerminationCause = c.unTerminationCause /\ z.unRequestedAction = c.unRequestedAction
        /\ z.unMultiServiceIndicator = c.unMultiServiceIndicator /\ z.oReqServiceUnit = c.oReqServiceUnit
        /\ z.oMultiServicesCC = c.oMultiServicesCC
      BY <2>1 DEF CCRs
  <2> QED
      BY <1>3, <2>3, <2>4 DEF x, z
<1>4. CASE a.code = "CC_REQUEST_TYPE"
  <2> DEFINE x == a.number
  <2>1. z = [c EXCEPT !.oCCRequestType = x]
      BY <1>4, Tables DEF StoredAttribute, Stored
  <2>2. x \in Int
      BY <1>a
  <2> HIDE DEF x, z
  <2>3. z \in CCRs /\ z.oCCRequestType = x
      BY <2>1, <2>2 DEF CCRs
  <2>4. /\ z.oSessionId = c.oSessionId /\ z.oServiceContextId = c.oServiceContextId
        /\ z.oUserName = c.oUserName /\ z.unCCRequestNum = c.unCCRequestNum
        /\ z.ullCCSubSessionId = c.ullCCSubSessionId /\ z.unServiceId = c.unServiceId
        /\ z.unTerminationCause = c.unTerminationCause /\ z.unRequestedAction = c.unRequestedAction
        /\ z.unMultiServiceIndicator = c.unMultiServiceIndicator /\ z.oReqServiceUnit = c.oReqServiceUnit
        /\ z.oMultiServicesCC = c.oMultiServicesCC
      BY <2>1 DEF CCRs
  <2> QED
      BY <1>4, <2>3, <2>4 DEF x, z
<1>5. CASE a.code = "CC_REQUEST_NUMBER"
  <2> DEFINE x == a.number
  <2>1. z = [c EXCEPT !.unCCRequestNum = x]
      BY <1>5, Tables DEF StoredAttribute, Stored
  <2>2. x \in Int
      BY <1>a
  <2> HIDE DEF x, z
  <2>3. z \in CCRs /\ z.unCCRequestNum = x
      BY <2>1, <2>2 DEF CCRs
  <2>4. /\ z.oSessionId = c.oSessionId /\ z.oServiceContextId = c.oServiceContextId
        /\ z.oUserName = c.oUserName /\ z.oCCRequestType = c.oCCRequestType
        /\ z.ullCCSubSessionId = c.ullCCSubSessionId /\ z.unServiceId = c.unServiceId
        /\ z.unTerminationCause = c.unTerminationCause /\ z.unRequestedAction = c.unRequestedAction
        /\ z.unMultiServiceIndicator = c.unMultiServiceIndicator /\ z.oReqServiceUnit = c.oReqServiceUnit
        /\ z.oMultiServicesCC = c.oMultiServicesCC
      BY <2>1 DEF CCRs
  <2> QED
      BY <1>5, <2>3, <2>4 DEF x, z
<1>6. CASE a.code = "SUB_SESSION_ID"
  <2> DEFINE x == a.number
  <2>1. z = [c EXCEPT !.ullCCSubSessionId = x]
      BY <1>6, Tables DEF StoredAttribute, Stored
  <2>2. x \in Int
      BY <1>a
  <2> HIDE DEF x, z
  <2>3. z \in CCRs /\ z.ullCCSubSessionId = x
      BY <2>1, <2>2 DEF CCRs
  <2>4. /\ z.oSessionId = c.oSessionId /\ z.oServiceContextId = c.oServiceContextId
        /\ z.oUserName = c.oUserName /\ z.oCCRequestType = c.oCCRequestType
        /\ z.unCCRequestNum = c.unCCRequestNum /\ z.unServiceId = c.unServiceId
        /\ z.unTerminationCause = c.unTerminationCause /\ z.unRequestedAction = c.unRequestedAction
        /\ z.unMultiServiceIndicator = c.unMultiServiceIndicator /\ z.oReqServiceUnit = c.oReqServiceUnit
        /\ z.oMultiServicesCC = c.oMultiServicesCC
      BY <2>1 DEF CCRs
  <2> QED
      BY <1>6, <2>3, <2>4 DEF x, z
<1>7. CASE a.code = "SERVICE_IDENTIFIER"
  <2> DEFINE x == a.number
  <2>1. z = [c EXCEPT !.unServiceId = x]
      BY <1>7, Tables DEF StoredAttribute, Stored
  <2>2. x \in Int
      BY <1>a
  <2> HIDE DEF x, z
  <2>3. z \in CCRs /\ z.unServiceId = x
      BY <2>1, <2>2 DEF CCRs
  <2>4. /\ z.oSessionId = c.oSessionId /\ z.oServiceContextId = c.oServiceContextId
        /\ z.oUserName = c.oUserName /\ z.oCCRequestType = c.oCCRequestType
        /\ z.unCCRequestNum = c.unCCRequestNum /\ z.ullCCSubSessionId = c.ullCCSubSessionId
        /\ z.unTerminationCause = c.unTerminationCause /\ z.unRequestedAction = c.unRequestedAction
        /\ z.unMultiServiceIndicator = c.unMultiServiceIndicator /\ z.oReqServiceUnit = c.oReqServiceUnit
        /\ z.oMultiServicesCC = c.oMultiServicesCC
      BY <2>1 DEF CCRs
  <2> QED
      BY <1>7, <2>3, <2>4 DEF x, z
<1>8. CASE a.code = "TERMINATION_CAUSE"
  <2> DEFINE x == Unsigned(a.number)
  <2>1. z = [c EXCEPT !.unTerminationCause = x]
      BY <1>8, <1>f, Tables DEF StoredAttribute, StoredUnsigned, Stored
  <2>2. x \in Int
      BY <1>a, <1>f
  <2> HIDE DEF x, z
  <2>3. z \in CCRs /\ z.unTerminationCause = x
      BY <2>1, <2>2 DEF CCRs
  <2>4. /\ z.oSessionId = c.oSessionId /\ z.oServiceContextId = c.oServiceContextId
        /\ z.oUserName = c.oUserName /\ z.oCCRequestType = c.oCCRequestType
        /\ z.unCCRequestNum = c.unCCRequestNum /\ z.ullCCSubSessionId = c.ullCCSubSessionId
        /\ z.unServiceId = c.unServiceId /\ z.unRequestedAction = c.unRequestedAction
        /\ z.unMultiServiceIndicator = c.unMultiServiceIndicator /\ z.oReqServiceUnit = c.oReqServiceUnit
        /\ z.oMultiServicesCC = c.oMultiServicesCC
      BY <2>1 DEF CCRs
  <2> QED
      BY <1>8, <2>3, <2>4 DEF x, z
<1>9. CASE a.code = "REQUESTED_ACTION"
  <2> DEFINE x == Unsigned(a.number)
  <2>1. z = [c EXCEPT !.unRequestedAction = x]
      BY <1>9, <1>f, Tables DEF StoredAttribute, StoredUnsigned, Stored
  <2>2. x \in Int
      BY <1>a, <1>f
  <2> HIDE DEF x, z
  <2>3. z \in CCRs /\ z.unRequestedAction = x
      BY <2>1, <2>2 DEF CCRs
  <2>4. /\ z.oSessionId = c.oSessionId /\ z.oServiceContextId = c.oServiceContextId
        /\ z.oUserName = c.oUserName /\ z.oCCRequestType = c.oCCRequestType
        /\ z.unCCRequestNum = c.unCCRequestNum /\ z.ullCCSubSessionId = c.ullCCSubSessionId
        /\ z.unServiceId = c.unServiceId /\ z.unTerminationCause = c.unTerminationCause
        /\ z.unMultiServiceIndicator = c.unMultiServiceIndicator /\ z.oReqServiceUnit = c.oReqServiceUnit
        /\ z.oMultiServicesCC = c.oMultiServicesCC
      BY <2>1 DEF CCRs
  <2> QED
      BY <1>9, <2>3, <2>4 DEF x, z
<1>10. CASE a.code = "MULTIPLE_SERVICES_INDICATOR"
  <2> DEFINE x == Unsigned(a.number)
  <2>1. z = [c EXCEPT !.unMultiServiceIndicator = x]
      BY <1>10, <1>f, Tables DEF StoredAttribute, StoredUnsigned, Stored
  <2>2. x \in Int
      BY <1>a, <1>f
  <2> HIDE DEF x, z
  <2>3. z \in CCRs /\ z.unMultiServiceIndicator = x
      BY <2>1, <2>2 DEF CCRs
  <2>4. /\ z.oSessionId = c.oSessionId /\ z.oServiceContextId = c.oServiceContextId
        /\ z.oUserName = c.oUserName /\ z.oCCRequestType = c.oCCRequestType
        /\ z.unCCRequestNum = c.unCCRequestNum /\ z.ullCCSubSessionId = c.ullCCSubSessionId
        /\ z.unServiceId = c.unServiceId /\ z.unTerminationCause = c.unTerminationCause
        /\ z.unRequestedAction = c.unRequestedAction /\ z.oReqServiceUnit = c.oReqServiceUnit
        /\ z.oMultiServicesCC = c.oMultiServicesCC
      BY <2>1 DEF CCRs
  <2> QED
      BY <1>10, <2>3, <2>4 DEF x, z
<1>11. CASE a.code = "REQUESTED_SERVICE_UNIT"
  <2> DEFINE x == OCF_ExtractReqServiceUnit(a, c.oReqServiceUnit)
  <2>1. z = [c EXCEPT !.oReqServiceUnit = x]
      BY <1>11, Tables DEF StoredAttribute
  <2>2. x \in Units
      BY <1>d
  <2> HIDE DEF x, z
  <2>3. z \in CCRs /\ z.oReqServiceUnit = x
      BY <2>1, <2>2 DEF CCRs
  <2>4. /\ z.oSessionId = c.oSessionId /\ z.oServiceContextId = c.oServiceContextId
        /\ z.oUserName = c.oUserName /\ z.oCCRequestType = c.oCCRequestType
        /\ z.unCCRequestNum = c.unCCRequestNum /\ z.ullCCSubSessionId = c.ullCCSubSessionId
        /\ z.unServiceId = c.unServiceId /\ z.unTerminationCause = c.unTerminationCause
        /\ z.unRequestedAction = c.unRequestedAction /\ z.unMultiServiceIndicator = c.unMultiServiceIndicator
        /\ z.oMultiServicesCC = c.oMultiServicesCC
      BY <2>1 DEF CCRs
  <2> QED
      BY <1>11, <2>3, <2>4 DEF x, z
<1>12. CASE a.code = "MULTIPLE_SERVICES_CREDIT_CONTROL"
  <2> DEFINE x == WithService(c.oMultiServicesCC, a)
  <2>1. z = [c EXCEPT !.oMultiServicesCC = x]
      BY <1>12, Tables DEF StoredAttribute, WithService
  <2>2. x \in Seq(Services)
      BY <1>e
  <2> HIDE DEF x, z
  <2>3. z \in CCRs /\ z.oMultiServicesCC = x
      BY <2>1, <2>2 DEF CCRs
  <2>4. /\ z.oSessionId = c.oSessionId /\ z.oServiceContextId = c.oServiceContextId
        /\ z.oUserName = c.oUserName /\ z.oCCRequestType = c.oCCRequestType
        /\ z.unCCRequestNum = c.unCCRequestNum /\ z.ullCCSubSessionId = c.ullCCSubSessionId
        /\ z.unServiceId = c.unServiceId /\ z.unTerminationCause = c.unTerminationCause
        /\ z.unRequestedAction = c.unRequestedAction /\ z.unMultiServiceIndicator = c.unMultiServiceIndicator
        /\ z.oReqServiceUnit = c.oReqServiceUnit
      BY <2>1 DEF CCRs
  <2> QED
      BY <1>12, <2>3, <2>4 DEF x, z
<1>13. CASE a.code \notin {"SESSION_ID", "SERVICE_CONTEXT_ID", "USER_NAME",
                          "CC_REQUEST_TYPE", "CC_REQUEST_NUMBER", "SUB_SESSION_ID",
                          "SERVICE_IDENTIFIER", "TERMINATION_CAUSE", "REQUESTED_ACTION",
                          "MULTIPLE_SERVICES_INDICATOR", "REQUESTED_SERVICE_UNIT", "MULTIPLE_SERVICES_CREDIT_CONTROL"}
  <2>1. z = c
      BY <1>13, Tables DEF StoredAttribute
  <2> QED
      BY <1>13, <2>1
<1> QED
    BY <1>1, <1>2, <1>3, <1>4, <1>5, <1>6, <1>7, <1>8, <1>9, <1>10, <1>11, <1>12, <1>13

\* Requests are the same when their fields are.
LEMMA CCREqual ==
    ASSUME NEW c \in CCRs, NEW d \in CCRs,
           c.oSessionId = d.oSessionId, c.oServiceContextId = d.oServiceContextId,
           c.oUserName = d.oUserName, c.oCCRequestType = d.oCCRequestType,
           c.unCCRequestNum = d.unCCRequestNum,
           c.ullCCSubSessionId = d.ullCCSubSessionId, c.unServiceId = d.unServiceId,
           c.unTerminationCause = d.unTerminationCause,
           c.unRequestedAction = d.unRequestedAction,
           c.unMultiServiceIndicator = d.unMultiServiceIndicator,
           c.oReqServiceUnit = d.oReqServiceUnit,
           c.oMultiServicesCC = d.oMultiServicesCC
    PROVE  c = d
<1> DEFINE D == {"oSessionId", "oServiceContextId", "oUserName", "oCCRequestType",
                 "unCCRequestNum", "ullCCSubSessionId", "unServiceId", "unTerminationCause",
                 "unRequestedAction", "unMultiServiceIndicator", "oReqServiceUnit",
                 "oMultiServicesCC"}
<1>1. DOMAIN c = D /\ DOMAIN d = D
    BY DEF CCRs
<1>2. \A f \in D : c[f] = d[f]
    OBVIOUS
<1>3. c = [f \in D |-> c[f]] /\ d = [f \in D |-> d[f]]
    BY <1>1 DEF CCRs
<1> HIDE DEF D
<1> QED
    BY <1>1, <1>2, <1>3

\* One AVP of a request more.
LEMMA CCRInAppend ==
    ASSUME NEW A, AreAVPs(A), NEW s \in Seq(A), NEW a \in A
    PROVE  CCRIn(Append(s, a)) = StoredAttribute(CCRIn(s), a)
<1> DEFINE sa == Append(s, a)
           w == Within(s, "REQUESTED_SERVICE_UNIT")
           g == Having(s, "MULTIPLE_SERVICES_CREDIT_CONTROL")
           old == CCRIn(s)
           new == CCRIn(sa)
           z == StoredAttribute(old, a)
<1>1. /\ sa \in Seq(A) /\ w \in Seq(A) /\ g \in Seq(A)
      /\ a.members \in Seq(A)
    BY MembersAreAVPs, WithinType, HavingType
<1>2. old \in CCRs /\ new \in CCRs
    BY <1>1, CCRInType
<1>3. /\ old.oReqServiceUnit = UnitsIn(w)
      /\ old.oMultiServicesCC = ServicesOf(g)
      /\ new.oReqServiceUnit = UnitsIn(Within(sa, "REQUESTED_SERVICE_UNIT"))
      /\ new.oMultiServicesCC = ServicesOf(Having(sa, "MULTIPLE_SERVICES_CREDIT_CONTROL"))
    BY DEF CCRIn
<1>4. Within(sa, "REQUESTED_SERVICE_UNIT") =
          IF a.code = "REQUESTED_SERVICE_UNIT" THEN w \o a.members ELSE w
    BY MembersAreAVPs, WithinAppend
<1>5. Having(sa, "MULTIPLE_SERVICES_CREDIT_CONTROL") =
          IF a.code = "MULTIPLE_SERVICES_CREDIT_CONTROL" THEN Append(g, a) ELSE g
    BY HavingAppend
<1>6. \A code, d : LastNumber(sa, code, d) =
                       IF a.code = code THEN a.number ELSE LastNumber(s, code, d)
    BY LastAppend
<1>7. \A code : LastText(sa, code) =
                    IF a.code = code /\ a.text # <<>> THEN a.text[1] ELSE LastText(s, code)
    BY LastTextAppend
<1> HIDE DEF sa, w, g
<1>8. /\ new.oCCRequestType =
             IF a.code = "CC_REQUEST_TYPE" THEN a.number ELSE old.oCCRequestType
      /\ new.unCCRequestNum =
             IF a.code = "CC_REQUEST_NUMBER" THEN a.number ELSE old.unCCRequestNum
      /\ new.ullCCSubSessionId =
             IF a.code = "SUB_SESSION_ID" THEN a.number ELSE old.ullCCSubSessionId
      /\ new.unServiceId =
             IF a.code = "SERVICE_IDENTIFIER" THEN a.number ELSE old.unServiceId
    BY <1>6 DEF CCRIn
<1>9. /\ new.unTerminationCause =
             IF a.code = "TERMINATION_CAUSE" THEN Unsigned(a.number) ELSE old.unTerminationCause
      /\ new.unRequestedAction =
             IF a.code = "REQUESTED_ACTION" THEN Unsigned(a.number) ELSE old.unRequestedAction
      /\ new.unMultiServiceIndicator =
             IF a.code = "MULTIPLE_SERVICES_INDICATOR"
             THEN Unsigned(a.number) ELSE old.unMultiServiceIndicator
    BY <1>6 DEF CCRIn
<1>10. /\ new.oSessionId =
              IF a.code = "SESSION_ID"
              THEN OCS_CopyDiamUTF8String(old.oSessionId, a.text) ELSE old.oSessionId
       /\ new.oServiceContextId =
              IF a.code = "SERVICE_CONTEXT_ID"
              THEN OCS_CopyDiamUTF8String(old.oServiceContextId, a.text)
              ELSE old.oServiceContextId
       /\ new.oUserName =
              IF a.code = "USER_NAME"
              THEN OCS_CopyDiamUTF8String(old.oUserName, a.text) ELSE old.oUserName
    BY <1>7 DEF CCRIn, OCS_CopyDiamUTF8String
<1> HIDE DEF old, new
<1>11. new.oReqServiceUnit =
           IF a.code = "REQUESTED_SERVICE_UNIT"
           THEN OCF_ExtractReqServiceUnit(a, old.oReqServiceUnit) ELSE old.oReqServiceUnit
  <2>1. UnitsIn(w \o a.members) = OCF_ExtractReqServiceUnit(a, UnitsIn(w))
      BY <1>1, UnitsInConcat
  <2> QED
      BY <1>3, <1>4, <2>1
<1>12. new.oMultiServicesCC =
           IF a.code = "MULTIPLE_SERVICES_CREDIT_CONTROL"
           THEN WithService(old.oMultiServicesCC, a) ELSE old.oMultiServicesCC
  <2>1. ServicesOf(Append(g, a)) =
            Filled(ServicesOf(g), OCS_MAX_MULTI_SERVICE_CC, ServiceIn(a.members))
      BY <1>1, ServicesOfAppend
  <2>2. OCF_ExtractMultiServiceCC(a, RequestedService) = ServiceIn(a.members)
      BY ServiceExtracted
  <2> QED
      BY <1>3, <1>5, <2>1, <2>2 DEF WithService
<1>13. /\ z \in CCRs
       /\ z.oSessionId = new.oSessionId /\ z.oServiceContextId = new.oServiceContextId
       /\ z.oUserName = new.oUserName /\ z.oCCRequestType = new.oCCRequestType
       /\ z.unCCRequestNum = new.unCCRequestNum
       /\ z.ullCCSubSessionId = new.ullCCSubSessionId /\ z.unServiceId = new.unServiceId
       /\ z.unTerminationCause = new.unTerminationCause
       /\ z.unRequestedAction = new.unRequestedAction
       /\ z.unMultiServiceIndicator = new.unMultiServiceIndicator
       /\ z.oReqServiceUnit = new.oReqServiceUnit
       /\ z.oMultiServicesCC = new.oMultiServicesCC
    BY <1>2, <1>8, <1>9, <1>10, <1>11, <1>12, AttributeStored
<1> HIDE DEF z
<1>14. new = z
    BY <1>2, <1>13, CCREqual
<1> QED
    BY <1>14 DEF new, z, old, sa

\* A request without AVPs is the fresh structure.
LEMMA CCRInEmpty == CCRIn(<<>>) = FreshCCR
<1>1. UnitsIn(<<>>) = ReqServiceUnit
    BY FreshUnits, UnitsInIsFrom, UnitsFromEmpty
<1>2. ServicesOf(<<>>) = <<>>
  <2>1. Room(0, OCS_MAX_MULTI_SERVICE_CC) = 0
      BY DefinesAssumption DEF Room
  <2> QED
      BY <2>1 DEF ServicesOf
<1>3. Fitting(<<>>) = <<>>
  <2>1. <<>> \in Seq(STRING)
      OBVIOUS
  <2> QED
      BY <2>1, CopyType
<1> DEFINE z == CCRIn(<<>>)
<1>4. z = [oSessionId |-> <<>>, oServiceContextId |-> <<>>, oUserName |-> <<>>,
           oCCRequestType |-> 0, unCCRequestNum |-> 0, ullCCSubSessionId |-> OCS_UNSUED_VALUE,
           unServiceId |-> OCS_UNSUED_VALUE, unTerminationCause |-> Unsigned(-1),
           unRequestedAction |-> Unsigned(0), unMultiServiceIndicator |-> Unsigned(0),
           oReqServiceUnit |-> ReqServiceUnit, oMultiServicesCC |-> <<>>]
    BY <1>1, <1>2, <1>3, LastEmpty, ReadingEmpty DEF CCRIn
<1>5. Unsigned(0) = 0 /\ Unsigned(-1) = OCS_UNSUED_VALUE
    BY UnsignedType DEF OCS_UNSUED_VALUE
<1> HIDE DEF z
<1>6. z \in CCRs
  <2>1. AreAVPs({}) /\ <<>> \in Seq({})
      BY DEF AreAVPs
  <2> QED
      BY <2>1, CCRInType DEF z
<1>7. CCR \in CCRs /\ FreshCCR \in CCRs
  <2>1. OCS_UNSUED_VALUE \in Int
      BY UnsignedType, DefinesAssumption
  <2>2. CCR \in CCRs
      BY FreshUnits DEF CCR, CCRs
  <2> QED
      BY <2>1, <2>2 DEF FreshCCR, CCRs
<1>8. /\ FreshCCR.unServiceId = OCS_UNSUED_VALUE
      /\ FreshCCR.unTerminationCause = OCS_UNSUED_VALUE
      /\ FreshCCR.ullCCSubSessionId = OCS_UNSUED_VALUE
    BY <1>7 DEF FreshCCR, CCRs
<1>9. /\ FreshCCR.oSessionId = CCR.oSessionId
      /\ FreshCCR.oServiceContextId = CCR.oServiceContextId
      /\ FreshCCR.oUserName = CCR.oUserName
      /\ FreshCCR.oCCRequestType = CCR.oCCRequestType
      /\ FreshCCR.unCCRequestNum = CCR.unCCRequestNum
      /\ FreshCCR.unRequestedAction = CCR.unRequestedAction
      /\ FreshCCR.unMultiServiceIndicator = CCR.unMultiServiceIndicator
      /\ FreshCCR.oReqServiceUnit = CCR.oReqServiceUnit
      /\ FreshCCR.oMultiServicesCC = CCR.oMultiServicesCC
    BY <1>7 DEF FreshCCR, CCRs
<1>10. /\ CCR.oSessionId = <<>> /\ CCR.oServiceContextId = <<>> /\ CCR.oUserName = <<>>
       /\ CCR.oCCRequestType = 0 /\ CCR.unCCRequestNum = 0 /\ CCR.unRequestedAction = 0
       /\ CCR.unMultiServiceIndicator = 0 /\ CCR.oReqServiceUnit = ReqServiceUnit
       /\ CCR.oMultiServicesCC = <<>>
    BY DEF CCR
<1>11. z = FreshCCR
    BY <1>4, <1>5, <1>6, <1>7, <1>8, <1>9, <1>10, CCREqual
<1> QED
    BY <1>11 DEF z

\* Whatever AVPs a request has, the extraction stores what the request says
\* (ocf_msgextractor.c:9-390).
THEOREM ExtractionReads ==
    ASSUME NEW A, AreAVPs(A), NEW avps \in Seq(A)
    PROVE  OCF_ExtractCCRAttributes(avps) = CCRIn(avps)
<1> DEFINE n == Len(avps)
           s == avps
<1>1. s \in Seq(A) /\ n \in Nat
    OBVIOUS
<1>2. AttributeStays(CCRs, A)
    BY AttributeStored DEF AttributeStays
<1>v. FreshCCR \in CCRs
  <2>1. <<>> \in Seq(A)
      OBVIOUS
  <2> QED
      BY <2>1, CCRInEmpty, CCRInType
<1>3. PICK h : AttributeSteps(h, s)
    BY <1>1, <1>v, <1>2, AttributeFold
<1> HIDE DEF s
<1> DEFINE K == {k \in 0 .. n : h[k] = CCRIn(Begin(s, k))}
<1>4. /\ h[0] = FreshCCR
      /\ \A k \in 1 .. n : h[k] = StoredAttribute(h[k-1], s[k])
      /\ OCF_ExtractCCRAttributes(s) = h[n]
    BY <1>3 DEF AttributeSteps, s
<1>n. n = Len(s)
    BY DEF s
<1> HIDE DEF n
<1>5. 0 \in K
    BY <1>1, <1>4, BeginSteps, CCRInEmpty
<1>6. ASSUME NEW k \in 1 .. n, k-1 \in K PROVE k \in K
  <2>1. /\ Begin(s, k-1) \in Seq(A) /\ s[k] \in A
        /\ Begin(s, k) = Append(Begin(s, k-1), s[k])
      BY <1>1, <1>n, BeginSteps
  <2>2. CCRIn(Begin(s, k)) = StoredAttribute(CCRIn(Begin(s, k-1)), s[k])
      BY <2>1, CCRInAppend
  <2>3. k \in 0 .. n
      BY <1>1
  <2> QED
      BY <1>4, <1>6, <2>2, <2>3
<1>7. 0 .. n \subseteq K
  <2> HIDE DEF K
  <2> QED
      BY <1>1, <1>5, <1>6, UpTo
<1>8. n \in 0 .. n /\ Begin(s, n) = s
    BY <1>1, <1>n, BeginSteps
<1> QED
    BY <1>4, <1>7, <1>8 DEF s

=============================================================================
