------------------------------ MODULE QueueLemmas ------------------------------
(***************************************************************************)
(* Lemmas about queues as sequences: what moves from the head of one to    *)
(* the end of another keeps its place in their concatenation.              *)
(***************************************************************************)
EXTENDS Integers, Sequences, SequenceTheorems, TLAPS

\* Moving the head of the second of two queues to the end of the first keeps
\* their concatenation: what pop_front and push_back do to a message.
LEMMA ShiftHead ==
  ASSUME NEW M, NEW a \in Seq(M), NEW b \in Seq(M), b # <<>>
  PROVE  /\ Append(a, Head(b)) \o Tail(b) = a \o b
         /\ Head(b) \in M
         /\ Tail(b) \in Seq(M)
         /\ Append(a, Head(b)) \in Seq(M)
<1>1. /\ Head(b) \in M
      /\ Tail(b) \in Seq(M)
      /\ Len(b) \in Nat /\ Len(b) > 0
      /\ Len(Tail(b)) = Len(b) - 1
      /\ \A i \in 1..Len(Tail(b)) : Tail(b)[i] = b[i + 1]
      /\ Head(b) = b[1]
  BY HeadTailProperties, EmptySeq, LenProperties
<1>2. /\ Append(a, Head(b)) \in Seq(M)
      /\ Len(a) \in Nat
      /\ Len(Append(a, Head(b))) = Len(a) + 1
      /\ \A i \in 1..Len(a) : Append(a, Head(b))[i] = a[i]
      /\ Append(a, Head(b))[Len(a) + 1] = Head(b)
  BY <1>1, AppendProperties, LenProperties
<1>3. /\ Append(a, Head(b)) \o Tail(b) \in Seq(M)
      /\ Len(Append(a, Head(b)) \o Tail(b)) = Len(a) + Len(b)
  BY <1>1, <1>2, ConcatProperties
<1>4. /\ a \o b \in Seq(M)
      /\ Len(a \o b) = Len(a) + Len(b)
  BY ConcatProperties
<1>5. ASSUME NEW i \in 1..(Len(a) + Len(b))
      PROVE  (Append(a, Head(b)) \o Tail(b))[i] = (a \o b)[i]
  <2>1. CASE i \in 1..Len(a)
    BY <2>1, <1>1, <1>2, ConcatProperties
  <2>2. CASE i = Len(a) + 1
    BY <2>2, <1>1, <1>2, ConcatProperties
  <2>3. CASE i \in (Len(a) + 2)..(Len(a) + Len(b))
    BY <2>3, <1>1, <1>2, ConcatProperties
  <2> QED
    BY <2>1, <2>2, <2>3, <1>1, <1>2
<1> QED
  BY <1>1, <1>2, <1>3, <1>4, <1>5, SeqEqual

\* Running a posted lambda moves a message from posted to write_msgs.
LEMMA ShiftPosted ==
  ASSUME NEW M, NEW a \in Seq(M), NEW b \in Seq(M), NEW c \in Seq(M), c # <<>>
  PROVE  (a \o Append(b, Head(c))) \o Tail(c) = (a \o b) \o c
<1>1. /\ Append(b, Head(c)) \o Tail(c) = b \o c
      /\ Tail(c) \in Seq(M)
      /\ Append(b, Head(c)) \in Seq(M)
  BY ShiftHead
<1>2. \A x, y, z \in Seq(M) : (x \o y) \o z = x \o (y \o z)
  BY ConcatAssociative, SMTT(30)
<1>3. (a \o b) \o c = a \o (b \o c)
  BY <1>2
<1>4. (a \o Append(b, Head(c))) \o Tail(c) = a \o (Append(b, Head(c)) \o Tail(c))
  BY <1>1, <1>2
<1> QED
  BY <1>1, <1>3, <1>4

\* The message after those on the wire is the head of the queue.
LEMMA NextInLine ==
  ASSUME NEW M, NEW a \in Seq(M), NEW b \in Seq(M), NEW c \in Seq(M), b # <<>>
  PROVE  /\ Len(a) < Len((a \o b) \o c)
         /\ ((a \o b) \o c)[Len(a) + 1] = Head(b)
<1>1. /\ Len(a) \in Nat /\ Len(c) \in Nat
      /\ Len(b) \in Nat \ {0} /\ Head(b) = b[1]
  BY LenProperties, EmptySeq
<1>2. /\ a \o b \in Seq(M)
      /\ Len(a \o b) = Len(a) + Len(b)
      /\ (a \o b)[Len(a) + 1] = b[1]
  BY <1>1, ConcatProperties
<1>3. \A x, y \in Seq(M) :
        /\ Len(x \o y) = Len(x) + Len(y)
        /\ \A i \in 1..(Len(x) + Len(y)) : i <= Len(x) => (x \o y)[i] = x[i]
  BY ConcatProperties
<1> QED
  BY <1>1, <1>2, <1>3

-----------------------------------------------------------------------------
(* What a queue holds, and in which order. *)

\* The queue s holds a.
Holds(s, a) == \E i \in 1..Len(s) : s[i] = a

\* In the queue s, a stands before b.
Precedes(s, a, b) == \E i, k \in 1..Len(s) : i < k /\ s[i] = a /\ s[k] = b

\* An empty queue holds nothing; what a queue holds is of its type.
LEMMA QueueEmpty ==
  ASSUME NEW M
  PROVE  /\ \A a : ~Holds(<<>>, a)
         /\ \A a, b : ~Precedes(<<>>, a, b)
         /\ \A s \in Seq(M) : \A a : Holds(s, a) => a \in M /\ s # <<>>
         /\ \A s \in Seq(M) : \A a, b : Precedes(s, a, b) => Holds(s, a) /\ Holds(s, b)
BY EmptySeq, LenProperties DEF Holds, Precedes

\* The end of a queue after push_back.
LEMMA QueueAppend ==
  ASSUME NEW M, NEW s \in Seq(M), NEW m \in M
  PROVE  /\ Append(s, m) \in Seq(M)
         /\ \A a : Holds(Append(s, m), a) <=> Holds(s, a) \/ a = m
         /\ \A a, b : Precedes(Append(s, m), a, b) <=>
                        Precedes(s, a, b) \/ (Holds(s, a) /\ b = m)
<1>1. /\ Append(s, m) \in Seq(M)
      /\ Len(s) \in Nat
      /\ Len(Append(s, m)) = Len(s) + 1
      /\ \A i \in 1..Len(s) : Append(s, m)[i] = s[i]
      /\ Append(s, m)[Len(s) + 1] = m
  BY AppendProperties, LenProperties
<1>2. ASSUME NEW a
      PROVE  Holds(Append(s, m), a) <=> Holds(s, a) \/ a = m
  <2>1. \A i : i \in 1..Len(Append(s, m)) <=> i \in 1..Len(s) \/ i = Len(s) + 1
    BY <1>1
  <2> QED
    BY <1>1, <2>1 DEF Holds
<1>3. ASSUME NEW a, NEW b
      PROVE  Precedes(Append(s, m), a, b) <=>
               Precedes(s, a, b) \/ (Holds(s, a) /\ b = m)
  <2>1. ASSUME NEW i \in 1..Len(Append(s, m)), NEW k \in 1..Len(Append(s, m)), i < k,
               Append(s, m)[i] = a, Append(s, m)[k] = b
        PROVE  Precedes(s, a, b) \/ (Holds(s, a) /\ b = m)
    <3>1. i \in 1..Len(s) /\ s[i] = a
      BY <1>1, <2>1
    <3>2. CASE k \in 1..Len(s)
      BY <1>1, <2>1, <3>1, <3>2 DEF Precedes
    <3>3. CASE k = Len(s) + 1
      BY <1>1, <2>1, <3>1, <3>3 DEF Holds
    <3> QED
      BY <1>1, <3>2, <3>3
  <2>2. ASSUME NEW i \in 1..Len(s), NEW k \in 1..Len(s), i < k, s[i] = a, s[k] = b
        PROVE  Precedes(Append(s, m), a, b)
    BY <1>1, <2>2 DEF Precedes
  <2>3. ASSUME NEW i \in 1..Len(s), s[i] = a, b = m
        PROVE  Precedes(Append(s, m), a, b)
    <3>1. /\ i \in 1..Len(Append(s, m)) /\ Len(s) + 1 \in 1..Len(Append(s, m))
          /\ i < Len(s) + 1
      BY <1>1
    <3> QED
      BY <1>1, <2>3, <3>1 DEF Precedes
  <2> QED
    BY <2>1, <2>2, <2>3 DEF Precedes, Holds
<1> QED
  BY <1>1, <1>2, <1>3

\* The front of a queue after pop_front.
LEMMA QueueTail ==
  ASSUME NEW M, NEW s \in Seq(M), s # <<>>
  PROVE  /\ Tail(s) \in Seq(M) /\ Head(s) \in M
         /\ \A a : Holds(s, a) <=> a = Head(s) \/ Holds(Tail(s), a)
         /\ \A a, b : Precedes(s, a, b) <=>
                        Precedes(Tail(s), a, b) \/ (a = Head(s) /\ Holds(Tail(s), b))
<1>1. /\ Head(s) \in M
      /\ Tail(s) \in Seq(M)
      /\ Len(s) \in Nat /\ Len(s) > 0
      /\ Len(Tail(s)) = Len(s) - 1
      /\ \A i \in 1..Len(Tail(s)) : Tail(s)[i] = s[i + 1]
      /\ Head(s) = s[1]
  BY HeadTailProperties, EmptySeq, LenProperties
<1>2. /\ \A i \in 1..Len(Tail(s)) : i + 1 \in 1..Len(s)
      /\ \A i \in 1..Len(s) : i = 1 \/ (i - 1 \in 1..Len(Tail(s)) /\ s[i] = Tail(s)[i - 1])
      /\ 1 \in 1..Len(s)
  BY <1>1
<1>3. ASSUME NEW a
      PROVE  Holds(s, a) <=> a = Head(s) \/ Holds(Tail(s), a)
  BY <1>1, <1>2 DEF Holds
<1>4. ASSUME NEW a, NEW b
      PROVE  Precedes(s, a, b) <=>
               Precedes(Tail(s), a, b) \/ (a = Head(s) /\ Holds(Tail(s), b))
  <2>1. ASSUME NEW i \in 1..Len(s), NEW k \in 1..Len(s), i < k, s[i] = a, s[k] = b
        PROVE  Precedes(Tail(s), a, b) \/ (a = Head(s) /\ Holds(Tail(s), b))
    <3>1. k - 1 \in 1..Len(Tail(s)) /\ Tail(s)[k - 1] = b
      BY <1>1, <1>2, <2>1
    <3>2. CASE i = 1
      BY <1>1, <2>1, <3>1, <3>2 DEF Holds
    <3>3. CASE i # 1
      <4>1. i - 1 \in 1..Len(Tail(s)) /\ Tail(s)[i - 1] = a /\ i - 1 < k - 1
        BY <1>1, <1>2, <2>1, <3>3
      <4> QED
        BY <3>1, <4>1 DEF Precedes
    <3> QED
      BY <3>2, <3>3
  <2>2. ASSUME NEW i \in 1..Len(Tail(s)), NEW k \in 1..Len(Tail(s)), i < k,
               Tail(s)[i] = a, Tail(s)[k] = b
        PROVE  Precedes(s, a, b)
    <3>1. i + 1 \in 1..Len(s) /\ k + 1 \in 1..Len(s) /\ i + 1 < k + 1
      BY <1>1, <2>2
    <3> QED
      BY <1>1, <2>2, <3>1 DEF Precedes
  <2>3. ASSUME NEW k \in 1..Len(Tail(s)), a = Head(s), Tail(s)[k] = b
        PROVE  Precedes(s, a, b)
    <3>1. k + 1 \in 1..Len(s) /\ 1 < k + 1
      BY <1>1
    <3> QED
      BY <1>1, <1>2, <2>3, <3>1 DEF Precedes
  <2> QED
    BY <2>1, <2>2, <2>3 DEF Precedes, Holds
<1> QED
  BY <1>1, <1>3, <1>4

\* Two queues, one behind the other.
LEMMA QueueConcat ==
  ASSUME NEW M, NEW s \in Seq(M), NEW t \in Seq(M)
  PROVE  /\ s \o t \in Seq(M)
         /\ \A a : Holds(s \o t, a) <=> Holds(s, a) \/ Holds(t, a)
         /\ \A a, b : Precedes(s \o t, a, b) <=>
              Precedes(s, a, b) \/ Precedes(t, a, b) \/ (Holds(s, a) /\ Holds(t, b))
<1>1. /\ s \o t \in Seq(M)
      /\ Len(s) \in Nat /\ Len(t) \in Nat
      /\ Len(s \o t) = Len(s) + Len(t)
      /\ \A i \in 1..Len(s) : i \in 1..Len(s \o t) /\ (s \o t)[i] = s[i]
      /\ \A i \in 1..Len(t) : Len(s) + i \in 1..Len(s \o t) /\ (s \o t)[Len(s) + i] = t[i]
  <2>1. /\ s \o t \in Seq(M)
        /\ Len(s) \in Nat /\ Len(t) \in Nat
        /\ Len(s \o t) = Len(s) + Len(t)
        /\ \A i \in 1..(Len(s) + Len(t)) :
             (s \o t)[i] = IF i <= Len(s) THEN s[i] ELSE t[i - Len(s)]
    BY ConcatProperties, LenProperties
  <2>2. ASSUME NEW i \in 1..Len(t)
        PROVE  Len(s) + i \in 1..Len(s \o t) /\ (s \o t)[Len(s) + i] = t[i]
    <3>1. /\ Len(s) + i \in 1..(Len(s) + Len(t))
          /\ ~(Len(s) + i <= Len(s))
          /\ (Len(s) + i) - Len(s) = i
      BY <2>1
    <3> QED
      BY <2>1, <3>1
  <2> QED
    BY <2>1, <2>2
<1>2. \A i \in 1..Len(s \o t) :
        i \in 1..Len(s) \/ (i - Len(s) \in 1..Len(t) /\ i = Len(s) + (i - Len(s)))
  BY <1>1
<1>3. ASSUME NEW a
      PROVE  Holds(s \o t, a) <=> Holds(s, a) \/ Holds(t, a)
  BY <1>1, <1>2 DEF Holds
<1>4. ASSUME NEW a, NEW b
      PROVE  Precedes(s \o t, a, b) <=>
               Precedes(s, a, b) \/ Precedes(t, a, b) \/ (Holds(s, a) /\ Holds(t, b))
  <2>1. ASSUME NEW i \in 1..Len(s \o t), NEW k \in 1..Len(s \o t), i < k,
               (s \o t)[i] = a, (s \o t)[k] = b
        PROVE  Precedes(s, a, b) \/ Precedes(t, a, b) \/ (Holds(s, a) /\ Holds(t, b))
    <3>1. CASE k \in 1..Len(s)
      <4>1. i \in 1..Len(s)
        BY <1>1, <2>1, <3>1
      <4> QED
        BY <1>1, <2>1, <3>1, <4>1 DEF Precedes
    <3>2. CASE k \notin 1..Len(s)
      <4>1. k - Len(s) \in 1..Len(t) /\ t[k - Len(s)] = b
        BY <1>1, <1>2, <2>1, <3>2
      <4>2. CASE i \in 1..Len(s)
        BY <1>1, <2>1, <4>1, <4>2 DEF Holds
      <4>3. CASE i \notin 1..Len(s)
        <5>1. i - Len(s) \in 1..Len(t) /\ t[i - Len(s)] = a /\ i - Len(s) < k - Len(s)
          BY <1>1, <1>2, <2>1, <4>3
        <5> QED
          BY <4>1, <5>1 DEF Precedes
      <4> QED
        BY <4>2, <4>3
    <3> QED
      BY <3>1, <3>2
  <2>2. Precedes(s, a, b) => Precedes(s \o t, a, b)
    BY <1>1 DEF Precedes
  <2>3. ASSUME NEW i \in 1..Len(t), NEW k \in 1..Len(t), i < k, t[i] = a, t[k] = b
        PROVE  Precedes(s \o t, a, b)
    <3>1. Len(s) + i < Len(s) + k
      BY <1>1, <2>3
    <3> QED
      BY <1>1, <2>3, <3>1 DEF Precedes
  <2>4. ASSUME NEW i \in 1..Len(s), NEW k \in 1..Len(t), s[i] = a, t[k] = b
        PROVE  Precedes(s \o t, a, b)
    <3>1. i < Len(s) + k
      BY <1>1
    <3> QED
      BY <1>1, <2>4, <3>1 DEF Precedes
  <2> QED
    BY <2>1, <2>2, <2>3, <2>4 DEF Precedes, Holds
<1> QED
  BY <1>1, <1>3, <1>4
=============================================================================
