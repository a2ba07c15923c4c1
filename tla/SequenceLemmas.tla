---------------------------- MODULE SequenceLemmas ----------------------------
(***************************************************************************)
(* What happens to a sequence used as a queue: std::queue in               *)
(* addon/node_async_queue.h, and Node's queues of timers, microtasks and   *)
(* immediates.                                                             *)
(***************************************************************************)
EXTENDS Naturals, Sequences, TLAPS, SequenceTheorems

\* The front leaves: the rest moves up by one (q_.pop() after q_.front()).
LEMMA TakeHead ==
  ASSUME NEW S, NEW s \in Seq(S), s # <<>>
  PROVE  /\ Len(s) \in Nat
         /\ Len(s) > 0
         /\ Head(s) = s[1]
         /\ Head(s) \in S
         /\ Tail(s) \in Seq(S)
         /\ Len(Tail(s)) = Len(s) - 1
         /\ \A i \in 1..Len(Tail(s)) : Tail(s)[i] = s[i + 1]
BY HeadTailProperties, EmptySeq

\* An element arrives at the back: the others stay where they are (q_.push()).
LEMMA AddLast ==
  ASSUME NEW S, NEW s \in Seq(S), NEW e \in S
  PROVE  /\ Len(s) \in Nat
         /\ Append(s, e) \in Seq(S)
         /\ Len(Append(s, e)) = Len(s) + 1
         /\ \A i \in 1..Len(s) : Append(s, e)[i] = s[i]
         /\ Append(s, e)[Len(s) + 1] = e
OBVIOUS

\* Where an element of a queue comes from after its front has left ...
LEMMA TailFrom ==
  ASSUME NEW S, NEW s \in Seq(S), s # <<>>
  PROVE  \A i \in 1..Len(Tail(s)) :
           /\ i + 1 \in 1..Len(s) /\ i + 1 # 1
           /\ Tail(s)[i] = s[i + 1]
BY TakeHead

\* ... and after one has arrived.
LEMMA AppendFrom ==
  ASSUME NEW S, NEW s \in Seq(S), NEW e \in S
  PROVE  \A i \in 1..Len(Append(s, e)) :
           \/ i \in 1..Len(s) /\ Append(s, e)[i] = s[i]
           \/ i = Len(s) + 1 /\ Append(s, e)[i] = e
<1>1. ASSUME NEW i \in 1..(Len(s) + 1)
      PROVE  i \in 1..Len(s) \/ i = Len(s) + 1
  BY AddLast
<1>2. QED
  BY <1>1, AddLast

\* When the front leaves, every other element stays in the queue.
LEMMA OthersStay ==
  ASSUME NEW S, NEW s \in Seq(S), s # <<>>
  PROVE  \A i \in DOMAIN s : s[i] = Head(s) \/ \E j \in DOMAIN Tail(s) : Tail(s)[j] = s[i]
<1>1. DOMAIN s = 1..Len(s) /\ DOMAIN Tail(s) = 1..Len(Tail(s))
  BY TakeHead
<1>2. ASSUME NEW i \in 1..Len(s), i # 1
      PROVE  \E j \in 1..Len(Tail(s)) : Tail(s)[j] = s[i]
  <2>1. i - 1 \in 1..Len(Tail(s)) /\ (i - 1) + 1 = i
    BY <1>2, TakeHead
  <2>2. QED
    BY <2>1, TakeHead
<1>3. QED
  BY <1>1, <1>2, TakeHead

\* What follows the element at i: an event's successors among those emitted.
LEMMA RestAfter ==
  ASSUME NEW S, NEW s \in Seq(S), NEW i \in Nat, i <= Len(s)
  PROVE  /\ SubSeq(s, i + 1, Len(s)) \in Seq(S)
         /\ Len(SubSeq(s, i + 1, Len(s))) = Len(s) - i
         /\ \A j \in 1..(Len(s) - i) : SubSeq(s, i + 1, Len(s))[j] = s[i + j]
<1> DEFINE m == i + 1
           n == Len(s)
<1>1. m \in Int /\ n \in Int /\ n \in Nat /\ m = i + 1 /\ n = Len(s)
  OBVIOUS
<1>2. \A j \in m..n : s[j] \in S
  OBVIOUS
<1> HIDE DEF m, n
<1>3. /\ SubSeq(s, m, n) \in Seq(S)
      /\ Len(SubSeq(s, m, n)) = IF m <= n THEN n - m + 1 ELSE 0
      /\ \A j \in 1..n - m + 1 : SubSeq(s, m, n)[j] = s[m + j - 1]
  BY <1>1, <1>2, SubSeqProperties
<1> DEFINE rest == SubSeq(s, m, n)
<1>4. rest = SubSeq(s, i + 1, Len(s))
  BY <1>1
<1> HIDE DEF rest
<1>5. Len(rest) = n - i
  BY <1>1, <1>3 DEF rest
<1>6. ASSUME NEW j \in 1..(n - i) PROVE rest[j] = s[i + j]
  <2>1. j \in 1..n - m + 1 /\ m + j - 1 = i + j
    BY <1>1
  <2>2. QED
    BY <1>3, <2>1 DEF rest
<1>7. QED
  BY <1>1, <1>3, <1>4, <1>5, <1>6 DEF rest

\* Two queues, one feeding the other: what the first one holds comes behind what the
\* second one holds.  An element that arrives joins the end of the whole ...
LEMMA ArrivesBehind ==
  ASSUME NEW S, NEW s \in Seq(S), NEW t \in Seq(S), NEW e \in S
  PROVE  s \o Append(t, e) = Append(s \o t, e)
<1>1. s \o (t \o <<e>>) = (s \o t) \o <<e>>
  BY ConcatAssociative
<1>2. s \o t \in Seq(S)
  BY ConcatProperties
<1>3. QED
  BY <1>1, <1>2, AppendIsConcat

\* ... one that moves on from queue to queue keeps its place ...
LEMMA MovesOn ==
  ASSUME NEW S, NEW s \in Seq(S), NEW t \in Seq(S), t # <<>>
  PROVE  Append(s, Head(t)) \o Tail(t) = s \o t
<1>1. Head(t) \in S /\ Tail(t) \in Seq(S)
  BY TakeHead
<1>2. <<Head(t)>> \o Tail(t) = t
  BY <1>1, TakeHead
<1>3. (s \o <<Head(t)>>) \o Tail(t) = s \o (<<Head(t)>> \o Tail(t))
  BY <1>1, ConcatAssociative
<1>4. QED
  BY <1>1, <1>2, <1>3, AppendIsConcat

\* ... and what leaves the second one was the first of all.
LEMMA LeavesFirst ==
  ASSUME NEW S, NEW s \in Seq(S), NEW t \in Seq(S), s # <<>>
  PROVE  /\ s \o t \in Seq(S)
         /\ s \o t # <<>>
         /\ Head(s \o t) = Head(s)
         /\ Tail(s) \o t = Tail(s \o t)
<1>1. Head(s) \in S /\ Tail(s) \in Seq(S) /\ s = <<Head(s)>> \o Tail(s)
  BY TakeHead
<1>2. Tail(s) \o t \in Seq(S) /\ s \o t \in Seq(S)
  BY <1>1, ConcatProperties
<1>3. s \o t = <<Head(s)>> \o (Tail(s) \o t)
  BY <1>1, ConcatAssociative
<1>4. QED
  BY <1>1, <1>2, <1>3
=============================================================================
