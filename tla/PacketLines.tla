---------------------------- MODULE PacketLines ----------------------------
(***************************************************************************)
(* Lines of packets, which are numbered as they enter a channel: what they *)
(* hold and whether it is in order, when packets join them; and what is    *)
(* left of any sequence when an element is cut out.  For the proofs about  *)
(* the pools, the connections and the route table.                         *)
(***************************************************************************)
EXTENDS Naturals, SequencesExt, SequenceTheorems, TLAPS

Sorted(s) == \A i, j \in DOMAIN s : i < j => s[i] < s[j]

Precede(A, B) == \A x \in A, y \in B : x < y

\* An empty line holds no packet.
LEMMA ToSetEmpty == ToSet(<<>>) = {}
BY DEF ToSet

\* A line of packets of C holds packets of C.
LEMMA ToSetTyped ==
  ASSUME NEW C, NEW s \in Seq(C)
  PROVE  ToSet(s) \subseteq C
BY DEF ToSet

\* Cutting out position n leaves the others, those behind it one place earlier.
LEMMA RemovedAt ==
  ASSUME NEW S, NEW s \in Seq(S), NEW n \in 1..Len(s)
  PROVE  /\ RemoveAt(s, n) \in Seq(S)
         /\ Len(RemoveAt(s, n)) = Len(s) - 1
         /\ \A i \in 1..(Len(s) - 1) : RemoveAt(s, n)[i] = IF i < n THEN s[i] ELSE s[i + 1]
<1> DEFINE a == SubSeq(s, 1, n - 1)
           b == SubSeq(s, n + 1, Len(s))
           cut == RemoveAt(s, n)
<1>1. /\ a \in Seq(S)
      /\ Len(a) = n - 1
      /\ \A i \in 1..(n - 1) : a[i] = s[i]
  OBVIOUS
<1>2. /\ b \in Seq(S)
      /\ Len(b) = Len(s) - n
      /\ \A i \in 1..(Len(s) - n) : b[i] = s[n + i]
  OBVIOUS
<1>3. cut = a \o b
  BY DEF RemoveAt
<1>4. Len(s) \in Nat /\ n \in 1..Len(s)
  OBVIOUS
<1> HIDE DEF a, b, cut
<1>5. /\ cut \in Seq(S)
      /\ Len(cut) = Len(a) + Len(b)
      /\ \A i \in 1..(Len(a) + Len(b)) :
           cut[i] = IF i <= Len(a) THEN a[i] ELSE b[i - Len(a)]
  BY <1>1, <1>2, <1>3, ConcatProperties
<1>6. Len(cut) = Len(s) - 1
  BY <1>1, <1>2, <1>4, <1>5
<1>7. ASSUME NEW i \in 1..(Len(s) - 1)
      PROVE  cut[i] = IF i < n THEN s[i] ELSE s[i + 1]
  <2>1. cut[i] = IF i <= n - 1 THEN a[i] ELSE b[i - (n - 1)]
    BY <1>1, <1>2, <1>4, <1>5
  <2>2. CASE i < n
    BY <2>1, <2>2, <1>1, <1>4
  <2>3. CASE i >= n
    <3>1. /\ i - (n - 1) \in 1..(Len(s) - n)
          /\ n + (i - (n - 1)) = i + 1
      BY <2>3, <1>4
    <3>2. cut[i] = b[i - (n - 1)]
      BY <2>1, <2>3, <1>4
    <3> QED BY <3>1, <3>2, <1>2, <2>3, <1>4
  <2> QED BY <2>2, <2>3, <1>4
<1> QED BY <1>5, <1>6, <1>7 DEF cut

\* A packet joins a line.
LEMMA ToSetAppend ==
  ASSUME NEW s \in Seq(Nat), NEW x \in Nat
  PROVE  ToSet(Append(s, x)) = ToSet(s) \cup {x}
<1>1. /\ DOMAIN Append(s, x) = 1..(Len(s) + 1) /\ DOMAIN s = 1..Len(s)
      /\ \A i \in 1..Len(s) : Append(s, x)[i] = s[i]
      /\ Append(s, x)[Len(s) + 1] = x
  OBVIOUS
<1>2. \A i \in 1..(Len(s) + 1) : i \in 1..Len(s) \/ i = Len(s) + 1  OBVIOUS
<1>3. 1..Len(s) \subseteq 1..(Len(s) + 1) /\ Len(s) + 1 \in 1..(Len(s) + 1)  OBVIOUS
<1> QED  BY <1>1, <1>2, <1>3, Zenon DEF ToSet

\* The elements of two lines joined.
LEMMA ConcatAt ==
  ASSUME NEW S, NEW s \in Seq(S), NEW t \in Seq(S)
  PROVE  /\ DOMAIN (s \o t) = 1..(Len(s) + Len(t))
         /\ \A i \in 1..Len(s) : (s \o t)[i] = s[i]
         /\ \A i \in 1..Len(t) : (s \o t)[Len(s) + i] = t[i]
OBVIOUS

\* Three stretches of packets, regrouped.
LEMMA Regrouped ==
  \A a, b, c \in Seq(Nat) : (a \o b) \o c = a \o (b \o c)
<1> TAKE a, b, c \in Seq(Nat)
<1> QED  BY ConcatAssociative

\* Two lines joined are parted again where the first one ends.
LEMMA Parted ==
  ASSUME NEW S, NEW s \in Seq(S), NEW t \in Seq(S)
  PROVE  /\ SubSeq(s \o t, 1, Len(s)) = s
         /\ SubSeq(s \o t, Len(s) + 1, Len(s \o t)) = t
<1> DEFINE line == s \o t
           a == SubSeq(line, 1, Len(s))
           b == SubSeq(line, Len(s) + 1, Len(line))
<1>1. /\ Len(s) \in Nat /\ Len(t) \in Nat
      /\ line \in Seq(S) /\ Len(line) = Len(s) + Len(t)
      /\ \A i \in 1..(Len(s) + Len(t)) : line[i] = IF i <= Len(s) THEN s[i] ELSE t[i - Len(s)]
  BY ConcatProperties
<1> HIDE DEF line
<1>2. /\ a \in Seq(S) /\ Len(a) = Len(s)
      /\ \A i \in 1..Len(s) : a[i] = line[i]
  BY <1>1
<1>3. /\ b \in Seq(S) /\ Len(b) = Len(t)
      /\ \A i \in 1..Len(t) : b[i] = line[Len(s) + i]
  BY <1>1
<1> HIDE DEF a, b
<1>4. \A i \in 1..Len(s) : a[i] = s[i]  BY <1>1, <1>2
<1>5. \A i \in 1..Len(t) : b[i] = t[i]  BY <1>1, <1>3
<1>6. a = s  BY <1>2, <1>4
<1>7. b = t  BY <1>3, <1>5
<1> QED  BY <1>6, <1>7 DEF a, b, line

\* Two lines are joined.
LEMMA ToSetConcat ==
  ASSUME NEW s \in Seq(Nat), NEW t \in Seq(Nat)
  PROVE  ToSet(s \o t) = ToSet(s) \cup ToSet(t)
<1>1. /\ Len(s) \in Nat /\ Len(t) \in Nat
      /\ DOMAIN (s \o t) = 1..(Len(s) + Len(t))
      /\ DOMAIN s = 1..Len(s) /\ DOMAIN t = 1..Len(t)
      /\ \A i \in 1..Len(s) : (s \o t)[i] = s[i]
      /\ \A i \in 1..Len(t) : (s \o t)[Len(s) + i] = t[i]
  OBVIOUS
<1>2. \A i \in 1..(Len(s) + Len(t)) : i \in 1..Len(s) \/ \E k \in 1..Len(t) : i = Len(s) + k
  <2> SUFFICES ASSUME NEW i \in 1..(Len(s) + Len(t)), i \notin 1..Len(s)
               PROVE  \E k \in 1..Len(t) : i = Len(s) + k
    OBVIOUS
  <2>1. i - Len(s) \in 1..Len(t) /\ i = Len(s) + (i - Len(s))  BY <1>1
  <2> QED  BY <2>1
<1>3. /\ 1..Len(s) \subseteq 1..(Len(s) + Len(t))
      /\ \A k \in 1..Len(t) : Len(s) + k \in 1..(Len(s) + Len(t))
  BY <1>1
<1>4. ASSUME NEW i \in DOMAIN (s \o t)  PROVE (s \o t)[i] \in ToSet(s) \cup ToSet(t)
  <2>1. CASE i \in 1..Len(s)  BY <2>1, <1>1, Zenon DEF ToSet
  <2>2. CASE \E k \in 1..Len(t) : i = Len(s) + k  BY <2>2, <1>1, Zenon DEF ToSet
  <2>3. i \in 1..(Len(s) + Len(t))  BY <1>1, Zenon
  <2> QED  BY <2>1, <2>2, <2>3, <1>2, Zenon
<1>5. ASSUME NEW i \in DOMAIN s  PROVE s[i] \in ToSet(s \o t)
  BY <1>1, <1>3, Zenon DEF ToSet
<1>6. ASSUME NEW k \in DOMAIN t  PROVE t[k] \in ToSet(s \o t)
  BY <1>1, <1>3, Zenon DEF ToSet
<1> QED  BY <1>4, <1>5, <1>6, Zenon DEF ToSet

\* A line stays in order when a later packet joins it...
LEMMA SortedAppend ==
  ASSUME NEW s \in Seq(Nat), NEW x \in Nat, Sorted(s), \A y \in ToSet(s) : y < x
  PROVE  Sorted(Append(s, x))
BY DEF Sorted, ToSet

\* ... or a line of later packets.
LEMMA SortedConcat ==
  ASSUME NEW s \in Seq(Nat), NEW t \in Seq(Nat), Sorted(s), Sorted(t), Precede(ToSet(s), ToSet(t))
  PROVE  Sorted(s \o t)
<1> SUFFICES ASSUME NEW i \in 1..(Len(s) + Len(t)), NEW j \in 1..(Len(s) + Len(t)), i < j
             PROVE  (s \o t)[i] < (s \o t)[j]
  BY DEF Sorted
<1>1. CASE j <= Len(s)
  BY <1>1 DEF Sorted
<1>2. CASE Len(s) < i
  <2>1. i - Len(s) \in DOMAIN t /\ j - Len(s) \in DOMAIN t /\ i - Len(s) < j - Len(s)
    BY <1>2
  <2>2. (s \o t)[i] = t[i - Len(s)] /\ (s \o t)[j] = t[j - Len(s)]
    BY <1>2
  <2> QED  BY <2>1, <2>2, Zenon DEF Sorted
<1>3. CASE i <= Len(s) /\ Len(s) < j
  <2>1. i \in DOMAIN s /\ j - Len(s) \in DOMAIN t  BY <1>3
  <2>2. (s \o t)[i] = s[i] /\ (s \o t)[j] = t[j - Len(s)]  BY <1>3
  <2>3. s[i] \in ToSet(s) /\ t[j - Len(s)] \in ToSet(t)  BY <2>1, Zenon DEF ToSet
  <2> QED  BY <2>2, <2>3, Zenon DEF Precede
<1> QED  BY <1>1, <1>2, <1>3

\* Taking the first packet of a line.
LEMMA HeadAndTail ==
  ASSUME NEW s \in Seq(Nat), s # <<>>
  PROVE  /\ Head(s) \in Nat /\ Tail(s) \in Seq(Nat)
         /\ Len(Tail(s)) = Len(s) - 1
         /\ ToSet(s) = {Head(s)} \cup ToSet(Tail(s))
         /\ Sorted(s) => Sorted(Tail(s)) /\ \A y \in ToSet(Tail(s)) : Head(s) < y
<1> DEFINE n == Len(s)
           t == Tail(s)
<1>1. /\ n \in Nat /\ n >= 1 /\ DOMAIN s = 1..n /\ Head(s) = s[1]
      /\ t \in Seq(Nat) /\ Len(t) = n - 1 /\ DOMAIN t = 1..(n - 1)
      /\ \A i \in 1..(n - 1) : t[i] = s[i + 1]
      /\ \A i \in 1..n : s[i] \in Nat
  OBVIOUS
<1> HIDE DEF n, t
<1>2. /\ \A i \in 1..(n - 1) : i + 1 \in 1..n /\ 1 < i + 1
      /\ \A i \in 1..n : i = 1 \/ \E k \in 1..(n - 1) : i = k + 1
      /\ \A i, j \in 1..(n - 1) : i < j => i + 1 < j + 1
      /\ 1 \in 1..n
  <2>1. \A i \in 1..n : i = 1 \/ (i - 1 \in 1..(n - 1) /\ i = (i - 1) + 1)  BY <1>1
  <2> QED  BY <1>1, <2>1
<1>3. ToSet(s) = {s[1]} \cup ToSet(t)
  <2>1. ASSUME NEW i \in DOMAIN s  PROVE s[i] \in {s[1]} \cup ToSet(t)
    <3>1. CASE i = 1  BY <3>1
    <3>2. CASE \E k \in 1..(n - 1) : i = k + 1  BY <1>1, <3>2, Zenon DEF ToSet
    <3> QED  BY <1>1, <1>2, <3>1, <3>2, Zenon
  <2>2. ASSUME NEW i \in DOMAIN t  PROVE t[i] \in ToSet(s)
    BY <1>1, <1>2, Zenon DEF ToSet
  <2>3. s[1] \in ToSet(s)  BY <1>1, <1>2, Zenon DEF ToSet
  <2> QED  BY <2>1, <2>2, <2>3, Zenon DEF ToSet
<1>4. Sorted(s) => Sorted(t)
  <2> SUFFICES ASSUME Sorted(s), NEW i \in 1..(n - 1), NEW j \in 1..(n - 1), i < j
               PROVE  t[i] < t[j]
    BY <1>1 DEF Sorted
  <2>1. i + 1 \in DOMAIN s /\ j + 1 \in DOMAIN s /\ i + 1 < j + 1  BY <1>1, <1>2, Zenon
  <2>2. s[i + 1] < s[j + 1]  BY <2>1, Zenon DEF Sorted
  <2>3. t[i] = s[i + 1] /\ t[j] = s[j + 1]  BY <1>1
  <2> QED  BY <2>2, <2>3
<1>5. Sorted(s) => \A y \in ToSet(t) : s[1] < y
  BY <1>1, <1>2, Zenon DEF Sorted, ToSet
<1> QED  BY <1>1, <1>3, <1>4, <1>5 DEF n, t
=============================================================================
