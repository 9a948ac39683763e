--------------------------- MODULE SequenceLemmas ---------------------------
(***************************************************************************)
(* Facts about the operations on sequences that the modules use for the    *)
(* queues and lists of the code: push_back, pop_front and erase.           *)
(***************************************************************************)
EXTENDS Integers, SequencesExt, SequenceTheorems, TLAPS

\* Appending adds exactly the new element to the set of elements.
LEMMA AppendElements ==
    ASSUME NEW S, NEW s \in Seq(S), NEW x \in S
    PROVE  ToSet(Append(s, x)) = ToSet(s) \cup {x}
<1>1. /\ DOMAIN Append(s, x) = 1..(Len(s) + 1)
      /\ DOMAIN s = 1..Len(s)
      /\ Len(s) \in Nat
      /\ \A i \in 1..Len(s) : Append(s, x)[i] = s[i]
      /\ Append(s, x)[Len(s) + 1] = x
    OBVIOUS
<1>2. 1..(Len(s) + 1) = 1..Len(s) \cup {Len(s) + 1}
    BY <1>1
<1> QED
    BY <1>1, <1>2 DEF ToSet

\* The elements of a non-empty sequence are its head and those of its tail.
LEMMA TailElements ==
    ASSUME NEW S, NEW s \in Seq(S), s # <<>>
    PROVE  /\ Head(s) \in S
           /\ Tail(s) \in Seq(S)
           /\ Len(Tail(s)) = Len(s) - 1
           /\ Len(s) \in Nat \ {0}
           /\ Head(s) = s[1]
           /\ \A i \in 1..Len(Tail(s)) : Tail(s)[i] = s[i + 1]
           /\ ToSet(s) = ToSet(Tail(s)) \cup {Head(s)}
<1>1. /\ Head(s) \in S
      /\ Tail(s) \in Seq(S)
      /\ Len(Tail(s)) = Len(s) - 1
      /\ Len(s) \in Nat \ {0}
      /\ Head(s) = s[1]
      /\ DOMAIN s = 1..Len(s)
      /\ DOMAIN Tail(s) = 1..(Len(s) - 1)
      /\ \A i \in 1..(Len(s) - 1) : Tail(s)[i] = s[i + 1]
    OBVIOUS
<1>2. ToSet(s) \subseteq ToSet(Tail(s)) \cup {Head(s)}
  <2> SUFFICES ASSUME NEW i \in 1..Len(s), i # 1
               PROVE  s[i] \in ToSet(Tail(s))
      BY <1>1 DEF ToSet
  <2>1. i - 1 \in 1..(Len(s) - 1) /\ Tail(s)[i - 1] = s[i]
      BY <1>1
  <2> QED
      BY <2>1, <1>1 DEF ToSet
<1>3. ToSet(Tail(s)) \cup {Head(s)} \subseteq ToSet(s)
  <2>1. \A i \in 1..(Len(s) - 1) : i + 1 \in 1..Len(s)
      BY <1>1
  <2> QED
      BY <1>1, <2>1 DEF ToSet
<1> QED
    BY <1>1, <1>2, <1>3

\* Erasing position i of a sequence keeps the others in their order.
LEMMA RemoveAtElements ==
    ASSUME NEW S, NEW s \in Seq(S), NEW i \in 1..Len(s)
    PROVE  /\ RemoveAt(s, i) \in Seq(S)
           /\ Len(RemoveAt(s, i)) = Len(s) - 1
           /\ \A k \in 1..(Len(s) - 1) :
                RemoveAt(s, i)[k] = IF k < i THEN s[k] ELSE s[k + 1]
<1>1. Len(s) \in Nat
    OBVIOUS
<1> DEFINE a == SubSeq(s, 1, i - 1)
           b == SubSeq(s, i + 1, Len(s))
<1>2. a \in Seq(S) /\ Len(a) = i - 1 /\ \A k \in 1..(i - 1) : a[k] = s[k]
    BY <1>1
<1>3. b \in Seq(S) /\ Len(b) = Len(s) - i
    BY <1>1
<1>4. \A k \in 1..(Len(s) - i) : b[k] = s[k + i]
    BY <1>1
<1> HIDE DEF a, b
<1>5. /\ a \o b \in Seq(S)
      /\ Len(a \o b) = Len(a) + Len(b)
      /\ \A k \in 1..(Len(a) + Len(b)) :
            (a \o b)[k] = IF k <= Len(a) THEN a[k] ELSE b[k - Len(a)]
    BY <1>2, <1>3, ConcatProperties
<1>6. Len(a) + Len(b) = Len(s) - 1
    BY <1>1, <1>2, <1>3
<1>7. ASSUME NEW k \in 1..(Len(s) - 1)
      PROVE  (a \o b)[k] = IF k < i THEN s[k] ELSE s[k + 1]
  <2>1. (a \o b)[k] = IF k <= i - 1 THEN a[k] ELSE b[k - (i - 1)]
      BY <1>2, <1>5, <1>6
  <2>2. CASE k < i
      BY <2>1, <2>2, <1>1, <1>2
  <2>3. CASE k >= i
    <3>1. k - (i - 1) \in 1..(Len(s) - i)
        BY <2>3, <1>1
    <3>2. b[k - (i - 1)] = s[(k - (i - 1)) + i]
        BY <3>1, <1>4
    <3>3. (k - (i - 1)) + i = k + 1 /\ ~(k <= i - 1) /\ ~(k < i)
        BY <1>1, <2>3
    <3> QED
        BY <2>1, <3>2, <3>3
  <2>4. k < i \/ k >= i
      BY <1>1
  <2> QED
      BY <2>2, <2>3, <2>4
<1>8. RemoveAt(s, i) = a \o b
    BY DEF RemoveAt, a, b
<1> QED
    BY <1>5, <1>6, <1>7, <1>8

\* Erasing position i of a strictly increasing list of numbers leaves it
\* increasing and takes away just the number at i.
LEMMA RemoveAtIncreasing ==
    ASSUME NEW s \in Seq(Nat), NEW i \in 1..Len(s),
           \A j, k \in 1..Len(s) : j < k => s[j] < s[k]
    PROVE  /\ \A j, k \in 1..Len(RemoveAt(s, i)) :
                 j < k => RemoveAt(s, i)[j] < RemoveAt(s, i)[k]
           /\ ToSet(RemoveAt(s, i)) = ToSet(s) \ {s[i]}
<1> DEFINE r == RemoveAt(s, i)
<1>1. /\ r \in Seq(Nat)
      /\ Len(r) = Len(s) - 1
      /\ \A k \in 1..(Len(s) - 1) : r[k] = IF k < i THEN s[k] ELSE s[k + 1]
    BY RemoveAtElements
<1>2. Len(s) \in Nat /\ DOMAIN s = 1..Len(s) /\ DOMAIN r = 1..(Len(s) - 1)
    BY <1>1
<1>3. \A k \in 1..Len(s) : s[k] \in Nat
    OBVIOUS
<1> HIDE DEF r
<1> DEFINE pos(k) == IF k < i THEN k ELSE k + 1
<1>4. \A k \in 1..(Len(s) - 1) : r[k] = s[pos(k)] /\ pos(k) \in 1..Len(s) /\ pos(k) # i
  <2> TAKE k \in 1..(Len(s) - 1)
  <2>1. CASE k < i
      BY <2>1, <1>1, <1>2
  <2>2. CASE ~(k < i)
      BY <2>2, <1>1, <1>2
  <2> QED
      BY <2>1, <2>2
<1>5. \A j, k \in 1..(Len(s) - 1) : j < k => pos(j) < pos(k)
    BY <1>2
<1> HIDE DEF pos
<1>6. \A j, k \in 1..Len(r) : j < k => r[j] < r[k]
    BY <1>4, <1>1, <1>5
<1>7. ToSet(r) \subseteq ToSet(s) \ {s[i]}
  <2> SUFFICES ASSUME NEW k \in 1..(Len(s) - 1)
               PROVE  r[k] \in ToSet(s) \ {s[i]}
      BY <1>2 DEF ToSet
  <2>1. PICK m \in 1..Len(s) : m # i /\ r[k] = s[m]
      BY <1>4
  <2>2. s[m] # s[i]
    <3>1. \/ m < i /\ s[m] < s[i]
          \/ i < m /\ s[i] < s[m]
        BY ONLY <2>1, <1>2, i \in 1..Len(s), \A j, l \in 1..Len(s) : j < l => s[j] < s[l]
    <3>2. s[m] \in Nat /\ s[i] \in Nat
        BY <1>3
    <3> QED
        BY ONLY <3>1, <3>2
  <2> QED
      BY <2>1, <2>2, <1>2 DEF ToSet
<1>8. ToSet(s) \ {s[i]} \subseteq ToSet(r)
  <2> SUFFICES ASSUME NEW m \in 1..Len(s), m # i
               PROVE  s[m] \in ToSet(r)
      BY <1>2 DEF ToSet
  <2>1. CASE m < i
    <3>1. m \in 1..(Len(s) - 1)
        BY ONLY <2>1, <1>2, m \in 1..Len(s), i \in 1..Len(s)
    <3>2. r[m] = s[m]
        BY ONLY <2>1, <3>1, <1>1
    <3> QED
        BY <3>1, <3>2, <1>2 DEF ToSet
  <2>2. CASE m > i
    <3>1. m - 1 \in 1..(Len(s) - 1) /\ ~(m - 1 < i) /\ (m - 1) + 1 = m
        BY <2>2, <1>2
    <3>2. r[m - 1] = s[m]
        BY <3>1, <1>1
    <3> QED
        BY <3>1, <3>2, <1>2 DEF ToSet
  <2> QED
      BY <2>1, <2>2
<1> QED
    BY <1>6, <1>7, <1>8 DEF r
=============================================================================
