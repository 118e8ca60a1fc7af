---------------------------- MODULE SequenceLemmas ----------------------------
(***************************************************************************)
(* Lemmas about sequences that the proofs of several components need.      *)
(***************************************************************************)
EXTENDS SequenceTheorems, TLAPS

\* The prefixes of a sequence grow by its next element.
LEMMA PrefixProperties ==
  ASSUME NEW S, NEW full \in Seq(S), NEW m \in 0 .. Len(full)
  PROVE  /\ SubSeq(full, 1, m) \in Seq(S)
         /\ Len(SubSeq(full, 1, m)) = m
         /\ \A i \in 1 .. m : SubSeq(full, 1, m)[i] = full[i]
<1>1. Len(full) \in Nat /\ \A i \in 1 .. Len(full) : full[i] \in S
  BY LenProperties, ElementOfSeq
<1>2. \A i \in 1 .. m : full[i] \in S
  BY <1>1
<1>3. /\ SubSeq(full, 1, m) \in Seq(S)
      /\ Len(SubSeq(full, 1, m)) = IF 1 <= m THEN m - 1 + 1 ELSE 0
      /\ \A i \in 1 .. m - 1 + 1 : SubSeq(full, 1, m)[i] = full[1 + i - 1]
  BY <1>1, <1>2, SubSeqProperties
<1> DEFINE s == SubSeq(full, 1, m)
<1> HIDE DEF s
<1>4. /\ s \in Seq(S) /\ Len(s) = IF 1 <= m THEN m - 1 + 1 ELSE 0
      /\ \A i \in 1 .. m - 1 + 1 : s[i] = full[1 + i - 1]
  BY <1>3 DEF s
<1>5. s \in Seq(S) /\ Len(s) = m /\ \A i \in 1 .. m : s[i] = full[i]
  BY <1>4, <1>1
<1> QED
  BY <1>5 DEF s

\* The prefix of one more element is the prefix with that element appended.
LEMMA PrefixGrows ==
  ASSUME NEW S, NEW full \in Seq(S), NEW m \in 0 .. Len(full), m < Len(full)
  PROVE  SubSeq(full, 1, m + 1) = Append(SubSeq(full, 1, m), full[m + 1])
<1> DEFINE a == SubSeq(full, 1, m)
           b == SubSeq(full, 1, m + 1)
<1>1. Len(full) \in Nat /\ m + 1 \in 0 .. Len(full) /\ m + 1 \in 1 .. Len(full)
  BY LenProperties
<1>2. a \in Seq(S) /\ Len(a) = m /\ \A i \in 1 .. m : a[i] = full[i]
  BY PrefixProperties
<1>3. b \in Seq(S) /\ Len(b) = m + 1 /\ \A i \in 1 .. m + 1 : b[i] = full[i]
  BY <1>1, PrefixProperties
<1>4. full[m + 1] \in S
  BY <1>1, ElementOfSeq
<1> HIDE DEF a, b
<1>5. /\ Append(a, full[m + 1]) \in Seq(S)
      /\ Len(Append(a, full[m + 1])) = m + 1
      /\ \A i \in 1 .. m : Append(a, full[m + 1])[i] = a[i]
      /\ Append(a, full[m + 1])[m + 1] = full[m + 1]
  BY <1>2, <1>4, AppendProperties
<1>6. \A i \in 1 .. m + 1 : b[i] = Append(a, full[m + 1])[i]
  BY <1>2, <1>3, <1>5
<1>7. b = Append(a, full[m + 1])
  BY <1>3, <1>5, <1>6, SeqEqual
<1> QED
  BY <1>7 DEF a, b

Distinct(s) == \A i, j \in 1 .. Len(s) : s[i] = s[j] => i = j

\* A step from the sequence a to b that leaves it alone, cuts it to a strict
\* prefix, or appends an element of S it does not have.
StacksUp(a, b, S) ==
  \/ b = a
  \/ /\ Len(b) <= Len(a) /\ SubSeq(b, 1, Len(b)) = SubSeq(a, 1, Len(b))
     /\ b # a
  \/ \E r \in S : r \notin {a[i] : i \in DOMAIN a} /\ b = Append(a, r)

\* A sequence that is always a prefix of a fixed one without repetitions, and
\* grows by one element at most, is used as a stack.
LEMMA PrefixMoves ==
  ASSUME NEW S, NEW full \in Seq(S), Distinct(full),
         NEW m \in 0 .. Len(full), NEW n \in 0 .. Len(full), n <= m + 1
  PROVE  StacksUp(SubSeq(full, 1, m), SubSeq(full, 1, n), S)
<1> DEFINE a == SubSeq(full, 1, m)
           b == SubSeq(full, 1, n)
<1> SUFFICES StacksUp(a, b, S)
  OBVIOUS
<1>1. Len(full) \in Nat
  BY LenProperties
<1>2. a \in Seq(S) /\ Len(a) = m /\ \A i \in 1 .. m : a[i] = full[i]
  BY PrefixProperties
<1>3. b \in Seq(S) /\ Len(b) = n /\ \A i \in 1 .. n : b[i] = full[i]
  BY PrefixProperties
<1> HIDE DEF a, b
<1>4. CASE n = m
  BY <1>4 DEF a, b, StacksUp
<1>5. CASE n = m + 1
  <2>1. n \in 1 .. Len(full) /\ m \in 0 .. Len(full) /\ m < Len(full)
    BY <1>1, <1>5
  <2>2. full[m + 1] \in S
    BY <2>1, <1>5, ElementOfSeq
  <2>3. b = Append(a, full[m + 1])
    BY <2>1, <1>5, PrefixGrows DEF a, b
  <2>4. DOMAIN a = 1 .. m
    BY <1>2, LenProperties
  <2>5. full[m + 1] \notin {a[i] : i \in DOMAIN a}
    BY <1>1, <1>2, <1>5, <2>1, <2>4 DEF Distinct
  <2> QED
    BY <2>2, <2>3, <2>5 DEF StacksUp
<1>6. CASE n < m
  <2>1. n \in 0 .. Len(a) /\ n \in 0 .. Len(b)
    BY <1>1, <1>2, <1>3, <1>6
  <2>2. /\ SubSeq(b, 1, n) \in Seq(S) /\ Len(SubSeq(b, 1, n)) = n
        /\ \A i \in 1 .. n : SubSeq(b, 1, n)[i] = b[i]
    BY <1>3, <2>1, PrefixProperties
  <2>3. /\ SubSeq(a, 1, n) \in Seq(S) /\ Len(SubSeq(a, 1, n)) = n
        /\ \A i \in 1 .. n : SubSeq(a, 1, n)[i] = a[i]
    BY <1>2, <2>1, PrefixProperties
  <2> DEFINE c == SubSeq(b, 1, n)
             d == SubSeq(a, 1, n)
  <2> HIDE DEF c, d
  <2>4. c \in Seq(S) /\ d \in Seq(S) /\ Len(c) = n /\ Len(d) = n
        /\ \A i \in 1 .. n : c[i] = d[i]
    BY <1>1, <1>2, <1>3, <1>6, <2>2, <2>3 DEF c, d
  <2>5. c = d
    BY <2>4, SeqEqual
  <2> QED
    BY <1>1, <1>2, <1>3, <1>6, <2>5 DEF c, d, StacksUp
<1> QED
  BY <1>1, <1>4, <1>5, <1>6
=============================================================================
