--------------------------- MODULE SequenceLemmas ---------------------------
(***************************************************************************)
(* What the sequence operators used by the models return: removal of one    *)
(* element, of the first and of the last one, and the size of a sequence    *)
(* without duplicates; and of numbers, that a finite set has a greatest one  *)
(* and induction.                                                           *)
(***************************************************************************)
EXTENDS Integers, Sequences, SequencesExt, FiniteSets, FiniteSetTheorems,
        FunctionTheorems, SequenceTheorems, TLAPS

\* Unlinking the i-th element keeps the others in place and in order.
LEMMA RemoveAtProperties ==
    ASSUME NEW S, NEW seq \in Seq(S), NEW i \in 1..Len(seq)
    PROVE  /\ RemoveAt(seq, i) \in Seq(S)
           /\ Len(RemoveAt(seq, i)) = Len(seq) - 1
           /\ \A j \in 1..(Len(seq) - 1) :
                 RemoveAt(seq, i)[j] = IF j < i THEN seq[j] ELSE seq[j + 1]
<1> DEFINE below == SubSeq(seq, 1, i - 1)
           above == SubSeq(seq, i + 1, Len(seq))
<1>1. /\ below \in Seq(S)
      /\ Len(below) = i - 1
      /\ \A j \in 1..(i - 1) : below[j] = seq[j]
    OBVIOUS
<1>2. /\ above \in Seq(S)
      /\ Len(above) = Len(seq) - i
      /\ \A j \in 1..(Len(seq) - i) : above[j] = seq[i + j]
  <2>1. \A j \in (i + 1)..Len(seq) : seq[j] \in S
    OBVIOUS
  <2>2. QED
    BY <2>1, SubSeqProperties
<1> HIDE DEF below, above
<1>3. /\ below \o above \in Seq(S)
      /\ Len(below \o above) = Len(seq) - 1
      /\ \A j \in 1..(Len(seq) - 1) :
            (below \o above)[j] = IF j < i THEN seq[j] ELSE seq[j + 1]
  <2>1. /\ below \o above \in Seq(S)
        /\ Len(below \o above) = Len(below) + Len(above)
        /\ \A j \in 1..(Len(below) + Len(above)) :
              (below \o above)[j] = IF j <= Len(below) THEN below[j]
                                    ELSE above[j - Len(below)]
    BY <1>1, <1>2, ConcatProperties
  <2>2. ASSUME NEW j \in 1..(Len(seq) - 1)
        PROVE  (below \o above)[j] = IF j < i THEN seq[j] ELSE seq[j + 1]
    <3>1. CASE j < i
      BY <1>1, <1>2, <2>1, <3>1
    <3>2. CASE ~(j < i)
      <4>1. (below \o above)[j] = above[j - (i - 1)]
        BY <1>1, <1>2, <2>1, <3>2
      <4>2. /\ j - (i - 1) \in 1..(Len(seq) - i)
            /\ i + (j - (i - 1)) = j + 1
        BY <3>2
      <4>3. QED
        BY <1>2, <3>2, <4>1, <4>2
    <3>3. QED
      BY <3>1, <3>2
  <2>3. QED
    BY <1>1, <1>2, <2>1, <2>2
<1>4. QED
    BY <1>3 DEF RemoveAt, below, above

\* Unlinking the last element.
LEMMA FrontProperties ==
    ASSUME NEW S, NEW seq \in Seq(S), seq # <<>>
    PROVE  /\ Front(seq) \in Seq(S)
           /\ Len(Front(seq)) = Len(seq) - 1
           /\ \A j \in 1..(Len(seq) - 1) : Front(seq)[j] = seq[j]
           /\ Last(seq) \in S
           /\ Len(seq) \in 1..Len(seq)
    BY DEF Front, Last

\* Unlinking from a sequence without duplicates takes exactly that element away.
LEMMA RemoveAtInjective ==
    ASSUME NEW S, NEW seq \in Seq(S), NEW i \in 1..Len(seq), IsInjective(seq)
    PROVE  /\ IsInjective(RemoveAt(seq, i))
           /\ Range(RemoveAt(seq, i)) = Range(seq) \ {seq[i]}
<1> DEFINE r == RemoveAt(seq, i)
<1>1. /\ r \in Seq(S)
      /\ Len(r) = Len(seq) - 1
      /\ \A j \in 1..Len(r) : r[j] = IF j < i THEN seq[j] ELSE seq[j + 1]
    BY RemoveAtProperties
<1> HIDE DEF r
<1>2. DOMAIN r = 1..Len(r) /\ DOMAIN seq = 1..Len(seq) /\ Len(seq) \in Nat
    BY <1>1
<1>3. \A a, b \in 1..Len(seq) : seq[a] = seq[b] => a = b
    BY <1>2 DEF IsInjective
<1>4. ASSUME NEW a \in 1..Len(r), NEW b \in 1..Len(r), r[a] = r[b]
      PROVE  a = b
    BY <1>1, <1>2, <1>3, <1>4
<1>5. ASSUME NEW j \in 1..Len(r)
      PROVE  r[j] \in Range(seq) /\ r[j] # seq[i]
  <2>1. \E k \in 1..Len(seq) : k # i /\ r[j] = seq[k]
    <3>1. CASE j < i
      BY <1>1, <1>2, <3>1
    <3>2. CASE ~(j < i)
      <4>1. j + 1 \in 1..Len(seq) /\ j + 1 # i /\ r[j] = seq[j + 1]
        BY <1>1, <1>2, <3>2
      <4>2. QED
        BY <4>1
    <3>3. QED
      BY <3>1, <3>2
  <2>2. QED
    BY <1>2, <1>3, <2>1 DEF Range
<1>6. ASSUME NEW k \in 1..Len(seq), seq[k] # seq[i]
      PROVE  \E j \in 1..Len(r) : r[j] = seq[k]
  <2>1. CASE k < i
    <3>1. k \in 1..Len(r) /\ r[k] = seq[k]
      BY <1>1, <1>2, <2>1
    <3>2. QED
      BY <3>1
  <2>2. CASE k > i
    <3>1. k - 1 \in 1..Len(r) /\ r[k - 1] = seq[k]
      <4>1. k - 1 \in 1..Len(r) /\ ~(k - 1 < i) /\ (k - 1) + 1 = k
        BY <1>1, <1>2, <2>2
      <4>2. QED
        BY <1>1, <4>1
    <3>2. QED
      BY <3>1
  <2>3. QED
    BY <1>2, <1>6, <2>1, <2>2
<1>7. IsInjective(r)
    BY <1>2, <1>4 DEF IsInjective
<1>8. Range(r) = Range(seq) \ {seq[i]}
  <2>1. Range(r) \subseteq Range(seq) \ {seq[i]}
    BY <1>2, <1>5 DEF Range
  <2>2. Range(seq) \ {seq[i]} \subseteq Range(r)
    BY <1>2, <1>6 DEF Range
  <2>3. QED
    BY <2>1, <2>2
<1>9. QED
    BY <1>7, <1>8 DEF r

\* Dropping the oldest element of a sequence without duplicates.
LEMMA TailInjective ==
    ASSUME NEW S, NEW seq \in Seq(S), seq # <<>>, IsInjective(seq)
    PROVE  /\ Tail(seq) \in Seq(S)
           /\ Len(Tail(seq)) = Len(seq) - 1
           /\ IsInjective(Tail(seq))
           /\ Head(seq) \in Range(seq)
           /\ Range(Tail(seq)) = Range(seq) \ {Head(seq)}
<1>1. 1 \in 1..Len(seq) /\ Head(seq) = seq[1]
    OBVIOUS
<1>2. /\ Tail(seq) \in Seq(S)
      /\ Len(Tail(seq)) = Len(seq) - 1
      /\ \A i \in 1..Len(Tail(seq)) : Tail(seq)[i] = seq[i + 1]
    BY HeadTailProperties
<1>3. Tail(seq) = RemoveAt(seq, 1)
  <2>1. /\ RemoveAt(seq, 1) \in Seq(S)
        /\ Len(RemoveAt(seq, 1)) = Len(seq) - 1
        /\ \A j \in 1..(Len(seq) - 1) : RemoveAt(seq, 1)[j] = seq[j + 1]
    BY <1>1, RemoveAtProperties
  <2>2. QED
    BY <1>2, <2>1, SeqEqual
<1>4. Head(seq) \in Range(seq)
    BY <1>1 DEF Range
<1>5. /\ IsInjective(RemoveAt(seq, 1))
      /\ Range(RemoveAt(seq, 1)) = Range(seq) \ {seq[1]}
    BY <1>1, RemoveAtInjective
<1>6. QED
    BY <1>1, <1>2, <1>3, <1>4, <1>5

\* Appending a new element to a sequence without duplicates.
LEMMA AppendInjectiveSeq ==
    ASSUME NEW S, NEW seq \in Seq(S), NEW e \in S, IsInjective(seq), e \notin Range(seq)
    PROVE  /\ Append(seq, e) \in Seq(S)
           /\ Len(Append(seq, e)) = Len(seq) + 1
           /\ IsInjective(Append(seq, e))
           /\ Range(Append(seq, e)) = Range(seq) \cup {e}
<1> DEFINE a == Append(seq, e)
<1>1. /\ a \in Seq(S)
      /\ Len(a) = Len(seq) + 1
      /\ \A i \in 1..Len(seq) : a[i] = seq[i]
      /\ a[Len(seq) + 1] = e
    BY AppendProperties
<1> HIDE DEF a
<1>2. DOMAIN a = 1..Len(a) /\ DOMAIN seq = 1..Len(seq) /\ Len(seq) \in Nat
    BY <1>1
<1>3. \A i \in 1..Len(seq) : seq[i] # e
    BY <1>2 DEF Range
<1>4. \A i \in 1..Len(a) : i \in 1..Len(seq) \/ i = Len(seq) + 1
    BY <1>1, <1>2
<1>5. \A i \in 1..Len(seq) : i \in 1..Len(a)
    BY <1>1, <1>2
<1>6. Len(seq) + 1 \in 1..Len(a)
    BY <1>1, <1>2
<1>7. IsInjective(a)
    BY <1>1, <1>2, <1>3, <1>4 DEF IsInjective
<1>8. Range(a) = Range(seq) \cup {e}
    BY <1>1, <1>2, <1>4, <1>5, <1>6 DEF Range
<1>9. QED
    BY <1>1, <1>7, <1>8 DEF a

\* A sequence without duplicates is as long as the set of its elements.
LEMMA InjectiveLen ==
    ASSUME NEW S, NEW seq \in Seq(S), IsInjective(seq)
    PROVE  /\ IsFiniteSet(Range(seq))
           /\ Cardinality(Range(seq)) = Len(seq)
<1>1. /\ Len(seq) \in Nat
      /\ seq \in [1..Len(seq) -> Range(seq)]
      /\ DOMAIN seq = 1..Len(seq)
    BY DEF Range
<1>2. seq \in Bijection(1..Len(seq), Range(seq))
  <2>1. \A a, b \in 1..Len(seq) : seq[a] = seq[b] => a = b
    BY <1>1 DEF IsInjective
  <2>2. \A t \in Range(seq) : \E a \in 1..Len(seq) : seq[a] = t
    BY <1>1 DEF Range
  <2>3. QED
    BY <1>1, <2>1, <2>2, Fun_IsBij
<1>3. ExistsBijection(1..Len(seq), Range(seq))
    BY <1>2 DEF ExistsBijection
<1>4. QED
    BY <1>1, <1>3, FS_NatBijection, FS_CountingElements

\* A set of numbers that is finite and not empty has a greatest element.  Of the
\* finite sets without one, a least one for inclusion would have one after all.
LEMMA Greatest ==
    ASSUME NEW S, IsFiniteSet(S), S \subseteq Int, S # {}
    PROVE  \E m \in S : \A x \in S : x <= m
<1> DEFINE HasGreatest(T) == \E m \in T : \A x \in T : x <= m
           Bad == {T \in FiniteSubsetsOf(S) : T # {} /\ ~HasGreatest(T)}
<1>1. SUFFICES ASSUME Bad # {} PROVE FALSE
    BY DEF FiniteSubsetsOf
<1>2. PICK T \in Bad : \A U \in Bad : <<U, T>> \notin StrictSubsetOrdering(S)
    BY <1>1, WFMin, FS_StrictSubsetOrderingWellFounded
<1>3. PICK e \in T : TRUE
    OBVIOUS
<1>4. PICK U : U = T \ {e}
    OBVIOUS
<1>5. T \in SUBSET S /\ IsFiniteSet(T) /\ IsFiniteSet(U) /\ e \in Int
    BY <1>4, FS_RemoveElement DEF FiniteSubsetsOf
<1>6. U = {} \/ HasGreatest(U)
    <2>1. U \in SUBSET S /\ U \in FiniteSubsetsOf(S)
        BY <1>4, <1>5 DEF FiniteSubsetsOf
    <2>2. <<U, T>> \in StrictSubsetOrdering(S)
        BY <1>3, <1>4, <1>5, <2>1 DEF StrictSubsetOrdering
    <2>3. U \notin Bad
        BY <1>2, <2>2
    <2>4. QED
        BY <2>1, <2>3
<1>7. HasGreatest(T)
    <2>1. CASE U = {}
        BY <1>4, <1>5, <2>1
    <2>2. CASE HasGreatest(U)
        <3>1. PICK m \in U : \A x \in U : x <= m
            BY <2>2
        <3>2. \A x \in T : x \in U \/ x = e
            BY <1>4
        <3>3. m \in T /\ m \in Int /\ \A x \in T : x \in Int
            BY <1>4, <1>5
        <3>4. CASE e <= m
            BY <3>1, <3>2, <3>3, <3>4
        <3>5. CASE ~(e <= m)
            <4>1. \A x \in T : x <= e
                BY <1>5, <3>1, <3>2, <3>3, <3>5
            <4>2. QED
                BY <4>1
        <3>6. QED
            BY <3>4, <3>5
    <2>3. QED
        BY <1>6, <2>1, <2>2
<1>8. QED
    BY <1>7

\* What CHOOSE takes for the greatest element of a set of numbers up to n is that.
LEMMA ChosenGreatest ==
    ASSUME NEW n \in Nat, NEW L \in SUBSET (0..n), L # {},
           NEW c, c = CHOOSE i \in L : \A j \in L : j <= i
    PROVE  c \in L /\ \A j \in L : j <= c
<1>1. L \subseteq Int /\ IsFiniteSet(0..n)
    BY FS_Interval
<1>2. IsFiniteSet(L)
    BY <1>1, FS_Subset
<1>3. \E m \in L : \A x \in L : x <= m
    BY <1>1, <1>2, Greatest
<1>4. QED
    BY <1>3

\* Induction over the numbers, for a set of them: the last number before a least one
\* outside of the set would be in it.
LEMMA Induction ==
    ASSUME NEW S, 0 \in S, \A n \in Nat : n \in S => n + 1 \in S
    PROVE  \A n \in Nat : n \in S
<1>1. SUFFICES ASSUME NEW m \in Nat, m \notin S PROVE FALSE
    OBVIOUS
<1>2. PICK T : T = {k \in 0..m : m - k \notin S}
    OBVIOUS
<1>3. 0 \in T /\ T \subseteq Int /\ T \subseteq 0..m
    BY <1>1, <1>2
<1>4. IsFiniteSet(T)
    <2>1. IsFiniteSet(0..m)
        BY FS_Interval
    <2>2. QED
        BY <1>3, <2>1, FS_Subset
<1>5. PICK g \in T : \A x \in T : x <= g
    BY <1>3, <1>4, Greatest
<1>6. g \in 0..m /\ m - g \notin S /\ m - g \in Nat /\ m - g # 0
    BY <1>2, <1>5
<1>7. g + 1 \in 0..m /\ m - (g + 1) \in Nat /\ m - (g + 1) + 1 = m - g
    BY <1>6
<1>8. m - (g + 1) \in S
    BY <1>2, <1>5, <1>6, <1>7
<1>9. QED
    BY <1>6, <1>7, <1>8

=============================================================================
