---------------------------- MODULE VectorProofs ----------------------------
(***************************************************************************)
(* What the servers do to their vectors: of sessions, whose elements are   *)
(* distinct (push_back, erase of one element), and of messages, from which *)
(* QUIT erases the marked ones.                                            *)
(***************************************************************************)
EXTENDS Erasing, SequencesExt, FiniteSetTheorems, SequenceTheorems, TLAPS

(***************************************************************************)
(* Sequences without repetition, as the vector of sessions and the queue   *)
(* of the kernel are.                                                      *)
(***************************************************************************)

\* The elements of a sequence.
LEMMA Elements ==
    ASSUME NEW S, NEW s \in Seq(S)
    PROVE  /\ ToSet(s) \subseteq S
           /\ \A e : e \in ToSet(s) <=> \E i \in 1 .. Len(s) : s[i] = e
           /\ IsInjective(s) <=> \A i, j \in 1 .. Len(s) : s[i] = s[j] => i = j
<1>1. DOMAIN s = 1 .. Len(s)
  OBVIOUS
<1>2. \A i \in 1 .. Len(s) : s[i] \in S
  OBVIOUS
<1> QED
  BY <1>1, <1>2 DEF ToSet, IsInjective

\* Append adds its element, and repeats none if it is new.
LEMMA AppendAdds ==
    ASSUME NEW S, NEW s \in Seq(S), NEW e \in S
    PROVE  /\ Append(s, e) \in Seq(S) /\ Len(Append(s, e)) = Len(s) + 1
           /\ Append(s, e) # <<>>
           /\ \A i \in 1 .. Len(s) : Append(s, e)[i] = s[i]
           /\ ToSet(Append(s, e)) = ToSet(s) \cup {e}
           /\ IsInjective(s) /\ e \notin ToSet(s) => IsInjective(Append(s, e))
<1> DEFINE t == Append(s, e)
<1>1. t \in Seq(S) /\ Len(t) = Len(s) + 1 /\ Len(s) \in Nat /\ t # <<>>
  BY AppendProperties, EmptySeq
<1>2. \A i \in 1 .. Len(t) : t[i] = IF i = Len(s) + 1 THEN e ELSE s[i]
  BY <1>1, AppendProperties
<1> HIDE DEF t
<1>3. ToSet(t) = ToSet(s) \cup {e}
  BY <1>1, <1>2, Elements
<1>4. IsInjective(s) /\ e \notin ToSet(s) => IsInjective(t)
  BY <1>1, <1>2, Elements
<1>5. \A i \in 1 .. Len(s) : t[i] = s[i]
  BY <1>1, <1>2
<1> QED
  BY <1>1, <1>3, <1>4, <1>5 DEF t

\* Head is taken away by Tail.
LEMMA TailTakes ==
    ASSUME NEW S, NEW s \in Seq(S), s # <<>>, IsInjective(s)
    PROVE  /\ Head(s) \in S /\ Tail(s) \in Seq(S)
           /\ Head(s) \in ToSet(s)
           /\ ToSet(Tail(s)) = ToSet(s) \ {Head(s)}
           /\ IsInjective(Tail(s))
<1> DEFINE t == Tail(s)
<1>1. t \in Seq(S) /\ Len(t) = Len(s) - 1 /\ Len(s) >= 1 /\ Head(s) = s[1] /\ Head(s) \in S
  OBVIOUS
<1>2. \A i \in 1 .. Len(t) : t[i] = s[i + 1]
  OBVIOUS
<1> HIDE DEF t
<1>3. Head(s) \in ToSet(s)
  BY <1>1, Elements
<1>4. IsInjective(t)
  BY <1>1, <1>2, Elements
<1>5. ASSUME NEW e \in ToSet(s), e # Head(s) PROVE e \in ToSet(t)
  <2>1. PICK i \in 1 .. Len(s) : s[i] = e
    BY Elements
  <2>2. i - 1 \in 1 .. Len(t) /\ t[i - 1] = e
    BY <1>1, <1>2, <1>5, <2>1
  <2> QED
    BY <1>1, <2>2, Elements
<1>6. ASSUME NEW e \in ToSet(t) PROVE e \in ToSet(s) /\ e # Head(s)
  <2>1. PICK i \in 1 .. Len(t) : t[i] = e
    BY <1>1, Elements
  <2>2. i + 1 \in 1 .. Len(s) /\ s[i + 1] = e /\ i + 1 # 1 /\ 1 \in 1 .. Len(s)
    BY <1>1, <1>2, <2>1
  <2> QED
    BY <1>1, <2>2, Elements
<1> QED
  BY <1>1, <1>3, <1>4, <1>5, <1>6 DEF t

\* RemoveAt takes one element away; those behind it move up by one.
LEMMA RemoveTakes ==
    ASSUME NEW S, NEW s \in Seq(S), NEW i \in 1 .. Len(s), IsInjective(s)
    PROVE  /\ RemoveAt(s, i) \in Seq(S) /\ Len(RemoveAt(s, i)) = Len(s) - 1
           /\ \A j \in 1 .. Len(s) - 1 : RemoveAt(s, i)[j] = IF j < i THEN s[j] ELSE s[j + 1]
           /\ ToSet(RemoveAt(s, i)) = ToSet(s) \ {s[i]}
           /\ IsInjective(RemoveAt(s, i))
<1> DEFINE t == RemoveAt(s, i)
<1> DEFINE a == SubSeq(s, 1, i - 1)
           b == SubSeq(s, i + 1, Len(s))
<1>0. Len(s) \in Nat /\ \A k \in 1 .. Len(s) : s[k] \in S
  OBVIOUS
<1>a. a \in Seq(S) /\ Len(a) = i - 1 /\ \A j \in 1 .. i - 1 : a[j] = s[j]
  BY <1>0, SubSeqProperties
<1>b. b \in Seq(S) /\ Len(b) = Len(s) - i /\ \A j \in 1 .. Len(s) - i : b[j] = s[i + j]
  BY <1>0, SubSeqProperties
<1> HIDE DEF a, b
<1>c. t = a \o b
  BY DEF RemoveAt, a, b
<1>1. t \in Seq(S) /\ Len(t) = Len(s) - 1
  BY <1>0, <1>a, <1>b, <1>c, ConcatProperties
<1>2. \A j \in 1 .. Len(t) : t[j] = IF j < i THEN s[j] ELSE s[j + 1]
  <2> SUFFICES ASSUME NEW j \in 1 .. Len(t) PROVE t[j] = IF j < i THEN s[j] ELSE s[j + 1]
    OBVIOUS
  <2>1. t[j] = IF j <= Len(a) THEN a[j] ELSE b[j - Len(a)]
    BY <1>0, <1>1, <1>a, <1>b, <1>c, ConcatProperties
  <2>2. CASE j < i
    BY <1>0, <1>1, <1>a, <2>1, <2>2
  <2>3. CASE j >= i
    <3>1. j - (i - 1) \in 1 .. Len(s) - i /\ i + (j - (i - 1)) = j + 1
      BY <1>0, <1>1, <2>3
    <3> QED
      BY <1>a, <1>b, <2>1, <2>3, <3>1
  <2> QED
    BY <2>2, <2>3, <1>1
<1> HIDE DEF t
<1>3. IsInjective(t)
  <2>1. \A j \in 1 .. Len(t) : j \in 1 .. Len(s) /\ j + 1 \in 1 .. Len(s)
    BY <1>0, <1>1
  <2>2. \A j, k \in 1 .. Len(s) : s[j] = s[k] => j = k
    BY Elements
  <2> DEFINE from(j) == IF j < i THEN j ELSE j + 1
  <2>3. \A j \in 1 .. Len(t) : from(j) \in 1 .. Len(s) /\ t[j] = s[from(j)]
    BY <1>2, <2>1
  <2>4. \A j, k \in 1 .. Len(t) : from(j) = from(k) => j = k
    OBVIOUS
  <2> HIDE DEF from
  <2>5. \A j, k \in 1 .. Len(t) : t[j] = t[k] => j = k
    BY <2>2, <2>3, <2>4
  <2> QED
    BY <1>1, <2>5, Elements
<1>4. ASSUME NEW e \in ToSet(s), e # s[i] PROVE e \in ToSet(t)
  <2>1. PICK k \in 1 .. Len(s) : s[k] = e
    BY Elements
  <2>2. CASE k < i
    BY <1>1, <1>2, <2>1, <2>2, Elements
  <2>3. CASE k > i
    <3>1. k - 1 \in 1 .. Len(t) /\ t[k - 1] = e
      BY <1>1, <1>2, <2>1, <2>3
    <3> QED
      BY <1>1, <3>1, Elements
  <2> QED
    BY <1>4, <2>1, <2>2, <2>3
<1>5. ASSUME NEW e \in ToSet(t) PROVE e \in ToSet(s) /\ e # s[i]
  <2>1. PICK j \in 1 .. Len(t) : t[j] = e
    BY <1>1, Elements
  <2>2. PICK k \in 1 .. Len(s) : s[k] = e /\ k # i
    BY <1>1, <1>2, <2>1
  <2> QED
    BY <2>2, Elements
<1> QED
  BY <1>1, <1>2, <1>3, <1>4, <1>5 DEF t

-----------------------------------------------------------------------------
(***************************************************************************)
(* Enumerate(K) lists a finite set of naturals in increasing order: Rank   *)
(* is an injection of K into 1 .. Cardinality(K), hence a surjection.      *)
(***************************************************************************)
LEMMA RankBounds ==
    ASSUME NEW K \in SUBSET Nat, IsFiniteSet(K), NEW i \in K
    PROVE  Rank(K, i) \in 1 .. Cardinality(K)
<1> DEFINE below == {j \in K : j <= i}
<1>1. below \in SUBSET K
  OBVIOUS
<1>2. IsFiniteSet(below) /\ Cardinality(below) <= Cardinality(K)
  BY <1>1, FS_Subset
<1>3. Cardinality(below) \in Nat /\ Cardinality(K) \in Nat
  BY <1>2, FS_CardinalityType
<1>4. below # {}
  <2>1. i \in below
    OBVIOUS
  <2> QED
    BY <2>1
<1>5. Cardinality(below) # 0
  BY <1>2, <1>4, FS_EmptySet
<1> QED
  BY <1>2, <1>3, <1>5 DEF Rank

\* A larger member has a larger rank, so ranks are distinct.
LEMMA RankMonotone ==
    ASSUME NEW K \in SUBSET Nat, IsFiniteSet(K), NEW i \in K, NEW j \in K, i < j
    PROVE  Rank(K, i) < Rank(K, j)
<1> DEFINE upto(x) == {k \in K : k <= x}
<1>1. upto(i) \in SUBSET upto(j) /\ upto(j) \in SUBSET K
  <2>1. \A k \in K : k \in Nat /\ (k <= i => k <= j)
    OBVIOUS
  <2> QED
    BY <2>1
<1>2. upto(i) # upto(j)
  <2>1. j \in upto(j) /\ j \notin upto(i)
    OBVIOUS
  <2> QED
    BY <2>1
<1>3. IsFiniteSet(upto(j))
  BY <1>1, FS_Subset
<1>4. IsFiniteSet(upto(i)) /\ Cardinality(upto(i)) <= Cardinality(upto(j))
      /\ Cardinality(upto(i)) # Cardinality(upto(j))
  BY <1>1, <1>2, <1>3, FS_Subset
<1>5. Cardinality(upto(i)) \in Nat /\ Cardinality(upto(j)) \in Nat
  BY <1>3, <1>4, FS_CardinalityType
<1> QED
  BY <1>4, <1>5 DEF Rank

\* Every number up to the size of the set is the rank of a member.
LEMMA RankSurjective ==
    ASSUME NEW K \in SUBSET Nat, IsFiniteSet(K), NEW n \in 1 .. Cardinality(K)
    PROVE  \E i \in K : Rank(K, i) = n
<1> DEFINE T == 1 .. Cardinality(K)
           f == [i \in K |-> Rank(K, i)]
<1>1. Cardinality(K) \in Nat
  BY FS_CardinalityType
<1>2. f \in [K -> T]
  BY RankBounds
<1>3. \A i, j \in K : f[i] = f[j] => i = j
  <2> SUFFICES ASSUME NEW i \in K, NEW j \in K, i # j
               PROVE  Rank(K, i) # Rank(K, j)
    OBVIOUS
  <2>1. i < j \/ j < i
    OBVIOUS
  <2>2. Rank(K, i) \in Nat /\ Rank(K, j) \in Nat
    BY <1>1, RankBounds
  <2>3. CASE i < j
    BY <2>2, <2>3, RankMonotone
  <2>4. CASE j < i
    BY <2>2, <2>4, RankMonotone
  <2> QED
    BY <2>1, <2>3, <2>4
<1>4. f \in Injection(K, T)
  BY <1>2, <1>3 DEF Injection, IsInjective
<1>5. IsFiniteSet(T) /\ Cardinality(T) = Cardinality(K)
  BY <1>1, FS_Interval
<1>6. f \in Surjection(K, T)
  BY <1>4, <1>5, FS_Injection
<1> QED
  BY <1>6 DEF Surjection

\* Enumerate(K) lists the members of K, each of them once.
LEMMA EnumerateProperties ==
    ASSUME NEW K \in SUBSET Nat, IsFiniteSet(K)
    PROVE  /\ Enumerate(K) \in [1 .. Cardinality(K) -> K]
           /\ \A i \in K : \E n \in 1 .. Cardinality(K) : Enumerate(K)[n] = i
           /\ \A m, n \in 1 .. Cardinality(K) : m < n => Enumerate(K)[m] < Enumerate(K)[n]
<1>0. Cardinality(K) \in Nat
  BY FS_CardinalityType
<1>1. \A n \in 1 .. Cardinality(K) : Enumerate(K)[n] \in K /\ Rank(K, Enumerate(K)[n]) = n
  BY RankSurjective DEF Enumerate
<1>2. Enumerate(K) \in [1 .. Cardinality(K) -> K]
  BY <1>1 DEF Enumerate
<1>3. ASSUME NEW i \in K
      PROVE  \E n \in 1 .. Cardinality(K) : Enumerate(K)[n] = i
  <2> DEFINE n == Rank(K, i)
             j == Enumerate(K)[n]
  <2>1. n \in 1 .. Cardinality(K)
    BY RankBounds
  <2>2. j \in K /\ Rank(K, j) = n
    BY <1>1, <2>1
  <2> HIDE DEF j
  <2>3. ~(i < j) /\ ~(j < i)
    <3>1. ASSUME i < j PROVE FALSE
      <4>1. Rank(K, i) < Rank(K, j)
        BY <2>2, <3>1, RankMonotone
      <4> QED
        BY <4>1, <2>1, <2>2, <1>0
    <3>2. ASSUME j < i PROVE FALSE
      <4>1. Rank(K, j) < Rank(K, i)
        BY <2>2, <3>2, RankMonotone
      <4> QED
        BY <4>1, <2>1, <2>2, <1>0
    <3> QED
      BY <3>1, <3>2
  <2>4. i \in Nat /\ j \in Nat
    BY <2>2
  <2>5. i = j
    BY <2>3, <2>4
  <2> QED
    BY <2>1, <2>5 DEF j
<1>4. ASSUME NEW m \in 1 .. Cardinality(K), NEW n \in 1 .. Cardinality(K), m < n
      PROVE  Enumerate(K)[m] < Enumerate(K)[n]
  <2> DEFINE i == Enumerate(K)[m]
             j == Enumerate(K)[n]
  <2>1. i \in K /\ j \in K /\ Rank(K, i) = m /\ Rank(K, j) = n
    BY <1>1
  <2> HIDE DEF i, j
  <2>2. i # j
    BY <2>1, <1>4, <1>0
  <2>3. ASSUME j < i PROVE FALSE
    <3>1. Rank(K, j) < Rank(K, i)
      BY <2>1, <2>3, RankMonotone
    <3> QED
      BY <3>1, <2>1, <1>4, <1>0
  <2>4. i \in Nat /\ j \in Nat
    BY <2>1
  <2>5. i < j
    BY <2>2, <2>3, <2>4
  <2> QED
    BY <2>5 DEF i, j
<1> QED
  BY <1>2, <1>3, <1>4

-----------------------------------------------------------------------------
(***************************************************************************)
(* Kept(s) is made of the unmarked messages of s and of all of them.       *)
(***************************************************************************)
LEMMA UnmarkedFinite ==
    ASSUME NEW S, NEW s \in Seq(S)
    PROVE  /\ Unmarked(s) \in SUBSET Nat
           /\ Unmarked(s) \subseteq 1 .. Len(s)
           /\ IsFiniteSet(Unmarked(s))
           /\ Cardinality(Unmarked(s)) \in 0 .. Len(s)
<1>1. Len(s) \in Nat
  OBVIOUS
<1>2. Unmarked(s) \in SUBSET (1 .. Len(s)) /\ Unmarked(s) \in SUBSET Nat
  BY <1>1 DEF Unmarked
<1>3. IsFiniteSet(1 .. Len(s)) /\ Cardinality(1 .. Len(s)) = Len(s)
  BY <1>1, FS_Interval
<1>4. IsFiniteSet(Unmarked(s)) /\ Cardinality(Unmarked(s)) <= Len(s)
  BY <1>2, <1>3, FS_Subset
<1>5. Cardinality(Unmarked(s)) \in Nat
  BY <1>4, FS_CardinalityType
<1> QED
  BY <1>1, <1>2, <1>4, <1>5

\* What updatemailbox keeps: the unmarked messages, and all of them.
LEMMA KeptProperties ==
    ASSUME NEW S, NEW s \in Seq(S)
    PROVE  /\ Kept(s) \in Seq(S)
           /\ Len(Kept(s)) \in Nat
           /\ Len(Kept(s)) <= Len(s)
           /\ \A n \in DOMAIN Kept(s) : \E i \in Unmarked(s) : Kept(s)[n] = s[i]
           /\ \A i \in Unmarked(s) : \E n \in DOMAIN Kept(s) : Kept(s)[n] = s[i]
           /\ \A n \in DOMAIN Kept(s) : ~Kept(s)[n].del
<1> DEFINE K == Unmarked(s)
           c == Cardinality(K)
<1>1. K \in SUBSET Nat /\ K \subseteq 1 .. Len(s) /\ IsFiniteSet(K) /\ c \in 0 .. Len(s)
  BY UnmarkedFinite
<1>2. /\ Enumerate(K) \in [1 .. c -> K]
      /\ \A i \in K : \E n \in 1 .. c : Enumerate(K)[n] = i
  BY <1>1, EnumerateProperties
<1>3. \A i \in K : s[i] \in S /\ ~s[i].del
  BY <1>1 DEF Unmarked
<1>4. Kept(s) = [n \in 1 .. c |-> s[Enumerate(K)[n]]]
  BY DEF Kept
<1> HIDE DEF K, c
<1>5. c \in Nat /\ Len(s) \in Nat /\ c <= Len(s)
  BY <1>1
<1>6. \A n \in 1 .. c : Enumerate(K)[n] \in K
  BY <1>2
<1>7. Kept(s) \in [1 .. c -> S]
  BY <1>3, <1>4, <1>6
<1>8. Kept(s) \in Seq(S) /\ Len(Kept(s)) = c /\ DOMAIN Kept(s) = 1 .. c
  BY <1>5, <1>7
<1>9. \A n \in 1 .. c : Kept(s)[n] = s[Enumerate(K)[n]]
  BY <1>4
<1> QED
  BY <1>2, <1>3, <1>5, <1>6, <1>8, <1>9 DEF K

\* Kept(s) lists the unmarked messages in their order.
LEMMA KeptOrder ==
    ASSUME NEW S, NEW s \in Seq(S)
    PROVE  \E place \in [DOMAIN Kept(s) -> Unmarked(s)] :
              /\ \A k \in Unmarked(s) : \E n \in DOMAIN Kept(s) : place[n] = k
              /\ \A m, n \in DOMAIN Kept(s) : m < n => place[m] < place[n]
              /\ \A n \in DOMAIN Kept(s) : Kept(s)[n] = s[place[n]]
<1> DEFINE K == Unmarked(s)
           c == Cardinality(K)
           e == Enumerate(K)
<1>1. K \in SUBSET Nat /\ IsFiniteSet(K)
  BY UnmarkedFinite
<1>2. /\ e \in [1 .. c -> K]
      /\ \A i \in K : \E n \in 1 .. c : e[n] = i
      /\ \A m, n \in 1 .. c : m < n => e[m] < e[n]
  BY <1>1, EnumerateProperties
<1>3. Kept(s) = [n \in 1 .. c |-> s[e[n]]]
  BY DEF Kept
<1> HIDE DEF K, c, e
<1>4. DOMAIN Kept(s) = 1 .. c /\ \A n \in 1 .. c : Kept(s)[n] = s[e[n]]
  BY <1>3
<1> QED
  BY <1>2, <1>4 DEF K

\* The numbers up to n are n numbers.
LEMMA UpTo == ASSUME NEW n \in Nat PROVE IsFiniteSet(1 .. n) /\ Cardinality(1 .. n) = n
  BY FS_Interval

\* Where nothing is marked, everything is kept.
LEMMA KeptAll ==
    ASSUME NEW S, NEW s \in Seq(S), \A i \in DOMAIN s : ~s[i].del
    PROVE  Kept(s) = s
<1> DEFINE K == 1 .. Len(s)
<1>1. Len(s) \in Nat /\ DOMAIN s = K
  OBVIOUS
<1>2. Unmarked(s) = K
  BY <1>1 DEF Unmarked
<1>3. K \in SUBSET Nat /\ IsFiniteSet(K) /\ Cardinality(K) = Len(s)
  BY <1>1, UpTo
<1>4. \A i \in K : Rank(K, i) = i
  <2> TAKE i \in K
  <2>1. {j \in K : j <= i} = 1 .. i
    BY <1>1
  <2>2. Cardinality(1 .. i) = i
    BY <1>1, UpTo
  <2> QED
    BY <2>1, <2>2 DEF Rank
<1>5. \A n \in K : Enumerate(K)[n] = n
  BY <1>3, <1>4 DEF Enumerate
<1>6. Kept(s) = [n \in K |-> s[n]]
  BY <1>2, <1>3, <1>5 DEF Kept
<1> QED
  BY <1>1, <1>6

-----------------------------------------------------------------------------
(***************************************************************************)
(* Mailboxes as sets: the texts st of the messages, and those of the       *)
(* marked ones.  Where no two messages have the same text, the sets tell   *)
(* what marking and erasing do to the sequence.                            *)
(***************************************************************************)
AllTexts(s) == {s[i].st : i \in DOMAIN s}
DelTexts(s) == {s[i].st : i \in {j \in DOMAIN s : s[j].del}}
Distinct(s) == \A i, j \in DOMAIN s : s[i].st = s[j].st => i = j

\* Marking message k adds its text to the marked ones.
LEMMA MarkTexts ==
    ASSUME NEW s, NEW t, NEW k \in DOMAIN s, DOMAIN t = DOMAIN s,
           \A i \in DOMAIN s : t[i].st = s[i].st,
           t[k].del, \A i \in DOMAIN s : i # k => t[i].del = s[i].del
    PROVE  /\ AllTexts(t) = AllTexts(s)
           /\ DelTexts(t) = DelTexts(s) \cup {s[k].st}
           /\ Distinct(s) => Distinct(t)
<1>1. AllTexts(t) = AllTexts(s) /\ (Distinct(s) => Distinct(t))
  BY DEF AllTexts, Distinct
<1>2. {j \in DOMAIN t : t[j].del} = {j \in DOMAIN s : s[j].del} \cup {k}
  OBVIOUS
<1>3. DelTexts(t) = DelTexts(s) \cup {s[k].st}
  BY <1>2 DEF DelTexts
<1> QED
  BY <1>1, <1>3

\* Taking every mark away leaves the texts as they are.
LEMMA UnmarkTexts ==
    ASSUME NEW s, NEW t, DOMAIN t = DOMAIN s,
           \A i \in DOMAIN s : t[i].st = s[i].st /\ ~t[i].del
    PROVE  /\ AllTexts(t) = AllTexts(s)
           /\ DelTexts(t) = {}
           /\ Distinct(s) => Distinct(t)
  BY DEF AllTexts, DelTexts, Distinct

\* Erasing takes exactly the marked texts away.
LEMMA KeptTexts ==
    ASSUME NEW S, NEW s \in Seq(S), Distinct(s)
    PROVE  /\ AllTexts(Kept(s)) = AllTexts(s) \ DelTexts(s)
           /\ DelTexts(Kept(s)) = {}
           /\ Distinct(Kept(s))
<1> DEFINE t == Kept(s)
<1>1. PICK place \in [DOMAIN t -> Unmarked(s)] :
              /\ \A k \in Unmarked(s) : \E n \in DOMAIN t : place[n] = k
              /\ \A m, n \in DOMAIN t : m < n => place[m] < place[n]
              /\ \A n \in DOMAIN t : t[n] = s[place[n]]
  BY KeptOrder
<1>2. \A i : i \in Unmarked(s) <=> i \in DOMAIN s /\ ~s[i].del
  BY DEF Unmarked
<1>3. t \in Seq(S) /\ \A n \in DOMAIN t : n \in Nat
  BY KeptProperties
<1>4. \A k \in DOMAIN s : k \in Nat
  OBVIOUS
<1> HIDE DEF t
<1>5. \A n \in DOMAIN t : /\ place[n] \in DOMAIN s /\ place[n] \in Nat
                        /\ ~s[place[n]].del /\ t[n].st = s[place[n]].st /\ ~t[n].del
  BY <1>1, <1>2, <1>4
<1>6. Distinct(t)
  <2> SUFFICES ASSUME NEW m \in DOMAIN t, NEW n \in DOMAIN t, t[m].st = t[n].st
               PROVE  m = n
    BY DEF Distinct
  <2>1. place[m] = place[n] /\ place[m] \in Nat
    BY <1>5 DEF Distinct
  <2>2. ~(m < n) /\ ~(n < m)
    BY <1>1, <2>1
  <2> QED
    BY <1>3, <2>2
<1>7. DelTexts(t) = {}
  BY <1>5 DEF DelTexts
<1>8. ASSUME NEW x \in AllTexts(t) PROVE x \in AllTexts(s) \ DelTexts(s)
  <2>1. PICK n \in DOMAIN t : x = t[n].st
    BY DEF AllTexts
  <2>2. place[n] \in DOMAIN s /\ ~s[place[n]].del /\ x = s[place[n]].st
    BY <1>5, <2>1
  <2> QED
    BY <2>2 DEF AllTexts, DelTexts, Distinct
<1>9. ASSUME NEW x \in AllTexts(s) \ DelTexts(s) PROVE x \in AllTexts(t)
  <2>1. PICK i \in DOMAIN s : x = s[i].st
    BY DEF AllTexts
  <2>2. i \in Unmarked(s)
    BY <1>2, <1>9, <2>1 DEF DelTexts
  <2>3. PICK n \in DOMAIN t : place[n] = i
    BY <1>1, <2>2
  <2> QED
    BY <1>5, <2>1, <2>3 DEF AllTexts
<1> QED
  BY <1>6, <1>7, <1>8, <1>9 DEF t

(***************************************************************************)
(* Sequences in general.                                                   *)
(***************************************************************************)

\* A sequence in two: what send() takes of a buffer, and what it leaves.
LEMMA Cut ==
    ASSUME NEW S, NEW d \in Seq(S), NEW k \in 0 .. Len(d)
    PROVE  /\ SubSeq(d, k + 1, Len(d)) \in Seq(S) /\ Len(SubSeq(d, k + 1, Len(d))) = Len(d) - k
           /\ \A i \in 1 .. Len(d) - k : SubSeq(d, k + 1, Len(d))[i] = d[k + i]
           /\ SubSeq(d, 1, k) \in Seq(S) /\ Len(SubSeq(d, 1, k)) = k
           /\ \A i \in 1 .. k : SubSeq(d, 1, k)[i] = d[i]
<1>1. Len(d) \in Nat
  OBVIOUS
<1> PICK l \in Nat : l = Len(d)
  BY <1>1
<1>2. CASE k = l
  BY <1>2, SubSeqEmpty, SubSeqProperties
<1>3. CASE k < l
  BY <1>3, SubSeqProperties
<1> QED
  BY <1>2, <1>3

\* Sequences one after the other.
LEMMA Joined ==
    ASSUME NEW S, NEW s \in Seq(S), NEW t \in Seq(S)
    PROVE  /\ s \o t \in Seq(S) /\ Len(s \o t) = Len(s) + Len(t)
           /\ \A i \in 1 .. Len(s) : (s \o t)[i] = s[i]
           /\ \A i \in Len(s) + 1 .. Len(s) + Len(t) : (s \o t)[i] = t[i - Len(s)]
  BY ConcatProperties

\* Sequences of one element.
LEMMA One ==
    ASSUME NEW S, NEW e \in S
    PROVE  <<e>> \in Seq(S) /\ Len(<<e>>) = 1 /\ <<e>> # <<>> /\ Head(<<e>>) = e
<1>1. <<e>> \in Seq(S) /\ Len(<<e>>) = 1
  OBVIOUS
<1>2. <<e>>[1] = e
  OBVIOUS
<1>3. Head(<<e>>) = <<e>>[1]
  BY <1>1, HeadTailProperties, SMT
<1> QED
  BY <1>1, <1>2, <1>3
=============================================================================
