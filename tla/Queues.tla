------------------------------- MODULE Queues -------------------------------
(***************************************************************************)
(* Lemmas about queues of messages: the last message of a kind, when one   *)
(* is added at the end, the first is taken, or a batch is added.  A kind   *)
(* is the set of its messages.  And two lemmas about sets.                 *)
(***************************************************************************)
EXTENDS Integers, Sequences, FiniteSets, SequencesExt, SequenceTheorems,
        FiniteSetTheorems, WellFoundedInduction, TLAPS

NoneIn(s, Kind) == \A i \in DOMAIN s : s[i] \notin Kind

LastIs(s, Kind, m) ==
    \E i \in DOMAIN s : /\ s[i] = m /\ m \in Kind
                        /\ \A j \in DOMAIN s : j > i => s[j] \notin Kind

-----------------------------------------------------------------------------
LEMMA LastAppend ==
    ASSUME NEW S, NEW s \in Seq(S), NEW m \in S, NEW Kind
    PROVE  /\ m \in Kind => LastIs(Append(s, m), Kind, m)
           /\ m \notin Kind => /\ NoneIn(s, Kind) => NoneIn(Append(s, m), Kind)
                               /\ \A x : LastIs(s, Kind, x) =>
                                            LastIs(Append(s, m), Kind, x)
<1> DEFINE t == Append(s, m)
           n == Len(s) + 1
<1>1. /\ DOMAIN t = 1 .. n /\ DOMAIN s = 1 .. Len(s) /\ Len(s) \in Nat
      /\ \A i \in 1 .. Len(s) : t[i] = s[i]
      /\ t[n] = m
  BY AppendProperties, LenProperties
<1>2. n \in 1 .. n /\ \A i \in 1 .. n : (i \in 1 .. Len(s) \/ i = n) /\ ~(i > n)
  BY <1>1
<1>3. \A i \in 1 .. Len(s) : i \in 1 .. n
  BY <1>1
<1>. HIDE DEF t, n
<1>4. m \in Kind => LastIs(t, Kind, m)
  BY <1>1, <1>2 DEF LastIs
<1>5. ASSUME m \notin Kind, NoneIn(s, Kind)
      PROVE  NoneIn(t, Kind)
  BY <1>1, <1>2, <1>5 DEF NoneIn
<1>6. ASSUME m \notin Kind, NEW x, LastIs(s, Kind, x)
      PROVE  LastIs(t, Kind, x)
  <2>1. PICK i \in DOMAIN s : /\ s[i] = x /\ x \in Kind
                              /\ \A j \in DOMAIN s : j > i => s[j] \notin Kind
    BY <1>6 DEF LastIs
  <2>2. i \in DOMAIN t /\ t[i] = x
    BY <1>1, <1>3, <2>1
  <2>3. \A j \in DOMAIN t : j > i => t[j] \notin Kind
    BY <1>1, <1>2, <1>6, <2>1
  <2>. QED BY <2>1, <2>2, <2>3 DEF LastIs
<1>. QED BY <1>4, <1>5, <1>6 DEF t

LEMMA LastTail ==
    ASSUME NEW S, NEW s \in Seq(S), s # <<>>, NEW Kind
    PROVE  /\ NoneIn(s, Kind) => NoneIn(Tail(s), Kind)
           /\ \A x : LastIs(s, Kind, x) =>
                 \/ LastIs(Tail(s), Kind, x)
                 \/ Head(s) = x /\ NoneIn(Tail(s), Kind)
<1> DEFINE t == Tail(s)
           n == Len(s)
<1>1. /\ DOMAIN s = 1 .. n /\ n \in Nat \ {0} /\ Head(s) = s[1]
      /\ DOMAIN t = 1 .. (n - 1)
      /\ \A i \in 1 .. (n - 1) : t[i] = s[i + 1]
  BY HeadTailProperties, LenProperties, EmptySeq
<1>2. \A i \in 1 .. (n - 1) : i + 1 \in 1 .. n /\ i + 1 > 1
  BY <1>1
<1>3. \A i \in 1 .. n : i = 1 \/ (i - 1 \in 1 .. (n - 1) /\ (i - 1) + 1 = i)
  BY <1>1
<1>. HIDE DEF t, n
<1>4. NoneIn(s, Kind) => NoneIn(t, Kind)
  BY <1>1, <1>2 DEF NoneIn
<1>5. ASSUME NEW x, LastIs(s, Kind, x)
      PROVE  LastIs(t, Kind, x) \/ (Head(s) = x /\ NoneIn(t, Kind))
  <2>1. PICK i \in DOMAIN s : /\ s[i] = x /\ x \in Kind
                              /\ \A j \in DOMAIN s : j > i => s[j] \notin Kind
    BY <1>5 DEF LastIs
  <2>2. CASE i = 1
    BY <1>1, <1>2, <2>1, <2>2 DEF NoneIn
  <2>3. CASE i # 1
    <3>1. i - 1 \in DOMAIN t /\ t[i - 1] = x
      BY <1>1, <1>3, <2>1, <2>3
    <3>2. ASSUME NEW j \in DOMAIN t, j > i - 1
          PROVE  t[j] \notin Kind
      <4>1. j \in Nat /\ i \in Nat /\ j + 1 \in DOMAIN s /\ t[j] = s[j + 1]
        BY <1>1, <1>2
      <4>2. j + 1 > i
        BY <3>2, <4>1
      <4>. QED BY <2>1, <4>1, <4>2
    <3>. QED BY <2>1, <3>1, <3>2 DEF LastIs
  <2>. QED BY <2>2, <2>3
<1>. QED BY <1>4, <1>5 DEF t

LEMMA LastConcat ==
    ASSUME NEW S, NEW s \in Seq(S), NEW t \in Seq(S), NEW Kind
    PROVE  /\ \A x : LastIs(t, Kind, x) => LastIs(s \o t, Kind, x)
           /\ NoneIn(t, Kind) => /\ NoneIn(s, Kind) => NoneIn(s \o t, Kind)
                                 /\ \A x : LastIs(s, Kind, x) =>
                                              LastIs(s \o t, Kind, x)
<1> DEFINE u == s \o t
           n == Len(s)
           k == Len(t)
<1>1. /\ DOMAIN s = 1 .. n /\ DOMAIN t = 1 .. k /\ n \in Nat /\ k \in Nat
      /\ DOMAIN u = 1 .. (n + k)
      /\ \A i \in 1 .. (n + k) : u[i] = IF i <= n THEN s[i] ELSE t[i - n]
  BY ConcatProperties, LenProperties
<1>. HIDE DEF u, n, k
<1>2. \A i \in 1 .. n : i \in 1 .. (n + k) /\ u[i] = s[i]
  BY <1>1
<1>3. \A i \in 1 .. k : n + i \in 1 .. (n + k) /\ ~(n + i <= n) /\ (n + i) - n = i
  BY <1>1
<1>4. \A i \in 1 .. k : u[n + i] = t[i]
  BY <1>1, <1>3
<1>5. \A i \in 1 .. (n + k) :
         \/ i \in 1 .. n
         \/ i - n \in 1 .. k /\ ~(i <= n) /\ n + (i - n) = i
  BY <1>1
<1>6. ASSUME NEW x, LastIs(t, Kind, x)
      PROVE  LastIs(u, Kind, x)
  <2>1. PICK i \in DOMAIN t : /\ t[i] = x /\ x \in Kind
                              /\ \A j \in DOMAIN t : j > i => t[j] \notin Kind
    BY <1>6 DEF LastIs
  <2>2. n + i \in DOMAIN u /\ u[n + i] = x /\ i \in Nat
    BY <1>1, <1>3, <1>4, <2>1
  <2>3. ASSUME NEW j \in DOMAIN u, j > n + i
        PROVE  u[j] \notin Kind
    <3>1. j \in Nat /\ j - n > i /\ ~(j <= n)
      BY <1>1, <2>2, <2>3
    <3>2. j - n \in DOMAIN t /\ u[j] = t[j - n]
      BY <1>1, <1>5, <3>1
    <3>. QED BY <2>1, <3>1, <3>2
  <2>. QED BY <2>1, <2>2, <2>3 DEF LastIs
<1>7. ASSUME NoneIn(t, Kind), NoneIn(s, Kind)
      PROVE  NoneIn(u, Kind)
  BY <1>1, <1>2, <1>5, <1>7 DEF NoneIn
<1>8. ASSUME NoneIn(t, Kind), NEW x, LastIs(s, Kind, x)
      PROVE  LastIs(u, Kind, x)
  <2>1. PICK i \in DOMAIN s : /\ s[i] = x /\ x \in Kind
                              /\ \A j \in DOMAIN s : j > i => s[j] \notin Kind
    BY <1>8 DEF LastIs
  <2>2. i \in DOMAIN u /\ u[i] = x
    BY <1>1, <1>2, <2>1
  <2>3. \A j \in DOMAIN u : j > i => u[j] \notin Kind
    BY <1>1, <1>2, <1>5, <1>8, <2>1 DEF NoneIn
  <2>. QED BY <2>1, <2>2, <2>3 DEF LastIs
<1>. QED BY <1>6, <1>7, <1>8 DEF u

-----------------------------------------------------------------------------
(***************************************************************************)
(* A set of natural numbers that is not empty has a least member.          *)
(***************************************************************************)
LEMMA Least ==
    ASSUME NEW T \in SUBSET Nat, T # {}
    PROVE  \E x \in T : \A y \in T : x <= y
<1> DEFINE R == OpToRel(<, Nat)
<1>1. PICK x \in T : \A y \in T : ~(<<y, x>> \in R)
  <2>1. IsWellFoundedOn(R, Nat)
    BY NatLessThanWellFounded
  <2>. HIDE DEF R
  <2>. QED BY <2>1, WFMin
<1>2. \A y \in T : ~(y < x)
  BY <1>1 DEF OpToRel
<1>3. \A y \in T : x <= y
  <2>1. x \in Nat /\ \A y \in T : y \in Nat
    OBVIOUS
  <2>. QED BY <1>2, <2>1
<1>. QED BY <1>3

(***************************************************************************)
(* Every member of a finite set is in the sequence made of it, once.       *)
(***************************************************************************)
LEMMA SetToSeqMembers ==
    ASSUME NEW S, IsFiniteSet(S)
    PROVE  LET s == SetToSeq(S)
           IN  /\ s \in Seq(S)
               /\ \A x \in S : \E i \in DOMAIN s : s[i] = x
               /\ \A i, j \in DOMAIN s : s[i] = s[j] => i = j
<1> DEFINE n == Cardinality(S)
           s == SetToSeq(S)
<1>1. n \in Nat /\ ExistsBijection(1 .. n, S)
  BY FS_CardinalityType
<1>2. PICK b : b \in Bijection(1 .. n, S)
  BY <1>1 DEF ExistsBijection
<1>3. b \in [1 .. n -> S] /\ IsInjective(b)
  BY <1>2 DEF Bijection, Injection, IsInjective
<1>4. s \in [1 .. n -> S] /\ IsInjective(s)
  BY <1>3 DEF SetToSeq
<1>5. s \in Seq(S) /\ DOMAIN s = 1 .. n
  BY <1>1, <1>4, SeqDef
<1>6. s \in Injection(1 .. n, S)
  BY <1>4 DEF Injection
<1>7. Cardinality(1 .. n) = n
  BY <1>1, FS_Interval
<1>8. s \in Surjection(1 .. n, S)
  BY <1>6, <1>7, FS_Injection
<1>. QED BY <1>4, <1>5, <1>8 DEF Surjection, IsInjective
=============================================================================
