---------------------------- MODULE QueueTheorems ---------------------------
(* What a queue without duplicates holds after a request joined or left;   *)
(* and which of some numbers is the least.                                 *)
EXTENDS Sequences, Naturals, SequenceTheorems, FiniteSetTheorems, TLAPS

Elements(q) == {q[i] : i \in 1 .. Len(q)}
Distinct(q) == \A i, j \in 1 .. Len(q) : q[i] = q[j] => i = j

LEMMA EmptyQueue == Elements(<<>>) = {} /\ Distinct(<<>>)
  BY DEF Elements, Distinct

LEMMA ElementsType ==
    ASSUME NEW S, NEW q \in Seq(S)
    PROVE  Elements(q) \subseteq S
  BY ElementOfSeq DEF Elements

LEMMA JoinQueue ==
    ASSUME NEW S, NEW q \in Seq(S), NEW r \in S
    PROVE  /\ Append(q, r) \in Seq(S)
           /\ Append(q, r) # <<>>
           /\ Elements(Append(q, r)) = Elements(q) \cup {r}
           /\ Distinct(q) /\ r \notin Elements(q) => Distinct(Append(q, r))
  <1> DEFINE a == Append(q, r)
  <1>1. Len(q) \in Nat
    BY LenProperties
  <1>2. /\ a \in Seq(S) /\ Len(a) = Len(q) + 1 /\ a[Len(q) + 1] = r
        /\ \A i \in 1 .. Len(q) : a[i] = q[i]
    BY <1>1
  <1> HIDE DEF a
  <1>3. a # <<>>
    BY <1>1, <1>2, EmptySeq
  <1>4. 1 .. Len(a) = (1 .. Len(q)) \cup {Len(q) + 1}
    BY <1>1, <1>2
  <1>5. Elements(a) = Elements(q) \cup {r}
    BY <1>1, <1>2, <1>4 DEF Elements
  <1>6. Distinct(q) /\ r \notin Elements(q) => Distinct(a)
    BY <1>1, <1>2, <1>4 DEF Elements, Distinct
  <1> QED BY <1>2, <1>3, <1>5, <1>6 DEF a

LEMMA LeaveQueue ==
    ASSUME NEW S, NEW q \in Seq(S), q # <<>>, Distinct(q)
    PROVE  /\ Tail(q) \in Seq(S)
           /\ Head(q) \in S
           /\ Head(q) \in Elements(q)
           /\ Elements(Tail(q)) = Elements(q) \ {Head(q)}
           /\ Distinct(Tail(q))
  <1> DEFINE t == Tail(q)
  <1>1. Len(q) \in Nat \ {0} /\ Head(q) = q[1]
    BY EmptySeq
  <1>2. /\ t \in Seq(S) /\ Head(q) \in S /\ Len(t) = Len(q) - 1
        /\ \A i \in 1 .. Len(t) : t[i] = q[i + 1]
    BY <1>1, HeadTailProperties
  <1> HIDE DEF t
  <1>3. Head(q) \in Elements(q)
    BY <1>1 DEF Elements
  <1>4. ASSUME NEW i \in 1 .. Len(t)
        PROVE  i + 1 \in 1 .. Len(q) /\ t[i] \in Elements(q) \ {Head(q)}
    <2>1. i + 1 \in 1 .. Len(q) /\ i + 1 # 1 /\ 1 \in 1 .. Len(q)
      BY <1>1, <1>2
    <2> QED BY <1>1, <1>2, <2>1 DEF Elements, Distinct
  <1>5. ASSUME NEW i \in 1 .. Len(q), q[i] # Head(q)
        PROVE  q[i] \in Elements(t)
    <2>1. i - 1 \in 1 .. Len(t) /\ t[i - 1] = q[i]
      BY <1>1, <1>2, <1>5
    <2> QED BY <2>1 DEF Elements
  <1>6. Elements(t) = Elements(q) \ {Head(q)}
    BY <1>4, <1>5 DEF Elements
  <1>7. Distinct(t)
    <2> SUFFICES ASSUME NEW i \in 1 .. Len(t), NEW j \in 1 .. Len(t), t[i] = t[j]
                 PROVE  i = j
      BY DEF Distinct
    <2>1. i + 1 \in 1 .. Len(q) /\ j + 1 \in 1 .. Len(q) /\ q[i + 1] = q[j + 1]
      BY <1>2, <1>4
    <2>2. i + 1 = j + 1
      BY <2>1 DEF Distinct
    <2> QED BY <1>1, <1>2, <2>2
  <1> QED BY <1>2, <1>3, <1>6, <1>7 DEF t

(* A set of naturals has a least element: initial segments are ordered by  *)
(* inclusion, which is well founded on finite sets.                        *)
LEMMA Least ==
    ASSUME NEW S \in SUBSET Nat, S # {}
    PROVE  \E i \in S : \A j \in S : i <= j
  <1> DEFINE Initials == {0 .. i : i \in S}
  <1>1. \A i \in Nat : 0 .. i \in FiniteSubsetsOf(Nat)
    <2>1. \A i \in Nat : IsFiniteSet(0 .. i)
      BY FS_Interval
    <2> QED BY <2>1 DEF FiniteSubsetsOf
  <1>2. Initials \subseteq FiniteSubsetsOf(Nat) /\ Initials # {}
    BY <1>1
  <1> HIDE DEF Initials
  <1>3. PICK I \in Initials : \A J \in Initials : ~(<<J, I>> \in StrictSubsetOrdering(Nat))
    BY <1>2, FS_StrictSubsetOrderingWellFounded, WFMin
  <1>4. PICK i \in S : I = 0 .. i
    BY DEF Initials
  <1>5. ASSUME NEW j \in S, j < i PROVE FALSE
    <2>1. 0 .. j \in Initials /\ 0 .. j \subseteq 0 .. i /\ 0 .. j # 0 .. i
      BY <1>5 DEF Initials
    <2>2. 0 .. j \in SUBSET Nat /\ 0 .. i \in SUBSET Nat
      OBVIOUS
    <2> QED BY <1>3, <1>4, <2>1, <2>2 DEF StrictSubsetOrdering
  <1> QED BY <1>5

============================================================================
