------------------------------ MODULE ScanProofs ------------------------------
(***************************************************************************)
(* What the operators of Scans return for every sequence: on the empty     *)
(* one, on one element more, and on a longer sequence.                     *)
(*                                                                         *)
(* Facts about all sequences need induction.  The induction theorems of    *)
(* the library have an operator for parameter; here the predicate is the   *)
(* set of the numbers it holds of, and the step from there is WFMin.       *)
(***************************************************************************)
EXTENDS Scans, SequencesExt, SequenceTheorems, WellFoundedInduction, TLAPS

LEMMA Induction ==
    ASSUME NEW S, 0 \in S, \A n \in Nat : n \in S => n + 1 \in S
    PROVE  \A n \in Nat : n \in S
<1> DEFINE T == Nat \ S
<1> DEFINE R == OpToRel(<, Nat)
<1>1. SUFFICES ASSUME T # {} PROVE FALSE
    OBVIOUS
<1>2. PICK x \in T : \A y \in T : <<y, x>> \notin R
    <2>1. T \subseteq Nat
        OBVIOUS
    <2>2. IsWellFoundedOn(R, Nat)
        BY NatLessThanWellFounded
    <2> HIDE DEF T, R
    <2>3. QED
        BY <1>1, <2>1, <2>2, WFMin
<1>3. x \in Nat /\ x # 0
    OBVIOUS
<1>4. x - 1 \in Nat /\ x - 1 < x
    BY <1>3
<1>5. <<x - 1, x>> \in R
    BY <1>3, <1>4 DEF OpToRel
<1>6. x - 1 \in S /\ x - 1 + 1 = x
    <2> HIDE DEF R
    <2>1. x - 1 \notin T
        BY <1>2, <1>5
    <2>2. QED
        BY <1>4, <2>1
<1>7. QED
    BY <1>3, <1>4, <1>6

(***************************************************************************)
(* A function that is defined by recursion over the positions of a         *)
(* sequence exists, and its values are of the type that the step keeps.    *)
(***************************************************************************)
Recursive(u, A, a, n, step) ==
    /\ u \in [0 .. n -> A]
    /\ u[0] = a
    /\ \A i \in 1 .. n : u[i] = step[i][u[i - 1]]

LEMMA Recursion ==
    ASSUME NEW A, NEW a \in A, NEW n \in Nat, NEW step \in [1 .. n -> [A -> A]]
    PROVE  \E u : Recursive(u, A, a, n, step)
<1> DEFINE Built(m, u) == u[0] = a /\ \A i \in 1 .. m : u[i] = step[i][u[i - 1]]
<1> DEFINE S == {m \in Nat : m <= n => \E u \in [0 .. m -> A] : Built(m, u)}
<1>1. 0 \in S
    <2>1. Built(0, [i \in 0 .. 0 |-> a]) /\ [i \in 0 .. 0 |-> a] \in [0 .. 0 -> A]
        OBVIOUS
    <2>2. QED
        BY <2>1
<1>2. ASSUME NEW m \in Nat, m \in S
      PROVE  m + 1 \in S
    <2>1. SUFFICES ASSUME m + 1 <= n
                   PROVE  \E u \in [0 .. m + 1 -> A] : Built(m + 1, u)
        OBVIOUS
    <2>2. PICK v \in [0 .. m -> A] : Built(m, v)
        BY <1>2, <2>1
    <2> DEFINE next == step[m + 1][v[m]]
    <2>3. next \in A
        BY <2>1
    <2> HIDE DEF next
    <2> DEFINE u == [i \in 0 .. m + 1 |-> IF i <= m THEN v[i] ELSE next]
    <2>4. u \in [0 .. m + 1 -> A]
        BY <2>3
    <2>5. u[0] = a /\ \A i \in 0 .. m : u[i] = v[i]
        BY <2>2
    <2>6. u[m + 1] = next
        OBVIOUS
    <2> HIDE DEF u
    <2>7. ASSUME NEW i \in 1 .. m + 1 PROVE u[i] = step[i][u[i - 1]]
        <3>1. CASE i <= m
            <4>1. i \in 1 .. m /\ i \in 0 .. m /\ i - 1 \in 0 .. m
                BY <3>1
            <4>2. QED
                BY <2>2, <2>5, <4>1
        <3>2. CASE i = m + 1
            <4>1. i - 1 = m /\ m \in 0 .. m
                BY <3>2
            <4>2. QED
                BY <2>5, <2>6, <3>2, <4>1 DEF next
        <3>3. QED
            BY <3>1, <3>2
    <2>8. QED
        BY <2>4, <2>5, <2>7
<1>3. n \in S
    <2> HIDE DEF S
    <2>1. QED
        BY <1>1, <1>2, Induction
<1>4. QED
    BY <1>3 DEF Recursive

(***************************************************************************)
(* Two such functions agree as far as their steps do.                      *)
(***************************************************************************)
SameSteps(u, v, m, n) == \A i \in m .. n : i # m /\ u[i - 1] = v[i - 1] => u[i] = v[i]

LEMMA Agreement ==
    ASSUME NEW m \in Nat, NEW n \in Nat, NEW u, NEW v, u[m] = v[m], SameSteps(u, v, m, n)
    PROVE  \A i \in m .. n : u[i] = v[i]
<1> DEFINE S == {k \in Nat : m + k <= n => u[m + k] = v[m + k]}
<1>1. 0 \in S
    OBVIOUS
<1>2. \A k \in Nat : k \in S => k + 1 \in S
    <2>1. SUFFICES ASSUME NEW k \in Nat, k \in S, m + k + 1 <= n
                   PROVE  u[m + k + 1] = v[m + k + 1]
        OBVIOUS
    <2>2. u[m + k] = v[m + k] /\ m + k + 1 \in m .. n /\ m + k + 1 - 1 = m + k
        BY <2>1
    <2>3. QED
        BY <2>2 DEF SameSteps
<1>3. \A k \in Nat : k \in S
    <2> HIDE DEF S
    <2>1. QED
        BY <1>1, <1>2, Induction
<1>4. ASSUME NEW i \in m .. n PROVE u[i] = v[i]
    <2>1. i - m \in Nat /\ m + (i - m) = i /\ i <= n
        OBVIOUS
    <2>2. QED
        BY <1>3, <2>1
<1>5. QED
    BY <1>4

-----------------------------------------------------------------------------
(* Concatenation *)

LEMMA AppendLast ==
    ASSUME NEW D, NEW s \in Seq(D), NEW t \in Seq(D), NEW e \in D
    PROVE  s \o Append(t, e) = Append(s \o t, e)
<1>1. Append(t, e) = t \o <<e>> /\ Append(s \o t, e) = (s \o t) \o <<e>>
    BY AppendIsConcat, ConcatProperties
<1>2. <<e>> \in Seq(D)
    OBVIOUS
<1>3. QED
    BY <1>1, <1>2, ConcatAssociative

-----------------------------------------------------------------------------
(* Positions *)

Counting(s, S, u) ==
    u = [i \in 0 .. Len(s) |->
            IF i = 0 THEN << >>
            ELSE IF s[i] \in S THEN Append(u[i - 1], i)
            ELSE u[i - 1]]

LEMMA CountingExists ==
    ASSUME NEW s, NEW S, Len(s) \in Nat
    PROVE  \E u \in [0 .. Len(s) -> Seq(1 .. Len(s))] : Counting(s, S, u)
<1> DEFINE n == Len(s)
<1> DEFINE A == Seq(1 .. n)
<1> DEFINE step == [i \in 1 .. n |-> [x \in A |-> IF s[i] \in S THEN Append(x, i) ELSE x]]
<1>1. step \in [1 .. n -> [A -> A]]
    <2>1. \A i \in 1 .. n : \A x \in A : Append(x, i) \in A
        BY AppendProperties
    <2> HIDE DEF A
    <2>2. QED
        BY <2>1
<1>2. << >> \in A /\ n \in Nat
    OBVIOUS
<1>3. PICK u \in [0 .. n -> A] : u[0] = << >> /\ \A i \in 1 .. n : u[i] = step[i][u[i - 1]]
    <2> HIDE DEF step, n, A
    <2>1. \E u : Recursive(u, A, << >>, n, step)
        BY <1>1, <1>2, Recursion
    <2>2. QED
        BY <2>1 DEF Recursive
<1>4. \A i \in 1 .. n : u[i] = IF s[i] \in S THEN Append(u[i - 1], i) ELSE u[i - 1]
    <2> HIDE DEF A
    <2>1. ASSUME NEW i \in 1 .. n PROVE u[i - 1] \in A
        <3>1. i - 1 \in 0 .. n
            BY <1>2
        <3>2. QED
            BY <3>1
    <2>2. QED
        BY <1>3, <2>1
<1>5. Counting(s, S, u)
    <2>1. ASSUME NEW i \in 0 .. n
          PROVE  u[i] = IF i = 0 THEN << >>
                        ELSE IF s[i] \in S THEN Append(u[i - 1], i) ELSE u[i - 1]
        <3> HIDE DEF step
        <3>1. i = 0 \/ i \in 1 .. n
            BY <1>2
        <3>2. QED
            BY <1>3, <1>4, <3>1
    <2>2. u = [i \in 0 .. n |-> u[i]]
        OBVIOUS
    <2>3. QED
        BY <2>1, <2>2 DEF Counting
<1>6. QED
    BY <1>5

LEMMA PositionsCounted ==
    ASSUME NEW s, NEW S, Len(s) \in Nat
    PROVE  \E u \in [0 .. Len(s) -> Seq(1 .. Len(s))] :
               /\ u[0] = << >>
               /\ \A i \in 1 .. Len(s) :
                      u[i] = IF s[i] \in S THEN Append(u[i - 1], i) ELSE u[i - 1]
               /\ Positions(s, S) = u[Len(s)]
<1> DEFINE U == CHOOSE u : Counting(s, S, u)
<1>1. Counting(s, S, U)
    BY CountingExists
<1>2. PICK u \in [0 .. Len(s) -> Seq(1 .. Len(s))] : Counting(s, S, u)
    BY CountingExists
<1>3. Positions(s, S) = U[Len(s)]
    BY Zenon DEF Positions, Counting
<1> HIDE DEF U
<1>4. /\ u[0] = << >>
      /\ \A i \in 1 .. Len(s) :
             u[i] = IF s[i] \in S THEN Append(u[i - 1], i) ELSE u[i - 1]
    <2>1. 0 \in 0 .. Len(s) /\ \A i \in 1 .. Len(s) : i \in 0 .. Len(s) /\ i # 0
        OBVIOUS
    <2>2. QED
        BY <1>2, <2>1 DEF Counting
<1>5. \A i \in 0 .. Len(s) : U[i] = u[i]
    <2>1. U[0] = u[0]
        BY <1>1, <1>2 DEF Counting
    <2>2. ASSUME NEW i \in 0 .. Len(s), i # 0, U[i - 1] = u[i - 1] PROVE U[i] = u[i]
        <3>1. i \in 1 .. Len(s)
            BY <2>2
        <3>2. U[i] = IF s[i] \in S THEN Append(U[i - 1], i) ELSE U[i - 1]
            BY <1>1, <2>2 DEF Counting
        <3>3. u[i] = IF s[i] \in S THEN Append(u[i - 1], i) ELSE u[i - 1]
            BY <1>4, <3>1
        <3>4. QED
            BY <2>2, <3>2, <3>3
    <2>3. SameSteps(U, u, 0, Len(s))
        BY <2>2 DEF SameSteps
    <2>4. QED
        BY <2>1, <2>3, Agreement
<1>6. Positions(s, S) = u[Len(s)]
    BY <1>3, <1>5
<1>7. QED
    BY <1>4, <1>6

LEMMA PositionsType ==
    ASSUME NEW s, NEW S, Len(s) \in Nat
    PROVE  Positions(s, S) \in Seq(1 .. Len(s))
<1>1. Len(s) \in 0 .. Len(s)
    OBVIOUS
<1>2. QED
    BY <1>1, PositionsCounted

LEMMA PositionsEmpty ==
    ASSUME NEW S
    PROVE  Positions(<< >>, S) = << >>
<1>1. Len(<< >>) = 0
    OBVIOUS
<1>2. QED
    BY <1>1, PositionsCounted

LEMMA PositionsAppend ==
    ASSUME NEW D, NEW s \in Seq(D), NEW e \in D, NEW S
    PROVE  Positions(Append(s, e), S) =
               IF e \in S THEN Append(Positions(s, S), Len(s) + 1) ELSE Positions(s, S)
<1> DEFINE n == Len(s)
<1> DEFINE t == Append(s, e)
<1>1. /\ n \in Nat
      /\ Len(t) = n + 1
      /\ \A i \in 1 .. n : t[i] = s[i]
      /\ t[n + 1] = e
    BY AppendProperties, LenProperties
<1> HIDE DEF t
<1>2. PICK u : /\ u[0] = << >>
               /\ \A i \in 1 .. n :
                      u[i] = IF s[i] \in S THEN Append(u[i - 1], i) ELSE u[i - 1]
               /\ Positions(s, S) = u[n]
    BY <1>1, PositionsCounted
<1>3. PICK v : /\ v[0] = << >>
               /\ \A i \in 1 .. n + 1 :
                      v[i] = IF t[i] \in S THEN Append(v[i - 1], i) ELSE v[i - 1]
               /\ Positions(t, S) = v[n + 1]
    BY <1>1, PositionsCounted
<1>4. \A i \in 0 .. n : u[i] = v[i]
    <2>1. SameSteps(u, v, 0, n)
        <3>1. \A i \in 0 .. n : i # 0 => i \in 1 .. n /\ i \in 1 .. n + 1
            BY <1>1
        <3>2. QED
            BY <1>1, <1>2, <1>3, <3>1 DEF SameSteps
    <2> HIDE DEF n
    <2>2. QED
        BY <1>1, <1>2, <1>3, <2>1, Agreement
<1>5. v[n + 1] = IF e \in S THEN Append(v[n], n + 1) ELSE v[n]
    <2>1. n + 1 \in 1 .. n + 1 /\ n + 1 - 1 = n
        BY <1>1
    <2>2. QED
        BY <1>1, <1>3, <2>1
<1>6. u[n] = v[n]
    BY <1>1, <1>4
<1>7. QED
    BY <1>2, <1>3, <1>5, <1>6 DEF t

-----------------------------------------------------------------------------
(* Only *)

LEMMA OnlyEmpty ==
    ASSUME NEW S
    PROVE  Only(<< >>, S) = << >>
BY PositionsEmpty DEF Only

LEMMA OnlyType ==
    ASSUME NEW D, NEW s \in Seq(D), NEW S
    PROVE  Only(s, S) \in Seq(D) /\ Len(Only(s, S)) \in Nat
<1> DEFINE at == Positions(s, S)
<1>1. at \in Seq(1 .. Len(s)) /\ Len(at) \in Nat
    BY PositionsType, LenProperties
<1>2. \A k \in 1 .. Len(at) : s[at[k]] \in D
    <2> HIDE DEF at
    <2>1. QED
        BY <1>1, ElementOfSeq
<1>3. Only(s, S) = [k \in 1 .. Len(at) |-> s[at[k]]]
    BY DEF Only
<1> HIDE DEF at
<1>4. QED
    BY <1>1, <1>2, <1>3

LEMMA OnlyAppend ==
    ASSUME NEW D, NEW s \in Seq(D), NEW e \in D, NEW S
    PROVE  Only(Append(s, e), S) =
               IF e \in S THEN Append(Only(s, S), e) ELSE Only(s, S)
<1> DEFINE at == Positions(s, S)
<1> DEFINE t == Append(s, e)
<1>1. /\ t \in Seq(D)
      /\ Len(s) \in Nat
      /\ Len(t) = Len(s) + 1
      /\ \A i \in 1 .. Len(s) : t[i] = s[i]
      /\ t[Len(s) + 1] = e
    BY AppendProperties, LenProperties
<1>2. at \in Seq(1 .. Len(s)) /\ Len(at) \in Nat /\ \A k \in 1 .. Len(at) : at[k] \in 1 .. Len(s)
    BY PositionsType, LenProperties, ElementOfSeq
<1>3. Positions(t, S) = IF e \in S THEN Append(at, Len(s) + 1) ELSE at
    BY PositionsAppend
<1>4. Only(s, S) = [k \in 1 .. Len(at) |-> s[at[k]]]
    BY DEF Only
<1> HIDE DEF at, t
<1>5. CASE e \notin S
    <2>1. Only(t, S) = [k \in 1 .. Len(at) |-> t[at[k]]]
        BY <1>3, <1>5 DEF Only
    <2>2. Only(t, S) = [k \in 1 .. Len(at) |-> s[at[k]]]
        BY <1>1, <1>2, <2>1
    <2>3. QED
        BY <1>4, <1>5, <2>2 DEF t
<1>6. CASE e \in S
    <2> DEFINE more == Append(at, Len(s) + 1)
    <2>1. /\ Len(more) = Len(at) + 1
          /\ \A k \in 1 .. Len(at) : more[k] = at[k]
          /\ more[Len(at) + 1] = Len(s) + 1
        BY <1>1, <1>2
    <2>2. Only(t, S) = [k \in 1 .. Len(more) |-> t[more[k]]]
        BY <1>3, <1>6 DEF Only
    <2> HIDE DEF more
    <2>3. Only(t, S) = [k \in 1 .. Len(at) + 1 |-> IF k <= Len(at) THEN s[at[k]] ELSE e]
        <3>1. ASSUME NEW k \in 1 .. Len(at) + 1
              PROVE  t[more[k]] = IF k <= Len(at) THEN s[at[k]] ELSE e
            <4>1. k \in 1 .. Len(at) \/ k = Len(at) + 1
                BY <1>2
            <4>2. QED
                BY <1>1, <1>2, <2>1, <4>1
        <3>2. QED
            BY <2>1, <2>2, <3>1
    <2>4. Only(s, S) \in Seq(D) /\ Len(Only(s, S)) = Len(at)
        BY <1>2, <1>4, OnlyType
    <2>5. Append(Only(s, S), e) = [k \in 1 .. Len(at) + 1 |-> IF k <= Len(at) THEN s[at[k]] ELSE e]
        BY <1>2, <1>4, <2>4
    <2>6. QED
        BY <1>6, <2>3, <2>5 DEF t
<1>7. QED
    BY <1>5, <1>6

LEMMA OnlyConcat ==
    ASSUME NEW D, NEW S
    PROVE  \A s, t \in Seq(D) : Only(s \o t, S) = Only(s, S) \o Only(t, S)
<1> DEFINE Holds(n) == \A s, t \in Seq(D) :
                          Len(t) = n => Only(s \o t, S) = Only(s, S) \o Only(t, S)
<1> DEFINE N == {n \in Nat : Holds(n)}
<1>1. 0 \in N
    <2>1. SUFFICES ASSUME NEW s \in Seq(D), NEW t \in Seq(D), Len(t) = 0
                   PROVE  Only(s \o t, S) = Only(s, S) \o Only(t, S)
        OBVIOUS
    <2>2. t = << >>
        BY <2>1, EmptySeq
    <2>3. s \o t = s /\ Only(t, S) = << >> /\ Only(s, S) \in Seq(D)
        BY <2>2, ConcatEmptySeq, OnlyEmpty, OnlyType
    <2>4. QED
        BY <2>3, ConcatEmptySeq
<1>2. ASSUME NEW n \in Nat, n \in N
      PROVE  n + 1 \in N
    <2>1. SUFFICES ASSUME NEW s \in Seq(D), NEW t \in Seq(D), Len(t) = n + 1
                   PROVE  Only(s \o t, S) = Only(s, S) \o Only(t, S)
        OBVIOUS
    <2>2. t # << >>
        BY <2>1
    <2>3. PICK r \in Seq(D), e \in D : t = Append(r, e)
        BY <2>2, SequenceEmptyOrAppend
    <2>4. Len(r) = n
        BY <2>1, <2>3, LenProperties, AppendProperties
    <2>5. Only(s \o r, S) = Only(s, S) \o Only(r, S)
        BY <1>2, <2>4
    <2>6. s \o t = Append(s \o r, e)
        BY <2>3, AppendLast
    <2>7. Only(s \o t, S) = IF e \in S THEN Append(Only(s \o r, S), e) ELSE Only(s \o r, S)
        <3> DEFINE x == s \o r
        <3>1. x \in Seq(D)
            BY ConcatProperties
        <3> HIDE DEF x
        <3>2. Only(Append(x, e), S) = IF e \in S THEN Append(Only(x, S), e) ELSE Only(x, S)
            BY <3>1, OnlyAppend
        <3>3. QED
            BY <2>6, <3>2 DEF x
    <2>8. Only(t, S) = IF e \in S THEN Append(Only(r, S), e) ELSE Only(r, S)
        BY <2>3, OnlyAppend
    <2>9. Only(s, S) \o Append(Only(r, S), e) = Append(Only(s, S) \o Only(r, S), e)
        BY OnlyType, AppendLast
    <2>10. QED
        BY <2>5, <2>7, <2>8, <2>9
<1>3. \A n \in Nat : n \in N
    <2> HIDE DEF N
    <2>1. QED
        BY <1>1, <1>2, Induction
<1>4. QED
    BY <1>3, LenProperties

-----------------------------------------------------------------------------
(* Total *)

Adding(s, u) == u = [i \in 0 .. Len(s) |-> IF i = 0 THEN 0 ELSE u[i - 1] + s[i]]

LEMMA TotalAdded ==
    ASSUME NEW s \in Seq(Nat)
    PROVE  \E u \in [0 .. Len(s) -> Nat] :
               /\ u[0] = 0
               /\ \A i \in 1 .. Len(s) : u[i] = u[i - 1] + s[i]
               /\ Total(s) = u[Len(s)]
<1> DEFINE n == Len(s)
<1> DEFINE step == [i \in 1 .. n |-> [x \in Nat |-> x + s[i]]]
<1>1. step \in [1 .. n -> [Nat -> Nat]] /\ n \in Nat
    <2>1. n \in Nat /\ \A i \in 1 .. n : s[i] \in Nat
        BY LenProperties, ElementOfSeq
    <2>2. \A i \in 1 .. n : \A x \in Nat : x + s[i] \in Nat
        BY <2>1
    <2>3. QED
        BY <2>1, <2>2
<1>2. PICK u : u \in [0 .. n -> Nat] /\ u[0] = 0 /\ \A i \in 1 .. n : u[i] = step[i][u[i - 1]]
    <2> HIDE DEF step, n
    <2>1. \E u : Recursive(u, Nat, 0, n, step)
        BY <1>1, Recursion
    <2>2. QED
        BY <2>1 DEF Recursive
<1>3. \A i \in 1 .. n : u[i] = u[i - 1] + s[i]
    <2>1. ASSUME NEW i \in 1 .. n PROVE u[i - 1] \in Nat
        <3>1. i - 1 \in 0 .. n
            BY <1>1
        <3>2. QED
            BY <1>2, <3>1
    <2>2. QED
        BY <1>2, <2>1
<1> HIDE DEF step
<1>4. Adding(s, u)
    <2>1. ASSUME NEW i \in 0 .. n PROVE u[i] = IF i = 0 THEN 0 ELSE u[i - 1] + s[i]
        <3>1. i = 0 \/ i \in 1 .. n
            BY <1>1
        <3>2. QED
            BY <1>2, <1>3, <3>1
    <2>2. u = [i \in 0 .. n |-> u[i]]
        BY <1>2
    <2>3. QED
        BY <2>1, <2>2 DEF Adding
<1> DEFINE U == CHOOSE w : Adding(s, w)
<1>5. Adding(s, U)
    BY <1>4
<1>6. Total(s) = U[n]
    BY Zenon DEF Total, Adding
<1> HIDE DEF U
<1>7. \A i \in 0 .. n : U[i] = u[i]
    <2>1. U[0] = u[0]
        BY <1>1, <1>2, <1>5 DEF Adding
    <2>2. ASSUME NEW i \in 0 .. n, i # 0, U[i - 1] = u[i - 1] PROVE U[i] = u[i]
        <3>1. i \in 1 .. n
            BY <1>1, <2>2
        <3>2. U[i] = U[i - 1] + s[i]
            BY <1>5, <2>2 DEF Adding
        <3>3. QED
            BY <1>3, <2>2, <3>1, <3>2
    <2>3. SameSteps(U, u, 0, n)
        BY <2>2 DEF SameSteps
    <2>4. n \in Nat /\ 0 \in Nat
        BY <1>1
    <2> HIDE DEF n
    <2>5. QED
        BY <2>1, <2>3, <2>4, Agreement
<1>8. Total(s) = u[n]
    BY <1>1, <1>6, <1>7
<1>9. QED
    BY <1>2, <1>3, <1>8

LEMMA TotalType ==
    ASSUME NEW s \in Seq(Nat)
    PROVE  Total(s) \in Nat
<1>1. Len(s) \in 0 .. Len(s)
    BY LenProperties
<1>2. QED
    BY <1>1, TotalAdded

LEMMA TotalEmpty == Total(<< >>) = 0
<1>1. Len(<< >>) = 0 /\ << >> \in Seq(Nat)
    OBVIOUS
<1>2. QED
    BY <1>1, TotalAdded

LEMMA TotalAppend ==
    ASSUME NEW s \in Seq(Nat), NEW e \in Nat
    PROVE  Total(Append(s, e)) = Total(s) + e
<1> DEFINE n == Len(s)
<1> DEFINE t == Append(s, e)
<1>1. /\ n \in Nat
      /\ t \in Seq(Nat)
      /\ Len(t) = n + 1
      /\ \A i \in 1 .. n : t[i] = s[i]
      /\ t[n + 1] = e
    BY AppendProperties, LenProperties
<1> HIDE DEF t
<1>2. PICK u : /\ u[0] = 0
               /\ \A i \in 1 .. n : u[i] = u[i - 1] + s[i]
               /\ Total(s) = u[n]
    BY TotalAdded
<1>3. PICK v : /\ v[0] = 0
               /\ \A i \in 1 .. n + 1 : v[i] = v[i - 1] + t[i]
               /\ Total(t) = v[n + 1]
    BY <1>1, TotalAdded
<1>4. \A i \in 0 .. n : u[i] = v[i]
    <2>1. SameSteps(u, v, 0, n)
        <3>1. \A i \in 0 .. n : i # 0 => i \in 1 .. n /\ i \in 1 .. n + 1
            BY <1>1
        <3>2. QED
            BY <1>1, <1>2, <1>3, <3>1 DEF SameSteps
    <2> HIDE DEF n
    <2>2. QED
        BY <1>1, <1>2, <1>3, <2>1, Agreement
<1>5. v[n + 1] = v[n] + e
    <2>1. n + 1 \in 1 .. n + 1 /\ n + 1 - 1 = n
        BY <1>1
    <2>2. QED
        BY <1>1, <1>3, <2>1
<1>6. u[n] = v[n]
    BY <1>1, <1>4
<1>7. QED
    BY <1>2, <1>3, <1>5, <1>6 DEF t

-----------------------------------------------------------------------------
(* FlattenSeq *)

Joining(ss, u) == u = [i \in 1 .. Len(ss) |-> IF i = 1 THEN ss[i] ELSE u[i - 1] \o ss[i]]

LEMMA FlattenJoined ==
    ASSUME NEW D, NEW ss \in Seq(Seq(D)), ss # << >>
    PROVE  \E u \in [1 .. Len(ss) -> Seq(D)] :
               /\ u[1] = ss[1]
               /\ \A i \in 2 .. Len(ss) : u[i] = u[i - 1] \o ss[i]
               /\ FlattenSeq(ss) = u[Len(ss)]
<1> DEFINE n == Len(ss)
<1> DEFINE A == Seq(D)
<1> DEFINE step == [i \in 1 .. n |-> [x \in A |-> IF i = 1 THEN ss[i] ELSE x \o ss[i]]]
<1>1. n \in Nat \ {0} /\ \A i \in 1 .. n : ss[i] \in A
    BY EmptySeq, ElementOfSeq
<1>2. step \in [1 .. n -> [A -> A]] /\ << >> \in A
    <2>1. \A i \in 1 .. n : \A x \in A : x \o ss[i] \in A
        BY <1>1, ConcatProperties
    <2>2. << >> \in A
        OBVIOUS
    <2> HIDE DEF A
    <2>3. QED
        BY <1>1, <2>1, <2>2
<1>3. PICK w \in [0 .. n -> A] : \A i \in 1 .. n : w[i] = step[i][w[i - 1]]
    <2> HIDE DEF step, n, A
    <2>1. \E w : Recursive(w, A, << >>, n, step)
        BY <1>1, <1>2, Recursion
    <2>2. QED
        BY <2>1 DEF Recursive
<1>4. \A i \in 1 .. n : w[i] = IF i = 1 THEN ss[i] ELSE w[i - 1] \o ss[i]
    <2> HIDE DEF A
    <2>1. ASSUME NEW i \in 1 .. n PROVE w[i - 1] \in A
        <3>1. i - 1 \in 0 .. n
            BY <1>1
        <3>2. QED
            BY <3>1
    <2>2. QED
        BY <1>3, <2>1
<1> DEFINE u == [i \in 1 .. n |-> w[i]]
<1>5. u \in [1 .. n -> A] /\ \A i \in 1 .. n : u[i] = IF i = 1 THEN ss[i] ELSE u[i - 1] \o ss[i]
    <2> HIDE DEF A, step
    <2>1. u \in [1 .. n -> A]
        BY <1>1
    <2>2. \A i \in 1 .. n : u[i] = w[i] /\ (i # 1 => u[i - 1] = w[i - 1])
        BY <1>1
    <2> HIDE DEF u
    <2>3. QED
        BY <1>4, <2>1, <2>2
<1> HIDE DEF step, u
<1>6. Joining(ss, u)
    <2>1. u = [i \in 1 .. n |-> u[i]]
        BY <1>5
    <2>2. QED
        BY <1>5, <2>1 DEF Joining
<1> DEFINE U == CHOOSE v : Joining(ss, v)
<1>7. Joining(ss, U)
    BY <1>6
<1>8. FlattenSeq(ss) = U[n]
    <2>1. Len(ss) # 0
        BY <1>1
    <2>2. QED
        BY <2>1, Zenon DEF FlattenSeq, Joining
<1> HIDE DEF U
<1>9. \A i \in 1 .. n : U[i] = u[i]
    <2>1. U[1] = u[1]
        <3>1. 1 \in 1 .. n
            BY <1>1
        <3>2. U[1] = ss[1]
            BY <1>7, <3>1 DEF Joining
        <3>3. u[1] = ss[1]
            BY <1>5, <3>1
        <3>4. QED
            BY <3>2, <3>3
    <2>2. ASSUME NEW i \in 1 .. n, i # 1, U[i - 1] = u[i - 1] PROVE U[i] = u[i]
        <3>1. U[i] = U[i - 1] \o ss[i]
            BY <1>7, <2>2 DEF Joining
        <3>2. u[i] = u[i - 1] \o ss[i]
            BY <1>5, <2>2
        <3>3. QED
            BY <2>2, <3>1, <3>2
    <2>3. SameSteps(U, u, 1, n)
        BY <2>2 DEF SameSteps
    <2> HIDE DEF n
    <2>4. QED
        BY <1>1, <2>1, <2>3, Agreement
<1>10. FlattenSeq(ss) = u[n]
    <2>1. n \in 1 .. n
        BY <1>1
    <2>2. QED
        BY <1>8, <1>9, <2>1
<1>11. u[1] = ss[1] /\ \A i \in 2 .. n : u[i] = u[i - 1] \o ss[i]
    <2>1. 1 \in 1 .. n /\ \A i \in 2 .. n : i \in 1 .. n /\ i # 1
        BY <1>1
    <2>2. QED
        BY <1>5, <2>1
<1>12. QED
    BY <1>5, <1>10, <1>11

LEMMA FlattenEmpty == FlattenSeq(<< >>) = << >>
<1>1. Len(<< >>) = 0
    OBVIOUS
<1>2. QED
    BY <1>1 DEF FlattenSeq

LEMMA FlattenType ==
    ASSUME NEW D, NEW ss \in Seq(Seq(D))
    PROVE  FlattenSeq(ss) \in Seq(D)
<1>1. CASE ss = << >>
    <2>1. << >> \in Seq(D)
        OBVIOUS
    <2>2. QED
        BY <1>1, <2>1, FlattenEmpty
<1>2. CASE ss # << >>
    <2>1. Len(ss) \in 1 .. Len(ss)
        BY <1>2, EmptySeq
    <2>2. PICK u \in [1 .. Len(ss) -> Seq(D)] : FlattenSeq(ss) = u[Len(ss)]
        BY <1>2, FlattenJoined
    <2>3. QED
        BY <2>1, <2>2
<1>3. QED
    BY <1>1, <1>2

LEMMA FlattenAppend ==
    ASSUME NEW D, NEW ss \in Seq(Seq(D)), NEW s \in Seq(D)
    PROVE  FlattenSeq(Append(ss, s)) = FlattenSeq(ss) \o s
<1> DEFINE n == Len(ss)
<1> DEFINE tt == Append(ss, s)
<1>1. /\ n \in Nat
      /\ tt \in Seq(Seq(D))
      /\ tt # << >>
      /\ Len(tt) = n + 1
      /\ \A i \in 1 .. n : tt[i] = ss[i]
      /\ tt[n + 1] = s
    BY AppendProperties, LenProperties
<1> HIDE DEF tt
<1>2. PICK v : /\ v[1] = tt[1]
               /\ \A i \in 2 .. Len(tt) : v[i] = v[i - 1] \o tt[i]
               /\ FlattenSeq(tt) = v[Len(tt)]
    BY <1>1, FlattenJoined
<1>3. CASE ss = << >>
    <2>1. n = 0 /\ FlattenSeq(ss) = << >>
        BY <1>3, EmptySeq, FlattenEmpty
    <2>2. FlattenSeq(tt) = s
        BY <1>1, <1>2, <2>1
    <2>3. QED
        BY <2>1, <2>2, ConcatEmptySeq DEF tt
<1>4. CASE ss # << >>
    <2>1. n >= 1
        BY <1>4, EmptySeq
    <2>2. PICK u : /\ u[1] = ss[1]
                   /\ \A i \in 2 .. n : u[i] = u[i - 1] \o ss[i]
                   /\ FlattenSeq(ss) = u[n]
        BY <1>4, FlattenJoined
    <2>3. \A i \in 1 .. n : u[i] = v[i]
        <3>1. u[1] = v[1]
            <4>1. tt[1] = ss[1]
                BY <1>1, <2>1
            <4>2. QED
                BY <1>2, <2>2, <4>1
        <3>2. SameSteps(u, v, 1, n)
            <4>1. \A i \in 1 .. n : i # 1 => i \in 2 .. n /\ i \in 2 .. Len(tt)
                BY <1>1
            <4>2. ASSUME NEW i \in 1 .. n, i # 1, u[i - 1] = v[i - 1] PROVE u[i] = v[i]
                <5>1. u[i] = u[i - 1] \o ss[i] /\ v[i] = v[i - 1] \o tt[i]
                    BY <1>2, <2>2, <4>1, <4>2
                <5>2. QED
                    BY <1>1, <4>2, <5>1
            <4>3. QED
                BY <4>2 DEF SameSteps
        <3> HIDE DEF n
        <3>3. QED
            BY <1>1, <3>1, <3>2, Agreement
    <2>4. v[Len(tt)] = v[n] \o s
        <3> DEFINE k == Len(tt)
        <3>1. k \in 2 .. Len(tt) /\ k - 1 = n /\ tt[k] = s
            BY <1>1, <2>1
        <3> HIDE DEF k
        <3>2. v[k] = v[k - 1] \o tt[k]
            BY <1>2, <3>1
        <3>3. v[k] = v[n] \o s
            BY <3>1, <3>2
        <3>4. QED
            BY <3>3 DEF k
    <2>5. u[n] = v[n]
        BY <1>1, <2>1, <2>3
    <2>6. QED
        BY <1>1, <1>2, <2>2, <2>4, <2>5 DEF tt
<1>5. QED
    BY <1>3, <1>4
=============================================================================
