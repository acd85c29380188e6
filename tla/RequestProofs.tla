----------------------------- MODULE RequestProofs -----------------------------
(***************************************************************************)
(* The texts and the content of requests: the positions of RequestText's   *)
(* loops, for texts of any length and form; the content that ChunkedBody   *)
(* puts together, for any bodies and sizes; and that RequestText reads     *)
(* back what was written, for fields of any number and length.  The last   *)
(* two rest on the sequence lemmas between them: a sequence cut at one     *)
(* place, at two, and at every border of its parts.                        *)
(***************************************************************************)
EXTENDS RequestText, ChunkedBody, ScanProofs

-----------------------------------------------------------------------------
(* The positions *)


(***************************************************************************)
(* The positions are numbers, of which 0 stands for npos.                  *)
(***************************************************************************)
PositionTypes ==
    /\ c \in Nat \ {0}
    /\ nameStart \in Nat
    /\ nameEnd \in Nat
    /\ valueStart \in Nat

(***************************************************************************)
(* The loop over a query string is always in a name or behind one.         *)
(***************************************************************************)
QueryHasName == job = "query" => nameStart # NPos

IInv == PositionTypes /\ QueryHasName /\ PositionsInOrder

LEMMA InitIInv == Init => IInv
BY DEF Init, IInv, PositionTypes, QueryHasName, PositionsInOrder, NPos

LEMMA InvStep == IInv /\ [Next]_vars => IInv'
<1> SUFFICES ASSUME IInv, [Next]_vars PROVE IInv'
    OBVIOUS
<1> USE DEF IInv, PositionTypes, QueryHasName, PositionsInOrder, NPos
<1>1. CASE QueryScan
    <2>1. c' = c + 1
        BY <1>1 DEF QueryScan
    <2>2. \/ nameStart' = c + 1 /\ nameEnd' = 0 /\ valueStart' = 0
          \/ nameEnd = 0 /\ nameEnd' = c /\ valueStart' = c + 1 /\ UNCHANGED nameStart
          \/ UNCHANGED <<nameStart, nameEnd, valueStart>>
        BY <1>1, Zenon DEF QueryScan, Forget
    <2>3. job = "query" /\ UNCHANGED job
        BY <1>1 DEF QueryScan
    <2>4. QED
        BY <2>1, <2>2, <2>3
<1>2. CASE QueryEnd
    BY <1>2 DEF QueryEnd, Finish
<1>3. CASE AttributesScan
    <2>1. c' = c + 1 /\ job = "attributes" /\ UNCHANGED job
        BY <1>3 DEF AttributesScan
    <2>2. CASE StartName
        <3>1. /\ nameStart' = 0 \/ nameStart' = c
              /\ nameStart = 0 /\ UNCHANGED <<nameEnd, valueStart>>
            BY <2>2, Zenon DEF StartName
        <3>2. QED
            BY <2>1, <3>1
    <2>3. CASE ReadName
        <3>1. /\ nameStart # 0 /\ nameEnd = 0 /\ UNCHANGED valueStart
              /\ \/ nameStart' = 0 /\ UNCHANGED nameEnd
                 \/ UNCHANGED nameStart /\ (nameEnd' = 0 \/ nameEnd' = c)
            BY <2>3, Zenon DEF ReadName
        <3>2. QED
            BY <2>1, <3>1
    <2>4. CASE StartValue
        BY <2>1, <2>4 DEF StartValue
    <2>5. CASE ReadValue
        <3>1. \/ nameStart' = 0 /\ nameEnd' = 0 /\ valueStart' = 0
              \/ UNCHANGED <<nameStart, nameEnd, valueStart>>
            BY <2>5, Zenon DEF ReadValue, Forget
        <3>2. QED
            BY <2>1, <3>1
    <2>6. QED
        BY <1>3, <2>2, <2>3, <2>4, <2>5 DEF AttributesScan
<1>4. CASE AttributesEnd
    BY <1>4 DEF AttributesEnd, Finish
<1>5. CASE ReadRequestLine \/ ReadHeaderLine
    BY <1>5 DEF ReadRequestLine, ReadHeaderLine, scan
<1>6. CASE UNCHANGED vars
    BY <1>6 DEF vars, scan
<1>7. QED
    BY <1>1, <1>2, <1>3, <1>4, <1>5, <1>6 DEF Next

(***************************************************************************)
(* For every text, QueryString::parse and SemicolonSeparatedAttributes::   *)
(* parse cut only where a name starts before it ends and a value starts    *)
(* behind that: no length wraps around.                                    *)
(***************************************************************************)
THEOREM PositionsStayInOrder == Spec => []PositionsInOrder
<1>1. IInv /\ [Next]_vars => IInv'
    BY InvStep
<1>2. IInv => PositionsInOrder
    BY DEF IInv
<1>3. QED
    BY <1>1, <1>2, InitIInv, PTL DEF Spec


-----------------------------------------------------------------------------
(* Sequences that are cut in two *)

Triple(D, s, t, r) == s \in Seq(D) /\ t \in Seq(D) /\ r \in Seq(D)

Associates(s, t, r) == (s \o t) \o r = s \o (t \o r)

LEMMA Reassociated ==
    ASSUME NEW D, NEW s, NEW t, NEW r, Triple(D, s, t, r)
    PROVE  Associates(s, t, r)
<1>1. s \in Seq(D) /\ t \in Seq(D) /\ r \in Seq(D)
    BY DEF Triple
<1>2. QED
    BY <1>1, ConcatAssociative DEF Associates

LEMMA CutInTwo ==
    ASSUME NEW D, NEW s \in Seq(D), NEW n \in 0 .. Len(s)
    PROVE  /\ First(s, n) \in Seq(D) /\ Len(First(s, n)) = n
           /\ \A i \in 1 .. n : First(s, n)[i] = s[i]
           /\ After(s, n) \in Seq(D) /\ Len(After(s, n)) = Len(s) - n
           /\ \A i \in 1 .. Len(s) - n : After(s, n)[i] = s[n + i]
           /\ First(s, n) \o After(s, n) = s
<1>1. Len(s) \in Nat /\ n \in Nat /\ 1 \in 1 .. Len(s) + 1 /\ n \in 1 - 1 .. Len(s)
      /\ Len(s) \in n .. Len(s) /\ 1 \in Int /\ n + 1 \in Int
    BY LenProperties
<1>2. /\ \A i \in 1 .. n : s[i] \in D
      /\ \A i \in n + 1 .. Len(s) : s[i] \in D
    BY <1>1, ElementOfSeq
<1>3. SubSeq(s, 1, n) \in Seq(D) /\ Len(SubSeq(s, 1, n)) = (IF 1 <= n THEN n - 1 + 1 ELSE 0)
      /\ \A i \in 1 .. n - 1 + 1 : SubSeq(s, 1, n)[i] = s[1 + i - 1]
    BY <1>1, <1>2, SubSeqProperties
<1>4. SubSeq(s, n + 1, Len(s)) \in Seq(D)
      /\ Len(SubSeq(s, n + 1, Len(s)))
             = (IF n + 1 <= Len(s) THEN Len(s) - (n + 1) + 1 ELSE 0)
      /\ \A i \in 1 .. Len(s) - (n + 1) + 1 : SubSeq(s, n + 1, Len(s))[i] = s[n + 1 + i - 1]
    BY <1>1, <1>2, SubSeqProperties
<1>5. SubSeq(s, 1, n) \o SubSeq(s, n + 1, Len(s)) = SubSeq(s, 1, Len(s))
    BY <1>1, ConcatAdjacentSubSeq
<1>6. SubSeq(s, 1, Len(s)) = s
    BY SubSeqFull
<1>7. n - 1 + 1 = n /\ \A i \in 1 .. n : 1 + i - 1 = i
    BY <1>1
<1>8. Len(First(s, n)) = n /\ Len(After(s, n)) = Len(s) - n
    BY <1>1, <1>3, <1>4 DEF First, After
<1>9. \A i \in 1 .. n : First(s, n)[i] = s[i]
    BY <1>3, <1>7 DEF First
<1>10. \A i \in 1 .. Len(s) - n : After(s, n)[i] = s[n + i]
    <2>1. Len(s) - (n + 1) + 1 = Len(s) - n /\ \A i \in 1 .. Len(s) - n : n + 1 + i - 1 = n + i
        BY <1>1
    <2>2. QED
        BY <1>4, <2>1 DEF After
<1>11. QED
    BY <1>3, <1>4, <1>5, <1>6, <1>8, <1>9, <1>10 DEF First, After

Joins(r, s, t) ==
    /\ Len(r) = Len(s) + Len(t)
    /\ \A i \in 1 .. Len(s) : r[i] = s[i]
    /\ \A i \in 1 .. Len(t) : r[Len(s) + i] = t[i]

LEMMA Joined ==
    ASSUME NEW D, NEW s \in Seq(D), NEW t \in Seq(D)
    PROVE  Joins(s \o t, s, t)
<1>1. Len(s) \in Nat /\ Len(t) \in Nat
    BY LenProperties
<1>2. /\ \A i \in 1 .. Len(s) : i \in 1 .. Len(s) + Len(t) /\ i <= Len(s)
      /\ \A i \in 1 .. Len(t) : /\ Len(s) + i \in 1 .. Len(s) + Len(t)
                                  /\ ~(Len(s) + i <= Len(s)) /\ (Len(s) + i) - Len(s) = i
    BY <1>1
<1>3. QED
    BY <1>2, ConcatProperties DEF Joins

JoinTwice(D, w, x, y, p, q, f, a, v) ==
    /\ x \in Seq(D) /\ y \in Seq(D) /\ p \in Seq(D) /\ q \in Seq(D)
    /\ f \in Seq(D) /\ a \in Seq(D) /\ v \in Seq(D)
    /\ Joins(w, x, y) /\ Joins(w, p, q) /\ Joins(x, f, a) /\ Joins(v, a, y)
    /\ Len(f) = Len(p)

LEMMA JoinsTwice ==
    ASSUME NEW D, NEW w, NEW x, NEW y, NEW p, NEW q, NEW f, NEW a, NEW v,
           JoinTwice(D, w, x, y, p, q, f, a, v)
    PROVE  f = p /\ v = q
<1>0. /\ x \in Seq(D) /\ y \in Seq(D) /\ p \in Seq(D) /\ q \in Seq(D)
      /\ f \in Seq(D) /\ a \in Seq(D) /\ v \in Seq(D)
      /\ Joins(w, x, y) /\ Joins(w, p, q) /\ Joins(x, f, a) /\ Joins(v, a, y)
      /\ Len(f) = Len(p)
    BY DEF JoinTwice
<1>1. /\ Len(x) \in Nat /\ Len(y) \in Nat /\ Len(p) \in Nat /\ Len(q) \in Nat
      /\ Len(a) \in Nat /\ Len(v) \in Nat
    BY <1>0, LenProperties
<1>2. /\ Len(x) = Len(p) + Len(a) /\ Len(v) = Len(a) + Len(y)
      /\ Len(x) + Len(y) = Len(p) + Len(q)
    BY <1>0 DEF Joins
<1>3. Len(v) = Len(q)
    BY <1>0, <1>1, <1>2
<1>4. \A i \in 1 .. Len(p) : f[i] = p[i]
    <2>1. ASSUME NEW i \in 1 .. Len(p) PROVE f[i] = p[i]
        <3>1. i \in 1 .. Len(x)
            BY <1>0, <1>1, <1>2
        <3>2. f[i] = x[i] /\ x[i] = w[i] /\ w[i] = p[i]
            BY <1>0, <3>1 DEF Joins
        <3>3. QED
            BY <1>0, <3>2
    <2>2. QED
        BY <1>0, <2>1
<1>5. \A i \in 1 .. Len(v) : v[i] = q[i]
    <2>1. ASSUME NEW i \in 1 .. Len(v) PROVE v[i] = q[i]
        <3>1. w[Len(p) + i] = q[i]
            BY <1>0, <1>3 DEF Joins
        <3>2. CASE i \in 1 .. Len(a)
            <4>1. Len(p) + i \in 1 .. Len(x)
                BY <1>0, <1>1, <1>2, <3>2
            <4>2. v[i] = a[i] /\ a[i] = x[Len(p) + i] /\ x[Len(p) + i] = w[Len(p) + i]
                BY <1>0, <3>2, <4>1 DEF Joins
            <4>3. QED
                BY <1>0, <3>1, <4>2
        <3>3. CASE i \notin 1 .. Len(a)
            <4>1. PICK j \in 1 .. Len(y) : i = Len(a) + j
                <5>1. i - Len(a) \in 1 .. Len(y) /\ i = Len(a) + (i - Len(a))
                    BY <1>0, <1>1, <1>2, <3>3
                <5>2. QED
                    BY <1>0, <5>1
            <4>2. Len(p) + i = Len(x) + j
                BY <1>0, <1>1, <1>2, <4>1
            <4>3. v[i] = y[j] /\ w[Len(x) + j] = y[j]
                BY <1>0, <4>1 DEF Joins
            <4>4. QED
                BY <1>0, <3>1, <4>2, <4>3
        <3>4. QED
            BY <1>0, <3>2, <3>3
    <2>2. QED
        BY <1>0, <2>1
<1>6. QED
    BY <1>0, <1>3, <1>4, <1>5, SeqEqual

(***************************************************************************)
(* A sequence that is cut in two ways                                      *)
(***************************************************************************)
TwoCuts(D, x, y, p, q) ==
    /\ x \in Seq(D) /\ y \in Seq(D) /\ p \in Seq(D) /\ q \in Seq(D)
    /\ x \o y = p \o q
    /\ Len(p) <= Len(x)

LEMMA CutTwice ==
    ASSUME NEW D, NEW x, NEW y, NEW p, NEW q, TwoCuts(D, x, y, p, q)
    PROVE  /\ First(x, Len(p)) = p
           /\ After(x, Len(p)) \in Seq(D)
           /\ Len(After(x, Len(p))) = Len(x) - Len(p)
           /\ x = p \o After(x, Len(p))
           /\ After(x, Len(p)) \o y = q
<1>0. /\ x \in Seq(D) /\ y \in Seq(D) /\ p \in Seq(D) /\ q \in Seq(D)
      /\ x \o y = p \o q /\ Len(p) <= Len(x)
    BY DEF TwoCuts
<1>1. Len(p) \in 0 .. Len(x)
    BY <1>0, LenProperties
<1>2. PICK f \in Seq(D), a \in Seq(D) :
          /\ f = First(x, Len(p)) /\ a = After(x, Len(p))
          /\ Len(f) = Len(p) /\ Len(a) = Len(x) - Len(p) /\ f \o a = x
    BY <1>0, <1>1, CutInTwo, ZenonT(40)
<1>3. Joins(x \o y, x, y) /\ Joins(p \o q, p, q) /\ Joins(f \o a, f, a) /\ Joins(a \o y, a, y)
      /\ a \o y \in Seq(D)
    <2>1. Joins(x \o y, x, y)
        BY <1>0, Joined
    <2>2. Joins(p \o q, p, q)
        BY <1>0, Joined
    <2>3. Joins(f \o a, f, a) /\ Joins(a \o y, a, y)
        BY <1>0, Joined
    <2>4. a \o y \in Seq(D)
        BY <1>0, ConcatProperties
    <2>5. QED
        BY <2>1, <2>2, <2>3, <2>4
<1>4. PICK w : Joins(w, x, y) /\ Joins(w, p, q)
    BY <1>0, <1>3
<1>5. PICK v \in Seq(D) : v = a \o y /\ Joins(v, a, y)
    BY <1>0, <1>3
<1>6. Joins(x, f, a)
    BY <1>2, <1>3
<1>7. f = p /\ v = q
    <2>1. JoinTwice(D, w, x, y, p, q, f, a, v)
        BY <1>0, <1>2, <1>4, <1>5, <1>6 DEF JoinTwice
    <2>2. QED
        BY <2>1, JoinsTwice
<1>8. QED
    BY <1>2, <1>5, <1>7

(***************************************************************************)
(* A flat sequence, cut between any two of its parts                       *)
(***************************************************************************)
Parts(D, ss, tail, before, behind) ==
    /\ before \in [0 .. Len(ss) -> Seq(D)]
    /\ behind \in [0 .. Len(ss) -> Seq(D)]
    /\ before[0] = << >>
    /\ behind[Len(ss)] = tail
    /\ \A i \in 1 .. Len(ss) : /\ before[i] = before[i - 1] \o ss[i]
                               /\ behind[i - 1] = ss[i] \o behind[i]
    /\ before[Len(ss)] = FlattenSeq(ss)
    /\ \A i \in 0 .. Len(ss) : before[i] \o behind[i] = FlattenSeq(ss) \o tail

LEMMA CutAnywhere ==
    ASSUME NEW D, NEW ss \in Seq(Seq(D)), NEW tail \in Seq(D)
    PROVE  \E before, behind : Parts(D, ss, tail, before, behind)
<1> DEFINE n == Len(ss)
<1> DEFINE A == Seq(D)
<1>1. n \in Nat /\ \A i \in 1 .. n : ss[i] \in A
    BY LenProperties, ElementOfSeq
<1>2. PICK before \in [0 .. n -> A] :
          /\ before[0] = << >>
          /\ \A i \in 1 .. n : before[i] = before[i - 1] \o ss[i]
          /\ before[n] = FlattenSeq(ss)
    <2>1. CASE ss = << >>
        <3> DEFINE f == [i \in 0 .. n |-> << >>]
        <3>1. n = 0 /\ << >> \in A
            BY <2>1, EmptySeq
        <3>2. f \in [0 .. n -> A] /\ f[0] = << >> /\ f[n] = << >>
            BY <1>1, <3>1
        <3>3. FlattenSeq(ss) = << >>
            BY <2>1, FlattenEmpty
        <3>4. \A i \in 1 .. n : FALSE
            BY <3>1
        <3> HIDE DEF f, n, A
        <3>5. QED
            BY <3>2, <3>3, <3>4
    <2>2. CASE ss # << >>
        <3>1. PICK u \in [1 .. n -> A] :
                  /\ u[1] = ss[1]
                  /\ \A i \in 2 .. n : u[i] = u[i - 1] \o ss[i]
                  /\ FlattenSeq(ss) = u[n]
            BY <2>2, FlattenJoined
        <3> DEFINE f == [i \in 0 .. n |-> IF i = 0 THEN << >> ELSE u[i]]
        <3>2. n # 0 /\ << >> \in A
            BY <2>2, EmptySeq
        <3> HIDE DEF n
        <3>3. f \in [0 .. n -> A] /\ f[0] = << >> /\ \A i \in 1 .. n : f[i] = u[i]
            <4> HIDE DEF A
            <4>1. QED
                BY <1>1, <3>1, <3>2
        <3> HIDE DEF f
        <3>4. ASSUME NEW i \in 1 .. n PROVE f[i] = f[i - 1] \o ss[i]
            <4>1. CASE i = 1
                <5>1. f[i - 1] = << >> /\ ss[i] \in A
                    BY <1>1, <3>3, <4>1
                <5>2. << >> \o ss[i] = ss[i]
                    BY <5>1, ConcatEmptySeq
                <5>3. QED
                    BY <3>1, <3>3, <4>1, <5>1, <5>2
            <4>2. CASE i # 1
                <5>1. i \in 2 .. n /\ i - 1 \in 1 .. n
                    BY <1>1, <4>2
                <5>2. QED
                    BY <3>1, <3>3, <5>1
            <4>3. QED
                BY <4>1, <4>2
        <3>5. n \in 1 .. n
            BY <1>1, <3>2
        <3>6. QED
            BY <3>1, <3>3, <3>4, <3>5
    <2>3. QED
        BY <2>1, <2>2
<1>3. PICK behind \in [0 .. n -> A] :
          behind[n] = tail /\ \A i \in 1 .. n : behind[i - 1] = ss[i] \o behind[i]
    <2> DEFINE step == [i \in 1 .. n |-> [x \in A |-> ss[n - i + 1] \o x]]
    <2>1. step \in [1 .. n -> [A -> A]]
        <3>1. \A i \in 1 .. n : n - i + 1 \in 1 .. n
            BY <1>1
        <3>2. \A i \in 1 .. n : \A x \in A : ss[n - i + 1] \o x \in A
            BY <1>1, <3>1, ConcatProperties
        <3> HIDE DEF A
        <3>3. QED
            BY <1>1, <3>2
    <2>2. PICK w \in [0 .. n -> A] : w[0] = tail /\ \A i \in 1 .. n : w[i] = step[i][w[i - 1]]
        <3> HIDE DEF step, n
        <3>1. \E w : Recursive(w, A, tail, n, step)
            <4>1. tail \in A
                OBVIOUS
            <4> HIDE DEF A
            <4>2. QED
                BY <1>1, <2>1, <4>1, Recursion
        <3>2. QED
            BY <3>1 DEF Recursive
    <2>3. \A i \in 1 .. n : w[i] = ss[n - i + 1] \o w[i - 1]
        <3> HIDE DEF A
        <3>1. \A i \in 1 .. n : w[i - 1] \in A
            <4>1. \A i \in 1 .. n : i - 1 \in 0 .. n
                BY <1>1
            <4>2. QED
                BY <4>1
        <3>2. QED
            BY <2>2, <3>1
    <2> HIDE DEF step
    <2> DEFINE f == [i \in 0 .. n |-> w[n - i]]
    <2>4. f \in [0 .. n -> A] /\ \A i \in 0 .. n : f[i] = w[n - i]
        <3> HIDE DEF A
        <3>1. \A i \in 0 .. n : n - i \in 0 .. n
            BY <1>1
        <3>2. QED
            BY <3>1
    <2> HIDE DEF f, n
    <2>5. f[n] = tail
        <3>1. n \in 0 .. n /\ n - n = 0
            BY <1>1
        <3>2. QED
            BY <2>2, <2>4, <3>1
    <2>6. ASSUME NEW i \in 1 .. n PROVE f[i - 1] = ss[i] \o f[i]
        <3>1. /\ i \in 0 .. n /\ i - 1 \in 0 .. n /\ n - i + 1 \in 1 .. n
              /\ n - (i - 1) = n - i + 1 /\ n - (n - i + 1) + 1 = i /\ (n - i + 1) - 1 = n - i
            BY <1>1
        <3>2. w[n - i + 1] = ss[n - (n - i + 1) + 1] \o w[(n - i + 1) - 1]
            BY <2>3, <3>1
        <3>3. QED
            BY <2>4, <3>1, <3>2
    <2>7. QED
        BY <2>4, <2>5, <2>6
<1>4. \A i \in 1 .. n : before[i - 1] \o behind[i - 1] = before[i] \o behind[i]
    <2>1. SUFFICES ASSUME NEW i \in 1 .. n
                   PROVE  before[i - 1] \o behind[i - 1] = before[i] \o behind[i]
        OBVIOUS
    <2>2. i \in 0 .. n /\ i - 1 \in 0 .. n
        BY <1>1
    <2>3. before[i - 1] \in A /\ ss[i] \in A /\ behind[i] \in A
        <3> HIDE DEF A
        <3>1. QED
            BY <1>1, <2>2
    <2>4. before[i - 1] \o (ss[i] \o behind[i]) = (before[i - 1] \o ss[i]) \o behind[i]
        <3>1. before[i - 1] \in Seq(D) /\ ss[i] \in Seq(D) /\ behind[i] \in Seq(D)
            BY <2>3
        <3> HIDE DEF A
        <3>2. PICK x, y, z : /\ x = before[i - 1] /\ y = ss[i] /\ z = behind[i]
                             /\ Triple(D, x, y, z)
            BY <3>1 DEF Triple
        <3>3. Triple(D, x, y, z)
            BY <3>2
        <3>4. Associates(x, y, z)
            BY <3>3, Reassociated
        <3>5. QED
            BY <3>2, <3>4 DEF Associates
    <2>5. QED
        BY <1>2, <1>3, <2>4
<1> DEFINE all == [i \in 0 .. n |-> before[i] \o behind[i]]
<1> DEFINE const == [i \in 0 .. n |-> before[0] \o behind[0]]
<1>5. \A i \in 0 .. n : all[i] = const[i]
    <2>1. SameSteps(all, const, 0, n)
        <3>1. \A i \in 0 .. n : i # 0 => i \in 1 .. n /\ i - 1 \in 0 .. n
            BY <1>1
        <3>2. ASSUME NEW i \in 0 .. n, i # 0, all[i - 1] = const[i - 1] PROVE all[i] = const[i]
            BY <1>4, <3>1, <3>2
        <3>3. QED
            BY <3>2 DEF SameSteps
    <2>2. all[0] = const[0]
        BY <1>1
    <2> HIDE DEF n, all, const
    <2>3. QED
        BY <1>1, <2>1, <2>2, Agreement
<1>6. \A i \in 0 .. n : before[i] \o behind[i] = before[n] \o behind[n]
    <2>1. n \in 0 .. n
        BY <1>1
    <2>2. QED
        BY <1>5, <2>1
<1>7. QED
    <2> HIDE DEF n, A, all, const
    <2>1. before[n] \o behind[n] = FlattenSeq(ss) \o tail
        BY <1>2, <1>3
    <2>2. \A i \in 0 .. n : before[i] \o behind[i] = FlattenSeq(ss) \o tail
        BY <1>6, <2>1
    <2>3. QED
        <3>1. /\ before \in [0 .. Len(ss) -> Seq(D)] /\ behind \in [0 .. Len(ss) -> Seq(D)]
            BY DEF n, A
        <3>2. /\ before[0] = << >>
              /\ behind[Len(ss)] = tail
              /\ before[Len(ss)] = FlattenSeq(ss)
            BY <1>2, <1>3 DEF n
        <3>3. \A i \in 1 .. Len(ss) : /\ before[i] = before[i - 1] \o ss[i]
                                      /\ behind[i - 1] = ss[i] \o behind[i]
            BY <1>2, <1>3 DEF n
        <3>4. \A i \in 0 .. Len(ss) : before[i] \o behind[i] = FlattenSeq(ss) \o tail
            BY <2>2 DEF n
        <3>5. Parts(D, ss, tail, before, behind)
            BY <3>1, <3>2, <3>3, <3>4, Zenon DEF Parts
        <3>6. QED
            BY <3>5

LEMMA CutConcat ==
    ASSUME NEW D, NEW s \in Seq(D), NEW t \in Seq(D)
    PROVE  First(s \o t, Len(s)) = s /\ After(s \o t, Len(s)) = t
<1>1. PICK x \in Seq(D) : x = s \o t /\ x \o << >> = s \o t /\ Len(s) <= Len(x)
    <2>1. s \o t \in Seq(D) /\ Len(s \o t) = Len(s) + Len(t) /\ Len(s) \in Nat /\ Len(t) \in Nat
        BY ConcatProperties, LenProperties
    <2>2. (s \o t) \o << >> = s \o t
        BY <2>1, ConcatEmptySeq
    <2>3. Len(s) <= Len(s \o t)
        BY <2>1
    <2>4. QED
        BY <2>1, <2>2, <2>3
<1>2. PICK e : e = << >> /\ e \in Seq(D)
    <2>1. << >> \in Seq(D)
        OBVIOUS
    <2>2. QED
        BY <2>1
<1>3. First(x, Len(s)) = s /\ After(x, Len(s)) \in Seq(D) /\ After(x, Len(s)) \o e = t
    <2>1. TwoCuts(D, x, e, s, t)
        BY <1>1, <1>2 DEF TwoCuts
    <2>2. QED
        BY <2>1, CutTwice
<1>4. After(x, Len(s)) = t
    BY <1>2, <1>3, ConcatEmptySeq
<1>5. QED
    BY <1>1, <1>3, <1>4

LEMMA CutAgain ==
    ASSUME NEW D, NEW s \in Seq(D), NEW m \in Nat, NEW n \in Nat, m + n <= Len(s)
    PROVE  After(After(s, m), n) = After(s, m + n)
<1>1. PICK l \in Nat : l = Len(s)
    BY LenProperties
<1>2. PICK t \in Seq(D) : /\ t = After(s, m) /\ Len(t) = l - m
                          /\ \A i \in 1 .. l - m : t[i] = s[m + i]
    <2>1. m \in 0 .. Len(s)
        BY <1>1
    <2>2. /\ After(s, m) \in Seq(D) /\ Len(After(s, m)) = Len(s) - m
          /\ \A i \in 1 .. Len(s) - m : After(s, m)[i] = s[m + i]
        BY <2>1, CutInTwo
    <2>3. QED
        BY <1>1, <2>2
<1>3. PICK u \in Seq(D) : /\ u = After(s, m + n) /\ Len(u) = l - (m + n)
                          /\ \A i \in 1 .. l - (m + n) : u[i] = s[(m + n) + i]
    <2>1. m + n \in 0 .. Len(s)
        BY <1>1
    <2>2. /\ After(s, m + n) \in Seq(D) /\ Len(After(s, m + n)) = Len(s) - (m + n)
          /\ \A i \in 1 .. Len(s) - (m + n) : After(s, m + n)[i] = s[(m + n) + i]
        BY <2>1, CutInTwo
    <2>3. QED
        BY <1>1, <2>2
<1>4. PICK v \in Seq(D) : /\ v = After(t, n) /\ Len(v) = Len(t) - n
                          /\ \A i \in 1 .. Len(t) - n : v[i] = t[n + i]
    <2>1. n \in 0 .. Len(t)
        BY <1>1, <1>2
    <2>2. /\ After(t, n) \in Seq(D) /\ Len(After(t, n)) = Len(t) - n
          /\ \A i \in 1 .. Len(t) - n : After(t, n)[i] = t[n + i]
        BY <2>1, CutInTwo
    <2>3. QED
        BY <2>2
<1>5. Len(u) = l - (m + n) /\ Len(v) = l - (m + n)
    <2>1. (l - m) - n = l - (m + n)
        OBVIOUS
    <2>2. QED
        BY <1>2, <1>3, <1>4, <2>1
<1>6. ASSUME NEW i \in 1 .. Len(u) PROVE u[i] = v[i]
    <2>1. /\ i \in 1 .. l - (m + n) /\ i \in 1 .. Len(t) - n
          /\ n + i \in 1 .. l - m /\ m + (n + i) = (m + n) + i
        BY <1>2, <1>5
    <2>2. v[i] = t[n + i] /\ t[n + i] = s[m + (n + i)] /\ u[i] = s[(m + n) + i]
        BY <1>2, <1>3, <1>4, <2>1
    <2>3. QED
        BY <2>1, <2>2
<1>7. u = v
    BY <1>5, <1>6, SeqEqual
<1>8. QED
    BY <1>2, <1>3, <1>4, <1>7

LEMMA Whole ==
    ASSUME NEW D, NEW s \in Seq(D)
    PROVE  First(s, Len(s)) = s
BY SubSeqFull DEF First

(***************************************************************************)
(* Prefixes and suffixes                                                   *)
(***************************************************************************)
LEMMA PrefixOf ==
    ASSUME NEW D, NEW s \in Seq(D), NEW t \in Seq(D)
    PROVE  IsPrefix(s, s \o t)
<1>1. First(s \o t, Len(s)) = s /\ First(s, Len(s)) = s
    BY CutConcat, Whole
<1>2. Len(s \o t) = Len(s) + Len(t) /\ Len(s) \in Nat /\ Len(t) \in Nat
    BY ConcatProperties, LenProperties
<1>3. Len(s) <= Len(s \o t)
    BY <1>2
<1>4. QED
    BY <1>1, <1>3 DEF IsPrefix, First

LEMMA Reversed ==
    ASSUME NEW D, NEW s \in Seq(D)
    PROVE  Len(Reverse(s)) = Len(s) /\ \A i \in 1 .. Len(s) : Reverse(s)[i] = s[(Len(s) - i) + 1]
<1>1. PICK n \in Nat : n = Len(s)
    BY LenProperties
<1>2. Reverse(s) = [i \in 1 .. n |-> s[(n - i) + 1]]
    BY <1>1 DEF Reverse
<1>3. Len([i \in 1 .. n |-> s[(n - i) + 1]]) = n
    OBVIOUS
<1>4. QED
    BY <1>1, <1>2, <1>3

LEMMA SameStart ==
    ASSUME NEW D, NEW r, NEW u, NEW l \in Nat, \A i \in 1 .. l : r[i] = u[i] /\ r[i] \in D
    PROVE  SubSeq(r, 1, l) = SubSeq(u, 1, l)
<1>1. /\ \A i \in 1 .. l : r[i] \in D
      /\ \A i \in 1 .. l : u[i] \in D
      /\ 1 \in Int /\ l \in Int
      /\ \A i \in 1 .. l : i \in 1 .. l - 1 + 1 /\ 1 + i - 1 = i
    OBVIOUS
<1>2. /\ SubSeq(r, 1, l) \in Seq(D)
      /\ Len(SubSeq(r, 1, l)) = (IF 1 <= l THEN l - 1 + 1 ELSE 0)
      /\ \A i \in 1 .. l - 1 + 1 : SubSeq(r, 1, l)[i] = r[1 + i - 1]
    BY <1>1, SubSeqProperties
<1>3. /\ SubSeq(u, 1, l) \in Seq(D)
      /\ Len(SubSeq(u, 1, l)) = (IF 1 <= l THEN l - 1 + 1 ELSE 0)
      /\ \A i \in 1 .. l - 1 + 1 : SubSeq(u, 1, l)[i] = u[1 + i - 1]
    BY <1>1, SubSeqProperties
<1>4. Len(SubSeq(r, 1, l)) = l /\ Len(SubSeq(u, 1, l)) = l
    <2>1. (IF 1 <= l THEN l - 1 + 1 ELSE 0) = l
        OBVIOUS
    <2>2. QED
        BY <1>2, <1>3, <2>1
<1>5. \A i \in 1 .. l : SubSeq(r, 1, l)[i] = r[i] /\ SubSeq(u, 1, l)[i] = u[i]
    BY <1>1, <1>2, <1>3
<1>6. \A i \in 1 .. Len(SubSeq(r, 1, l)) : SubSeq(r, 1, l)[i] = SubSeq(u, 1, l)[i]
    BY <1>4, <1>5
<1>7. QED
    BY <1>2, <1>3, <1>4, <1>6, SeqEqual

LEMMA SuffixOf ==
    ASSUME NEW D, NEW s \in Seq(D), NEW t \in Seq(D)
    PROVE  IsSuffix(t, s \o t)
<1>1. PICK w \in Seq(D) : w = s \o t /\ Joins(w, s, t)
    BY Joined, ConcatProperties
<1>2. /\ Len(s) \in Nat /\ Len(t) \in Nat /\ Len(w) = Len(s) + Len(t)
      /\ \A i \in 1 .. Len(t) : w[Len(s) + i] = t[i]
    BY <1>1, LenProperties DEF Joins
<1>3. PICK r : r = Reverse(t) /\ Len(r) = Len(t) /\ \A i \in 1 .. Len(t) : r[i] = t[(Len(t) - i) + 1]
    BY Reversed
<1>4. PICK u : u = Reverse(w) /\ Len(u) = Len(w) /\ \A i \in 1 .. Len(w) : u[i] = w[(Len(w) - i) + 1]
    BY Reversed
<1>5. ASSUME NEW i \in 1 .. Len(t) PROVE r[i] = u[i] /\ r[i] \in D
    <2>1. /\ (Len(t) - i) + 1 \in 1 .. Len(t) /\ i \in 1 .. Len(w)
          /\ (Len(w) - i) + 1 = Len(s) + ((Len(t) - i) + 1)
        BY <1>2
    <2>2. r[i] = t[(Len(t) - i) + 1] /\ u[i] = w[Len(s) + ((Len(t) - i) + 1)]
        BY <1>3, <1>4, <2>1
    <2>3. t[(Len(t) - i) + 1] \in D
        BY <2>1, ElementOfSeq
    <2>4. QED
        BY <1>2, <2>1, <2>2, <2>3
<1>6. SubSeq(r, 1, Len(t)) = SubSeq(u, 1, Len(t))
    BY <1>2, <1>5, SameStart
<1>7. Len(t) <= Len(w)
    BY <1>2
<1>8. QED
    BY <1>1, <1>3, <1>4, <1>6, <1>7 DEF IsSuffix, IsPrefix

LEMMA PrefixByElements ==
    ASSUME NEW D, NEW s \in Seq(D), NEW t \in Seq(D)
    PROVE  IsPrefix(s, t) <=> Len(s) <= Len(t) /\ \A i \in 1 .. Len(s) : s[i] = t[i]
<1>1. PICK l \in Nat : l = Len(s)
    BY LenProperties
<1>2. PICK m \in Nat : m = Len(t)
    BY LenProperties
<1>3. \A i \in 1 .. l : s[i] \in D
    BY <1>1, ElementOfSeq
<1>4. ASSUME IsPrefix(s, t) PROVE l <= m /\ \A i \in 1 .. l : s[i] = t[i]
    <2>1. l <= m /\ SubSeq(s, 1, l) = SubSeq(t, 1, l)
        BY <1>1, <1>2, <1>4 DEF IsPrefix
    <2>2. l \in 0 .. m /\ l \in 0 .. l
        BY <2>1
    <2>3. /\ \A i \in 1 .. l : First(s, l)[i] = s[i]
          /\ \A i \in 1 .. l : First(t, l)[i] = t[i]
        BY <1>1, <1>2, <2>2, CutInTwo
    <2>4. QED
        BY <2>1, <2>3 DEF First
<1>5. ASSUME l <= m, \A i \in 1 .. l : s[i] = t[i] PROVE IsPrefix(s, t)
    <2>1. SubSeq(s, 1, l) = SubSeq(t, 1, l)
        BY <1>3, <1>5, SameStart
    <2>2. QED
        BY <1>1, <1>2, <1>5, <2>1 DEF IsPrefix
<1>6. QED
    BY <1>1, <1>2, <1>4, <1>5

LEMMA PrefixOfPrefix ==
    ASSUME NEW D, NEW s \in Seq(D), NEW t \in Seq(D), NEW u \in Seq(D),
           IsPrefix(s, t), IsPrefix(t, u)
    PROVE  IsPrefix(s, u)
<1>1. Len(s) \in Nat /\ Len(t) \in Nat /\ Len(u) \in Nat
    BY LenProperties
<1>2. Len(s) <= Len(t) /\ \A i \in 1 .. Len(s) : s[i] = t[i]
    BY PrefixByElements
<1>3. Len(t) <= Len(u) /\ \A i \in 1 .. Len(t) : t[i] = u[i]
    BY PrefixByElements
<1>4. Len(s) <= Len(u) /\ \A i \in 1 .. Len(s) : s[i] = u[i]
    BY <1>1, <1>2, <1>3
<1>5. QED
    BY <1>4, PrefixByElements

-----------------------------------------------------------------------------
(* The bytes of a body *)

Octets == [kind : Kinds \cup {"size"}, no : Nat]
Chunked == Seq(Seq(Kinds) \ {<< >>})

LEMMA LineBreak == CRLF \in Seq(Octets) /\ Len(CRLF) = 2
<1>1. Byte("CR", 0) \in Octets /\ Byte("LF", 0) \in Octets
    BY DEF Byte, Octets, Kinds
<1>2. QED
    BY <1>1 DEF CRLF

LEMMA SizeLine ==
    ASSUME NEW n \in Nat
    PROVE  /\ Size(n) \in Seq(Octets) /\ Len(Size(n)) = 3
           /\ Size(n)[1].kind = "size" /\ Size(n)[1].no = n
<1>1. Byte("size", n) \in Octets /\ Byte("size", n).kind = "size" /\ Byte("size", n).no = n
    BY DEF Byte, Octets
<1> DEFINE s == <<Byte("size", n)>>
<1>2. s \in Seq(Octets) /\ Len(s) = 1 /\ s[1] = Byte("size", n)
    BY <1>1
<1> HIDE DEF s
<1>3. /\ s \o CRLF \in Seq(Octets) /\ Len(s \o CRLF) = 1 + 2
      /\ (s \o CRLF)[1] = s[1]
    <2>1. Joins(s \o CRLF, s, CRLF)
        BY <1>2, LineBreak, Joined
    <2>2. s \o CRLF \in Seq(Octets)
        BY <1>2, LineBreak, ConcatProperties
    <2>3. QED
        BY <1>2, <2>1, <2>2, LineBreak DEF Joins
<1>4. QED
    BY <1>1, <1>2, <1>3 DEF Size, s

LEMMA ChunkType ==
    ASSUME NEW b \in Chunked, NEW i \in 1 .. Len(b)
    PROVE  /\ ChunkBytes(b, i) \in Seq(Octets)
           /\ Len(ChunkBytes(b, i)) = Len(b[i])
           /\ Len(b[i]) \in Nat \ {0}
<1>1. b[i] \in Seq(Kinds) \ {<< >>} /\ i \in Nat
    <2>1. b \in Seq(Seq(Kinds) \ {<< >>})
        BY DEF Chunked
    <2>2. b[i] \in Seq(Kinds) \ {<< >>} /\ Len(b) \in Nat
        BY <2>1, ElementOfSeq, LenProperties
    <2>3. QED
        BY <2>2
<1>2. PICK n \in Nat \ {0} : n = Len(b[i])
    BY <1>1, EmptySeq
<1>3. \A j \in 1 .. n : b[i][j] \in Kinds /\ 10 * i + j \in Nat
    BY <1>1, <1>2, ElementOfSeq
<1>4. \A j \in 1 .. n : Byte(b[i][j], 10 * i + j) \in Octets
    BY <1>3 DEF Byte, Octets
<1>5. /\ [j \in 1 .. n |-> Byte(b[i][j], 10 * i + j)] \in Seq(Octets)
      /\ Len([j \in 1 .. n |-> Byte(b[i][j], 10 * i + j)]) = n
    BY <1>4
<1>6. QED
    BY <1>2, <1>5 DEF ChunkBytes

(***************************************************************************)
(* done[i] is the content of the first i chunks, todo[i] what the client   *)
(* sends after them.                                                       *)
(***************************************************************************)
Divides(b, done, todo) ==
    /\ done \in [0 .. Len(b) -> Seq(Octets)]
    /\ todo \in [0 .. Len(b) -> Seq(Octets)]
    /\ done[0] = << >>
    /\ todo[Len(b)] = Size(0) \o CRLF
    /\ \A i \in 1 .. Len(b) :
           /\ done[i] = done[i - 1] \o ChunkBytes(b, i)
           /\ todo[i - 1] = Size(Len(b[i])) \o (ChunkBytes(b, i) \o (CRLF \o todo[i]))
    /\ done[Len(b)] = Bytes(b)
    /\ \A i \in 0 .. Len(b) : IsPrefix(done[i], Bytes(b))

LEMMA Division ==
    ASSUME NEW b \in Chunked
    PROVE  \E done, todo : Divides(b, done, todo) /\ todo[0] = Wire(b)
<1> DEFINE n == Len(b)
<1> DEFINE D == Octets
<1> DEFINE cs == [i \in 1 .. n |-> ChunkBytes(b, i)]
<1> DEFINE fs == [i \in 1 .. n |-> Size(Len(b[i])) \o ChunkBytes(b, i) \o CRLF]
<1>1. n \in Nat
    BY LenProperties DEF Chunked
<1>2. ASSUME NEW i \in 1 .. n
      PROVE  /\ ChunkBytes(b, i) \in Seq(D)
             /\ Size(Len(b[i])) \in Seq(D)
             /\ Size(Len(b[i])) \o ChunkBytes(b, i) \in Seq(D)
             /\ Size(Len(b[i])) \o ChunkBytes(b, i) \o CRLF \in Seq(D)
    BY ChunkType, SizeLine, LineBreak, ConcatProperties
<1>3. cs \in Seq(Seq(D)) /\ Len(cs) = n /\ \A i \in 1 .. n : cs[i] = ChunkBytes(b, i)
    <2> HIDE DEF D
    <2>1. QED
        BY <1>1, <1>2
<1>4. fs \in Seq(Seq(D)) /\ Len(fs) = n
      /\ \A i \in 1 .. n : fs[i] = (Size(Len(b[i])) \o ChunkBytes(b, i)) \o CRLF
    <2> HIDE DEF D
    <2>1. QED
        BY <1>1, <1>2
<1>5. Bytes(b) = FlattenSeq(cs)
    BY DEF Bytes
<1>6. Wire(b) = (FlattenSeq(fs) \o Size(0)) \o CRLF
    BY DEF Wire
<1>7. /\ << >> \in Seq(D) /\ CRLF \in Seq(D) /\ Size(0) \in Seq(D)
      /\ Size(0) \o CRLF \in Seq(D)
    BY LineBreak, SizeLine, ConcatProperties
<1> HIDE DEF cs, fs, n, D
<1>8. PICK done, more \in [0 .. n -> Seq(D)] :
          /\ done[0] = << >>
          /\ \A i \in 1 .. n : done[i] = done[i - 1] \o cs[i]
          /\ done[n] = FlattenSeq(cs)
          /\ \A i \in 0 .. n : done[i] \o more[i] = FlattenSeq(cs) \o << >>
    <2>1. PICK tail \in Seq(D) : tail = << >>
        BY <1>7
    <2>2. \E before, behind : Parts(D, cs, tail, before, behind)
        BY <1>3, CutAnywhere
    <2>3. QED
        BY <1>3, <2>1, <2>2 DEF Parts
<1>9. PICK sent, todo \in [0 .. n -> Seq(D)] :
          /\ sent[0] = << >>
          /\ todo[n] = Size(0) \o CRLF
          /\ \A i \in 1 .. n : todo[i - 1] = fs[i] \o todo[i]
          /\ \A i \in 0 .. n : sent[i] \o todo[i] = FlattenSeq(fs) \o (Size(0) \o CRLF)
    <2>1. PICK tail \in Seq(D) : tail = Size(0) \o CRLF
        BY <1>7
    <2>2. \E before, behind : Parts(D, fs, tail, before, behind)
        BY <1>4, CutAnywhere
    <2>3. QED
        BY <1>4, <2>1, <2>2, ZenonT(40) DEF Parts
<1>10. FlattenSeq(cs) \in Seq(D) /\ FlattenSeq(fs) \in Seq(D)
    BY <1>3, <1>4, FlattenType
<1>11. todo[0] = Wire(b)
    <2>1. 0 \in 0 .. n
        BY <1>1
    <2>2. << >> \o todo[0] = FlattenSeq(fs) \o (Size(0) \o CRLF) /\ todo[0] \in Seq(D)
        BY <1>9, <2>1
    <2>3. << >> \o todo[0] = todo[0]
        BY <2>2, ConcatEmptySeq
    <2>4. (FlattenSeq(fs) \o Size(0)) \o CRLF = FlattenSeq(fs) \o (Size(0) \o CRLF)
        <3>1. Triple(D, FlattenSeq(fs), Size(0), CRLF)
            BY <1>7, <1>10 DEF Triple
        <3>2. QED
            BY <3>1, Reassociated DEF Associates
    <2>5. QED
        BY <1>6, <2>2, <2>3, <2>4
<1>12. ASSUME NEW i \in 1 .. n
       PROVE  todo[i - 1] = Size(Len(b[i])) \o (ChunkBytes(b, i) \o (CRLF \o todo[i]))
    <2> DEFINE s == Size(Len(b[i]))
    <2> DEFINE k == ChunkBytes(b, i)
    <2> DEFINE t == todo[i]
    <2>1. i \in 0 .. n
        BY <1>1
    <2>2. s \in Seq(D) /\ k \in Seq(D) /\ t \in Seq(D) /\ s \o k \in Seq(D) /\ CRLF \o t \in Seq(D)
        BY <1>2, <1>7, <1>9, <2>1, ConcatProperties
    <2>3. todo[i - 1] = ((s \o k) \o CRLF) \o t
        BY <1>4, <1>9
    <2> HIDE DEF s, k, t
    <2>4. ((s \o k) \o CRLF) \o t = (s \o k) \o (CRLF \o t)
        <3>1. PICK u : u = s \o k /\ Triple(D, u, CRLF, t)
            BY <1>7, <2>2 DEF Triple
        <3>2. Triple(D, u, CRLF, t)
            BY <3>1
        <3>3. Associates(u, CRLF, t)
            BY <3>2, Reassociated
        <3>4. QED
            BY <3>1, <3>3 DEF Associates
    <2>5. (s \o k) \o (CRLF \o t) = s \o (k \o (CRLF \o t))
        <3>1. PICK u : u = CRLF \o t /\ Triple(D, s, k, u)
            BY <2>2 DEF Triple
        <3>2. Triple(D, s, k, u)
            BY <3>1
        <3>3. Associates(s, k, u)
            BY <3>2, Reassociated
        <3>4. QED
            BY <3>1, <3>3 DEF Associates
    <2>6. QED
        BY <2>3, <2>4, <2>5 DEF s, k, t
<1>13. ASSUME NEW i \in 0 .. n
       PROVE  IsPrefix(done[i], FlattenSeq(cs))
    <2>1. done[i] \in Seq(D) /\ more[i] \in Seq(D)
        BY <1>8
    <2>2. IsPrefix(done[i], done[i] \o more[i])
        BY <2>1, PrefixOf
    <2>3. done[i] \o more[i] = FlattenSeq(cs)
        BY <1>8, <1>10, ConcatEmptySeq
    <2>4. QED
        BY <2>2, <2>3
<1>14. Divides(b, done, todo)
    <2>1. \A i \in 1 .. n : done[i] = done[i - 1] \o ChunkBytes(b, i)
        BY <1>3, <1>8
    <2>2. QED
        BY <1>5, <1>8, <1>9, <1>12, <1>13, <2>1 DEF Divides, n, D
<1>15. QED
    BY <1>11, <1>14

-----------------------------------------------------------------------------
(* What is read *)

(***************************************************************************)
(* A line is complete only with its three bytes.                           *)
(***************************************************************************)
Line(n, r, s, q) ==
    /\ n \in Nat /\ r \in Seq(Octets) /\ s \in Seq(Octets) /\ q \in Seq(Octets)
    /\ r \o s = Size(n) \o q
    /\ LineEnd(r) # {}

LEMMA LineIsRead ==
    ASSUME NEW n, NEW r, NEW s, NEW q, Line(n, r, s, q)
    PROVE  /\ Len(r) >= 3 /\ r[1].no = n
           /\ After(r, 3) \in Seq(Octets) /\ Len(After(r, 3)) = Len(r) - 3
           /\ After(r, 3) \o s = q
<1>0. /\ n \in Nat /\ r \in Seq(Octets) /\ s \in Seq(Octets) /\ q \in Seq(Octets)
      /\ r \o s = Size(n) \o q /\ LineEnd(r) # {}
    BY DEF Line
<1>1. PICK p \in Seq(Octets) : p = Size(n) /\ Len(p) = 3 /\ p[1].kind = "size" /\ p[1].no = n
    BY <1>0, SizeLine
<1>2. PICK j \in 1 .. Len(r) - 1 : r[j].kind = "CR"
    BY <1>0 DEF LineEnd
<1>3. Len(r) \in Nat /\ Len(r) >= 2 /\ 1 \in 1 .. Len(r) /\ 1 \in 1 .. Len(p)
    BY <1>0, <1>1, <1>2, LenProperties
<1>4. Joins(r \o s, r, s) /\ Joins(p \o q, p, q)
    BY <1>0, <1>1, Joined
<1>5. r[1] = p[1]
    <2>1. PICK w : w = r \o s /\ Joins(w, r, s) /\ Joins(w, p, q)
        BY <1>0, <1>1, <1>4
    <2>2. QED
        BY <1>3, <2>1 DEF Joins
<1>6. j # 1
    BY <1>1, <1>2, <1>5
<1>7. Len(r) >= 3 /\ Len(p) <= Len(r)
    BY <1>1, <1>2, <1>3, <1>6
<1>8. TwoCuts(Octets, r, s, p, q)
    BY <1>0, <1>1, <1>7 DEF TwoCuts
<1>9. /\ After(r, Len(p)) \in Seq(Octets) /\ Len(After(r, Len(p))) = Len(r) - Len(p)
      /\ After(r, Len(p)) \o s = q
    BY <1>8, CutTwice
<1>10. QED
    BY <1>1, <1>5, <1>7, <1>9

LEMMA Parted ==
    ASSUME NEW b \in Chunked, NEW done, NEW todo, Divides(b, done, todo)
    PROVE  /\ Len(b) \in Nat
           /\ \A i \in 0 .. Len(b) : done[i] \in Seq(Octets) /\ todo[i] \in Seq(Octets)
BY LenProperties DEF Divides, Chunked

Ends(b, i, r, s) ==
    i = Len(b) /\ r[1].no = 0 /\ After(r, 3) \o s = CRLF

GoesOn(b, todo, i, r, s) ==
    /\ i # Len(b) /\ i + 1 \in 1 .. Len(b) /\ r[1].no = Len(b[i + 1])
    /\ After(r, 3) \o s = ChunkBytes(b, i + 1) \o (CRLF \o todo[i + 1])

Received(b, done, todo, i, r, s) ==
    /\ b \in Chunked /\ Divides(b, done, todo) /\ i \in 0 .. Len(b)
    /\ r \in Seq(Octets) /\ s \in Seq(Octets) /\ r \o s = todo[i]
    /\ LineEnd(r) # {}

LEMMA SizeIsRead ==
    ASSUME NEW b, NEW done, NEW todo, NEW i, NEW r, NEW s, Received(b, done, todo, i, r, s)
    PROVE  /\ Len(r) >= 3
           /\ After(r, 3) \in Seq(Octets) /\ Len(After(r, 3)) = Len(r) - 3
           /\ Ends(b, i, r, s) \/ GoesOn(b, todo, i, r, s)
<1>0. /\ b \in Chunked /\ Divides(b, done, todo) /\ i \in 0 .. Len(b)
      /\ r \in Seq(Octets) /\ s \in Seq(Octets) /\ r \o s = todo[i]
      /\ LineEnd(r) # {}
    BY DEF Received
<1>1. Len(b) \in Nat /\ \A j \in 0 .. Len(b) : todo[j] \in Seq(Octets)
    BY <1>0, Parted
<1>2. CASE i = Len(b)
    <2>1. todo[i] = Size(0) \o CRLF
        BY <1>0, <1>2 DEF Divides
    <2>2. 0 \in Nat /\ CRLF \in Seq(Octets) /\ r \o s = Size(0) \o CRLF
        BY <1>0, <2>1, LineBreak
    <2>3. Line(0, r, s, CRLF)
        BY <1>0, <2>2 DEF Line
    <2>4. QED
        BY <1>2, <2>3, LineIsRead DEF Ends
<1>3. CASE i # Len(b)
    <2>1. i + 1 \in 1 .. Len(b) /\ i + 1 \in 0 .. Len(b) /\ (i + 1) - 1 = i
        BY <1>0, <1>1, <1>3
    <2>2. PICK q : q = ChunkBytes(b, i + 1) \o (CRLF \o todo[i + 1])
        OBVIOUS
    <2>3. todo[i] = Size(Len(b[i + 1])) \o q
        BY <1>0, <2>1, <2>2 DEF Divides
    <2>4. CRLF \o todo[i + 1] \in Seq(Octets) /\ ChunkBytes(b, i + 1) \in Seq(Octets)
          /\ Len(b[i + 1]) \in Nat
        BY <1>0, <1>1, <2>1, LineBreak, ConcatProperties, ChunkType
    <2>5. q \in Seq(Octets)
        BY <2>2, <2>4, ConcatProperties
    <2>6. r \o s = Size(Len(b[i + 1])) \o q
        BY <1>0, <2>3
    <2>7. /\ Len(r) >= 3 /\ r[1].no = Len(b[i + 1])
          /\ After(r, 3) \in Seq(Octets) /\ Len(After(r, 3)) = Len(r) - 3
          /\ After(r, 3) \o s = q
        <3>1. Line(Len(b[i + 1]), r, s, q)
            BY <1>0, <2>4, <2>5, <2>6 DEF Line
        <3>2. QED
            BY <3>1, LineIsRead
    <2>8. QED
        BY <1>3, <2>1, <2>2, <2>7 DEF GoesOn
<1>4. QED
    BY <1>2, <1>3

(***************************************************************************)
(* x is what was read behind the size of a chunk with the bytes k, s is    *)
(* still in the socket, and t follows the chunk.                           *)
(***************************************************************************)
Behind(x, s, k, t) ==
    /\ x \in Seq(Octets) /\ s \in Seq(Octets) /\ k \in Seq(Octets) /\ t \in Seq(Octets)
    /\ x \o s = k \o (CRLF \o t)

(***************************************************************************)
(* The content has `had' of `all', n more bytes of it are to be read, and t  *)
(* follows the chunk; or n bytes of its CR LF are to be read.              *)
(***************************************************************************)
RestOfChunk(had, s, all, n, t) ==
    \E rest \in Seq(Octets) : had \o rest = all /\ Len(rest) = n /\ s = rest \o (CRLF \o t)

RestOfEnd(s, n, t) == \E rest \in Seq(Octets) : Len(rest) = n /\ s = rest \o t

AtEnd(y, s, t) ==
    /\ y \in Seq(Octets) /\ s \in Seq(Octets) /\ t \in Seq(Octets)
    /\ y \o s = CRLF \o t

LEMMA SomeOfIt ==
    ASSUME NEW x, NEW s, NEW k, NEW t, Behind(x, s, k, t), Len(x) <= Len(k)
    PROVE  /\ First(x, AtMost(Len(x), Len(k))) = x
           /\ RestOfChunk(x, s, k, Len(k) - Len(x), t)
<1>1. /\ x \in Seq(Octets) /\ s \in Seq(Octets) /\ k \in Seq(Octets) /\ t \in Seq(Octets)
      /\ Len(x) \in Nat /\ Len(k) \in Nat
    BY LenProperties DEF Behind
<1>2. PICK q \in Seq(Octets) : q = CRLF \o t
    BY <1>1, LineBreak, ConcatProperties
<1>3. TwoCuts(Octets, k, q, x, s)
    BY <1>1, <1>2 DEF TwoCuts, Behind
<1>4. /\ After(k, Len(x)) \in Seq(Octets) /\ Len(After(k, Len(x))) = Len(k) - Len(x)
      /\ k = x \o After(k, Len(x)) /\ After(k, Len(x)) \o q = s
    BY <1>3, CutTwice
<1>5. AtMost(Len(x), Len(k)) = Len(x)
    BY <1>1 DEF AtMost
<1>6. First(x, Len(x)) = x
    BY <1>1, Whole
<1>7. \E rest \in Seq(Octets) : x \o rest = k /\ Len(rest) = Len(k) - Len(x) /\ s = rest \o q
    BY <1>4
<1>8. RestOfChunk(x, s, k, Len(k) - Len(x), t)
    BY <1>2, <1>7 DEF RestOfChunk
<1>9. QED
    BY <1>5, <1>6, <1>8

LEMMA RestBehind ==
    ASSUME NEW had \in Seq(Octets), NEW x \in Seq(Octets), NEW s, NEW k, NEW n, NEW t,
           RestOfChunk(x, s, k, n, t)
    PROVE  RestOfChunk(had \o x, s, had \o k, n, t)
<1>1. PICK rest \in Seq(Octets) : x \o rest = k /\ Len(rest) = n /\ s = rest \o (CRLF \o t)
    BY DEF RestOfChunk
<1>2. Triple(Octets, had, x, rest)
    BY DEF Triple
<1>3. Associates(had, x, rest)
    BY <1>2, Reassociated
<1>4. (had \o x) \o rest = had \o k
    BY <1>1, <1>3 DEF Associates
<1>5. QED
    BY <1>1, <1>4 DEF RestOfChunk

LEMMA AllOfIt ==
    ASSUME NEW x, NEW s, NEW k, NEW t, Behind(x, s, k, t), Len(k) <= Len(x)
    PROVE  /\ First(x, AtMost(Len(x), Len(k))) = k
           /\ After(x, Len(k)) \in Seq(Octets) /\ Len(After(x, Len(k))) = Len(x) - Len(k)
           /\ AtEnd(After(x, Len(k)), s, t)
<1>1. /\ x \in Seq(Octets) /\ s \in Seq(Octets) /\ k \in Seq(Octets) /\ t \in Seq(Octets)
      /\ Len(x) \in Nat /\ Len(k) \in Nat
    BY LenProperties DEF Behind
<1>2. PICK q \in Seq(Octets) : q = CRLF \o t
    BY <1>1, LineBreak, ConcatProperties
<1>3. TwoCuts(Octets, x, s, k, q)
    BY <1>1, <1>2 DEF TwoCuts, Behind
<1>4. /\ First(x, Len(k)) = k
      /\ After(x, Len(k)) \in Seq(Octets) /\ Len(After(x, Len(k))) = Len(x) - Len(k)
      /\ After(x, Len(k)) \o s = q
    BY <1>3, CutTwice
<1>5. AtMost(Len(x), Len(k)) = Len(k)
    BY <1>1 DEF AtMost
<1>6. AtEnd(After(x, Len(k)), s, t)
    BY <1>1, <1>2, <1>4 DEF AtEnd
<1>7. QED
    BY <1>4, <1>5, <1>6

LEMMA PartOfLineBreak ==
    ASSUME NEW x, NEW s, NEW t, AtEnd(x, s, t)
    PROVE  /\ Len(x) <= 2 => RestOfEnd(s, 2 - Len(x), t)
           /\ Len(x) >= 2 => /\ After(x, 2) \in Seq(Octets)
                             /\ After(x, 2) \o s = t
<1>0. /\ x \in Seq(Octets) /\ s \in Seq(Octets) /\ t \in Seq(Octets)
      /\ x \o s = CRLF \o t
    BY DEF AtEnd
<1>1. PICK p \in Seq(Octets) : p = CRLF /\ Len(p) = 2
    BY LineBreak
<1>2. Len(x) \in Nat
    BY <1>0, LenProperties
<1>3. CASE Len(x) <= 2
    <2>1. TwoCuts(Octets, p, t, x, s)
        BY <1>0, <1>1, <1>3 DEF TwoCuts
    <2>2. /\ After(p, Len(x)) \in Seq(Octets) /\ Len(After(p, Len(x))) = 2 - Len(x)
          /\ After(p, Len(x)) \o t = s
        <3>1. /\ After(p, Len(x)) \in Seq(Octets)
              /\ Len(After(p, Len(x))) = Len(p) - Len(x)
              /\ After(p, Len(x)) \o t = s
            BY <2>1, CutTwice
        <3>2. QED
            BY <1>1, <3>1
    <2>3. QED
        <3>1. RestOfEnd(s, 2 - Len(x), t)
            BY <2>2 DEF RestOfEnd
        <3>2. CASE Len(x) >= 2
            <4>1. TwoCuts(Octets, x, s, p, t)
                BY <1>0, <1>1, <3>2 DEF TwoCuts
            <4>2. After(x, 2) \in Seq(Octets) /\ After(x, 2) \o s = t
                <5>1. After(x, Len(p)) \in Seq(Octets) /\ After(x, Len(p)) \o s = t
                    BY <4>1, CutTwice
                <5>2. QED
                    BY <1>1, <5>1
            <4>3. QED
                BY <3>1, <4>2
        <3>3. QED
            BY <3>1, <3>2
<1>4. CASE ~(Len(x) <= 2)
    <2>1. TwoCuts(Octets, x, s, p, t)
        BY <1>0, <1>1, <1>2, <1>4 DEF TwoCuts
    <2>2. After(x, 2) \in Seq(Octets) /\ After(x, 2) \o s = t
        <3>1. After(x, Len(p)) \in Seq(Octets) /\ After(x, Len(p)) \o s = t
            BY <2>1, CutTwice
        <3>2. QED
            BY <1>1, <3>1
    <2>3. QED
        BY <1>4, <2>2
<1>5. QED
    BY <1>3, <1>4

-----------------------------------------------------------------------------
(* The content of the request *)

BodyTypes ==
    /\ body \in Chunked
    /\ buffer \in Seq(Octets)
    /\ stream \in Seq(Octets)
    /\ content \in Seq(Octets)

(***************************************************************************)
(* The request is at chunk i: before the size of the next one, in its      *)
(* bytes, or in the CR LF behind it, of which the rest is still to come.   *)
(***************************************************************************)
AtSize(i, done, todo) ==
    phase = "size" /\ content = done[i] /\ buffer \o stream = todo[i]

InChunk(i, done, todo) ==
    /\ phase = "chunk"
    /\ buffer = << >>
    /\ RestOfChunk(content, stream, done[i], need, todo[i])

InEnd(i, done, todo) ==
    /\ phase = "end"
    /\ buffer = << >>
    /\ content = done[i]
    /\ RestOfEnd(stream, need, todo[i])

Over(i, done) ==
    /\ content = done[i]
    /\ \/ phase = "dispatched" /\ i = Len(body) /\ buffer \o stream = CRLF
       \/ phase = "refused"

At(i, done, todo) ==
    AtSize(i, done, todo) \/ InChunk(i, done, todo) \/ InEnd(i, done, todo) \/ Over(i, done)

BodyInv ==
    /\ BodyTypes
    /\ \E done, todo : /\ Divides(body, done, todo)
                       /\ \E i \in 0 .. Len(body) : At(i, done, todo)

LEMMA InitBodyInv == BodyInit => BodyInv
<1> SUFFICES ASSUME BodyInit PROVE BodyInv
    OBVIOUS
<1>1. body \in Chunked
    BY BodiesAssumption DEF BodyInit, Chunked
<1>2. PICK done, todo : Divides(body, done, todo) /\ todo[0] = Wire(body)
    BY <1>1, Division
<1>3. Len(body) \in Nat /\ 0 \in 0 .. Len(body) /\ todo[0] \in Seq(Octets)
    BY <1>1, <1>2, Parted
<1>4. PICK w \in Seq(Octets) : w = Wire(body)
    BY <1>2, <1>3
<1>5. PICK n \in 0 .. Len(w) : buffer = First(w, n) /\ stream = After(w, n)
    BY <1>4 DEF BodyInit
<1>6. buffer \in Seq(Octets) /\ stream \in Seq(Octets) /\ buffer \o stream = w
    BY <1>5, CutInTwo
<1>7. content = << >> /\ phase = "size" /\ << >> \in Seq(Octets)
    BY DEF BodyInit
<1>8. done[0] = << >>
    BY <1>2 DEF Divides
<1>9. AtSize(0, done, todo)
    BY <1>2, <1>4, <1>6, <1>7, <1>8 DEF AtSize
<1>10. QED
    BY <1>1, <1>2, <1>3, <1>6, <1>7, <1>9 DEF BodyInv, BodyTypes, At

LEMMA ReadSizeInv ==
    ASSUME BodyTypes, NEW done, NEW todo, Divides(body, done, todo), NEW i \in 0 .. Len(body),
           AtSize(i, done, todo), ReadSize
    PROVE  BodyTypes' /\ \E j \in 0 .. Len(body) : At(j, done, todo)'
<1>1. /\ body \in Chunked /\ buffer \in Seq(Octets) /\ stream \in Seq(Octets)
      /\ content \in Seq(Octets) /\ body' = body
      /\ content = done[i] /\ buffer \o stream = todo[i]
    BY DEF BodyTypes, AtSize, ReadSize
<1>2. PICK n \in 0 .. Len(stream) :
          /\ ReadUntil(n)
          /\ stream' = After(stream, n)
          /\ \E r : /\ r = buffer \o First(stream, n)
                    /\ \/ LastChunk(r)
                       \/ TooLarge(r)
                       \/ PartOfChunk(r)
                       \/ ChunkWithoutEnd(r)
                       \/ ChunkAndMore(r)
    BY DEF ReadSize
<1>3. PICK r : /\ r = buffer \o First(stream, n)
               /\ \/ LastChunk(r)
                  \/ TooLarge(r)
                  \/ PartOfChunk(r)
                  \/ ChunkWithoutEnd(r)
                  \/ ChunkAndMore(r)
    BY <1>2
<1>4. /\ First(stream, n) \in Seq(Octets) /\ After(stream, n) \in Seq(Octets)
      /\ First(stream, n) \o After(stream, n) = stream
      /\ Len(First(stream, n)) = n
    BY <1>1, CutInTwo
<1>5. stream' \in Seq(Octets) /\ r \in Seq(Octets)
    BY <1>1, <1>2, <1>3, <1>4, ConcatProperties
<1>6. r \o stream' = todo[i]
    <2>1. PICK f \in Seq(Octets), a \in Seq(Octets) :
              f = First(stream, n) /\ a = After(stream, n) /\ f \o a = stream
        BY <1>4
    <2>2. Triple(Octets, buffer, f, a)
        BY <1>1, <2>1 DEF Triple
    <2>3. Associates(buffer, f, a)
        BY <2>2, Reassociated
    <2>4. r = buffer \o f /\ stream' = a
        BY <1>2, <1>3, <2>1
    <2>5. buffer \o (f \o a) = todo[i]
        BY <1>1, <2>1
    <2>6. QED
        BY <2>3, <2>4, <2>5 DEF Associates
<1>7. LineEnd(r) # {}
    <2>1. CASE LineEnd(buffer) # {}
        <3>1. n = 0
            BY <1>2, <1>3, <2>1 DEF ReadUntil
        <3>2. First(stream, n) = << >>
            BY <1>4, <3>1, EmptySeq
        <3>3. r = buffer
            BY <1>1, <1>2, <1>3, <3>2, ConcatEmptySeq
        <3>4. QED
            BY <2>1, <3>3
    <2>2. CASE ~(LineEnd(buffer) # {})
        BY <1>2, <1>3, <2>2 DEF ReadUntil
    <2>3. QED
        BY <2>1, <2>2
<1>8. PICK x \in Seq(Octets) :
          /\ x = After(r, 3) /\ Len(x) = Len(r) - 3 /\ Len(r) >= 3
          /\ Ends(body, i, r, stream') \/ GoesOn(body, todo, i, r, stream')
    <2>1. Received(body, done, todo, i, r, stream')
        BY <1>1, <1>5, <1>6, <1>7 DEF Received
    <2>2. /\ Len(r) >= 3
          /\ After(r, 3) \in Seq(Octets) /\ Len(After(r, 3)) = Len(r) - 3
          /\ Ends(body, i, r, stream') \/ GoesOn(body, todo, i, r, stream')
        BY <2>1, SizeIsRead
    <2>3. QED
        BY <2>2
<1>9. /\ Len(body) \in Nat /\ Len(x) \in Nat /\ Len(r) \in Nat
      /\ \A j \in 0 .. Len(body) : done[j] \in Seq(Octets) /\ todo[j] \in Seq(Octets)
    BY <1>1, <1>5, Parted, LenProperties
<1>10. CASE Ends(body, i, r, stream')
    <2>1. i = Len(body) /\ r[1].no = 0 /\ x \o stream' = CRLF
        BY <1>8, <1>10 DEF Ends
    <2>2. LastChunk(r)
        <3>1. r[1].no = 0 /\ ~(0 > Len(r) - 3)
            BY <1>8, <1>9, <2>1
        <3>2. ~TooLarge(r)
            BY <3>1 DEF TooLarge
        <3>3. ~PartOfChunk(r)
            BY <3>1 DEF PartOfChunk
        <3>4. ~ChunkWithoutEnd(r)
            BY <3>1 DEF ChunkWithoutEnd
        <3>5. ~ChunkAndMore(r)
            BY <3>1 DEF ChunkAndMore
        <3>6. QED
            BY <1>2, <1>3, <3>2, <3>3, <3>4, <3>5
    <2>3. buffer' = x /\ content' = content /\ phase' = "dispatched"
        BY <1>8, <2>2 DEF LastChunk, Wait
    <2>4. BodyTypes'
        BY <1>1, <1>5, <2>3 DEF BodyTypes
    <2>5. Over(i, done)'
        BY <1>1, <2>1, <2>3 DEF Over
    <2>6. QED
        BY <2>4, <2>5 DEF At
<1>11. CASE GoesOn(body, todo, i, r, stream')
    <2>1. PICK k \in Seq(Octets), t \in Seq(Octets), j \in 1 .. Len(body) :
              /\ j = i + 1 /\ k = ChunkBytes(body, j) /\ t = todo[j]
              /\ Len(k) = r[1].no /\ Len(k) \in Nat \ {0}
        <3>1. i + 1 \in 1 .. Len(body) /\ i + 1 \in 0 .. Len(body) /\ r[1].no = Len(body[i + 1])
            BY <1>9, <1>11 DEF GoesOn
        <3>2. /\ ChunkBytes(body, i + 1) \in Seq(Octets)
              /\ Len(ChunkBytes(body, i + 1)) = Len(body[i + 1])
              /\ Len(body[i + 1]) \in Nat \ {0}
            BY <1>1, <3>1, ChunkType
        <3>3. todo[i + 1] \in Seq(Octets)
            BY <1>9, <3>1
        <3>4. QED
            BY <3>1, <3>2, <3>3
    <2>2. x \o stream' = k \o (CRLF \o t)
        BY <1>8, <1>11, <2>1 DEF GoesOn
    <2>3. PICK l \in Nat, m \in Nat, h \in Nat :
              l = Len(x) /\ m = Len(k) /\ h = Len(r) /\ m = r[1].no /\ l = h - 3
        BY <1>8, <1>9, <2>1
    <2>4. Behind(x, stream', k, t)
        BY <1>5, <2>2 DEF Behind
    <2>5. /\ j \in 0 .. Len(body) /\ done[j] = done[i] \o k
        <3>1. j - 1 = i
            BY <2>1
        <3>2. done[j] = done[j - 1] \o ChunkBytes(body, j)
            BY DEF Divides
        <3>3. QED
            BY <1>9, <2>1, <3>1, <3>2
    <2>6. ~LastChunk(r)
        BY <2>1 DEF LastChunk
    <2>7. CASE TooLarge(r)
        <3>1. buffer' = x /\ content' = content /\ phase' = "refused"
            BY <1>8, <2>7 DEF TooLarge, Wait
        <3>2. BodyTypes' /\ Over(i, done)'
            BY <1>1, <1>5, <3>1 DEF BodyTypes, Over
        <3>3. QED
            BY <1>1, <3>2 DEF At
    <2>8. CASE PartOfChunk(r)
        <3>1. /\ Len(k) > Len(x) /\ buffer' = << >> /\ phase' = "chunk"
              /\ need' = Len(k) - Len(x)
              /\ content' = content \o First(x, AtMost(Len(x), Len(k)))
            BY <1>8, <2>1, <2>8 DEF PartOfChunk, MoveLeftover, Wait
        <3>2. Len(x) <= Len(k)
            BY <1>9, <2>1, <3>1
        <3>3. First(x, AtMost(Len(x), Len(k))) = x
              /\ RestOfChunk(x, stream', k, Len(k) - Len(x), t)
            BY <2>4, <3>2, SomeOfIt
        <3>4. content' = content \o x
            BY <3>1, <3>3
        <3>5. content' \in Seq(Octets) /\ << >> \in Seq(Octets)
            BY <1>1, <3>4, ConcatProperties
        <3>6. RestOfChunk(content', stream', done[j], need', t)
            <4>1. RestOfChunk(content \o x, stream', content \o k, Len(k) - Len(x), t)
                BY <1>1, <3>3, RestBehind
            <4>2. done[j] = content \o k
                BY <1>1, <2>5
            <4>3. QED
                BY <3>1, <3>4, <4>1, <4>2
        <3>7. InChunk(j, done, todo)'
            BY <2>1, <3>1, <3>6 DEF InChunk
        <3>8. BodyTypes'
            BY <1>1, <1>5, <3>1, <3>5 DEF BodyTypes
        <3>9. QED
            BY <1>1, <2>5, <3>7, <3>8 DEF At
    <2>9. CASE ChunkWithoutEnd(r) \/ ChunkAndMore(r)
        <3>1. /\ Len(k) <= Len(x)
              /\ content' = content \o First(x, AtMost(Len(x), Len(k)))
            <4>1. /\ r[1].no <= Len(r) - 3
                  /\ MoveLeftover(r, r[1].no, Len(r) - 3)
                <5>1. CASE ChunkWithoutEnd(r)
                    BY <5>1 DEF ChunkWithoutEnd
                <5>2. CASE ChunkAndMore(r)
                    <6>1. /\ r[1].no + 2 <= Len(r) - 3
                          /\ MoveLeftover(r, r[1].no, Len(r) - 3)
                        BY <5>2 DEF ChunkAndMore
                    <6>2. m + 2 <= h - 3
                        BY <2>3, <6>1
                    <6>3. m <= h - 3
                        BY <6>2
                    <6>4. QED
                        BY <2>3, <6>1, <6>3
                <5>3. QED
                    BY <2>9, <5>1, <5>2
            <4>2. r[1].no = Len(k) /\ Len(r) - 3 = Len(x) /\ After(r, 3) = x
                BY <1>8, <2>1
            <4>3. QED
                BY <4>1, <4>2 DEF MoveLeftover
        <3>2. First(x, AtMost(Len(x), Len(k))) = k
            BY <2>4, <3>1, AllOfIt
        <3>3. PICK y \in Seq(Octets) :
                  /\ y = After(x, Len(k)) /\ Len(y) = Len(x) - Len(k)
                  /\ AtEnd(y, stream', t)
            BY <2>4, <3>1, AllOfIt
        <3>4. content' = done[j] /\ content' \in Seq(Octets) /\ << >> \in Seq(Octets)
            BY <1>1, <1>9, <2>5, <3>1, <3>2
        <3>5. CASE ChunkWithoutEnd(r)
            <4>1. /\ Len(x) < Len(k) + 2 /\ buffer' = << >> /\ phase' = "end"
                  /\ need' = Len(k) + 2 - Len(x)
                BY <1>8, <2>1, <3>5 DEF ChunkWithoutEnd, Wait
            <4>2. Len(y) <= 2 /\ 2 - Len(y) = need'
                <5>1. Len(y) = l - m /\ l < m + 2 /\ need' = m + 2 - l
                    BY <2>3, <3>3, <4>1
                <5>2. QED
                    BY <5>1
            <4>3. RestOfEnd(stream', 2 - Len(y), t)
                BY <3>3, <4>2, PartOfLineBreak
            <4>4. InEnd(j, done, todo)'
                BY <2>1, <3>4, <4>1, <4>2, <4>3 DEF InEnd
            <4>5. BodyTypes'
                BY <1>1, <1>5, <3>4, <4>1 DEF BodyTypes
            <4>6. QED
                BY <1>1, <2>5, <4>4, <4>5 DEF At
        <3>6. CASE ChunkAndMore(r)
            <4>1. /\ Len(k) + 2 <= Len(x) /\ phase' = "size"
                  /\ buffer' = After(r, 3 + Len(k) + 2)
                BY <1>8, <2>1, <3>6 DEF ChunkAndMore, Wait
            <4>2. Len(y) >= 2
                <5>1. Len(y) = l - m /\ m + 2 <= l
                    BY <2>3, <3>3, <4>1
                <5>2. QED
                    BY <5>1
            <4>3. After(y, 2) \in Seq(Octets) /\ After(y, 2) \o stream' = t
                BY <3>3, <4>2, PartOfLineBreak
            <4>4. After(After(After(r, 3), Len(k)), 2) = After(r, 3 + Len(k) + 2)
                <5>1. After(After(r, 3), Len(k)) = After(r, 3 + Len(k))
                    <6>1. 3 \in Nat /\ Len(k) \in Nat /\ 3 + Len(k) <= Len(r)
                        <7>1. m + 2 <= h - 3
                            BY <2>3, <4>1
                        <7>2. 3 + m <= h
                            BY <7>1
                        <7>3. QED
                            BY <2>3, <7>2
                    <6>2. QED
                        BY <1>5, <6>1, CutAgain
                <5>2. After(After(r, 3 + Len(k)), 2) = After(r, (3 + Len(k)) + 2)
                    <6>1. 2 \in Nat /\ 3 + Len(k) \in Nat /\ (3 + Len(k)) + 2 <= Len(r)
                        <7>1. m + 2 <= h - 3
                            BY <2>3, <4>1
                        <7>2. 3 + m \in Nat /\ (3 + m) + 2 <= h
                            BY <7>1
                        <7>3. QED
                            BY <2>3, <7>2
                    <6>2. QED
                        BY <1>5, <6>1, CutAgain
                <5>3. QED
                    BY <5>1, <5>2
            <4>5. buffer' = After(y, 2)
                BY <1>8, <3>3, <4>1, <4>4
            <4>6. AtSize(j, done, todo)'
                BY <2>1, <3>4, <4>1, <4>3, <4>5 DEF AtSize
            <4>7. BodyTypes'
                BY <1>1, <1>5, <3>4, <4>3, <4>5 DEF BodyTypes
            <4>8. QED
                BY <1>1, <2>5, <4>6, <4>7 DEF At
        <3>7. QED
            BY <2>9, <3>5, <3>6
    <2>10. QED
        BY <1>2, <1>3, <2>6, <2>7, <2>8, <2>9
<1>12. QED
    BY <1>8, <1>10, <1>11

LEMMA NextBodyInv == BodyInv /\ [BodyNext]_bodyVars => BodyInv'
<1> SUFFICES ASSUME BodyInv, [BodyNext]_bodyVars PROVE BodyInv'
    OBVIOUS
<1>0. PICK done, todo : /\ Divides(body, done, todo)
                        /\ \E i \in 0 .. Len(body) : At(i, done, todo)
    BY DEF BodyInv
<1>1. PICK i \in 0 .. Len(body) : Divides(body, done, todo) /\ At(i, done, todo)
    BY <1>0
<1>2. /\ body \in Chunked /\ buffer \in Seq(Octets) /\ stream \in Seq(Octets)
      /\ content \in Seq(Octets)
    BY DEF BodyInv, BodyTypes
<1>3. done[i] \in Seq(Octets) /\ todo[i] \in Seq(Octets)
    BY <1>1, <1>2, Parted
<1>4. CASE ReadSize
    <2>1. AtSize(i, done, todo)
        BY <1>1, <1>4 DEF ReadSize, At, AtSize, InChunk, InEnd, Over
    <2>2. BodyTypes' /\ \E j \in 0 .. Len(body) : At(j, done, todo)'
        BY <1>1, <1>4, <2>1, ReadSizeInv DEF BodyInv
    <2>3. body' = body
        BY <1>4 DEF ReadSize
    <2>4. QED
        BY <1>1, <2>2, <2>3 DEF BodyInv
<1>5. CASE ReadChunk
    <2>1. InChunk(i, done, todo)
        BY <1>1, <1>5 DEF ReadChunk, At, AtSize, InChunk, InEnd, Over
    <2>2. PICK q \in Seq(Octets) : q = CRLF \o todo[i]
        BY <1>3, LineBreak, ConcatProperties
    <2>3. PICK rest \in Seq(Octets) :
              content \o rest = done[i] /\ Len(rest) = need /\ stream = rest \o q
        BY <2>1, <2>2 DEF InChunk, RestOfChunk
    <2>4. First(stream, need) = rest /\ After(stream, need) = q
        BY <2>2, <2>3, CutConcat
    <2>5. /\ content' = done[i] /\ stream' = q /\ phase' = "end" /\ need' = 2
          /\ body' = body /\ buffer' = << >>
        BY <1>5, <2>1, <2>3, <2>4 DEF ReadChunk, Wait, InChunk
    <2>6. InEnd(i, done, todo)'
        BY <2>2, <2>5, LineBreak DEF InEnd, RestOfEnd
    <2>7. BodyTypes'
        BY <1>2, <1>3, <2>2, <2>5 DEF BodyTypes
    <2>8. QED
        BY <1>1, <2>5, <2>6, <2>7 DEF BodyInv, At
<1>6. CASE ReadEnd
    <2>1. InEnd(i, done, todo)
        BY <1>1, <1>6 DEF ReadEnd, At, AtSize, InChunk, InEnd, Over
    <2>2. PICK rest \in Seq(Octets) : Len(rest) = need /\ stream = rest \o todo[i]
        BY <2>1 DEF InEnd, RestOfEnd
    <2>3. After(stream, need) = todo[i]
        BY <1>3, <2>2, CutConcat
    <2>4. /\ content' = done[i] /\ stream' = todo[i] /\ phase' = "size"
          /\ body' = body /\ buffer' = << >>
        BY <1>6, <2>1, <2>3 DEF ReadEnd, Wait, InEnd
    <2>5. << >> \o todo[i] = todo[i] /\ << >> \in Seq(Octets)
        BY <1>3, ConcatEmptySeq
    <2>6. AtSize(i, done, todo)'
        BY <2>4, <2>5 DEF AtSize
    <2>7. BodyTypes'
        BY <1>2, <1>3, <2>4, <2>5 DEF BodyTypes
    <2>8. QED
        BY <1>1, <2>4, <2>6, <2>7 DEF BodyInv, At
<1>7. CASE UNCHANGED bodyVars
    <2>1. UNCHANGED <<body, buffer, stream, content, phase, need>>
        BY <1>7 DEF bodyVars
    <2>2. At(i, done, todo)' /\ BodyTypes'
        BY <1>1, <1>2, <2>1 DEF At, AtSize, InChunk, InEnd, Over, BodyTypes
    <2>3. QED
        BY <1>1, <2>1, <2>2 DEF BodyInv
<1>8. QED
    BY <1>4, <1>5, <1>6, <1>7 DEF BodyNext

LEMMA BodyIsIntact == BodyInv => ContentIntact
<1> SUFFICES ASSUME BodyInv PROVE ContentIntact
    OBVIOUS
<1>0. PICK done, todo : /\ Divides(body, done, todo)
                        /\ \E i \in 0 .. Len(body) : At(i, done, todo)
    BY DEF BodyInv
<1>1. PICK i \in 0 .. Len(body) : Divides(body, done, todo) /\ At(i, done, todo)
    BY <1>0
<1>2. /\ body \in Chunked /\ buffer \in Seq(Octets) /\ stream \in Seq(Octets)
      /\ content \in Seq(Octets)
    BY DEF BodyInv, BodyTypes
<1>3. IsPrefix(done[i], Bytes(body))
    BY <1>1 DEF Divides
<1>4. IsPrefix(content, Bytes(body))
    <2>1. CASE InChunk(i, done, todo)
        <3>1. PICK rest \in Seq(Octets) : content \o rest = done[i]
            BY <2>1 DEF InChunk, RestOfChunk
        <3>2. IsPrefix(content, content \o rest)
            BY <1>2, PrefixOf
        <3>3. IsPrefix(content, done[i])
            BY <3>1, <3>2
        <3>4. Bytes(body) \in Seq(Octets)
            <4>1. Len(body) \in 0 .. Len(body)
                BY <1>2, Parted
            <4>2. QED
                BY <1>1, <4>1 DEF Divides
        <3>5. done[i] \in Seq(Octets)
            BY <1>1, <1>2, Parted
        <3>6. QED
            BY <1>2, <1>3, <3>3, <3>4, <3>5, PrefixOfPrefix
    <2>2. CASE ~InChunk(i, done, todo)
        BY <1>1, <1>3, <2>2 DEF At, AtSize, InEnd, Over
    <2>3. QED
        BY <2>1, <2>2
<1>5. phase = "dispatched" => content = Bytes(body) /\ IsSuffix(stream, CRLF)
    <2>1. SUFFICES ASSUME phase = "dispatched"
                   PROVE  content = Bytes(body) /\ IsSuffix(stream, CRLF)
        OBVIOUS
    <2>2. content = done[i] /\ i = Len(body) /\ buffer \o stream = CRLF
        BY <1>1, <2>1 DEF At, AtSize, InChunk, InEnd, Over
    <2>3. content = Bytes(body)
        BY <1>1, <2>2 DEF Divides
    <2>4. IsSuffix(stream, buffer \o stream)
        BY <1>2, SuffixOf
    <2>5. QED
        BY <2>2, <2>3, <2>4
<1>6. QED
    BY <1>4, <1>5 DEF ContentIntact

(***************************************************************************)
(* However the bytes of a body are cut into pieces, what read_chunked_     *)
(* transfer_encoded has put into the content is a first part of the bytes  *)
(* of the chunks; all of them when the resource is looked for.             *)
(***************************************************************************)
THEOREM ContentIsIntact == BodySpec => []ContentIntact
<1>1. BodyInv /\ [BodyNext]_bodyVars => BodyInv'
    BY NextBodyInv
<1>2. QED
    BY <1>1, InitBodyInv, BodyIsIntact, PTL DEF BodySpec

-----------------------------------------------------------------------------
(* Percent: what is encoded is decoded again *)

Signs == {"0", "1", "2", "3", "x", "%", "+", "&", "=", ";", "quote", " ", "?", "/", ":", "HTTP"}

LEMMA ReservedIs ==
    /\ \A i \in 1 .. 10 : Reserved[i] \in {"%", "+", "&", "=", ";", "quote", " ", "?", "/", ":"}
    /\ \A s \in {"%", "+", "&", "=", ";", "quote", " ", "?", "/", ":"} :
           \E i \in 1 .. 10 : Reserved[i] = s
<1>1. /\ Reserved[1] = "%" /\ Reserved[2] = "+" /\ Reserved[3] = "&" /\ Reserved[4] = "="
      /\ Reserved[5] = ";" /\ Reserved[6] = "quote" /\ Reserved[7] = " " /\ Reserved[8] = "?"
      /\ Reserved[9] = "/" /\ Reserved[10] = ":"
    BY DEF Reserved
<1>2. \A i \in 1 .. 10 : \/ i = 1 \/ i = 2 \/ i = 3 \/ i = 4 \/ i = 5
                         \/ i = 6 \/ i = 7 \/ i = 8 \/ i = 9 \/ i = 10
    OBVIOUS
<1>3. ASSUME NEW i \in 1 .. 10
      PROVE  Reserved[i] \in {"%", "+", "&", "=", ";", "quote", " ", "?", "/", ":"}
    BY <1>1, <1>2, Zenon
<1>4. \A s \in {"%", "+", "&", "=", ";", "quote", " ", "?", "/", ":"} :
          \E i \in 1 .. 10 : Reserved[i] = s
    <2>1. /\ 1 \in 1 .. 10 /\ 2 \in 1 .. 10 /\ 3 \in 1 .. 10 /\ 4 \in 1 .. 10 /\ 5 \in 1 .. 10
          /\ 6 \in 1 .. 10 /\ 7 \in 1 .. 10 /\ 8 \in 1 .. 10 /\ 9 \in 1 .. 10 /\ 10 \in 1 .. 10
        OBVIOUS
    <2>2. QED
        BY <1>1, <2>1, Zenon
<1>5. QED
    BY <1>3, <1>4

LEMMA AlphabetIs ==
    /\ Alphabet \in Seq(Signs) /\ Len(Alphabet) = 16
    /\ Alphabet[1] = "0" /\ Alphabet[2] = "1" /\ Alphabet[3] = "2" /\ Alphabet[4] = "3"
    /\ Alphabet[5] = "x"
    /\ \A i \in 1 .. 10 : Alphabet[5 + i] = Reserved[i]
    /\ Alphabet[16] = "HTTP"
<1>1. /\ Digit \in Seq(Signs) /\ Len(Digit) = 4
      /\ Reserved \in Seq(Signs) /\ Len(Reserved) = 10
      /\ <<"x">> \in Seq(Signs) /\ <<"HTTP">> \in Seq(Signs)
    BY DEF Digit, Reserved, Signs
<1>2. PICK a \in Seq(Signs) : a = Digit \o <<"x">> /\ Joins(a, Digit, <<"x">>)
    BY <1>1, Joined, ConcatProperties
<1>3. Len(a) = 5 /\ a[1] = "0" /\ a[2] = "1" /\ a[3] = "2" /\ a[4] = "3" /\ a[5] = "x"
    <2>1. Len(a) = 4 + 1 /\ \A i \in 1 .. 4 : a[i] = Digit[i]
        BY <1>1, <1>2 DEF Joins
    <2>2. a[4 + 1] = "x"
        BY <1>1, <1>2 DEF Joins
    <2>3. QED
        BY <2>1, <2>2 DEF Digit
<1>4. PICK b \in Seq(Signs) : b = a \o Reserved /\ Joins(b, a, Reserved)
    BY <1>1, Joined, ConcatProperties
<1>5. Len(b) = 15 /\ (\A i \in 1 .. 5 : b[i] = a[i]) /\ \A i \in 1 .. 10 : b[5 + i] = Reserved[i]
    <2>1. Len(a) = 5
        BY <1>3
    <2>2. /\ Len(b) = 5 + 10
          /\ \A i \in 1 .. 5 : b[i] = a[i]
          /\ \A i \in 1 .. 10 : b[5 + i] = Reserved[i]
        BY <1>1, <1>4, <2>1 DEF Joins
    <2>3. QED
        BY <2>2
<1>6. PICK e \in Seq(Signs) : e = b \o <<"HTTP">> /\ Joins(e, b, <<"HTTP">>)
    BY <1>1, Joined, ConcatProperties
<1>7. Len(e) = 16 /\ (\A i \in 1 .. 15 : e[i] = b[i]) /\ e[15 + 1] = "HTTP"
    <2>1. Len(<<"HTTP">>) = 1 /\ <<"HTTP">>[1] = "HTTP" /\ 1 \in 1 .. 1 /\ 15 + 1 = 16
        OBVIOUS
    <2>2. QED
        BY <1>5, <1>6, <2>1, Zenon DEF Joins
<1>8. Alphabet = e
    BY <1>2, <1>4, <1>6 DEF Alphabet
<1>9. \A i \in 1 .. 10 : 5 + i \in 1 .. 15
    OBVIOUS
<1>10. QED
    BY <1>3, <1>5, <1>7, <1>8, <1>9

LEMMA CharIs == Char = Signs
<1>1. DOMAIN Alphabet = 1 .. 16
    BY AlphabetIs, LenProperties
<1>2. ASSUME NEW s \in Signs PROVE \E i \in 1 .. 16 : Alphabet[i] = s
    <2>1. \A i \in 1 .. 10 : 5 + i \in 1 .. 16
        OBVIOUS
    <2>2. CASE \E i \in 1 .. 10 : Reserved[i] = s
        BY <2>1, <2>2, AlphabetIs
    <2>3. CASE s \in {"0", "1", "2", "3", "x", "HTTP"}
        BY <2>3, AlphabetIs
    <2>4. CASE s \in {"%", "+", "&", "=", ";", "quote", " ", "?", "/", ":"}
        <3>1. \E i \in 1 .. 10 : Reserved[i] = s
            BY <2>4, ReservedIs
        <3>2. QED
            BY <2>2, <3>1
    <2>5. QED
        BY <2>3, <2>4 DEF Signs
<1>3. \A i \in 1 .. 16 : Alphabet[i] \in Signs
    BY AlphabetIs, ElementOfSeq
<1>4. Char = {Alphabet[i] : i \in 1 .. 16}
    BY <1>1 DEF Char, ToSet
<1>5. QED
    BY <1>2, <1>3, <1>4

LEMMA DigitsAre ==
    /\ \A s : IsDigit(s) <=> s \in {"0", "1", "2", "3"}
    /\ \A n \in 0 .. 3 : IsDigit(Digit[n + 1]) /\ Code(Digit[n + 1]) = n
<1>1. ToSet(Digit) = {"0", "1", "2", "3"}
    BY DEF Digit, ToSet
<1>2. \A s : IsDigit(s) <=> s \in {"0", "1", "2", "3"}
    BY <1>1 DEF IsDigit
<1>3. ASSUME NEW n \in 0 .. 3 PROVE IsDigit(Digit[n + 1]) /\ Code(Digit[n + 1]) = n
    <2>1. n = 0 \/ n = 1 \/ n = 2 \/ n = 3
        OBVIOUS
    <2>2. Digit[n + 1] = Alphabet[n + 1] /\ IsDigit(Digit[n + 1])
        BY <1>2, <2>1, AlphabetIs DEF Digit
    <2>3. ASSUME NEW m \in 0 .. 15, m # n PROVE Alphabet[m + 1] # Digit[n + 1]
        <3>1. CASE m \in 0 .. 3
            <4>1. m = 0 \/ m = 1 \/ m = 2 \/ m = 3
                BY <3>1
            <4>2. QED
                BY <2>1, <2>2, <2>3, <4>1, AlphabetIs
        <3>2. CASE m = 4 \/ m = 15
            <4>1. Alphabet[m + 1] \in {"x", "HTTP"}
                BY <3>2, AlphabetIs
            <4>2. QED
                BY <1>2, <2>2, <4>1
        <3>3. CASE m \in 5 .. 14
            <4>1. PICK i \in 1 .. 10 : m + 1 = 5 + i
                <5>1. m - 4 \in 1 .. 10 /\ m + 1 = 5 + (m - 4)
                    BY <3>3
                <5>2. QED
                    BY <5>1
            <4>2. Alphabet[m + 1] = Reserved[i]
                BY <4>1, AlphabetIs
            <4>3. Reserved[i] \in {"%", "+", "&", "=", ";", "quote", " ", "?", "/", ":"}
                BY ReservedIs
            <4>4. QED
                BY <1>2, <2>2, <4>2, <4>3
        <3>4. QED
            BY <3>1, <3>2, <3>3
    <2>4. n \in 0 .. 15 /\ Alphabet[n + 1] = Digit[n + 1]
        BY <2>2
    <2>5. (CHOOSE m \in 0 .. 15 : Alphabet[m + 1] = Digit[n + 1]) = n
        BY <2>3, <2>4
    <2>6. QED
        BY <2>2, <2>5 DEF Code
<1>4. QED
    BY <1>2, <1>3

LEMMA CodeIs ==
    ASSUME NEW char \in Char
    PROVE  Code(char) \in 0 .. 15 /\ Alphabet[Code(char) + 1] = char
<1>1. \E n \in 0 .. 15 : Alphabet[n + 1] = char
    <2>1. DOMAIN Alphabet = 1 .. 16
        BY AlphabetIs, LenProperties
    <2>2. PICK k \in 1 .. 16 : Alphabet[k] = char
        BY <2>1 DEF Char, ToSet
    <2>3. k - 1 \in 0 .. 15 /\ (k - 1) + 1 = k
        OBVIOUS
    <2>4. QED
        BY <2>2, <2>3
<1>2. QED
    BY <1>1 DEF Code

(***************************************************************************)
(* How one character is written, and what is read of it                    *)
(***************************************************************************)
Escape(char) == IF Unreserved(char) THEN <<char>>
                ELSE <<"%", Digit[(Code(char) \div 4) + 1], Digit[(Code(char) % 4) + 1]>>

Written == {"0", "1", "2", "3", "x", "%"}

Escapes(e, char) ==
    /\ e \in Seq(Written)
    /\ \/ Len(e) = 1 /\ e[1] = char /\ char \notin {"%", "+"}
       \/ Len(e) = 3 /\ e[1] = "%" /\ Alphabet[Strtol(e[2], e[3]) + 1] = char

LEMMA EscapeIs ==
    ASSUME NEW char \in Char
    PROVE  Escapes(Escape(char), char)
<1>1. CASE Unreserved(char)
    <2>1. char \in {"0", "1", "2", "3", "x"}
        BY <1>1, DigitsAre DEF Unreserved
    <2>2. char \in Written /\ char \notin {"%", "+"}
        BY <2>1 DEF Written
    <2>3. <<char>> \in Seq(Written) /\ Len(<<char>>) = 1 /\ <<char>>[1] = char
        BY <2>2
    <2>4. QED
        BY <1>1, <2>2, <2>3 DEF Escape, Escapes
<1>2. CASE ~Unreserved(char)
    <2>1. PICK k \in 0 .. 15 : k = Code(char) /\ Alphabet[k + 1] = char
        BY CodeIs
    <2>2. PICK m \in 0 .. 3, n \in 0 .. 3 : m = k \div 4 /\ n = k % 4 /\ 4 * m + n = k
        <3>1. k % 4 \in 0 .. 3
            OBVIOUS
        <3>2. k \div 4 \in 0 .. 3
            OBVIOUS
        <3>3. 4 * (k \div 4) + (k % 4) = k
            OBVIOUS
        <3>4. QED
            BY <3>1, <3>2, <3>3
    <2>3. PICK h, l : /\ h = Digit[m + 1] /\ IsDigit(h) /\ Code(h) = m
                      /\ l = Digit[n + 1] /\ IsDigit(l) /\ Code(l) = n
        BY DigitsAre
    <2>4. Strtol(h, l) = k
        <3>1. h # " " /\ h # "+"
            BY <2>3, DigitsAre
        <3>2. Strtol(h, l) = 4 * Code(h) + Code(l)
            BY <2>3, <3>1, Zenon DEF Strtol, IsDigit
        <3>3. QED
            BY <2>2, <2>3, <3>2
    <2>5. Escape(char) = <<"%", h, l>>
        BY <1>2, <2>1, <2>2, <2>3 DEF Escape
    <2>6. "%" \in Written /\ h \in Written /\ l \in Written
        BY <2>3, DigitsAre DEF Written
    <2> DEFINE e == <<"%", h, l>>
    <2>7. e \in Seq(Written) /\ Len(e) = 3 /\ e[1] = "%" /\ e[2] = h /\ e[3] = l
        BY <2>6
    <2> HIDE DEF e
    <2>8. Alphabet[Strtol(e[2], e[3]) + 1] = char
        BY <2>1, <2>4, <2>7
    <2>9. Escapes(e, char)
        BY <2>7, <2>8 DEF Escapes
    <2>10. QED
        BY <2>5, <2>9 DEF e
<1>3. QED
    BY <1>1, <1>2

Escaped(value) == [i \in 1 .. Len(value) |-> Escape(value[i])]

LEMMA EscapedIs ==
    ASSUME NEW v \in Seq(Char)
    PROVE  /\ Escaped(v) \in Seq(Seq(Written)) /\ Len(Escaped(v)) = Len(v)
           /\ \A i \in 1 .. Len(v) : Escapes(Escaped(v)[i], v[i])
           /\ Encode(v) = FlattenSeq(Escaped(v))
           /\ Encode(v) \in Seq(Written)
<1>1. PICK n \in Nat : n = Len(v)
    BY LenProperties
<1>2. ASSUME NEW i \in 1 .. n PROVE Escapes(Escape(v[i]), v[i]) /\ Escape(v[i]) \in Seq(Written)
    <2>1. v[i] \in Char
        BY <1>1, ElementOfSeq
    <2>2. Escapes(Escape(v[i]), v[i])
        BY <2>1, EscapeIs
    <2>3. QED
        BY <2>2 DEF Escapes
<1>3. Escaped(v) = [i \in 1 .. n |-> Escape(v[i])]
    BY <1>1 DEF Escaped
<1>4. /\ Escaped(v) \in Seq(Seq(Written)) /\ Len(Escaped(v)) = n
      /\ \A i \in 1 .. n : Escaped(v)[i] = Escape(v[i])
    BY <1>2, <1>3
<1>5. Encode(v) = FlattenSeq(Escaped(v))
    BY DEF Encode, Escaped, Escape
<1>6. Encode(v) \in Seq(Written)
    BY <1>4, <1>5, FlattenType
<1>7. QED
    BY <1>1, <1>2, <1>4, <1>5, <1>6

(***************************************************************************)
(* The recursion of Decode: what is decoded from each position to the end. *)
(***************************************************************************)
Decoding(s, u) ==
    u = [i \in 1 .. Len(s) + 1 |->
            IF i > Len(s) THEN << >>
            ELSE IF s[i] = "%" /\ i + 2 <= Len(s)
            THEN <<Alphabet[Strtol(s[i + 1], s[i + 2]) + 1]>> \o u[i + 3]
            ELSE <<IF s[i] = "+" THEN " " ELSE s[i]>> \o u[i + 1]]

LEMMA DecodingIsUsed ==
    ASSUME NEW s
    PROVE  Decode(s) = (CHOOSE u : Decoding(s, u))[1]
BY Zenon DEF Decode, Decoding

LEMMA DecodingExists ==
    ASSUME NEW D, NEW s \in Seq(D)
    PROVE  \E u : Decoding(s, u)
<1> DEFINE n == Len(s)
<1> DEFINE plain(i) == IF s[i] = "+" THEN " " ELSE s[i]
<1> DEFINE escaped(i) == Alphabet[Strtol(s[i + 1], s[i + 2]) + 1]
<1> DEFINE E == {plain(i) : i \in 1 .. n} \cup {escaped(i) : i \in 1 .. n}
<1> DEFINE A == Seq(E)
<1> DEFINE next(i, x) == IF s[i] = "%" /\ i + 2 <= n THEN <<escaped(i)>> \o x[3]
                         ELSE <<plain(i)>> \o x[1]
<1> DEFINE T == A \X A \X A
<1> DEFINE step == [j \in 1 .. n |-> [x \in T |-> <<next(n + 1 - j, x), x[1], x[2]>>]]
<1>1. n \in Nat /\ << >> \in A
    BY LenProperties
<1>2. ASSUME NEW i \in 1 .. n PROVE <<escaped(i)>> \in A /\ <<plain(i)>> \in A
    <2>1. escaped(i) \in E /\ plain(i) \in E
        OBVIOUS
    <2> HIDE DEF E, escaped, plain
    <2>2. QED
        BY <2>1
<1> HIDE DEF n, E, escaped, plain
<1>3. ASSUME NEW i \in 1 .. n, NEW x \in T PROVE next(i, x) \in A
    <2>1. x[1] \in A /\ x[3] \in A
        <3> HIDE DEF A
        <3>1. QED
            OBVIOUS
    <2>2. <<escaped(i)>> \o x[3] \in A /\ <<plain(i)>> \o x[1] \in A
        BY <1>2, <2>1, ConcatProperties
    <2>3. QED
        BY <2>2
<1> HIDE DEF A, next
<1>4. step \in [1 .. n -> [T -> T]]
    <2>1. \A j \in 1 .. n : n + 1 - j \in 1 .. n
        BY <1>1
    <2>2. \A j \in 1 .. n : \A x \in T : <<next(n + 1 - j, x), x[1], x[2]>> \in T
        BY <1>3, <2>1
    <2> HIDE DEF T
    <2>3. QED
        BY <2>2
<1>5. PICK w \in [0 .. n -> T] : /\ w[0] = << << >>, << >>, << >> >>
                                 /\ \A j \in 1 .. n : w[j] = step[j][w[j - 1]]
    <2>1. << << >>, << >>, << >> >> \in T
        BY <1>1
    <2> HIDE DEF step, T
    <2>2. \E w : Recursive(w, T, << << >>, << >>, << >> >>, n, step)
        BY <1>1, <1>4, <2>1, Recursion
    <2>3. QED
        BY <2>2 DEF Recursive
<1>6. ASSUME NEW j \in 1 .. n
      PROVE  /\ w[j][1] = next(n + 1 - j, w[j - 1])
             /\ w[j][2] = w[j - 1][1]
             /\ w[j][3] = w[j - 1][2]
    <2>1. w[j - 1] \in T
        <3>1. j - 1 \in 0 .. n
            BY <1>1
        <3> HIDE DEF T
        <3>2. QED
            BY <3>1
    <2>2. w[j] = <<next(n + 1 - j, w[j - 1]), w[j - 1][1], w[j - 1][2]>>
        <3> HIDE DEF T
        <3>1. QED
            BY <1>5, <2>1
    <2>3. QED
        BY <2>2
<1> HIDE DEF step, T
<1> DEFINE u == [i \in 1 .. n + 1 |-> w[n + 1 - i][1]]
<1>7. ASSUME NEW i \in 1 .. n + 1
      PROVE  u[i] = IF i > n THEN << >>
                    ELSE IF s[i] = "%" /\ i + 2 <= n THEN <<escaped(i)>> \o u[i + 3]
                    ELSE <<plain(i)>> \o u[i + 1]
    <2>1. CASE i > n
        <3>1. n + 1 - i = 0
            BY <1>1, <2>1
        <3>2. QED
            BY <1>5, <2>1, <3>1
    <2>2. CASE ~(i > n)
        <3>1. PICK j \in 1 .. n : j = n + 1 - i /\ n + 1 - j = i /\ n + 1 - (i + 1) = j - 1
                                  /\ i + 1 \in 1 .. n + 1
            <4>1. n + 1 - i \in 1 .. n /\ n + 1 - (n + 1 - i) = i
                  /\ n + 1 - (i + 1) = (n + 1 - i) - 1 /\ i + 1 \in 1 .. n + 1
                BY <1>1, <2>2
            <4>2. QED
                BY <4>1
        <3>2. u[i] = next(i, w[j - 1]) /\ u[i + 1] = w[j - 1][1]
            BY <1>6, <3>1
        <3>3. ASSUME i + 2 <= n PROVE u[i + 3] = w[j - 1][3]
            <4>1. /\ j - 1 \in 1 .. n /\ j - 2 \in 1 .. n /\ (j - 1) - 1 = j - 2
                  /\ i + 3 \in 1 .. n + 1 /\ n + 1 - (i + 3) = (j - 2) - 1
                BY <1>1, <3>1, <3>3
            <4>2. w[j - 1][3] = w[j - 2][2] /\ w[j - 2][2] = w[(j - 2) - 1][1]
                BY <1>6, <4>1
            <4>3. QED
                BY <4>1, <4>2
        <3> HIDE DEF u
        <3>4. CASE s[i] = "%" /\ i + 2 <= n
            BY <2>2, <3>2, <3>3, <3>4 DEF next
        <3>5. CASE ~(s[i] = "%" /\ i + 2 <= n)
            BY <2>2, <3>2, <3>5, Zenon DEF next
        <3>6. QED
            BY <3>4, <3>5
    <2>3. QED
        BY <2>1, <2>2
<1>8. u = [i \in 1 .. n + 1 |-> u[i]]
    OBVIOUS
<1> HIDE DEF u
<1>9. Decoding(s, u)
    BY <1>7, <1>8 DEF Decoding, n, escaped, plain
<1>10. QED
    BY <1>9

DecodedFrom(s, n, u) ==
    /\ Decode(s) = u[1]
    /\ \A i \in 1 .. n + 1 :
           u[i] = IF i > n THEN << >>
                  ELSE IF s[i] = "%" /\ i + 2 <= n
                  THEN <<Alphabet[Strtol(s[i + 1], s[i + 2]) + 1]>> \o u[i + 3]
                  ELSE <<IF s[i] = "+" THEN " " ELSE s[i]>> \o u[i + 1]

LEMMA Decoded ==
    ASSUME NEW D, NEW s \in Seq(D)
    PROVE  \E u : DecodedFrom(s, Len(s), u)
<1>1. PICK u : u = CHOOSE v : Decoding(s, v)
    OBVIOUS
<1>2. Decoding(s, u) /\ Decode(s) = u[1]
    BY <1>1, DecodingExists, DecodingIsUsed
<1>3. QED
    BY <1>2 DEF Decoding, DecodedFrom

-----------------------------------------------------------------------------
(* Where the parts of a flat sequence are: the i-th ends at at[i]. *)

Laid(at, s, ss) ==
    /\ at \in [0 .. Len(ss) -> 0 .. Len(s)]
    /\ at[0] = 0 /\ at[Len(ss)] = Len(s)
    /\ \A i \in 1 .. Len(ss) :
           /\ at[i] = at[i - 1] + Len(ss[i])
           /\ \A j \in 1 .. Len(ss[i]) : s[at[i - 1] + j] = ss[i][j]

LEMMA Layout ==
    ASSUME NEW D, NEW ss \in Seq(Seq(D))
    PROVE  \E at : Laid(at, FlattenSeq(ss), ss)
<1>1. PICK s \in Seq(D) : s = FlattenSeq(ss)
    BY FlattenType
<1>2. PICK m \in Nat : m = Len(ss)
    BY LenProperties
<1>3. PICK n \in Nat : n = Len(s)
    BY <1>1, LenProperties
<1>4. PICK before, behind :
          /\ before \in [0 .. m -> Seq(D)]
          /\ behind \in [0 .. m -> Seq(D)]
          /\ before[0] = << >> /\ behind[m] = << >>
          /\ \A i \in 1 .. m : /\ before[i] = before[i - 1] \o ss[i]
                               /\ behind[i - 1] = ss[i] \o behind[i]
          /\ before[m] = s
          /\ \A i \in 0 .. m : before[i] \o behind[i] = s
    <2>1. PICK e \in Seq(D) : e = << >>
        <3>1. << >> \in Seq(D)
            OBVIOUS
        <3>2. QED
            BY <3>1
    <2>2. PICK before, behind : Parts(D, ss, e, before, behind)
        BY CutAnywhere
    <2>3. s \o e = s
        BY <2>1, ConcatEmptySeq
    <2>4. /\ before \in [0 .. m -> Seq(D)]
          /\ behind \in [0 .. m -> Seq(D)]
          /\ before[0] = << >> /\ behind[m] = e
          /\ before[m] = FlattenSeq(ss)
        BY <1>2, <2>2, Zenon DEF Parts
    <2>5. \A i \in 1 .. m : /\ before[i] = before[i - 1] \o ss[i]
                            /\ behind[i - 1] = ss[i] \o behind[i]
        BY <1>2, <2>2, Zenon DEF Parts
    <2>6. \A i \in 0 .. m : before[i] \o behind[i] = FlattenSeq(ss) \o e
        BY <1>2, <2>2, Zenon DEF Parts
    <2>7. \A i \in 0 .. m : before[i] \o behind[i] = s
        BY <1>1, <2>3, <2>6
    <2>8. behind[m] = << >> /\ before[m] = s
        BY <1>1, <2>1, <2>4
    <2>9. QED
        BY <2>4, <2>5, <2>7, <2>8, Zenon
<1> DEFINE at == [i \in 0 .. m |-> Len(before[i])]
<1>5. ASSUME NEW i \in 0 .. m
      PROVE  at[i] \in 0 .. n /\ at[i] = Len(before[i]) /\ Joins(s, before[i], behind[i])
    <2>1. before[i] \in Seq(D) /\ behind[i] \in Seq(D) /\ before[i] \o behind[i] = s
        BY <1>4
    <2>2. Joins(before[i] \o behind[i], before[i], behind[i])
        BY <2>1, Joined
    <2>3. Joins(s, before[i], behind[i])
        BY <2>1, <2>2
    <2>4. PICK k \in Nat, l \in Nat : k = Len(before[i]) /\ l = Len(behind[i])
        BY <2>1, LenProperties
    <2>5. n = k + l
        BY <1>3, <2>3, <2>4 DEF Joins
    <2>6. k \in 0 .. n
        BY <2>5
    <2>7. at[i] = k
        BY <2>4
    <2> HIDE DEF at
    <2>8. QED
        BY <2>3, <2>4, <2>6, <2>7
<1>6. at \in [0 .. m -> 0 .. n]
    BY <1>5
<1> HIDE DEF at
<1>7. at[0] = 0 /\ at[m] = n
    <2>1. 0 \in 0 .. m /\ m \in 0 .. m /\ Len(<< >>) = 0
        BY <1>2
    <2>2. QED
        BY <1>3, <1>4, <1>5, <2>1
<1>8. ASSUME NEW i \in 1 .. m
      PROVE  /\ at[i] = at[i - 1] + Len(ss[i])
             /\ \A j \in 1 .. Len(ss[i]) : s[at[i - 1] + j] = ss[i][j]
    <2>1. i \in 0 .. m /\ i - 1 \in 0 .. m
        BY <1>2
    <2>2. before[i - 1] \in Seq(D) /\ behind[i] \in Seq(D) /\ ss[i] \in Seq(D)
        BY <1>2, <1>4, <2>1, ElementOfSeq
    <2>3. Joins(before[i - 1] \o ss[i], before[i - 1], ss[i])
        BY <2>2, Joined
    <2>4. Joins(ss[i] \o behind[i], ss[i], behind[i])
        BY <2>2, Joined
    <2>5. Joins(before[i], before[i - 1], ss[i]) /\ Joins(behind[i - 1], ss[i], behind[i])
        BY <1>4, <2>3, <2>4
    <2>6. Len(before[i]) = Len(before[i - 1]) + Len(ss[i])
        BY <2>5 DEF Joins
    <2>7. at[i] = at[i - 1] + Len(ss[i])
        BY <1>5, <2>1, <2>6
    <2>8. ASSUME NEW j \in 1 .. Len(ss[i]) PROVE s[at[i - 1] + j] = ss[i][j]
        <3>1. PICK k \in Nat, l \in Nat : k = Len(ss[i]) /\ l = Len(behind[i])
            BY <2>2, LenProperties
        <3>2. Len(behind[i - 1]) = k + l /\ behind[i - 1][j] = ss[i][j]
            BY <2>5, <3>1 DEF Joins
        <3>3. j \in 1 .. Len(behind[i - 1])
            <4>1. j \in 1 .. k
                BY <3>1
            <4>2. j \in 1 .. k + l
                BY <4>1
            <4>3. QED
                BY <3>2, <4>2
        <3>4. Joins(s, before[i - 1], behind[i - 1]) /\ at[i - 1] = Len(before[i - 1])
            BY <1>5, <2>1
        <3>5. s[at[i - 1] + j] = behind[i - 1][j]
            BY <3>3, <3>4 DEF Joins
        <3>6. QED
            BY <3>2, <3>5
    <2>9. QED
        BY <2>7, <2>8
<1>9. Laid(at, s, ss)
    BY <1>2, <1>3, <1>6, <1>7, <1>8 DEF Laid
<1>10. QED
    BY <1>1, <1>9

(***************************************************************************)
(* A value of any characters is decoded as it was before it was encoded.   *)
(***************************************************************************)
THEOREM DecodeEncoded ==
    ASSUME NEW v \in Seq(Char)
    PROVE  Decode(Encode(v)) = v
<1>1. PICK ss, s : /\ ss \in Seq(Seq(Written)) /\ s \in Seq(Written)
                   /\ Len(ss) = Len(v) /\ s = Encode(v) /\ s = FlattenSeq(ss)
                   /\ \A i \in 1 .. Len(v) : Escapes(ss[i], v[i])
    BY EscapedIs
<1>2. PICK at : Laid(at, s, ss)
    BY <1>1, Layout
<1>3. PICK m \in Nat, n \in Nat : m = Len(v) /\ n = Len(s)
    BY <1>1, LenProperties
<1>4. /\ at \in [0 .. m -> 0 .. n] /\ at[0] = 0 /\ at[m] = n
      /\ \A i \in 1 .. m :
             /\ at[i] = at[i - 1] + Len(ss[i])
             /\ \A j \in 1 .. Len(ss[i]) : s[at[i - 1] + j] = ss[i][j]
    BY <1>1, <1>2, <1>3 DEF Laid
<1>5. PICK u : /\ Decode(s) = u[1]
               /\ \A i \in 1 .. n + 1 :
                      u[i] = IF i > n THEN << >>
                             ELSE IF s[i] = "%" /\ i + 2 <= n
                             THEN <<Alphabet[Strtol(s[i + 1], s[i + 2]) + 1]>> \o u[i + 3]
                             ELSE <<IF s[i] = "+" THEN " " ELSE s[i]>> \o u[i + 1]
    <2>1. PICK u : DecodedFrom(s, n, u)
        BY <1>1, <1>3, Decoded
    <2>2. QED
        BY <2>1 DEF DecodedFrom
<1>6. ASSUME NEW i \in 1 .. m
      PROVE  u[at[i - 1] + 1] = <<v[i]>> \o u[at[i] + 1]
    <2>1. PICK p \in 0 .. n, q \in 0 .. n : p = at[i - 1] /\ q = at[i]
        <3>1. i - 1 \in 0 .. m /\ i \in 0 .. m
            BY <1>3
        <3>2. QED
            BY <1>4, <3>1
    <2>2. Escapes(ss[i], v[i]) /\ q = p + Len(ss[i])
          /\ \A j \in 1 .. Len(ss[i]) : s[p + j] = ss[i][j]
        BY <1>1, <1>3, <1>4, <2>1
    <2>3. CASE Len(ss[i]) = 1 /\ ss[i][1] = v[i] /\ v[i] \notin {"%", "+"}
        <3>1. q = p + 1 /\ s[p + 1] = v[i] /\ p + 1 \in 1 .. n + 1 /\ ~(p + 1 > n)
            BY <1>3, <2>2, <2>3
        <3>2. u[p + 1] = <<v[i]>> \o u[(p + 1) + 1]
            BY <1>5, <2>3, <3>1, Zenon
        <3>3. QED
            BY <2>1, <3>1, <3>2
    <2>4. CASE /\ Len(ss[i]) = 3 /\ ss[i][1] = "%"
               /\ Alphabet[Strtol(ss[i][2], ss[i][3]) + 1] = v[i]
        <3>1. q = p + 3 /\ s[p + 1] = ss[i][1] /\ s[p + 2] = ss[i][2] /\ s[p + 3] = ss[i][3]
            BY <2>2, <2>4
        <3>2. PICK k : k = p + 1 /\ k + 1 = p + 2 /\ k + 2 = p + 3 /\ k + 3 = q + 1
                       /\ k \in 1 .. n + 1 /\ ~(k > n) /\ k + 2 <= n
            BY <1>3, <3>1
        <3>3. s[k] = "%" /\ Alphabet[Strtol(s[k + 1], s[k + 2]) + 1] = v[i]
            BY <2>4, <3>1, <3>2
        <3>4. u[k] = <<v[i]>> \o u[k + 3]
            BY <1>5, <3>2, <3>3, Zenon
        <3>5. QED
            BY <2>1, <3>2, <3>4
    <2>5. QED
        BY <2>2, <2>3, <2>4 DEF Escapes
<1> DEFINE x == [i \in 0 .. m |-> u[at[m - i] + 1]]
<1> DEFINE y == [i \in 0 .. m |-> SubSeq(v, (m - i) + 1, m)]
<1>7. x[0] = y[0]
    <2>1. u[at[m] + 1] = << >>
        <3>1. PICK k : k = at[m] + 1 /\ k \in 1 .. n + 1 /\ k > n
            BY <1>3, <1>4
        <3>2. u[k] = << >>
            BY <1>5, <3>1, Zenon
        <3>3. QED
            BY <3>1, <3>2
    <2>2. m - 0 = m /\ 0 \in 0 .. m /\ m + 1 \in Int /\ m \in Int /\ m < m + 1
        BY <1>3
    <2>3. SubSeq(v, m + 1, m) = << >>
        BY <2>2, SubSeqEmpty
    <2>4. QED
        BY <2>1, <2>2, <2>3
<1>8. SameSteps(x, y, 0, m)
    <2>1. ASSUME NEW i \in 0 .. m, i # 0, x[i - 1] = y[i - 1] PROVE x[i] = y[i]
        <3>1. PICK k \in 1 .. m : /\ k = (m - i) + 1 /\ k - 1 = m - i /\ k = m - (i - 1)
                                  /\ i - 1 \in 0 .. m /\ (m - (i - 1)) + 1 = k + 1
                                  /\ m \in k .. m
            <4>1. /\ (m - i) + 1 \in 1 .. m /\ ((m - i) + 1) - 1 = m - i
                  /\ (m - i) + 1 = m - (i - 1) /\ i - 1 \in 0 .. m
                  /\ (m - (i - 1)) + 1 = ((m - i) + 1) + 1 /\ m \in (m - i) + 1 .. m
                BY <1>3, <2>1
            <4>2. QED
                BY <4>1
        <3>2. x[i] = u[at[k - 1] + 1] /\ x[i - 1] = u[at[k] + 1]
            BY <3>1
        <3>3. y[i] = SubSeq(v, k, m) /\ y[i - 1] = SubSeq(v, k + 1, m)
            BY <3>1
        <3> HIDE DEF x, y
        <3>4. SubSeq(v, k, m) = <<v[k]>> \o SubSeq(v, k + 1, m)
            BY <1>3, <3>1, SubSeqRecursiveFirst
        <3>5. u[at[k - 1] + 1] = <<v[k]>> \o u[at[k] + 1]
            BY <1>6
        <3>6. QED
            BY <2>1, <3>2, <3>3, <3>4, <3>5
    <2> HIDE DEF x, y
    <2>2. QED
        BY <2>1 DEF SameSteps
<1>9. x[m] = u[1] /\ y[m] = SubSeq(v, 1, m)
    <2>1. m \in 0 .. m /\ m - m = 0 /\ at[0] = 0 /\ 0 + 1 = 1
        BY <1>3, <1>4
    <2>2. QED
        BY <2>1
<1> HIDE DEF x, y
<1>10. x[m] = y[m]
    <2>1. m \in 0 .. m /\ 0 \in Nat
        BY <1>3
    <2>2. QED
        BY <1>7, <1>8, <2>1, Agreement
<1>11. SubSeq(v, 1, m) = v
    BY <1>3, SubSeqFull
<1>12. QED
    BY <1>1, <1>5, <1>9, <1>10, <1>11

-----------------------------------------------------------------------------
(* Pieces of a text *)

Holds(t, p, s) == \A j \in 1 .. Len(s) : t[p + j] = s[j]

LEMMA HoldsPart ==
    ASSUME NEW D, NEW t, NEW s \in Seq(D), NEW p \in Nat, NEW q \in Nat,
           q = p + Len(s), Holds(t, p, s)
    PROVE  SubSeq(t, p + 1, q) = s
<1>1. PICK n \in Nat : n = Len(s) /\ q = p + n
    BY LenProperties
<1>2. ASSUME NEW i \in p + 1 .. q PROVE t[i] \in D
    <2>1. PICK j \in 1 .. n : i = p + j
        <3>1. i - p \in 1 .. n /\ i = p + (i - p)
            BY <1>1
        <3>2. QED
            BY <3>1
    <2>2. t[i] = s[j] /\ s[j] \in D
        BY <1>1, <2>1, ElementOfSeq DEF Holds
    <2>3. QED
        BY <2>2
<1>3. PICK r : r = SubSeq(t, p + 1, q)
    OBVIOUS
<1>4. /\ r \in Seq(D)
      /\ Len(r) = (IF p + 1 <= q THEN q - (p + 1) + 1 ELSE 0)
      /\ \A i \in 1 .. q - (p + 1) + 1 : r[i] = t[p + 1 + i - 1]
    BY <1>2, <1>3, SubSeqProperties
<1>5. q - (p + 1) + 1 = n /\ (IF p + 1 <= q THEN q - (p + 1) + 1 ELSE 0) = n
      /\ \A i \in 1 .. n : p + 1 + i - 1 = p + i
    BY <1>1
<1>6. Len(r) = n /\ \A i \in 1 .. n : r[i] = s[i]
    BY <1>1, <1>4, <1>5 DEF Holds
<1>7. r = s
    BY <1>1, <1>4, <1>6, SeqEqual
<1>8. QED
    BY <1>3, <1>7

(***************************************************************************)
(* A concatenation at a place of a text                                    *)
(***************************************************************************)
TwoPieces(D, t, p, q, a, b) ==
    /\ a \in Seq(D) /\ b \in Seq(D) /\ p \in Nat /\ q = p + Len(a)
    /\ Holds(t, p, a \o b)

LEMMA Pieces ==
    ASSUME NEW D, NEW t, NEW p, NEW q, NEW a, NEW b, TwoPieces(D, t, p, q, a, b)
    PROVE  q \in Nat /\ Len(a \o b) = Len(a) + Len(b) /\ Holds(t, p, a) /\ Holds(t, q, b)
<1>1. a \in Seq(D) /\ b \in Seq(D) /\ p \in Nat /\ q = p + Len(a) /\ Holds(t, p, a \o b)
    BY DEF TwoPieces
<1>2. PICK w : w = a \o b /\ Joins(w, a, b) /\ Holds(t, p, w)
    BY <1>1, Joined
<1>3. PICK m \in Nat, n \in Nat : m = Len(a) /\ n = Len(b)
    BY <1>1, LenProperties
<1>4. /\ Len(w) = m + n
      /\ \A i \in 1 .. m : w[i] = a[i]
      /\ \A i \in 1 .. n : w[m + i] = b[i]
    BY <1>2, <1>3 DEF Joins
<1>5. q = p + m /\ q \in Nat
    BY <1>1, <1>3
<1>6. ASSUME NEW j \in 1 .. m PROVE t[p + j] = a[j]
    <2>1. j \in 1 .. m + n
        BY <1>3
    <2>2. QED
        BY <1>2, <1>4, <2>1 DEF Holds
<1>7. ASSUME NEW j \in 1 .. n PROVE t[q + j] = b[j]
    <2>1. m + j \in 1 .. m + n /\ p + (m + j) = q + j
        BY <1>1, <1>5
    <2>2. t[p + (m + j)] = w[m + j]
        BY <1>2, <1>4, <2>1 DEF Holds
    <2>3. QED
        BY <1>4, <2>1, <2>2
<1>8. Len(w) = Len(a) + Len(b)
    BY <1>3, <1>4
<1>9. QED
    BY <1>2, <1>3, <1>5, <1>6, <1>7, <1>8 DEF Holds

LEMMA OneSign ==
    ASSUME NEW t, NEW p \in Nat, NEW char, Holds(t, p, <<char>>)
    PROVE  t[p + 1] = char
BY DEF Holds

LEMMA Signed ==
    /\ Written \subseteq Char
    /\ \A char \in Written : char \notin {"&", "=", ";", "quote", " "}
    /\ "&" \in Char /\ "=" \in Char /\ ";" \in Char /\ "quote" \in Char /\ " " \in Char
    /\ \A v \in Seq(Char) : Encode(v) \in Seq(Char) /\ Encode(v) \in Seq(Written)
<1>1. /\ Written \subseteq Char
      /\ \A char \in Written : char \notin {"&", "=", ";", "quote", " "}
      /\ "&" \in Char /\ "=" \in Char /\ ";" \in Char /\ "quote" \in Char /\ " " \in Char
    BY CharIs DEF Written, Signs
<1>2. ASSUME NEW v \in Seq(Char) PROVE Encode(v) \in Seq(Char) /\ Encode(v) \in Seq(Written)
    <2>1. Encode(v) \in Seq(Written)
        BY EscapedIs
    <2>2. QED
        BY <1>1, <2>1, SeqMonotonic
<1>3. QED
    BY <1>1, <1>2

LEMMA EncodedEmpty ==
    ASSUME NEW v \in Seq(Char), v # << >>
    PROVE  Len(Encode(v)) # 0
<1>1. Decode(Encode(v)) = v /\ Encode(v) \in Seq(Written)
    BY DecodeEncoded, Signed
<1>2. Decode(<< >>) = << >>
    <2>1. << >> \in Seq(Char) /\ Len(<< >>) = 0
        OBVIOUS
    <2>2. Escaped(<< >>) \in Seq(Seq(Written)) /\ Len(Escaped(<< >>)) = 0
          /\ Encode(<< >>) = FlattenSeq(Escaped(<< >>))
        BY <2>1, EscapedIs
    <2>3. Encode(<< >>) = << >>
        BY <2>2, EmptySeq, FlattenEmpty
    <2>4. QED
        BY <2>1, <2>3, DecodeEncoded
<1>3. QED
    BY <1>1, <1>2, EmptySeq

-----------------------------------------------------------------------------
(* The fields of a query string, and where they are *)

Separator(i, chars) == IF i = 1 THEN << >> ELSE chars

QueryEntry(fields, i) ==
    Separator(i, <<"&">>) \o fields[i].name \o <<"=">> \o Encode(fields[i].value)

(***************************************************************************)
(* A field's name stands from first to before mid, its value from behind   *)
(* mid to last.                                                            *)
(***************************************************************************)
QueryFieldAt(t, field, first, mid, last) ==
    /\ first \in Nat \ {0} /\ mid \in Nat /\ last \in Nat
    /\ first < mid /\ mid <= last
    /\ \A k \in first .. mid - 1 : t[k] \notin {"&", "="}
    /\ t[mid] = "="
    /\ \A k \in mid + 1 .. last : t[k] # "&"
    /\ SubSeq(t, first, mid - 1) = field.name
    /\ Decode(SubSeq(t, mid + 1, last)) = field.value

QueryView(t, fields, first, mid, last) ==
    /\ \A i \in 1 .. Len(fields) : /\ QueryFieldAt(t, fields[i], first[i], mid[i], last[i])
                                   /\ last[i] <= Len(t)
    /\ first[1] = 1
    /\ last[Len(fields)] = Len(t)
    /\ \A i \in 1 .. Len(fields) : i # Len(fields) =>
           t[last[i] + 1] = "&" /\ first[i + 1] = last[i] + 2

LEMMA QueryEntryType ==
    ASSUME NEW field \in QueryFields, NEW i \in Nat
    PROVE  /\ Separator(i, <<"&">>) \in Seq(Char)
           /\ Len(Separator(i, <<"&">>)) = IF i = 1 THEN 0 ELSE 1
           /\ field.name \in Seq(Char) /\ field.name # << >>
           /\ \A k \in 1 .. Len(field.name) : field.name[k] \notin {"&", "="}
           /\ <<"=">> \in Seq(Char) /\ Len(<<"=">>) = 1
           /\ field.value \in Seq(Char)
           /\ Encode(field.value) \in Seq(Char)
<1>1. "&" \in Char /\ "=" \in Char
    BY Signed
<1>2. /\ Separator(i, <<"&">>) \in Seq(Char)
      /\ Len(Separator(i, <<"&">>)) = IF i = 1 THEN 0 ELSE 1
      /\ <<"=">> \in Seq(Char) /\ Len(<<"=">>) = 1
    BY <1>1 DEF Separator
<1>3. field.name \in Seq(Char \ {"&", "="}) /\ field.name # << >> /\ field.value \in Seq(Char)
    BY DEF QueryFields, Without
<1>4. \A k \in 1 .. Len(field.name) : field.name[k] \notin {"&", "="}
    BY <1>3, ElementOfSeq
<1>5. field.name \in Seq(Char)
    <2>1. Char \ {"&", "="} \subseteq Char
        OBVIOUS
    <2>2. QED
        BY <1>3, <2>1, SeqMonotonic
<1>6. QED
    BY <1>2, <1>3, <1>4, <1>5, Signed

(***************************************************************************)
(* A field that is held as it was written is a field there.                *)
(***************************************************************************)
WrittenField(t, field, p, a, b, e, d, mid, last) ==
    /\ p \in Nat /\ field \in QueryFields
    /\ a \in Seq(Char) /\ b = field.name /\ e = <<"=">> /\ d = Encode(field.value)
    /\ Holds(t, p, ((a \o b) \o e) \o d)
    /\ mid = p + Len(a) + Len(b) + 1
    /\ last = mid + Len(d)

LEMMA QueryFieldIsThere ==
    ASSUME NEW t, NEW field, NEW p, NEW a, NEW b, NEW e, NEW d, NEW mid, NEW last,
           WrittenField(t, field, p, a, b, e, d, mid, last)
    PROVE  /\ QueryFieldAt(t, field, p + Len(a) + 1, mid, last)
           /\ Holds(t, p, a)
           /\ Len(((a \o b) \o e) \o d) = last - p
<1>1. /\ p \in Nat /\ field \in QueryFields
      /\ a \in Seq(Char) /\ b = field.name /\ e = <<"=">> /\ d = Encode(field.value)
      /\ Holds(t, p, ((a \o b) \o e) \o d)
      /\ mid = p + Len(a) + Len(b) + 1 /\ last = mid + Len(d)
    BY DEF WrittenField
<1>2. /\ b \in Seq(Char) /\ b # << >> /\ (\A k \in 1 .. Len(b) : b[k] \notin {"&", "="})
      /\ e \in Seq(Char) /\ Len(e) = 1 /\ d \in Seq(Char)
    <2>1. 1 \in Nat
        OBVIOUS
    <2>2. QED
        BY <1>1, <2>1, QueryEntryType, Zenon
<1>3. PICK k \in Nat, l \in Nat \ {0}, r \in Nat : k = Len(a) /\ l = Len(b) /\ r = Len(d)
    BY <1>1, <1>2, LenProperties, EmptySeq
<1>4. PICK x \in Seq(Char), y \in Seq(Char) : x = a \o b /\ y = x \o e
    BY <1>1, <1>2, ConcatProperties
<1>5. PICK q1 \in Nat, q2 \in Nat, q3 \in Nat :
          /\ q1 = p + k /\ q2 = q1 + l /\ q3 = q2 + 1
          /\ mid = q3 /\ last = q3 + r
          /\ p \in Nat /\ mid \in Nat /\ last \in Nat
    <2>1. p \in Nat /\ mid = p + Len(a) + Len(b) + 1 /\ last = mid + Len(d)
        BY DEF WrittenField
    <2>2. p + k \in Nat /\ (p + k) + l \in Nat /\ ((p + k) + l) + 1 \in Nat
          /\ mid = ((p + k) + l) + 1 /\ last = (((p + k) + l) + 1) + r
        BY <1>3, <2>1
    <2>3. QED
        BY <2>1, <2>2
<1>6. Len(y \o d) = Len(y) + r /\ Holds(t, p, y) /\ Len(y) = Len(x) + 1 /\ Holds(t, p, x)
      /\ Len(x) = k + l /\ Holds(t, p, a)
    <2>1. PICK q : q = p + Len(y)
        OBVIOUS
    <2>2. TwoPieces(Char, t, p, q, y, d)
        BY <1>1, <1>2, <1>4, <2>1 DEF TwoPieces
    <2>3. Len(y \o d) = Len(y) + Len(d) /\ Holds(t, p, y)
        BY <2>2, Pieces
    <2>4. PICK z : z = p + Len(x)
        OBVIOUS
    <2>5. TwoPieces(Char, t, p, z, x, e)
        BY <1>1, <1>2, <1>4, <2>3, <2>4 DEF TwoPieces
    <2>6. Len(y) = Len(x) + Len(e) /\ Holds(t, p, x)
        BY <1>4, <2>5, Pieces
    <2>7. TwoPieces(Char, t, p, q1, a, b)
        BY <1>1, <1>2, <1>3, <1>4, <1>5, <2>6 DEF TwoPieces
    <2>8. Len(x) = Len(a) + Len(b) /\ Holds(t, p, a)
        BY <1>4, <2>7, Pieces
    <2>9. QED
        BY <1>2, <1>3, <2>3, <2>6, <2>8
<1>7. Holds(t, q1, b) /\ Holds(t, q2, e) /\ Holds(t, q3, d)
    <2>1. TwoPieces(Char, t, p, q1, a, b)
        BY <1>1, <1>2, <1>3, <1>4, <1>5, <1>6 DEF TwoPieces
    <2>2. Len(x) = k + l /\ q2 = p + (k + l) /\ q3 = p + ((k + l) + 1)
        BY <1>5, <1>6
    <2>3. TwoPieces(Char, t, p, q2, x, e)
        BY <1>1, <1>2, <1>4, <1>6, <2>2 DEF TwoPieces
    <2>4. TwoPieces(Char, t, p, q3, y, d)
        BY <1>1, <1>2, <1>4, <1>6, <2>2 DEF TwoPieces
    <2>5. QED
        BY <2>1, <2>3, <2>4, Pieces
<1>8. t[mid] = "="
    BY <1>1, <1>5, <1>7, OneSign
<1>9. SubSeq(t, q1 + 1, q2) = b
    <2>1. q2 = q1 + Len(b)
        BY <1>3, <1>5
    <2>2. QED
        BY <1>2, <1>7, <2>1, HoldsPart
<1>10. SubSeq(t, q3 + 1, last) = d
    <2>1. last \in Nat /\ last = q3 + Len(d)
        BY <1>3, <1>5
    <2>2. QED
        BY <1>2, <1>7, <2>1, HoldsPart
<1>11. ASSUME NEW i \in q1 + 1 .. mid - 1 PROVE t[i] \notin {"&", "="}
    <2>1. i - q1 \in 1 .. l /\ q1 + (i - q1) = i
        BY <1>5
    <2>2. t[i] = b[i - q1]
        BY <1>3, <1>7, <2>1 DEF Holds
    <2>3. QED
        BY <1>2, <1>3, <2>1, <2>2
<1>12. ASSUME NEW i \in mid + 1 .. last PROVE t[i] # "&"
    <2>1. i - q3 \in 1 .. r /\ q3 + (i - q3) = i
        BY <1>5
    <2>2. t[i] = d[i - q3]
        BY <1>3, <1>7, <2>1 DEF Holds
    <2>3. field.value \in Seq(Char)
        BY <1>1 DEF QueryFields
    <2>4. d \in Seq(Written)
        BY <1>1, <2>3, Signed
    <2>5. d[i - q3] \in Written
        BY <1>3, <2>1, <2>4, ElementOfSeq
    <2>6. QED
        BY <2>2, <2>5, Signed
<1>13. Decode(d) = field.value
    <2>1. field.value \in Seq(Char)
        BY <1>1 DEF QueryFields
    <2>2. QED
        BY <1>1, <2>1, DecodeEncoded
<1>14. QueryFieldAt(t, field, q1 + 1, mid, last)
    <2>1. /\ q1 + 1 \in Nat \ {0} /\ mid \in Nat /\ last \in Nat
          /\ q1 + 1 < mid /\ mid <= last /\ mid - 1 = q2 /\ mid = q3
        BY <1>3, <1>5
    <2>2. SubSeq(t, q1 + 1, mid - 1) = field.name
        BY <1>1, <1>9, <2>1
    <2>3. Decode(SubSeq(t, mid + 1, last)) = field.value
        BY <1>10, <1>13, <2>1
    <2>4. QED
        BY <1>8, <1>11, <1>12, <2>1, <2>2, <2>3 DEF QueryFieldAt
<1>15. Len(((a \o b) \o e) \o d) = last - p /\ p + Len(a) + 1 = q1 + 1
    <2>1. last - p = ((k + l) + 1) + r
        BY <1>5
    <2>2. ((a \o b) \o e) \o d = y \o d
        BY <1>4
    <2>3. QED
        BY <1>3, <1>5, <1>6, <2>1, <2>2
<1>16. QED
    BY <1>6, <1>14, <1>15

LEMMA QueryIsViewed ==
    ASSUME NEW fields \in Seq(QueryFields), fields # << >>
    PROVE  \E first, mid, last : QueryView(CreateQuery(fields), fields, first, mid, last)
<1>1. PICK n \in Nat \ {0} : n = Len(fields)
    BY EmptySeq
<1> DEFINE ss == [i \in 1 .. n |-> QueryEntry(fields, i)]
<1>2. ASSUME NEW i \in 1 .. n
      PROVE  fields[i] \in QueryFields /\ QueryEntry(fields, i) \in Seq(Char)
    <2>1. fields[i] \in QueryFields /\ i \in Nat
        BY <1>1, ElementOfSeq
    <2>2. /\ Separator(i, <<"&">>) \in Seq(Char) /\ fields[i].name \in Seq(Char)
          /\ <<"=">> \in Seq(Char) /\ Encode(fields[i].value) \in Seq(Char)
        BY <2>1, QueryEntryType
    <2>3. Separator(i, <<"&">>) \o fields[i].name \in Seq(Char)
        BY <2>2, ConcatProperties
    <2>4. Separator(i, <<"&">>) \o fields[i].name \o <<"=">> \in Seq(Char)
        BY <2>2, <2>3, ConcatProperties
    <2>5. QueryEntry(fields, i) \in Seq(Char)
        BY <2>2, <2>4, ConcatProperties DEF QueryEntry
    <2>6. QED
        BY <2>1, <2>5
<1>3. ss \in Seq(Seq(Char)) /\ Len(ss) = n /\ \A i \in 1 .. n : ss[i] = QueryEntry(fields, i)
    BY <1>2
<1>4. CreateQuery(fields) = FlattenSeq(ss)
    BY <1>1 DEF CreateQuery, QueryEntry, Separator
<1> HIDE DEF ss
<1>5. PICK t, at : t = CreateQuery(fields) /\ Laid(at, t, ss)
    BY <1>3, <1>4, Layout
<1>6. /\ at \in [0 .. n -> 0 .. Len(t)] /\ at[0] = 0 /\ at[n] = Len(t)
      /\ \A i \in 1 .. n : at[i] = at[i - 1] + Len(ss[i]) /\ Holds(t, at[i - 1], ss[i])
    BY <1>3, <1>5 DEF Laid, Holds
<1> DEFINE first == [i \in 1 .. n |-> at[i - 1] + Len(Separator(i, <<"&">>)) + 1]
<1> DEFINE mid == [i \in 1 .. n |-> at[i - 1] + Len(Separator(i, <<"&">>)) + Len(fields[i].name) + 1]
<1> DEFINE last == [i \in 1 .. n |-> mid[i] + Len(Encode(fields[i].value))]
<1>7. ASSUME NEW i \in 1 .. n
      PROVE  /\ QueryFieldAt(t, fields[i], first[i], mid[i], last[i])
             /\ Holds(t, at[i - 1], Separator(i, <<"&">>))
             /\ last[i] = at[i] /\ last[i] <= Len(t)
             /\ at[i] \in Nat /\ at[i - 1] \in Nat
    <2>1. PICK f, p, a, b, e, d, m, l :
              /\ f = fields[i] /\ p = at[i - 1] /\ a = Separator(i, <<"&">>) /\ b = f.name
              /\ e = <<"=">> /\ d = Encode(f.value) /\ m = mid[i] /\ l = last[i]
        OBVIOUS
    <2>2. i - 1 \in 0 .. n /\ i \in 0 .. n /\ i \in Nat
        BY <1>1
    <2>3. at[i] \in Nat /\ at[i] <= Len(t) /\ p \in Nat /\ at[i] = p + Len(ss[i])
        <3>1. at[i] \in 0 .. Len(t) /\ at[i - 1] \in 0 .. Len(t)
            BY <1>6, <2>2
        <3>2. at[i] \in Nat /\ at[i] <= Len(t) /\ at[i - 1] \in Nat
            BY <3>1
        <3>3. at[i] = at[i - 1] + Len(ss[i])
            BY <1>6
        <3>4. QED
            BY <2>1, <3>2, <3>3
    <2>4. /\ a \in Seq(Char) /\ f \in QueryFields
          /\ b \in Seq(Char) /\ d \in Seq(Char)
        BY <1>2, <2>1, <2>2, QueryEntryType
    <2>5. m = p + Len(a) + Len(b) + 1 /\ l = m + Len(d) /\ first[i] = p + Len(a) + 1
        BY <2>1
    <2>6. ss[i] = ((a \o b) \o e) \o d /\ Holds(t, p, ss[i])
        BY <1>3, <1>6, <2>1, Zenon DEF QueryEntry
    <2>7. WrittenField(t, f, p, a, b, e, d, m, l)
        BY <2>1, <2>3, <2>4, <2>5, <2>6, Zenon DEF WrittenField
    <2>8. /\ QueryFieldAt(t, f, p + Len(a) + 1, m, l)
          /\ Holds(t, p, a)
          /\ Len(((a \o b) \o e) \o d) = l - p
        BY <2>7, QueryFieldIsThere
    <2>9. l \in Nat /\ Len(ss[i]) = l - p
        BY <2>6, <2>8, Zenon DEF QueryFieldAt
    <2> HIDE DEF first, mid, last
    <2>10. l = at[i]
        BY <2>3, <2>9
    <2>11. QED
        BY <2>1, <2>3, <2>5, <2>8, <2>10
<1>8. first[1] = 1 /\ last[n] = Len(t)
    <2>1. 1 \in 1 .. n /\ n \in 1 .. n /\ 1 - 1 = 0
        BY <1>1
    <2>2. last[n] = Len(t)
        BY <1>6, <1>7, <2>1
    <2>3. Separator(1, <<"&">>) = << >> /\ Len(<< >>) = 0
        BY DEF Separator
    <2>4. first[1] = at[1 - 1] + Len(Separator(1, <<"&">>)) + 1
        BY <2>1
    <2> HIDE DEF first, mid, last
    <2>5. QED
        BY <1>6, <2>1, <2>2, <2>3, <2>4
<1>9. ASSUME NEW i \in 1 .. n, i # n
      PROVE  t[last[i] + 1] = "&" /\ first[i + 1] = last[i] + 2
    <2>1. i + 1 \in 1 .. n /\ (i + 1) - 1 = i /\ i + 1 # 1
        BY <1>1, <1>9
    <2>2. Separator(i + 1, <<"&">>) = <<"&">> /\ Len(<<"&">>) = 1
        BY <2>1 DEF Separator
    <2>3. first[i + 1] = at[i] + Len(Separator(i + 1, <<"&">>)) + 1
        BY <2>1
    <2> HIDE DEF first, mid, last
    <2>4. at[i] \in Nat /\ last[i] = at[i] /\ Holds(t, at[i], Separator(i + 1, <<"&">>))
        BY <1>7, <2>1
    <2>5. t[at[i] + 1] = "&"
        BY <2>2, <2>4, OneSign
    <2>6. first[i + 1] = at[i] + 1 + 1
        BY <2>2, <2>3
    <2>7. first[i + 1] = last[i] + 2
        BY <2>4, <2>6
    <2>8. QED
        BY <2>4, <2>5, <2>7
<1> HIDE DEF first, mid, last
<1>10. QueryView(t, fields, first, mid, last)
    BY <1>1, <1>7, <1>8, <1>9 DEF QueryView
<1>11. QED
    BY <1>5, <1>10

(***************************************************************************)
(* The first fields, as they are read                                      *)
(***************************************************************************)
ReadSoFar(fields, k) == [j \in 1 .. k |-> Field(fields[j].name, fields[j].value)]

LEMMA ReadOneMore ==
    ASSUME NEW fields, NEW k \in Nat \ {0}
    PROVE  Append(ReadSoFar(fields, k - 1), Field(fields[k].name, fields[k].value))
               = ReadSoFar(fields, k)
<1> DEFINE f(j) == Field(fields[j].name, fields[j].value)
<1> DEFINE D == {f(j) : j \in 1 .. k}
<1>1. \A j \in 1 .. k : f(j) \in D
    OBVIOUS
<1>2. ReadSoFar(fields, k - 1) = [j \in 1 .. k - 1 |-> f(j)]
      /\ ReadSoFar(fields, k) = [j \in 1 .. k |-> f(j)]
    BY DEF ReadSoFar
<1> HIDE DEF f, D
<1>3. k - 1 \in Nat /\ k \in 1 .. k /\ \A j \in 1 .. k - 1 : j \in 1 .. k
    OBVIOUS
<1>4. PICK s \in Seq(D) : s = ReadSoFar(fields, k - 1) /\ Len(s) = k - 1
                          /\ \A j \in 1 .. k - 1 : s[j] = f(j)
    <2>1. /\ [j \in 1 .. k - 1 |-> f(j)] \in Seq(D)
          /\ Len([j \in 1 .. k - 1 |-> f(j)]) = k - 1
        BY <1>1, <1>3
    <2>2. QED
        BY <1>2, <2>1
<1>5. PICK t \in Seq(D) : t = ReadSoFar(fields, k) /\ Len(t) = k
                          /\ \A j \in 1 .. k : t[j] = f(j)
    <2>1. /\ [j \in 1 .. k |-> f(j)] \in Seq(D)
          /\ Len([j \in 1 .. k |-> f(j)]) = k
        BY <1>1
    <2>2. QED
        BY <1>2, <2>1
<1>6. PICK e \in D : e = f(k)
    BY <1>1, <1>3
<1>7. PICK u \in Seq(D) : /\ u = Append(s, e) /\ Len(u) = (k - 1) + 1
                          /\ \A j \in 1 .. k - 1 : u[j] = s[j]
                          /\ u[(k - 1) + 1] = e
    <2>1. /\ Append(s, e) \in Seq(D) /\ Len(Append(s, e)) = Len(s) + 1
          /\ \A j \in 1 .. Len(s) : Append(s, e)[j] = s[j]
          /\ Append(s, e)[Len(s) + 1] = e
        BY AppendProperties
    <2>2. QED
        BY <1>4, <2>1
<1>8. ASSUME NEW j \in 1 .. k PROVE u[j] = t[j]
    <2>1. j \in 1 .. k - 1 \/ j = k
        OBVIOUS
    <2>2. (k - 1) + 1 = k
        OBVIOUS
    <2>3. QED
        BY <1>4, <1>5, <1>6, <1>7, <2>1, <2>2
<1>9. u = t
    <2>1. Len(u) = k
        BY <1>7
    <2>2. QED
        BY <1>5, <1>8, <2>1, SeqEqual
<1>10. QED
    BY <1>4, <1>5, <1>6, <1>7, <1>9 DEF f

-----------------------------------------------------------------------------
(* A query string is read as it was made. *)

QueryAt(first, mid, last, i) ==
    /\ c \in first[i] .. last[i] + 1
    /\ nameStart = first[i]
    /\ c <= mid[i] => nameEnd = NPos /\ valueStart = NPos
    /\ c > mid[i] => nameEnd = mid[i] /\ valueStart = mid[i] + 1
    /\ result = ReadSoFar(given, i - 1)

AllRead == c = Len(text) + 2 /\ result = ReadSoFar(given, Len(given))

QueryRead(first, mid, last) ==
    AllRead \/ \E i \in 1 .. Len(given) : QueryAt(first, mid, last, i)

QueryInv ==
    job = "query" /\ given # << >> =>
        /\ given \in Seq(QueryFields)
        /\ \E first, mid, last :
               QueryView(text, given, first, mid, last) /\ QueryRead(first, mid, last)

LEMMA InitQueryInv == Init => QueryInv
<1> SUFFICES ASSUME Init, job = "query", given # << >>
             PROVE  /\ given \in Seq(QueryFields)
                    /\ \E first, mid, last :
                           QueryView(text, given, first, mid, last) /\ QueryRead(first, mid, last)
    BY DEF QueryInv
<1>1. given \in Queries /\ text = CreateQuery(given)
    BY DEF Init
<1>2. given \in Seq(QueryFields)
    BY <1>1, FormsAssumption
<1>3. PICK first, mid, last : QueryView(text, given, first, mid, last)
    BY <1>1, <1>2, QueryIsViewed
<1>4. c = 1 /\ nameStart = 1 /\ nameEnd = NPos /\ valueStart = NPos /\ result = << >>
    BY DEF Init
<1>5. 1 \in 1 .. Len(given)
    BY <1>2, EmptySeq
<1>6. first[1] = 1 /\ QueryFieldAt(text, given[1], first[1], mid[1], last[1])
    BY <1>3, <1>5 DEF QueryView
<1>7. mid[1] \in Nat /\ last[1] \in Nat /\ 1 < mid[1] /\ mid[1] <= last[1]
    BY <1>6 DEF QueryFieldAt
<1>8. ReadSoFar(given, 1 - 1) = << >>
    <2>1. ReadSoFar(given, 1 - 1) = [j \in 1 .. 0 |-> Field(given[j].name, given[j].value)]
        BY DEF ReadSoFar
    <2>2. QED
        BY <2>1
<1>9. QueryAt(first, mid, last, 1)
    BY <1>4, <1>6, <1>7, <1>8 DEF QueryAt
<1>10. QueryRead(first, mid, last)
    BY <1>5, <1>9 DEF QueryRead
<1>11. QED
    BY <1>2, <1>3, <1>10

(***************************************************************************)
(* One field is read: what the loop cuts off is its name and its value.    *)
(***************************************************************************)
QueryFieldEnds(first, mid, last, i, before) ==
    /\ i \in 1 .. Len(given)
    /\ given \in Seq(QueryFields)
    /\ QueryView(text, given, first, mid, last)
    /\ QueryAt(first, mid, last, i)
    /\ c = last[i] + 1
    /\ before = c \/ (before = NPos /\ last[i] = Len(text))

LEMMA QueryFieldIsRead ==
    ASSUME NEW first, NEW mid, NEW last, NEW i, NEW before,
           QueryFieldEnds(first, mid, last, i, before), EmplaceQuery(before)
    PROVE  result' = ReadSoFar(given, i)
<1>0. /\ i \in 1 .. Len(given)
      /\ given \in Seq(QueryFields)
      /\ QueryView(text, given, first, mid, last)
      /\ QueryAt(first, mid, last, i)
      /\ c = last[i] + 1
      /\ before = c \/ (before = NPos /\ last[i] = Len(text))
    BY DEF QueryFieldEnds
<1>1. PICK f, m, l : f = first[i] /\ m = mid[i] /\ l = last[i]
    OBVIOUS
<1>2. QueryFieldAt(text, given[i], f, m, l)
    BY <1>0, <1>1 DEF QueryView
<1>3. /\ f \in Nat \ {0} /\ m \in Nat /\ l \in Nat /\ f < m /\ m <= l
      /\ SubSeq(text, f, m - 1) = given[i].name
      /\ Decode(SubSeq(text, m + 1, l)) = given[i].value
    BY <1>2 DEF QueryFieldAt
<1>4. c = l + 1 /\ c > m /\ m # 0 /\ c # 0 /\ (l + 1) - 1 = l
    <2>1. c = l + 1
        BY <1>0, <1>1
    <2>2. QED
        BY <1>3, <2>1
<1>5. /\ nameStart = f /\ nameEnd = m /\ valueStart = m + 1
      /\ result = ReadSoFar(given, i - 1)
    BY <1>0, <1>1, <1>4 DEF QueryAt
<1>6. m # NPos /\ m + 1 # NPos
    BY <1>3 DEF NPos
<1>7. Substr(nameStart, nameEnd) = given[i].name
    BY <1>3, <1>5, <1>6, Zenon DEF Substr
<1>8. Decode(Substr(valueStart, before)) = given[i].value
    <2>1. CASE before = c
        <3>1. before # NPos /\ before - 1 = l
            BY <1>4, <2>1 DEF NPos
        <3>2. Substr(valueStart, before) = SubSeq(text, m + 1, l)
            BY <1>5, <3>1, Zenon DEF Substr
        <3>3. QED
            BY <1>3, <3>2
    <2>2. CASE before = NPos /\ last[i] = Len(text)
        <3>1. Substr(valueStart, before) = SubSeq(text, m + 1, l)
            BY <1>1, <1>5, <2>2, Zenon DEF Substr
        <3>2. QED
            BY <1>3, <3>1
    <2>3. QED
        BY <1>0, <2>1, <2>2
<1>9. given[i].name # << >> /\ i \in Nat \ {0}
    <2>1. given[i] \in QueryFields
        BY <1>0, ElementOfSeq
    <2>2. QED
        BY <1>0, <2>1 DEF QueryFields
<1>10. result' = Append(result, Field(given[i].name, given[i].value))
    BY <1>5, <1>6, <1>7, <1>8, <1>9, Zenon DEF EmplaceQuery, Emplace
<1>11. QED
    BY <1>5, <1>9, <1>10, ReadOneMore

LEMMA QueryScanInv ==
    ASSUME NEW first, NEW mid, NEW last, NEW i \in 1 .. Len(given),
           given \in Seq(QueryFields),
           QueryView(text, given, first, mid, last),
           QueryAt(first, mid, last, i),
           QueryScan
    PROVE  \E j \in 1 .. Len(given) : QueryAt(first, mid, last, j)'
<1>1. PICK n \in Nat : n = Len(given)
    BY LenProperties
<1>2. PICK f, m, l : f = first[i] /\ m = mid[i] /\ l = last[i]
    OBVIOUS
<1>3. QueryFieldAt(text, given[i], f, m, l) /\ l <= Len(text)
    BY <1>2 DEF QueryView
<1>4. f \in Nat \ {0} /\ m \in Nat /\ l \in Nat /\ f < m /\ m <= l
    BY <1>3 DEF QueryFieldAt
<1>5. c \in f .. l + 1 /\ nameStart = f
    BY <1>2 DEF QueryAt
<1>6. c <= Len(text) /\ c' = c + 1 /\ UNCHANGED <<given, text>>
    BY DEF QueryScan
<1>7. CASE c <= l
    <2>1. text[c] # "&" /\ (text[c] = "=" /\ nameEnd = NPos => c = m)
        <3>1. CASE c < m
            <4>1. c \in f .. m - 1
                BY <1>4, <1>5, <3>1
            <4>2. QED
                BY <1>3, <4>1 DEF QueryFieldAt
        <3>2. CASE c = m
            BY <1>3, <3>2 DEF QueryFieldAt
        <3>3. CASE c > m
            <4>1. c \in m + 1 .. l
                BY <1>4, <1>5, <1>7, <3>3
            <4>2. nameEnd # NPos
                BY <1>2, <1>4, <3>3 DEF QueryAt, NPos
            <4>3. QED
                BY <1>3, <4>1, <4>2 DEF QueryFieldAt
        <3>4. QED
            BY <1>4, <1>5, <3>1, <3>2, <3>3
    <2>2. CASE c = m
        <3>1. text[c] = "=" /\ nameEnd = NPos
            BY <1>2, <1>3, <1>4, <2>2 DEF QueryFieldAt, QueryAt
        <3>2. nameEnd' = c /\ valueStart' = c + 1 /\ UNCHANGED <<nameStart, result>>
            BY <2>1, <3>1, Zenon DEF QueryScan
        <3>3. c' \in f .. l + 1 /\ ~(c' <= m) /\ nameEnd' = m /\ valueStart' = m + 1
            BY <1>4, <1>5, <1>6, <1>7, <2>2, <3>2
        <3>4. QueryAt(first, mid, last, i)'
            BY <1>2, <1>5, <1>6, <3>2, <3>3 DEF QueryAt
        <3>5. QED
            BY <1>6, <3>4
    <2>3. CASE c # m
        <3>1. UNCHANGED <<nameStart, nameEnd, valueStart, result>>
            BY <2>1, <2>3, Zenon DEF QueryScan
        <3>2. c' \in f .. l + 1 /\ (c' <= m <=> c <= m) /\ (c' > m <=> c > m)
            BY <1>4, <1>5, <1>6, <1>7, <2>3
        <3>3. QueryAt(first, mid, last, i)'
            BY <1>2, <1>5, <1>6, <3>1, <3>2 DEF QueryAt
        <3>4. QED
            BY <1>6, <3>3
    <2>4. QED
        BY <2>2, <2>3
<1>8. CASE ~(c <= l)
    <2>1. c = l + 1
        BY <1>4, <1>5, <1>8
    <2>2. i # n
        <3>1. last[n] = Len(text)
            BY <1>1 DEF QueryView
        <3>2. QED
            BY <1>2, <1>4, <1>6, <2>1, <3>1
    <2>3. text[c] = "&" /\ first[i + 1] = l + 2
        BY <1>1, <1>2, <2>1, <2>2 DEF QueryView
    <2>4. EmplaceQuery(c) /\ nameStart' = c + 1 /\ Forget
        <3>1. "&" # "="
            OBVIOUS
        <3>2. QED
            BY <2>3, <3>1, Zenon DEF QueryScan
    <2>5. result' = ReadSoFar(given, i)
        <3>1. c = last[i] + 1 /\ EmplaceQuery(c)
            BY <1>2, <2>1, <2>4
        <3>2. PICK before : before = c /\ EmplaceQuery(before)
            BY <3>1
        <3>3. QueryFieldEnds(first, mid, last, i, before)
            BY <3>1, <3>2 DEF QueryFieldEnds
        <3>4. QED
            BY <3>2, <3>3, QueryFieldIsRead
    <2>6. i + 1 \in 1 .. n /\ (i + 1) - 1 = i
        BY <1>1, <2>2
    <2>7. QueryFieldAt(text, given[i + 1], first[i + 1], mid[i + 1], last[i + 1])
        BY <1>1, <2>6 DEF QueryView
    <2>8. PICK g, k, r : g = first[i + 1] /\ k = mid[i + 1] /\ r = last[i + 1]
                         /\ g \in Nat /\ k \in Nat /\ r \in Nat /\ g < k /\ k <= r
        BY <2>7 DEF QueryFieldAt
    <2>9. c' = g /\ nameStart' = g /\ g \in g .. r + 1 /\ g <= k /\ ~(g > k)
        BY <1>4, <1>6, <2>1, <2>3, <2>4, <2>8
    <2>10. QueryAt(first, mid, last, i + 1)'
        BY <1>6, <2>4, <2>5, <2>6, <2>8, <2>9 DEF QueryAt, Forget
    <2>11. QED
        BY <1>1, <1>6, <2>6, <2>10
<1>9. QED
    BY <1>7, <1>8

LEMMA QueryEndInv ==
    ASSUME NEW first, NEW mid, NEW last, NEW i \in 1 .. Len(given),
           given \in Seq(QueryFields),
           QueryView(text, given, first, mid, last),
           QueryAt(first, mid, last, i),
           QueryEnd
    PROVE  AllRead'
<1>1. PICK n \in Nat : n = Len(given)
    BY LenProperties
<1>2. PICK f, m, l : f = first[i] /\ m = mid[i] /\ l = last[i]
    OBVIOUS
<1>3. QueryFieldAt(text, given[i], f, m, l) /\ l <= Len(text)
    BY <1>2 DEF QueryView
<1>4. f \in Nat \ {0} /\ m \in Nat /\ l \in Nat /\ f < m /\ m <= l
    BY <1>3 DEF QueryFieldAt
<1>5. PICK t \in Nat : t = Len(text)
    <2>1. n \in 1 .. n /\ last[n] = Len(text)
        BY <1>1 DEF QueryView
    <2>2. last[n] \in Nat
        BY <1>1, <2>1 DEF QueryView, QueryFieldAt
    <2>3. QED
        BY <2>1, <2>2
<1>6. c \in f .. l + 1 /\ nameStart = f
    BY <1>2 DEF QueryAt
<1>7. c = t + 1 /\ c' = c + 1 /\ UNCHANGED <<given, text>>
    BY <1>5 DEF QueryEnd, Finish
<1>8. l = t /\ c = l + 1 /\ f <= t
    BY <1>3, <1>4, <1>5, <1>6, <1>7
<1>9. i = n
    <2>1. SUFFICES ASSUME i # n PROVE FALSE
        OBVIOUS
    <2>2. i + 1 \in 1 .. n /\ first[i + 1] = l + 2
        BY <1>1, <1>2, <2>1 DEF QueryView
    <2>3. QueryFieldAt(text, given[i + 1], first[i + 1], mid[i + 1], last[i + 1])
          /\ last[i + 1] <= t
        BY <1>1, <1>5, <2>2 DEF QueryView
    <2>4. PICK g, k, r : g = first[i + 1] /\ k = mid[i + 1] /\ r = last[i + 1]
                         /\ g \in Nat /\ k \in Nat /\ r \in Nat /\ g < k /\ k <= r
        BY <2>3 DEF QueryFieldAt
    <2>5. QED
        BY <1>4, <1>8, <2>2, <2>3, <2>4
<1>10. EmplaceQuery(NPos)
    BY <1>5, <1>6, <1>8, Zenon DEF QueryEnd
<1>11. result' = ReadSoFar(given, i)
    <2>1. QueryFieldEnds(first, mid, last, i, NPos)
        BY <1>2, <1>5, <1>8 DEF QueryFieldEnds
    <2>2. QED
        BY <1>10, <2>1, QueryFieldIsRead
<1>12. QED
    BY <1>1, <1>5, <1>7, <1>9, <1>11 DEF AllRead

LEMMA QueryLength ==
    ASSUME NEW t, NEW fields \in Seq(QueryFields), fields # << >>, NEW first, NEW mid, NEW last,
           QueryView(t, fields, first, mid, last)
    PROVE  Len(t) \in Nat
<1>1. Len(fields) \in 1 .. Len(fields)
    BY EmptySeq
<1>2. last[Len(fields)] = Len(t) /\ last[Len(fields)] \in Nat
    BY <1>1 DEF QueryView, QueryFieldAt
<1>3. QED
    BY <1>2

LEMMA GivenStays == [Next]_vars => UNCHANGED <<job, given>> /\ (job # "head" => UNCHANGED <<text, lines>>)
<1>1. CASE UNCHANGED vars
    BY <1>1 DEF vars
<1>2. CASE Next
    BY <1>2, Zenon DEF Next, QueryScan, QueryEnd, AttributesScan, AttributesEnd, ReadRequestLine,
                       ReadHeaderLine
<1>3. QED
    BY <1>1, <1>2

LEMMA NextQueryInv == QueryInv /\ [Next]_vars => QueryInv'
<1> SUFFICES ASSUME QueryInv, [Next]_vars, job' = "query", given' # << >>
             PROVE  /\ given' \in Seq(QueryFields)
                    /\ \E first, mid, last :
                           QueryView(text', given', first, mid, last) /\ QueryRead(first, mid, last)'
    BY DEF QueryInv
<1>1. job = "query" /\ given' = given /\ text' = text /\ given # << >>
    BY GivenStays
<1>2. PICK first, mid, last : /\ given \in Seq(QueryFields)
                              /\ QueryView(text, given, first, mid, last)
                              /\ QueryRead(first, mid, last)
    BY <1>1 DEF QueryInv
<1>3. QueryRead(first, mid, last)'
    <2>1. CASE UNCHANGED vars
        BY <1>2, <2>1 DEF vars, scan, QueryRead, AllRead, QueryAt
    <2>2. CASE QueryScan \/ QueryEnd
        <3>1. c <= Len(text) + 1 /\ Len(text) \in Nat
            <4>1. Len(text) \in Nat
                BY <1>1, <1>2, QueryLength
            <4>2. CASE QueryScan
                <5>1. c <= Len(text)
                    BY <4>2 DEF QueryScan
                <5>2. c \in Nat \ {0}
                    <6>1. CASE AllRead
                        BY <4>1, <6>1 DEF AllRead
                    <6>2. CASE \E i \in 1 .. Len(given) : QueryAt(first, mid, last, i)
                        <7>1. PICK i \in 1 .. Len(given) : QueryAt(first, mid, last, i)
                            BY <6>2
                        <7>2. QueryFieldAt(text, given[i], first[i], mid[i], last[i])
                            BY <1>2 DEF QueryView
                        <7>3. first[i] \in Nat \ {0} /\ last[i] \in Nat
                            BY <7>2 DEF QueryFieldAt
                        <7>4. QED
                            BY <7>1, <7>3 DEF QueryAt
                    <6>3. QED
                        BY <1>2, <6>1, <6>2 DEF QueryRead
                <5>3. QED
                    BY <4>1, <5>1, <5>2
            <4>3. CASE QueryEnd
                BY <4>1, <4>3 DEF QueryEnd
            <4>4. QED
                BY <2>2, <4>2, <4>3
        <3>2. ~AllRead
            BY <3>1 DEF AllRead
        <3>3. PICK i \in 1 .. Len(given) : QueryAt(first, mid, last, i)
            BY <1>2, <3>2 DEF QueryRead
        <3>4. CASE QueryScan
            <4>1. \E j \in 1 .. Len(given) : QueryAt(first, mid, last, j)'
                BY <1>2, <3>3, <3>4, QueryScanInv
            <4>2. QED
                BY <1>1, <4>1 DEF QueryRead
        <3>5. CASE QueryEnd
            <4>1. AllRead'
                BY <1>2, <3>3, <3>5, QueryEndInv
            <4>2. QED
                BY <4>1 DEF QueryRead
        <3>6. QED
            BY <2>2, <3>4, <3>5
    <2>3. ~AttributesScan /\ ~AttributesEnd /\ ~ReadRequestLine /\ ~ReadHeaderLine
        BY <1>1 DEF AttributesScan, AttributesEnd, ReadRequestLine, ReadHeaderLine
    <2>4. QED
        BY <2>1, <2>2, <2>3 DEF Next
<1>4. QED
    BY <1>1, <1>2, <1>3

LEMMA QueryIsReadBack ==
    ASSUME QueryInv, job = "query", given # << >>, Done
    PROVE  result = ReadSoFar(given, Len(given))
<1>1. PICK first, mid, last : /\ given \in Seq(QueryFields)
                              /\ QueryView(text, given, first, mid, last)
                              /\ QueryRead(first, mid, last)
    BY DEF QueryInv
<1>2. c = Len(text) + 2 /\ Len(text) \in Nat
    BY <1>1, QueryLength DEF Done
<1>3. ASSUME NEW i \in 1 .. Len(given), QueryAt(first, mid, last, i) PROVE FALSE
    <2>1. QueryFieldAt(text, given[i], first[i], mid[i], last[i]) /\ last[i] <= Len(text)
        BY <1>1 DEF QueryView
    <2>2. first[i] \in Nat /\ last[i] \in Nat
        BY <2>1 DEF QueryFieldAt
    <2>3. c <= last[i] + 1
        BY <1>3, <2>2 DEF QueryAt
    <2>4. QED
        BY <1>2, <2>1, <2>2, <2>3
<1>4. QED
    BY <1>1, <1>3 DEF QueryRead, AllRead

-----------------------------------------------------------------------------
(* The attributes of a header field, and where they are *)

AttributeValue(a) ==
    CASE a.style = "bare" -> << >>
      [] a.style = "token" -> <<"=">> \o Encode(a.value)
      [] a.style = "quoted" -> <<"=", "quote">> \o Encode(a.value) \o <<"quote">>

AttributeEntry(attributes, i) ==
    Separator(i, <<";", " ">>) \o attributes[i].name \o AttributeValue(attributes[i])

(***************************************************************************)
(* The value of a value's style stands from `from' to before stop, in      *)
(* quotes if it is quoted; a bare name stops where it ends.                *)
(***************************************************************************)
ValueAt(t, a, mid, from, stop) ==
    /\ t[mid] = "="
    /\ \/ a.style = "token" /\ t[mid + 1] # "quote" /\ from = mid + 1 /\ from < stop
       \/ a.style = "quoted" /\ t[mid + 1] = "quote" /\ from = mid + 2 /\ from <= stop
                             /\ t[stop] = "quote"
    /\ \A k \in from .. stop - 1 : t[k] \notin {"quote", ";"}
    /\ Decode(SubSeq(t, from, stop - 1)) = a.value

NameAt(t, a, first, mid) ==
    /\ t[first] # " "
    /\ \A k \in first .. mid - 1 : t[k] \notin {";", "="}
    /\ SubSeq(t, first, mid - 1) = a.name

AttributeAt(t, a, first, mid, from, stop) ==
    /\ first \in Nat \ {0} /\ mid \in Nat /\ from \in Nat /\ stop \in Nat /\ first < mid
    /\ NameAt(t, a, first, mid)
    /\ \/ a.style = "bare" /\ a.value = << >> /\ stop = mid
       \/ a.style # "bare" /\ ValueAt(t, a, mid, from, stop)

WrittenName(t, a, p, s, b, v, mid) ==
    /\ p \in Nat /\ s \in Seq(Char) /\ b = a.name /\ v \in Seq(Char)
    /\ a.name \in AttributeNames
    /\ Holds(t, p, (s \o b) \o v)
    /\ mid = p + Len(s) + Len(b) + 1

LEMMA NameIsThere ==
    ASSUME NEW t, NEW a, NEW p, NEW s, NEW b, NEW v, NEW mid, WrittenName(t, a, p, s, b, v, mid)
    PROVE  /\ p + Len(s) + 1 \in Nat \ {0} /\ mid \in Nat \ {0} /\ p + Len(s) + 1 < mid
           /\ NameAt(t, a, p + Len(s) + 1, mid)
           /\ Holds(t, p, s)
           /\ Holds(t, mid - 1, v)
           /\ Len((s \o b) \o v) = ((mid - 1) - p) + Len(v)
<1>1. /\ p \in Nat /\ s \in Seq(Char) /\ b = a.name /\ v \in Seq(Char)
      /\ a.name \in AttributeNames
      /\ Holds(t, p, (s \o b) \o v)
      /\ mid = p + Len(s) + Len(b) + 1
    BY DEF WrittenName
<1>2. /\ b \in Seq(Char) /\ b # << >> /\ b[1] # " "
      /\ \A k \in 1 .. Len(b) : b[k] \notin {";", "="}
    <2>1. b \in Seq(Char \ {";", "="}) /\ b # << >> /\ b[1] # " "
        BY <1>1 DEF AttributeNames, Without
    <2>2. \A k \in 1 .. Len(b) : b[k] \in Char \ {";", "="}
        BY <2>1, ElementOfSeq
    <2>3. Char \ {";", "="} \subseteq Char
        OBVIOUS
    <2>4. b \in Seq(Char)
        BY <2>1, <2>3, SeqMonotonic
    <2>5. QED
        BY <2>1, <2>2, <2>4
<1>3. PICK k \in Nat, l \in Nat \ {0}, r \in Nat : k = Len(s) /\ l = Len(b) /\ r = Len(v)
    BY <1>1, <1>2, LenProperties, EmptySeq
<1>4. PICK x \in Seq(Char) : x = s \o b
    BY <1>1, <1>2, ConcatProperties
<1>5. PICK q1 \in Nat, q2 \in Nat :
          /\ q1 = p + k /\ q2 = q1 + l /\ mid = q2 + 1
          /\ p \in Nat /\ mid \in Nat
    <2>1. p \in Nat /\ mid = p + Len(s) + Len(b) + 1
        BY DEF WrittenName
    <2>2. p + k \in Nat /\ (p + k) + l \in Nat /\ mid = ((p + k) + l) + 1
        BY <1>3, <2>1
    <2>3. QED
        BY <2>1, <2>2
<1>6. Len(x \o v) = Len(x) + r /\ Holds(t, p, x) /\ Len(x) = k + l /\ Holds(t, p, s)
      /\ Holds(t, q1, b) /\ Holds(t, q2, v)
    <2>1. PICK q : q = p + Len(x)
        OBVIOUS
    <2>2. TwoPieces(Char, t, p, q, x, v)
        BY <1>1, <1>4, <2>1 DEF TwoPieces
    <2>3. Len(x \o v) = Len(x) + Len(v) /\ Holds(t, p, x) /\ Holds(t, q, v)
        BY <2>2, Pieces
    <2>4. TwoPieces(Char, t, p, q1, s, b)
        BY <1>1, <1>2, <1>3, <1>4, <1>5, <2>3 DEF TwoPieces
    <2>5. Len(x) = Len(s) + Len(b) /\ Holds(t, p, s) /\ Holds(t, q1, b)
        BY <1>4, <2>4, Pieces
    <2>6. Len(x) = k + l
        BY <1>3, <2>5
    <2>7. q = q2
        BY <1>3, <1>5, <2>1, <2>6
    <2>8. QED
        BY <1>3, <2>3, <2>5, <2>6, <2>7
<1>7. SubSeq(t, q1 + 1, q2) = b
    <2>1. q2 = q1 + Len(b)
        BY <1>3, <1>5
    <2>2. Holds(t, q1, b) /\ b \in Seq(Char)
        BY <1>2, <1>6
    <2>3. QED
        BY <2>1, <2>2, HoldsPart
<1>8. ASSUME NEW i \in q1 + 1 .. mid - 1 PROVE t[i] \notin {";", "="}
    <2>1. i - q1 \in 1 .. l /\ q1 + (i - q1) = i
        BY <1>5
    <2>2. t[i] = b[i - q1]
        BY <1>3, <1>6, <2>1 DEF Holds
    <2>3. QED
        BY <1>2, <1>3, <2>1, <2>2
<1>9. t[q1 + 1] # " "
    <2>1. 1 \in 1 .. l
        OBVIOUS
    <2>2. t[q1 + 1] = b[1]
        BY <1>3, <1>6, <2>1 DEF Holds
    <2>3. QED
        BY <1>2, <2>2
<1>10. mid - 1 = q2 /\ q1 + 1 < mid /\ (mid - 1) - p = k + l /\ mid # 0 /\ q1 + 1 \in Nat \ {0}
    BY <1>5
<1>11. NameAt(t, a, q1 + 1, mid)
    BY <1>1, <1>7, <1>8, <1>9, <1>10 DEF NameAt
<1>12. Len((s \o b) \o v) = ((mid - 1) - p) + Len(v)
    BY <1>3, <1>4, <1>6, <1>10
<1>13. p + Len(s) + 1 = q1 + 1
    BY <1>3, <1>5
<1>14. QED
    BY <1>5, <1>6, <1>10, <1>11, <1>12, <1>13

LEMMA TextOfSigns ==
    ASSUME NEW x \in Char, NEW y \in Char
    PROVE  /\ <<x>> \in Seq(Char) /\ Len(<<x>>) = 1 /\ <<x>>[1] = x
           /\ <<x, y>> \in Seq(Char) /\ Len(<<x, y>>) = 2 /\ <<x, y>>[1] = x /\ <<x, y>>[2] = y
OBVIOUS

(***************************************************************************)
(* The value in its style, held as it was written                          *)
(***************************************************************************)
WrittenValue(t, a, m, mid, from, stop) ==
    /\ m \in Nat /\ mid = m + 1
    /\ a \in AttributeForms
    /\ Holds(t, m, AttributeValue(a))
    /\ from = IF a.style = "quoted" THEN mid + 2 ELSE mid + 1
    /\ stop = IF a.style = "bare" THEN mid ELSE from + Len(Encode(a.value))

LEMMA TokenIsThere ==
    ASSUME NEW t, NEW a, NEW m, NEW mid, NEW from, NEW stop,
           WrittenValue(t, a, m, mid, from, stop), a.style = "token"
    PROVE  /\ ValueAt(t, a, mid, from, stop)
           /\ from \in Nat /\ stop \in Nat
           /\ AttributeValue(a) \in Seq(Char)
           /\ Len(AttributeValue(a)) = (stop - 1) - m
<1>1. m \in Nat /\ mid = m + 1 /\ from = mid + 1 /\ stop = from + Len(Encode(a.value))
      /\ a \in AttributeForms /\ Holds(t, m, AttributeValue(a))
    BY DEF WrittenValue
<1>2. a.value \in Seq(Char) /\ a.value # << >>
    BY <1>1 DEF AttributeForms
<1>3. PICK e, d : e = <<"=">> /\ d = Encode(a.value) /\ d \in Seq(Char) /\ d \in Seq(Written)
                  /\ Len(d) # 0 /\ e \in Seq(Char) /\ Len(e) = 1 /\ e[1] = "="
    <2>1. Encode(a.value) \in Seq(Char) /\ Encode(a.value) \in Seq(Written)
          /\ Len(Encode(a.value)) # 0
        BY <1>2, Signed, EncodedEmpty
    <2>2. <<"=">> \in Seq(Char) /\ Len(<<"=">>) = 1 /\ <<"=">>[1] = "="
        BY Signed, TextOfSigns
    <2>3. QED
        BY <2>1, <2>2
<1>4. PICK r \in Nat \ {0} : r = Len(d)
    BY <1>3, LenProperties
<1>5. AttributeValue(a) = e \o d
    BY <1>3, Zenon DEF AttributeValue
<1>6. mid \in Nat /\ from \in Nat /\ stop \in Nat /\ stop = mid + 1 + r /\ from = mid + 1 /\ from < stop
      /\ mid = m + 1 /\ (stop - 1) - m = 1 + r /\ stop - 1 = mid + r
    BY <1>1, <1>3, <1>4
<1>7. Len(e \o d) = 1 + Len(d) /\ Holds(t, m, e) /\ Holds(t, mid, d)
    <2>1. TwoPieces(Char, t, m, mid, e, d)
        BY <1>1, <1>3, <1>5 DEF TwoPieces
    <2>2. Len(e \o d) = Len(e) + Len(d) /\ Holds(t, m, e) /\ Holds(t, mid, d)
        BY <2>1, Pieces
    <2>3. QED
        BY <1>3, <2>2
<1>8. t[mid] = "="
    BY <1>1, <1>3, <1>7, OneSign
<1>9. ASSUME NEW k \in from .. stop - 1 PROVE t[k] \in Written
    <2>1. k - mid \in 1 .. r /\ mid + (k - mid) = k
        BY <1>6
    <2>2. t[k] = d[k - mid]
        BY <1>4, <1>7, <2>1 DEF Holds
    <2>3. QED
        BY <1>3, <1>4, <2>1, <2>2, ElementOfSeq
<1>10. \A k \in from .. stop - 1 : t[k] \notin {"quote", ";"}
    BY <1>9, Signed
<1>11. t[mid + 1] # "quote"
    <2>1. mid + 1 \in from .. stop - 1
        BY <1>6
    <2>2. QED
        BY <1>10, <2>1
<1>12. Decode(SubSeq(t, from, stop - 1)) = a.value
    <2>1. mid \in Nat /\ stop - 1 \in Nat /\ stop - 1 = mid + Len(d)
        <3>1. stop - 1 = mid + r /\ mid + r \in Nat /\ mid \in Nat
            BY <1>6
        <3>2. QED
            BY <1>4, <3>1
    <2>2. Holds(t, mid, d) /\ d \in Seq(Char)
        BY <1>3, <1>7
    <2>3. SubSeq(t, mid + 1, stop - 1) = d
        BY <2>1, <2>2, HoldsPart
    <2>4. Decode(d) = a.value
        BY <1>2, <1>3, DecodeEncoded
    <2>5. QED
        BY <1>6, <2>3, <2>4
<1>13. ValueAt(t, a, mid, from, stop)
    BY <1>6, <1>8, <1>10, <1>11, <1>12 DEF ValueAt
<1>14. AttributeValue(a) \in Seq(Char)
    BY <1>3, <1>5, ConcatProperties
<1>15. Len(AttributeValue(a)) = (stop - 1) - m
    BY <1>4, <1>5, <1>6, <1>7
<1>16. QED
    BY <1>6, <1>13, <1>14, <1>15

LEMMA QuotedIsThere ==
    ASSUME NEW t, NEW a, NEW m, NEW mid, NEW from, NEW stop,
           WrittenValue(t, a, m, mid, from, stop), a.style = "quoted"
    PROVE  /\ ValueAt(t, a, mid, from, stop)
           /\ from \in Nat /\ stop \in Nat
           /\ AttributeValue(a) \in Seq(Char)
           /\ Len(AttributeValue(a)) = stop - m
<1>1. m \in Nat /\ mid = m + 1 /\ from = mid + 2 /\ stop = from + Len(Encode(a.value))
      /\ a \in AttributeForms /\ Holds(t, m, AttributeValue(a))
    BY DEF WrittenValue
<1>2. a.value \in Seq(Char)
    BY <1>1 DEF AttributeForms
<1>3. PICK e, d, q : /\ e = <<"=", "quote">> /\ d = Encode(a.value) /\ q = <<"quote">>
                     /\ d \in Seq(Char) /\ d \in Seq(Written)
                     /\ e \in Seq(Char) /\ Len(e) = 2 /\ e[1] = "=" /\ e[2] = "quote"
                     /\ q \in Seq(Char) /\ Len(q) = 1 /\ q[1] = "quote"
    <2>1. Encode(a.value) \in Seq(Char) /\ Encode(a.value) \in Seq(Written)
        BY <1>2, Signed
    <2>2. /\ <<"=", "quote">> \in Seq(Char) /\ Len(<<"=", "quote">>) = 2
          /\ <<"=", "quote">>[1] = "=" /\ <<"=", "quote">>[2] = "quote"
          /\ <<"quote">> \in Seq(Char) /\ Len(<<"quote">>) = 1 /\ <<"quote">>[1] = "quote"
        BY Signed, TextOfSigns
    <2>3. QED
        BY <2>1, <2>2
<1>4. PICK r \in Nat : r = Len(d)
    BY <1>3, LenProperties
<1>5. PICK x \in Seq(Char) : x = e \o d
    BY <1>3, ConcatProperties
<1>6. AttributeValue(a) = x \o q
    BY <1>3, <1>5, Zenon DEF AttributeValue
<1>7. mid \in Nat /\ mid + 1 \in Nat /\ from \in Nat /\ stop \in Nat /\ stop = mid + 2 + r /\ from = mid + 2 /\ from <= stop
      /\ mid = m + 1 /\ stop - m = (2 + r) + 1 /\ stop - 1 = (mid + 1) + r /\ m + 2 = mid + 1
      /\ stop - 1 = m + (2 + r) /\ (stop - 1) + 1 = stop /\ stop - 1 \in Nat
      /\ (mid + 1) + 1 = mid + 2
    BY <1>1, <1>3, <1>4
<1>8. Len(x \o q) = Len(x) + 1 /\ Holds(t, m, x) /\ Len(x) = 2 + r
      /\ Holds(t, m, e) /\ Holds(t, mid + 1, d) /\ Holds(t, stop - 1, q)
    <2>1. PICK z : z = m + Len(x)
        OBVIOUS
    <2>2. TwoPieces(Char, t, m, z, x, q)
        BY <1>1, <1>3, <1>6, <2>1 DEF TwoPieces
    <2>3. Len(x \o q) = Len(x) + Len(q) /\ Holds(t, m, x) /\ Holds(t, z, q)
        BY <2>2, Pieces
    <2>4. mid + 1 = m + Len(e)
        BY <1>1, <1>3
    <2>5. TwoPieces(Char, t, m, mid + 1, e, d)
        BY <1>1, <1>3, <1>5, <2>3, <2>4 DEF TwoPieces
    <2>6. Len(x) = Len(e) + Len(d) /\ Holds(t, m, e) /\ Holds(t, mid + 1, d)
        BY <1>5, <2>5, Pieces
    <2>7. Len(x) = 2 + r
        BY <1>3, <1>4, <2>6
    <2>8. z = stop - 1
        BY <1>7, <2>1, <2>7
    <2>9. QED
        BY <1>3, <2>3, <2>6, <2>7, <2>8
<1>9. t[mid] = "=" /\ t[mid + 1] = "quote" /\ t[stop] = "quote"
    <2>1. t[m + 1] = e[1] /\ t[m + 2] = e[2] /\ t[(stop - 1) + 1] = q[1]
        BY <1>3, <1>8 DEF Holds
    <2>2. QED
        BY <1>3, <1>7, <2>1
<1>10. ASSUME NEW k \in from .. stop - 1 PROVE t[k] \notin {"quote", ";"}
    <2>1. k - (mid + 1) \in 1 .. r /\ (mid + 1) + (k - (mid + 1)) = k
        <3>1. from = mid + 2 /\ stop - 1 = (mid + 1) + r /\ mid \in Nat
            BY <1>7
        <3>2. QED
            BY <3>1
    <2>2. t[k] = d[k - (mid + 1)]
        BY <1>4, <1>8, <2>1 DEF Holds
    <2>3. t[k] \in Written
        BY <1>3, <1>4, <2>1, <2>2, ElementOfSeq
    <2>4. QED
        BY <2>3, Signed
<1>11. Decode(SubSeq(t, from, stop - 1)) = a.value
    <2>1. stop - 1 = (mid + 1) + Len(d) /\ mid + 1 \in Nat /\ stop - 1 \in Nat
        <3>1. stop - 1 = (mid + 1) + r /\ mid + 1 \in Nat /\ stop - 1 \in Nat
            BY <1>7, Zenon
        <3>2. QED
            BY <1>4, <3>1
    <2>2. Holds(t, mid + 1, d) /\ d \in Seq(Char)
        BY <1>3, <1>8
    <2>3. SubSeq(t, (mid + 1) + 1, stop - 1) = d
        BY <2>1, <2>2, HoldsPart
    <2>4. Decode(d) = a.value
        BY <1>2, <1>3, DecodeEncoded
    <2>5. QED
        BY <1>7, <2>3, <2>4
<1>12. ValueAt(t, a, mid, from, stop)
    BY <1>7, <1>9, <1>10, <1>11 DEF ValueAt
<1>13. AttributeValue(a) \in Seq(Char)
    BY <1>3, <1>6, ConcatProperties
<1>14. Len(AttributeValue(a)) = stop - m
    BY <1>6, <1>7, <1>8
<1>15. QED
    BY <1>7, <1>12, <1>13, <1>14

LEMMA AttributeFormIs ==
    ASSUME NEW a \in AttributeForms
    PROVE  /\ a.name \in AttributeNames
           /\ a.style \in {"bare", "token", "quoted"}
           /\ a.style = "bare" => a.value = << >>
           /\ a.value \in Seq(Char)
<1>1. CASE a \in [name : AttributeNames, style : {"bare"}, value : {<< >>}]
    <2>1. << >> \in Seq(Char)
        OBVIOUS
    <2>2. QED
        BY <1>1, <2>1
<1>2. CASE a \in [name : AttributeNames, style : {"token"}, value : Seq(Char) \ {<< >>}]
    BY <1>2
<1>3. CASE a \in [name : AttributeNames, style : {"quoted"}, value : Seq(Char)]
    BY <1>3
<1>4. QED
    BY <1>1, <1>2, <1>3 DEF AttributeForms

LEMMA ValueIsThere ==
    ASSUME NEW t, NEW a, NEW m, NEW mid, NEW from, NEW stop,
           WrittenValue(t, a, m, mid, from, stop)
    PROVE  /\ \/ a.style = "bare" /\ a.value = << >> /\ stop = mid
              \/ a.style # "bare" /\ ValueAt(t, a, mid, from, stop)
           /\ from \in Nat /\ stop \in Nat
           /\ AttributeValue(a) \in Seq(Char)
           /\ Len(AttributeValue(a)) = IF a.style = "quoted" THEN stop - m ELSE (stop - 1) - m
<1>1. a.style \in {"bare", "token", "quoted"} /\ (a.style = "bare" => a.value = << >>)
      /\ m \in Nat /\ mid = m + 1
    BY AttributeFormIs DEF WrittenValue
<1>2. CASE a.style = "bare"
    <2>1. stop = mid /\ from = mid + 1
        BY <1>2 DEF WrittenValue
    <2>2. AttributeValue(a) = << >>
        BY <1>2, Zenon DEF AttributeValue
    <2>3. << >> \in Seq(Char) /\ Len(<< >>) = 0
        OBVIOUS
    <2>4. (stop - 1) - m = 0
        BY <1>1, <2>1
    <2>5. QED
        BY <1>1, <1>2, <2>1, <2>2, <2>3, <2>4
<1>3. CASE a.style = "token"
    BY <1>3, TokenIsThere
<1>4. CASE a.style = "quoted"
    BY <1>4, QuotedIsThere
<1>5. QED
    BY <1>1, <1>2, <1>3, <1>4

EndsAt(a, stop, end) == IF a.style = "quoted" THEN stop = end ELSE stop = end + 1

AttributesView(t, attributes, first, mid, from, stop) ==
    /\ Len(t) \in Nat
    /\ \A i \in 1 .. Len(attributes) :
           /\ AttributeAt(t, attributes[i], first[i], mid[i], from[i], stop[i])
           /\ \E end \in 0 .. Len(t) : EndsAt(attributes[i], stop[i], end)
    /\ first[1] = 1
    /\ EndsAt(attributes[Len(attributes)], stop[Len(attributes)], Len(t))
    /\ \A i \in 1 .. Len(attributes) : i # Len(attributes) =>
           /\ attributes[i].style # "quoted" => t[stop[i]] = ";"
           /\ stop[i] < first[i + 1]
           /\ \A k \in stop[i] + 1 .. first[i + 1] - 1 : t[k] \in {" ", ";"}

LEMMA AttributesAreViewed ==
    ASSUME NEW attributes \in Seq(AttributeForms), attributes # << >>
    PROVE  \E first, mid, from, stop :
               AttributesView(WriteAttributes(attributes), attributes, first, mid, from, stop)
<1>1. PICK n \in Nat \ {0} : n = Len(attributes)
    BY EmptySeq
<1> DEFINE sep(i) == Separator(i, <<";", " ">>)
<1> DEFINE ss == [i \in 1 .. n |-> AttributeEntry(attributes, i)]
<1>2. ASSUME NEW i \in 1 .. n
      PROVE  /\ attributes[i] \in AttributeForms
             /\ sep(i) \in Seq(Char) /\ Len(sep(i)) = (IF i = 1 THEN 0 ELSE 2)
             /\ attributes[i].name \in Seq(Char)
             /\ AttributeValue(attributes[i]) \in Seq(Char)
             /\ AttributeEntry(attributes, i) \in Seq(Char)
    <2>1. attributes[i] \in AttributeForms
        BY <1>1, ElementOfSeq
    <2>2. sep(i) \in Seq(Char) /\ Len(sep(i)) = (IF i = 1 THEN 0 ELSE 2)
        <3>1. <<";", " ">> \in Seq(Char) /\ Len(<<";", " ">>) = 2
            BY Signed, TextOfSigns
        <3>2. << >> \in Seq(Char) /\ Len(<< >>) = 0
            OBVIOUS
        <3>3. CASE i = 1
            <4>1. sep(i) = << >>
                BY <3>3 DEF Separator
            <4> HIDE DEF sep
            <4>2. sep(i) \in Seq(Char) /\ Len(sep(i)) = 0
                BY <3>2, <4>1, Zenon
            <4>3. QED
                BY <3>3, <4>2
        <3>4. CASE i # 1
            <4>1. sep(i) = <<";", " ">>
                BY <3>4 DEF Separator
            <4> HIDE DEF sep
            <4>2. QED
                BY <3>1, <3>4, <4>1
        <3>5. QED
            BY <3>3, <3>4
    <2>3. attributes[i].name \in Seq(Char)
        <3>1. attributes[i].name \in Seq(Char \ {";", "="})
            BY <2>1, AttributeFormIs DEF AttributeNames, Without
        <3>2. Char \ {";", "="} \subseteq Char
            OBVIOUS
        <3>3. QED
            BY <3>1, <3>2, SeqMonotonic
    <2>4. AttributeValue(attributes[i]) \in Seq(Char)
        <3>1. PICK a : a = attributes[i]
            OBVIOUS
        <3>2. /\ << >> \in Seq(Char) /\ <<"=">> \in Seq(Char) /\ <<"=", "quote">> \in Seq(Char)
              /\ <<"quote">> \in Seq(Char) /\ Encode(a.value) \in Seq(Char)
              /\ a.style \in {"bare", "token", "quoted"}
            <4>1. /\ << >> \in Seq(Char) /\ <<"=">> \in Seq(Char) /\ <<"=", "quote">> \in Seq(Char)
                  /\ <<"quote">> \in Seq(Char)
                <5>1. "=" \in Char /\ "quote" \in Char
                    BY Signed
                <5>2. <<"=">> \in Seq(Char) /\ <<"=", "quote">> \in Seq(Char)
                    BY <5>1, TextOfSigns
                <5>3. <<"quote">> \in Seq(Char)
                    BY <5>1, TextOfSigns
                <5>4. << >> \in Seq(Char)
                    OBVIOUS
                <5>5. QED
                    BY <5>2, <5>3, <5>4
            <4>2. a.value \in Seq(Char) /\ a.style \in {"bare", "token", "quoted"}
                BY <2>1, <3>1, AttributeFormIs
            <4>3. Encode(a.value) \in Seq(Char)
                BY <4>2, Signed
            <4>4. QED
                BY <4>1, <4>2, <4>3
        <3>3. CASE a.style = "bare"
            <4>1. AttributeValue(a) = << >>
                BY <3>3, Zenon DEF AttributeValue
            <4>2. QED
                BY <3>1, <3>2, <4>1
        <3>4. CASE a.style = "token"
            <4>1. AttributeValue(a) = <<"=">> \o Encode(a.value)
                BY <3>4, Zenon DEF AttributeValue
            <4>2. QED
                BY <3>1, <3>2, <4>1, ConcatProperties
        <3>5. CASE a.style = "quoted"
            <4>1. AttributeValue(a) = <<"=", "quote">> \o Encode(a.value) \o <<"quote">>
                BY <3>5, Zenon DEF AttributeValue
            <4>2. <<"=", "quote">> \o Encode(a.value) \in Seq(Char)
                BY <3>2, ConcatProperties
            <4>3. QED
                BY <3>1, <3>2, <4>1, <4>2, ConcatProperties
        <3>6. QED
            BY <3>2, <3>3, <3>4, <3>5
    <2>5. sep(i) \o attributes[i].name \in Seq(Char)
        BY <2>2, <2>3, ConcatProperties
    <2>6. AttributeEntry(attributes, i) \in Seq(Char)
        BY <2>4, <2>5, ConcatProperties DEF AttributeEntry
    <2>7. QED
        BY <2>1, <2>2, <2>3, <2>4, <2>6
<1>3. ss \in Seq(Seq(Char)) /\ Len(ss) = n /\ \A i \in 1 .. n : ss[i] = AttributeEntry(attributes, i)
    <2>1. \A i \in 1 .. n : AttributeEntry(attributes, i) \in Seq(Char)
        BY <1>2
    <2>2. QED
        BY <2>1
<1>4. WriteAttributes(attributes) = FlattenSeq(ss)
    BY <1>1, Zenon DEF WriteAttributes, AttributeEntry, AttributeValue, Separator
<1> HIDE DEF ss, sep
<1>5. PICK t, at : t = WriteAttributes(attributes) /\ t \in Seq(Char) /\ Laid(at, t, ss)
    BY <1>3, <1>4, Layout, FlattenType
<1>6. /\ at \in [0 .. n -> 0 .. Len(t)] /\ at[0] = 0 /\ at[n] = Len(t) /\ Len(t) \in Nat
      /\ \A i \in 1 .. n : at[i] = at[i - 1] + Len(ss[i]) /\ Holds(t, at[i - 1], ss[i])
    BY <1>3, <1>5, LenProperties DEF Laid, Holds
<1> DEFINE first == [i \in 1 .. n |-> at[i - 1] + Len(sep(i)) + 1]
<1> DEFINE mid == [i \in 1 .. n |-> at[i - 1] + Len(sep(i)) + Len(attributes[i].name) + 1]
<1> DEFINE from == [i \in 1 .. n |-> IF attributes[i].style = "quoted" THEN mid[i] + 2 ELSE mid[i] + 1]
<1> DEFINE stop == [i \in 1 .. n |-> IF attributes[i].style = "bare" THEN mid[i]
                                    ELSE from[i] + Len(Encode(attributes[i].value))]
<1>7. ASSUME NEW i \in 1 .. n
      PROVE  /\ AttributeAt(t, attributes[i], first[i], mid[i], from[i], stop[i])
             /\ Holds(t, at[i - 1], sep(i))
             /\ at[i] \in 0 .. Len(t) /\ at[i] \in Nat
             /\ EndsAt(attributes[i], stop[i], at[i])
    <2>1. PICK a, p, s, b, v, f, m, r, z :
              /\ a = attributes[i] /\ p = at[i - 1] /\ s = sep(i) /\ b = a.name
              /\ v = AttributeValue(a) /\ f = first[i] /\ m = mid[i] /\ r = from[i] /\ z = stop[i]
        OBVIOUS
    <2>2. i - 1 \in 0 .. n /\ i \in 0 .. n
        BY <1>1
    <2>3. at[i] \in 0 .. Len(t) /\ at[i] \in Nat /\ p \in Nat /\ at[i] = p + Len(ss[i])
        <3>1. at[i] \in 0 .. Len(t) /\ at[i - 1] \in 0 .. Len(t)
            BY <1>6, <2>2
        <3>2. at[i] \in Nat /\ at[i - 1] \in Nat
            BY <1>6, <3>1
        <3>3. at[i] = at[i - 1] + Len(ss[i])
            BY <1>6
        <3>4. QED
            BY <2>1, <3>1, <3>2, <3>3
    <2>4. /\ a \in AttributeForms /\ s \in Seq(Char) /\ v \in Seq(Char)
        BY <1>2, <2>1
    <2>5. /\ f = p + Len(s) + 1
          /\ m = p + Len(s) + Len(b) + 1
        BY <2>1
    <2>6. r = IF a.style = "quoted" THEN m + 2 ELSE m + 1
        BY <2>1
    <2>7. z = IF a.style = "bare" THEN m ELSE r + Len(Encode(a.value))
        BY <2>1
    <2> HIDE DEF first, mid, from, stop
    <2>8. ss[i] = (s \o b) \o v /\ Holds(t, p, ss[i])
        BY <1>3, <1>6, <2>1, Zenon DEF AttributeEntry, sep
    <2>9. WrittenName(t, a, p, s, b, v, m)
        <3>1. a.name \in AttributeNames
            BY <2>4, AttributeFormIs
        <3>2. QED
            BY <2>1, <2>3, <2>4, <2>5, <2>8, <3>1, Zenon DEF WrittenName
    <2>10. /\ p + Len(s) + 1 \in Nat \ {0} /\ m \in Nat \ {0} /\ p + Len(s) + 1 < m
           /\ NameAt(t, a, p + Len(s) + 1, m)
           /\ Holds(t, p, s)
           /\ Holds(t, m - 1, v)
           /\ Len((s \o b) \o v) = ((m - 1) - p) + Len(v)
        BY <2>9, NameIsThere
    <2>11. PICK q \in Nat : q = m - 1 /\ m = q + 1 /\ m \in Nat
        <3>1. m \in Nat \ {0}
            BY <2>10
        <3>2. m - 1 \in Nat /\ m = (m - 1) + 1
            BY <3>1
        <3>3. QED
            BY <3>1, <3>2
    <2>12. WrittenValue(t, a, q, m, r, z)
        <3>1. Holds(t, q, AttributeValue(a))
            BY <2>1, <2>10, <2>11
        <3>2. QED
            BY <2>4, <2>6, <2>7, <2>11, <3>1, Zenon DEF WrittenValue
    <2>13. /\ \/ a.style = "bare" /\ a.value = << >> /\ z = m
              \/ a.style # "bare" /\ ValueAt(t, a, m, r, z)
           /\ r \in Nat /\ z \in Nat
           /\ Len(v) = IF a.style = "quoted" THEN z - q ELSE (z - 1) - q
        BY <2>1, <2>12, ValueIsThere
    <2>14. AttributeAt(t, a, f, m, r, z)
        <3>1. f \in Nat \ {0} /\ m \in Nat /\ f < m /\ NameAt(t, a, f, m)
            BY <2>5, <2>10
        <3>2. QED
            BY <2>13, <3>1 DEF AttributeAt
    <2>15. at[i] = q + Len(v)
        <3>1. Len(ss[i]) = (q - p) + Len(v)
            BY <2>8, <2>10, <2>11
        <3>2. Len(v) \in Nat
            BY <2>4, LenProperties
        <3>3. QED
            BY <2>3, <3>1, <3>2
    <2>16. EndsAt(a, z, at[i])
        BY <2>3, <2>13, <2>15 DEF EndsAt
    <2>17. QED
        BY <2>1, <2>3, <2>10, <2>14, <2>16
<1>8. first[1] = 1 /\ EndsAt(attributes[n], stop[n], Len(t))
    <2>1. 1 \in 1 .. n /\ n \in 1 .. n /\ 1 - 1 = 0
        BY <1>1
    <2>2. first[1] = at[1 - 1] + Len(sep(1)) + 1
        BY <2>1
    <2> HIDE DEF first, mid, from, stop
    <2>3. EndsAt(attributes[n], stop[n], at[n])
        BY <1>7, <2>1
    <2>4. Len(sep(1)) = 0
        BY <1>2, <2>1
    <2>5. first[1] = 1
        BY <1>6, <2>1, <2>2, <2>4
    <2>6. QED
        BY <1>6, <2>3, <2>5
<1>9. ASSUME NEW i \in 1 .. n, i # n
      PROVE  /\ attributes[i].style # "quoted" => t[stop[i]] = ";"
             /\ stop[i] < first[i + 1]
             /\ \A k \in stop[i] + 1 .. first[i + 1] - 1 : t[k] \in {" ", ";"}
    <2>1. i + 1 \in 1 .. n /\ (i + 1) - 1 = i /\ i + 1 # 1
        BY <1>1, <1>9
    <2>2. first[i + 1] = at[i] + Len(sep(i + 1)) + 1
        BY <2>1
    <2> HIDE DEF first, mid, from, stop
    <2>3. Len(sep(i + 1)) = 2 /\ sep(i + 1) = <<";", " ">>
        BY <1>2, <2>1 DEF sep, Separator
    <2>4. at[i] \in Nat /\ EndsAt(attributes[i], stop[i], at[i]) /\ Holds(t, at[i], sep(i + 1))
        BY <1>7, <2>1
    <2>5. t[at[i] + 1] = ";" /\ t[at[i] + 2] = " "
        <3>1. PICK p, s : p = at[i] /\ s = <<";", " ">>
            OBVIOUS
        <3>2. Holds(t, p, s)
            BY <2>3, <2>4, <3>1
        <3>3. Len(s) = 2 /\ s[1] = ";" /\ s[2] = " "
            BY <3>1, Signed, TextOfSigns
        <3>4. QED
            <4>1. 1 \in 1 .. Len(s) /\ 2 \in 1 .. Len(s)
                <5>1. 1 \in 1 .. 2 /\ 2 \in 1 .. 2
                    OBVIOUS
                <5>2. QED
                    BY <3>3, <5>1, Zenon
            <4>2. t[p + 1] = s[1] /\ t[p + 2] = s[2]
                BY <3>2, <4>1 DEF Holds
            <4>3. QED
                BY <3>1, <3>3, <4>2
    <2>6. PICK e, z, f : e \in Nat /\ e = at[i] /\ z = stop[i] /\ f = first[i + 1] /\ f = e + 3
        <3>1. first[i + 1] = at[i] + 3
            <4>1. PICK p \in Nat : p = at[i]
                BY <2>4
            <4>2. first[i + 1] = p + 2 + 1
                BY <2>2, <2>3, <4>1, Zenon
            <4>3. p + 2 + 1 = p + 3
                OBVIOUS
            <4>4. QED
                BY <4>1, <4>2, <4>3, Zenon
        <3>2. QED
            BY <2>4, <3>1
    <2>7. IF attributes[i].style = "quoted" THEN z = e ELSE z = e + 1
        BY <2>4, <2>6 DEF EndsAt
    <2>8. z < f /\ \A k \in z + 1 .. f - 1 : k = e + 1 \/ k = e + 2
        BY <2>6, <2>7
    <2>9. QED
        BY <2>5, <2>6, <2>7, <2>8
<1> HIDE DEF first, mid, from, stop
<1>10. AttributesView(t, attributes, first, mid, from, stop)
    BY <1>1, <1>6, <1>7, <1>8, <1>9 DEF AttributesView
<1>11. QED
    BY <1>5, <1>10

(***************************************************************************)
(* The order of the positions of an attribute in a text of length l        *)
(***************************************************************************)
Place(a, f, m, r, z, l) ==
    /\ 0 < f /\ f < m /\ m <= z /\ z <= l + 1 /\ f <= l
    /\ a.style = "bare" => z = m
    /\ a.style = "token" => r = m + 1 /\ m + 2 <= z
    /\ a.style = "quoted" => r = m + 2 /\ m + 2 <= z /\ z <= l

PlaceOf(t, attributes, first, mid, from, stop, i) ==
    \E f \in Nat, m \in Nat, r \in Nat, z \in Nat, l \in Nat :
        /\ f = first[i] /\ m = mid[i] /\ r = from[i] /\ z = stop[i] /\ l = Len(t)
        /\ Place(attributes[i], f, m, r, z, l)

LEMMA PlaceIs ==
    ASSUME NEW t, NEW attributes, NEW first, NEW mid, NEW from, NEW stop,
           AttributesView(t, attributes, first, mid, from, stop),
           NEW i \in 1 .. Len(attributes)
    PROVE  PlaceOf(t, attributes, first, mid, from, stop, i)
<1>1. /\ AttributeAt(t, attributes[i], first[i], mid[i], from[i], stop[i])
      /\ \E end \in 0 .. Len(t) : EndsAt(attributes[i], stop[i], end)
      /\ Len(t) \in Nat
    BY DEF AttributesView
<1>2. PICK f \in Nat, m \in Nat, r \in Nat, z \in Nat, l \in Nat :
          f = first[i] /\ m = mid[i] /\ r = from[i] /\ z = stop[i] /\ l = Len(t)
    BY <1>1 DEF AttributeAt
<1>3. PICK a : a = attributes[i]
    OBVIOUS
<1>4. AttributeAt(t, a, f, m, r, z)
    BY <1>1, <1>2, <1>3
<1>5. PICK e \in 0 .. l : EndsAt(a, z, e)
    BY <1>1, <1>2, <1>3
<1>6. e \in Nat /\ e <= l /\ (a.style = "quoted" => z = e) /\ (a.style # "quoted" => z = e + 1)
    BY <1>5 DEF EndsAt
<1>7. 0 < f /\ f < m
    BY <1>4 DEF AttributeAt
<1>8. CASE a.style = "bare"
    <2>1. z = m
        BY <1>4, <1>8 DEF AttributeAt
    <2>2. Place(a, f, m, r, z, l)
        BY <1>6, <1>7, <1>8, <2>1 DEF Place
    <2>3. QED
        BY <1>2, <1>3, <2>2 DEF PlaceOf
<1>9. CASE a.style # "bare"
    <2>1. ValueAt(t, a, m, r, z)
        BY <1>4, <1>9 DEF AttributeAt
    <2>2. \/ a.style = "token" /\ r = m + 1 /\ r < z
          \/ a.style = "quoted" /\ r = m + 2 /\ r <= z
        BY <2>1 DEF ValueAt
    <2>3. Place(a, f, m, r, z, l)
        BY <1>6, <1>7, <2>2 DEF Place
    <2>4. QED
        BY <1>2, <1>3, <2>3 DEF PlaceOf
<1>10. QED
    BY <1>8, <1>9

(***************************************************************************)
(* Where an attribute stops, the text ends or the next attribute follows.  *)
(***************************************************************************)
LEMMA PlaceOfNext ==
    ASSUME NEW t, NEW attributes, NEW first, NEW mid, NEW from, NEW stop,
           AttributesView(t, attributes, first, mid, from, stop),
           NEW i \in 1 .. Len(attributes), Len(attributes) \in Nat
    PROVE  \/ /\ i = Len(attributes)
              /\ attributes[i].style = "quoted" => stop[i] = Len(t)
              /\ attributes[i].style # "quoted" => stop[i] = Len(t) + 1
           \/ /\ i + 1 \in 1 .. Len(attributes)
              /\ stop[i] < first[i + 1] /\ first[i + 1] <= Len(t) /\ first[i + 1] \in Nat
              /\ attributes[i].style # "quoted" => t[stop[i]] = ";"
              /\ \A k \in stop[i] + 1 .. first[i + 1] - 1 : t[k] \in {" ", ";"}
<1>1. CASE i = Len(attributes)
    <2>1. EndsAt(attributes[i], stop[i], Len(t))
        BY <1>1 DEF AttributesView
    <2>2. QED
        BY <1>1, <2>1 DEF EndsAt
<1>2. CASE i # Len(attributes)
    <2>1. i + 1 \in 1 .. Len(attributes)
        BY <1>2
    <2>2. /\ attributes[i].style # "quoted" => t[stop[i]] = ";"
          /\ stop[i] < first[i + 1]
          /\ \A k \in stop[i] + 1 .. first[i + 1] - 1 : t[k] \in {" ", ";"}
        BY <1>2 DEF AttributesView
    <2>3. PICK f \in Nat, m \in Nat, r \in Nat, z \in Nat, l \in Nat :
              /\ f = first[i + 1] /\ l = Len(t)
              /\ Place(attributes[i + 1], f, m, r, z, l)
        <3>1. PICK j \in 1 .. Len(attributes) : j = i + 1
            BY <2>1
        <3>2. PlaceOf(t, attributes, first, mid, from, stop, j)
            BY PlaceIs
        <3>3. QED
            BY <3>1, <3>2 DEF PlaceOf
    <2>4. f <= l
        BY <2>3 DEF Place
    <2>5. first[i + 1] <= Len(t) /\ first[i + 1] \in Nat
        BY <2>3, <2>4
    <2>6. QED
        BY <2>1, <2>2, <2>5
<1>3. QED
    BY <1>1, <1>2

-----------------------------------------------------------------------------
(* Attributes are read as they were written. *)

NoPositions == nameStart = NPos /\ nameEnd = NPos /\ valueStart = NPos

BeforeName(first, i) ==
    /\ NoPositions
    /\ c \in Nat \ {0} /\ c <= first[i]
    /\ \A k \in c .. first[i] - 1 : text[k] \in {" ", ";"}
    /\ result = ReadSoFar(given, i - 1)

InName(first, mid, i) ==
    /\ nameStart = first[i] /\ nameEnd = NPos /\ valueStart = NPos
    /\ c \in first[i] + 1 .. mid[i]
    /\ result = ReadSoFar(given, i - 1)

BeforeValue(first, mid, i) ==
    /\ given[i].style # "bare"
    /\ nameStart = first[i] /\ nameEnd = mid[i] /\ valueStart = NPos
    /\ c = mid[i] + 1
    /\ result = ReadSoFar(given, i - 1)

InValue(first, mid, from, stop, i) ==
    /\ given[i].style # "bare"
    /\ nameStart = first[i] /\ nameEnd = mid[i] /\ valueStart = from[i]
    /\ c \in mid[i] + 2 .. stop[i]
    /\ result = ReadSoFar(given, i - 1)

BehindAll == NoPositions /\ c = Len(text) + 1 /\ result = ReadSoFar(given, Len(given))

AttributeRead(first, mid, from, stop, i) ==
    \/ BeforeName(first, i)
    \/ InName(first, mid, i)
    \/ BeforeValue(first, mid, i)
    \/ InValue(first, mid, from, stop, i)

AttributesRead(first, mid, from, stop) ==
    \/ AllRead
    \/ BehindAll
    \/ \E i \in 1 .. Len(given) : AttributeRead(first, mid, from, stop, i)

AttributesInv ==
    job = "attributes" /\ given # << >> =>
        /\ given \in Seq(AttributeForms)
        /\ \E first, mid, from, stop :
               /\ AttributesView(text, given, first, mid, from, stop)
               /\ AttributesRead(first, mid, from, stop)

LEMMA InitAttributesInv == Init => AttributesInv
<1> SUFFICES ASSUME Init, job = "attributes", given # << >>
             PROVE  /\ given \in Seq(AttributeForms)
                    /\ \E first, mid, from, stop :
                           /\ AttributesView(text, given, first, mid, from, stop)
                           /\ AttributesRead(first, mid, from, stop)
    BY DEF AttributesInv
<1>1. given \in Attributes /\ text = WriteAttributes(given)
    BY DEF Init
<1>2. given \in Seq(AttributeForms)
    BY <1>1, FormsAssumption
<1>3. PICK first, mid, from, stop : AttributesView(text, given, first, mid, from, stop)
    BY <1>1, <1>2, AttributesAreViewed
<1>4. c = 1 /\ NoPositions /\ result = << >>
    BY DEF Init, NoPositions
<1>5. 1 \in 1 .. Len(given)
    BY <1>2, EmptySeq
<1>6. first[1] = 1
    BY <1>3 DEF AttributesView
<1>7. ReadSoFar(given, 1 - 1) = << >>
    <2>1. ReadSoFar(given, 1 - 1) = [j \in 1 .. 0 |-> Field(given[j].name, given[j].value)]
        BY DEF ReadSoFar
    <2>2. QED
        BY <2>1
<1>8. BeforeName(first, 1)
    BY <1>4, <1>6, <1>7 DEF BeforeName
<1>9. AttributesRead(first, mid, from, stop)
    BY <1>5, <1>8 DEF AttributesRead, AttributeRead
<1>10. QED
    BY <1>2, <1>3, <1>9

(***************************************************************************)
(* Once the attribute is emplaced, the loop is before the next one, or     *)
(* behind the last.                                                        *)
(***************************************************************************)
Emplaced(stop, i) ==
    /\ result = ReadSoFar(given, i - 1)
    /\ Emplace(given[i].name, given[i].value)
    /\ nameStart' = NPos /\ nameEnd' = NPos /\ valueStart' = NPos
    /\ c = stop[i] /\ c <= Len(text) /\ c' = c + 1
    /\ UNCHANGED <<given, text>>

LEMMA EmplacedIsRead ==
    ASSUME NEW i \in Nat \ {0},
           result = ReadSoFar(given, i - 1), Emplace(given[i].name, given[i].value)
    PROVE  result' = ReadSoFar(given, i)
BY ReadOneMore DEF Emplace

LEMMA NextAttribute ==
    ASSUME NEW first, NEW mid, NEW from, NEW stop, NEW i \in 1 .. Len(given),
           given \in Seq(AttributeForms),
           AttributesView(text, given, first, mid, from, stop),
           Emplaced(stop, i)
    PROVE  AttributesRead(first, mid, from, stop)'
<1>1. Len(given) \in Nat /\ i \in Nat \ {0}
    BY LenProperties
<1>2. result' = ReadSoFar(given, i) /\ NoPositions' /\ given' = given /\ text' = text
    BY <1>1, EmplacedIsRead DEF Emplaced, NoPositions
<1>3. PICK f \in Nat, m \in Nat, r \in Nat, z \in Nat, l \in Nat :
          /\ f = first[i] /\ m = mid[i] /\ r = from[i] /\ z = stop[i] /\ l = Len(text)
          /\ Place(given[i], f, m, r, z, l)
    BY PlaceIs DEF PlaceOf
<1>4. c = z /\ c <= l /\ c' = z + 1 /\ z <= l /\ z # 0
    <2>1. c = z /\ c <= l /\ c' = c + 1
        BY <1>3 DEF Emplaced
    <2>2. 0 < f /\ f < m /\ m <= z
        BY <1>3 DEF Place
    <2>3. QED
        BY <2>1, <2>2
<1>5. CASE i = Len(given) /\ (given[i].style = "quoted" => stop[i] = Len(text))
           /\ (given[i].style # "quoted" => stop[i] = Len(text) + 1)
    <2>1. z = l
        BY <1>3, <1>4, <1>5
    <2>2. c' = Len(text') + 1 /\ result' = ReadSoFar(given', Len(given'))
        BY <1>2, <1>3, <1>4, <1>5, <2>1
    <2>3. BehindAll'
        BY <1>2, <2>2 DEF BehindAll
    <2>4. QED
        BY <2>3 DEF AttributesRead
<1>6. CASE /\ i + 1 \in 1 .. Len(given)
           /\ stop[i] < first[i + 1] /\ first[i + 1] <= Len(text) /\ first[i + 1] \in Nat
           /\ given[i].style # "quoted" => text[stop[i]] = ";"
           /\ \A k \in stop[i] + 1 .. first[i + 1] - 1 : text[k] \in {" ", ";"}
    <2>1. PICK g \in Nat : g = first[i + 1]
        BY <1>6
    <2>2. z < g /\ \A k \in z + 1 .. g - 1 : text[k] \in {" ", ";"}
        BY <1>3, <1>6, <2>1
    <2>3. c' \in Nat \ {0} /\ c' <= g
        <3>1. z < g /\ c' = z + 1
            BY <1>4, <2>2, Zenon
        <3>2. QED
            BY <3>1
    <2>4. c' <= first[i + 1] /\ \A k \in c' .. first[i + 1] - 1 : text'[k] \in {" ", ";"}
        BY <1>2, <1>4, <2>1, <2>2, <2>3
    <2>5. result' = ReadSoFar(given', (i + 1) - 1)
        BY <1>1, <1>2
    <2>6. BeforeName(first, i + 1)'
        BY <1>2, <2>3, <2>4, <2>5 DEF BeforeName
    <2>7. i + 1 \in 1 .. Len(given')
        BY <1>2, <1>6
    <2>8. QED
        BY <2>6, <2>7 DEF AttributesRead, AttributeRead
<1>7. \/ /\ i = Len(given)
         /\ given[i].style = "quoted" => stop[i] = Len(text)
         /\ given[i].style # "quoted" => stop[i] = Len(text) + 1
      \/ /\ i + 1 \in 1 .. Len(given)
         /\ stop[i] < first[i + 1] /\ first[i + 1] <= Len(text) /\ first[i + 1] \in Nat
         /\ given[i].style # "quoted" => text[stop[i]] = ";"
         /\ \A k \in stop[i] + 1 .. first[i + 1] - 1 : text[k] \in {" ", ";"}
    <2>1. PICK t, attributes : t = text /\ attributes = given
        OBVIOUS
    <2>2. AttributesView(t, attributes, first, mid, from, stop) /\ Len(attributes) \in Nat
          /\ i \in 1 .. Len(attributes)
        BY <1>1, <2>1
    <2>3. QED
        BY <2>1, <2>2, PlaceOfNext
<1>8. QED
    BY <1>5, <1>6, <1>7, Zenon

(***************************************************************************)
(* One attribute at its place, with the positions as numbers               *)
(***************************************************************************)
Reading(first, mid, from, stop, i, a, f, m, r, z, l) ==
    /\ i \in 1 .. Len(given)
    /\ given \in Seq(AttributeForms)
    /\ AttributesView(text, given, first, mid, from, stop)
    /\ a = given[i] /\ f = first[i] /\ m = mid[i] /\ r = from[i] /\ z = stop[i] /\ l = Len(text)
    /\ AttributeAt(text, a, f, m, r, z)
    /\ Place(a, f, m, r, z, l)
    /\ a.style # "quoted" /\ z <= l => text[z] = ";"

LEMMA ReadingIs ==
    ASSUME NEW first, NEW mid, NEW from, NEW stop, NEW i \in 1 .. Len(given),
           given \in Seq(AttributeForms),
           AttributesView(text, given, first, mid, from, stop)
    PROVE  \E a : \E f \in Nat, m \in Nat, r \in Nat, z \in Nat, l \in Nat :
               Reading(first, mid, from, stop, i, a, f, m, r, z, l)
<1>1. PICK f \in Nat, m \in Nat, r \in Nat, z \in Nat, l \in Nat :
          /\ f = first[i] /\ m = mid[i] /\ r = from[i] /\ z = stop[i] /\ l = Len(text)
          /\ Place(given[i], f, m, r, z, l)
    BY PlaceIs DEF PlaceOf
<1>2. PICK a : a = given[i]
    OBVIOUS
<1>3. AttributeAt(text, a, f, m, r, z)
    BY <1>1, <1>2 DEF AttributesView
<1>4. ASSUME a.style # "quoted", z <= l PROVE text[z] = ";"
    <2>1. PICK t, attributes : t = text /\ attributes = given
        OBVIOUS
    <2>2. AttributesView(t, attributes, first, mid, from, stop) /\ Len(attributes) \in Nat
          /\ i \in 1 .. Len(attributes)
        BY <2>1, LenProperties
    <2>3. \/ /\ i = Len(attributes)
             /\ attributes[i].style = "quoted" => stop[i] = Len(t)
             /\ attributes[i].style # "quoted" => stop[i] = Len(t) + 1
          \/ /\ i + 1 \in 1 .. Len(attributes)
             /\ stop[i] < first[i + 1] /\ first[i + 1] <= Len(t) /\ first[i + 1] \in Nat
             /\ attributes[i].style # "quoted" => t[stop[i]] = ";"
             /\ \A k \in stop[i] + 1 .. first[i + 1] - 1 : t[k] \in {" ", ";"}
        BY <2>2, PlaceOfNext
    <2>4. CASE attributes[i].style # "quoted" => stop[i] = Len(t) + 1
        <3>1. z = l + 1
            BY <1>1, <1>2, <1>4, <2>1, <2>4
        <3>2. z <= l /\ z \in Nat /\ l \in Nat
            BY <1>1, <1>4, Zenon
        <3>3. ~(l + 1 <= l)
            BY <1>1
        <3>4. QED
            BY <3>1, <3>2, <3>3, Zenon
    <2>5. CASE attributes[i].style # "quoted" => t[stop[i]] = ";"
        BY <1>1, <1>2, <1>4, <2>1, <2>5
    <2>6. QED
        BY <2>3, <2>4, <2>5, Zenon
<1>5. Reading(first, mid, from, stop, i, a, f, m, r, z, l)
    BY <1>1, <1>2, <1>3, <1>4, Zenon DEF Reading
<1>6. QED
    BY <1>5

(***************************************************************************)
(* What a pass of the loop over it can use                                 *)
(***************************************************************************)
Reads(first, mid, from, stop, i, a, f, m, r, z, l) ==
    /\ f \in Nat /\ m \in Nat /\ r \in Nat /\ z \in Nat /\ l \in Nat
    /\ Reading(first, mid, from, stop, i, a, f, m, r, z, l)
    /\ i \in 1 .. Len(given)
    /\ a = given[i] /\ f = first[i] /\ m = mid[i] /\ r = from[i] /\ z = stop[i] /\ l = Len(text)
    /\ NameAt(text, a, f, m)
    /\ (a.style = "bare" /\ a.value = << >>) \/ (a.style # "bare" /\ ValueAt(text, a, m, r, z))
    /\ 0 < f /\ f < m /\ m <= z /\ z <= l + 1
    /\ a.style = "bare" => z = m
    /\ a.style = "token" => r = m + 1 /\ m + 2 <= z
    /\ a.style = "quoted" => r = m + 2 /\ m + 2 <= z /\ z <= l
    /\ a.style # "quoted" /\ z <= l => text[z] = ";"
    /\ c <= l /\ c' = c + 1 /\ given' = given /\ text' = text
    /\ StartName \/ ReadName \/ StartValue \/ ReadValue

LEMMA ReadsIs ==
    ASSUME NEW first, NEW mid, NEW from, NEW stop, NEW i, NEW a,
           NEW f \in Nat, NEW m \in Nat, NEW r \in Nat, NEW z \in Nat, NEW l \in Nat,
           Reading(first, mid, from, stop, i, a, f, m, r, z, l), AttributesScan
    PROVE  Reads(first, mid, from, stop, i, a, f, m, r, z, l)
<1>1. /\ i \in 1 .. Len(given)
      /\ a = given[i] /\ f = first[i] /\ m = mid[i] /\ r = from[i] /\ z = stop[i]
      /\ l = Len(text)
      /\ AttributeAt(text, a, f, m, r, z)
      /\ Place(a, f, m, r, z, l)
      /\ a.style # "quoted" /\ z <= l => text[z] = ";"
    BY Zenon DEF Reading
<1>2. c <= l /\ c' = c + 1 /\ given' = given /\ text' = text
    BY <1>1 DEF AttributesScan
<1>3. StartName \/ ReadName \/ StartValue \/ ReadValue
    BY Zenon DEF AttributesScan
<1>4. /\ NameAt(text, a, f, m)
      /\ (a.style = "bare" /\ a.value = << >>) \/ (a.style # "bare" /\ ValueAt(text, a, m, r, z))
    BY <1>1, Zenon DEF AttributeAt
<1>5. /\ 0 < f /\ f < m /\ m <= z /\ z <= l + 1
      /\ a.style = "bare" => z = m
      /\ a.style = "token" => r = m + 1 /\ m + 2 <= z
      /\ a.style = "quoted" => r = m + 2 /\ m + 2 <= z /\ z <= l
    BY <1>1, Zenon DEF Place
<1>6. QED
    BY <1>1, <1>2, <1>3, <1>4, <1>5, Zenon DEF Reads

LEMMA ScanBeforeName ==
    ASSUME NEW first, NEW mid, NEW from, NEW stop, NEW i, NEW a,
           NEW f \in Nat, NEW m \in Nat, NEW r \in Nat, NEW z \in Nat, NEW l \in Nat,
           Reads(first, mid, from, stop, i, a, f, m, r, z, l),
           BeforeName(first, i)
    PROVE  AttributesRead(first, mid, from, stop)'
<1>1. /\ i \in 1 .. Len(given) /\ f = first[i] /\ m = mid[i]
      /\ c' = c + 1 /\ given' = given /\ text' = text
      /\ StartName \/ ReadName \/ StartValue \/ ReadValue
      /\ NameAt(text, a, f, m) /\ f < m
    BY Zenon DEF Reads
<1>2. /\ NoPositions
      /\ c \in Nat \ {0} /\ c <= f
      /\ \A k \in c .. f - 1 : text[k] \in {" ", ";"}
      /\ result = ReadSoFar(given, i - 1)
    BY <1>1, Zenon DEF BeforeName
<1>0. PICK b \in Nat \ {0} : b = c /\ b <= f /\ c' = b + 1
    BY <1>1, <1>2, Zenon
<1>3. StartName
    BY <1>1, <1>2 DEF NoPositions, ReadName, StartValue, ReadValue
<1>4. /\ nameStart' = IF text[c] \in {" ", ";"} THEN NPos ELSE c
      /\ nameEnd' = NPos /\ valueStart' = NPos /\ result' = ReadSoFar(given', i - 1)
    BY <1>1, <1>2, <1>3 DEF StartName, NoPositions
<1>5. CASE c < f
    <2>1. nameStart' = NPos
        <3>1. b < f
            BY <1>0, <1>5, Zenon
        <3>2. b \in b .. f - 1
            BY <3>1
        <3>3. text[c] \in {" ", ";"}
            BY <1>0, <1>2, <3>2, Zenon
        <3>4. QED
            BY <1>4, <3>3, Zenon
    <2>2. c' \in Nat \ {0} /\ c' <= f
        <3>1. b < f
            BY <1>0, <1>5, Zenon
        <3>2. b + 1 \in Nat \ {0} /\ b + 1 <= f
            BY <3>1
        <3>3. QED
            BY <1>0, <3>2, Zenon
    <2>3. \A k \in c' .. f - 1 : text'[k] \in {" ", ";"}
        <3>1. \A k \in b + 1 .. f - 1 : k \in b .. f - 1
            OBVIOUS
        <3>2. QED
            BY <1>0, <1>1, <1>2, <3>1, Zenon
    <2>4. BeforeName(first, i)'
        BY <1>1, <1>4, <2>1, <2>2, <2>3 DEF BeforeName, NoPositions
    <2>5. QED
        BY <1>1, <2>4 DEF AttributesRead, AttributeRead
<1>6. CASE ~(c < f)
    <2>1. c = f
        <3>1. ~(b < f) /\ b <= f
            BY <1>0, <1>6, Zenon
        <3>2. b = f
            BY <3>1
        <3>3. QED
            BY <1>0, <3>2, Zenon
    <2>2. text[f] \notin {" ", ";"}
        <3>1. f < m
            BY <1>1, Zenon
        <3>2. f \in f .. m - 1
            BY <3>1
        <3>3. QED
            BY <1>1, <3>2, Zenon DEF NameAt
    <2>3. nameStart' = f
        BY <1>4, <2>1, <2>2
    <2>4. c' \in f + 1 .. m
        BY <1>1, <2>1
    <2>5. InName(first, mid, i)'
        BY <1>1, <1>4, <2>3, <2>4 DEF InName
    <2>6. QED
        BY <1>1, <2>5 DEF AttributesRead, AttributeRead
<1>7. QED
    BY <1>5, <1>6

LEMMA EmplacedNext ==
    ASSUME NEW first, NEW mid, NEW from, NEW stop, NEW i, NEW a,
           NEW f \in Nat, NEW m \in Nat, NEW r \in Nat, NEW z \in Nat, NEW l \in Nat,
           Reads(first, mid, from, stop, i, a, f, m, r, z, l),
           Emplaced(stop, i)
    PROVE  AttributesRead(first, mid, from, stop)'
<1>1. Reading(first, mid, from, stop, i, a, f, m, r, z, l)
    BY DEF Reads
<1>2. /\ i \in 1 .. Len(given)
      /\ given \in Seq(AttributeForms)
      /\ AttributesView(text, given, first, mid, from, stop)
    BY <1>1, Zenon DEF Reading
<1>3. QED
    BY <1>2, NextAttribute

LEMMA ScanInName ==
    ASSUME NEW first, NEW mid, NEW from, NEW stop, NEW i, NEW a,
           NEW f \in Nat, NEW m \in Nat, NEW r \in Nat, NEW z \in Nat, NEW l \in Nat,
           Reads(first, mid, from, stop, i, a, f, m, r, z, l),
           InName(first, mid, i)
    PROVE  AttributesRead(first, mid, from, stop)'
<1>1. /\ i \in 1 .. Len(given) /\ f = first[i] /\ m = mid[i] /\ z = stop[i] /\ a = given[i]
      /\ c <= l /\ c' = c + 1 /\ given' = given /\ text' = text /\ l = Len(text)
      /\ StartName \/ ReadName \/ StartValue \/ ReadValue
      /\ NameAt(text, a, f, m) /\ 0 < f /\ f < m
      /\ (a.style = "bare" /\ a.value = << >>) \/ (a.style # "bare" /\ ValueAt(text, a, m, r, z))
      /\ a.style = "bare" => z = m
      /\ a.style # "quoted" /\ z <= l => text[z] = ";"
    BY Zenon DEF Reads
<1>2. /\ nameStart = f /\ nameEnd = NPos /\ valueStart = NPos
      /\ c \in f + 1 .. m
      /\ result = ReadSoFar(given, i - 1)
    BY <1>1, Zenon DEF InName
<1>0. PICK b \in f + 1 .. m : b = c /\ c' = b + 1
    BY <1>1, <1>2, Zenon
<1>3. f # NPos /\ m # NPos
    <2>1. 0 < f /\ f < m
        BY <1>1, Zenon
    <2>2. QED
        BY <2>1 DEF NPos
<1>4. ReadName
    BY <1>1, <1>2, <1>3, Zenon DEF StartName, StartValue, ReadValue
<1>5. CASE c < m
    <2>1. text[c] \notin {";", "="}
        <3>1. c \in f .. m - 1
            <4>1. b < m
                BY <1>0, <1>5, Zenon
            <4>2. b \in f .. m - 1
                BY <4>1
            <4>3. QED
                BY <1>0, <4>2, Zenon
        <3>2. QED
            BY <1>1, <3>1 DEF NameAt
    <2>2. nameStart' = f /\ nameEnd' = NPos /\ valueStart' = NPos /\ result' = result
        BY <1>2, <1>4, <2>1 DEF ReadName
    <2>3. c' \in f + 1 .. m
        <3>1. b < m
            BY <1>0, <1>5, Zenon
        <3>2. b + 1 \in f + 1 .. m
            BY <3>1
        <3>3. QED
            BY <1>0, <3>2, Zenon
    <2>4. InName(first, mid, i)'
        BY <1>1, <1>2, <2>2, <2>3 DEF InName
    <2>5. QED
        BY <1>1, <2>4 DEF AttributesRead, AttributeRead
<1>6. CASE c = m /\ a.style # "bare"
    <2>1. text[c] = "="
        BY <1>1, <1>6 DEF ValueAt
    <2>2. nameStart' = f /\ nameEnd' = m /\ valueStart' = NPos /\ result' = result
        <3>1. text[c] # ";"
            BY <2>1
        <3>2. QED
            BY <1>2, <1>4, <1>6, <2>1, <3>1, Zenon DEF ReadName
    <2>3. BeforeValue(first, mid, i)'
        BY <1>1, <1>2, <1>6, <2>2 DEF BeforeValue
    <2>4. QED
        BY <1>1, <2>3 DEF AttributesRead, AttributeRead
<1>7. CASE c = m /\ a.style = "bare"
    <2>1. z = m /\ a.value = << >> /\ text[c] = ";"
        <3>1. z = m /\ a.value = << >> /\ a.style # "quoted" /\ z <= l
            BY <1>1, <1>7
        <3>2. QED
            BY <1>1, <1>7, <3>1
    <2>2. Substr(nameStart, c) = a.name
        <3>1. SubSeq(text, f, m - 1) = a.name
            BY <1>1 DEF NameAt
        <3>2. c # NPos
            BY <1>3, <1>7
        <3>3. QED
            BY <1>2, <1>7, <3>1, <3>2, Zenon DEF Substr
    <2>3. Emplace(a.name, a.value) /\ nameStart' = NPos /\ nameEnd' = NPos /\ valueStart' = NPos
        BY <1>2, <1>4, <2>1, <2>2, Zenon DEF ReadName
    <2>4. Emplaced(stop, i)
        BY <1>1, <1>2, <1>7, <2>1, <2>3, Zenon DEF Emplaced
    <2>5. QED
        BY <2>4, EmplacedNext
<1>8. QED
    <2>1. c < m \/ c = m
        <3>1. b < m \/ b = m
            OBVIOUS
        <3>2. QED
            BY <1>0, <3>1, Zenon
    <2>2. QED
        BY <1>5, <1>6, <1>7, <2>1, Zenon

LEMMA ScanBeforeValue ==
    ASSUME NEW first, NEW mid, NEW from, NEW stop, NEW i, NEW a,
           NEW f \in Nat, NEW m \in Nat, NEW r \in Nat, NEW z \in Nat, NEW l \in Nat,
           Reads(first, mid, from, stop, i, a, f, m, r, z, l),
           BeforeValue(first, mid, i)
    PROVE  AttributesRead(first, mid, from, stop)'
<1>1. /\ i \in 1 .. Len(given)
      /\ f = first[i] /\ m = mid[i] /\ r = from[i] /\ z = stop[i] /\ a = given[i] /\ l = Len(text)
      /\ c <= l /\ c' = c + 1 /\ given' = given /\ text' = text
      /\ 0 < f /\ f < m
      /\ (a.style = "bare" /\ a.value = << >>) \/ (a.style # "bare" /\ ValueAt(text, a, m, r, z))
      /\ a.style = "token" => r = m + 1 /\ m + 2 <= z
      /\ a.style = "quoted" => r = m + 2 /\ m + 2 <= z /\ z <= l
      /\ StartName \/ ReadName \/ StartValue \/ ReadValue
    BY Zenon DEF Reads
<1>2. /\ a.style # "bare"
      /\ nameStart = f /\ nameEnd = m /\ valueStart = NPos
      /\ c = m + 1
      /\ result = ReadSoFar(given, i - 1)
    BY <1>1, Zenon DEF BeforeValue
<1>3. f # NPos /\ m # NPos
    <2>1. 0 < f /\ f < m
        BY <1>1, Zenon
    <2>2. QED
        BY <2>1 DEF NPos
<1>4. StartValue
    BY <1>1, <1>2, <1>3, Zenon DEF StartName, ReadName, ReadValue
<1>5. ValueAt(text, a, m, r, z)
    BY <1>1, <1>2, Zenon
<1>6. valueStart' = r /\ m + 2 <= z
    <2>1. CASE a.style = "token"
        <3>1. r = m + 1 /\ m + 2 <= z
            BY <1>1, <2>1, Zenon
        <3>2. text[m + 1] # "quote"
            BY <1>5, <2>1, Zenon DEF ValueAt
        <3>3. text[c] # "quote" /\ c = r
            BY <1>2, <3>1, <3>2, Zenon
        <3>4. valueStart' = c
            BY <1>4, <3>3, Zenon DEF StartValue
        <3>5. QED
            BY <3>1, <3>3, <3>4, Zenon
    <2>2. CASE a.style = "quoted"
        <3>1. r = m + 2 /\ m + 2 <= z /\ z <= l
            BY <1>1, <2>2, Zenon
        <3>2. text[m + 1] = "quote"
            BY <1>5, <2>2, Zenon DEF ValueAt
        <3>3. m + 1 < l /\ (m + 1) + 1 = m + 2
            BY <3>1
        <3>4. text[c] = "quote" /\ c < Len(text)
            BY <1>1, <1>2, <3>2, <3>3, Zenon
        <3>5. valueStart' = c + 1
            BY <1>4, <3>4, Zenon DEF StartValue
        <3>6. QED
            BY <1>2, <3>1, <3>3, <3>5, Zenon
    <2>3. a.style = "token" \/ a.style = "quoted"
        BY <1>5, Zenon DEF ValueAt
    <2>4. QED
        BY <2>1, <2>2, <2>3
<1>7. nameStart' = f /\ nameEnd' = m /\ result' = result
    BY <1>2, <1>4 DEF StartValue
<1>8. c' \in m + 2 .. z
    <2>1. c' = (m + 1) + 1 /\ m + 2 <= z
        BY <1>1, <1>2, <1>6, Zenon
    <2>2. QED
        BY <2>1
<1>9. InValue(first, mid, from, stop, i)'
    BY <1>1, <1>2, <1>6, <1>7, <1>8, Zenon DEF InValue
<1>10. QED
    BY <1>1, <1>9 DEF AttributesRead, AttributeRead

LEMMA ScanInValue ==
    ASSUME NEW first, NEW mid, NEW from, NEW stop, NEW i, NEW a,
           NEW f \in Nat, NEW m \in Nat, NEW r \in Nat, NEW z \in Nat, NEW l \in Nat,
           Reads(first, mid, from, stop, i, a, f, m, r, z, l),
           InValue(first, mid, from, stop, i)
    PROVE  AttributesRead(first, mid, from, stop)'
<1>1. /\ i \in 1 .. Len(given)
      /\ f = first[i] /\ m = mid[i] /\ r = from[i] /\ z = stop[i] /\ a = given[i] /\ l = Len(text)
      /\ c <= l /\ c' = c + 1 /\ given' = given /\ text' = text
      /\ NameAt(text, a, f, m) /\ 0 < f /\ f < m
      /\ (a.style = "bare" /\ a.value = << >>) \/ (a.style # "bare" /\ ValueAt(text, a, m, r, z))
      /\ a.style = "token" => r = m + 1 /\ m + 2 <= z
      /\ a.style = "quoted" => r = m + 2 /\ m + 2 <= z /\ z <= l
      /\ a.style # "quoted" /\ z <= l => text[z] = ";"
      /\ StartName \/ ReadName \/ StartValue \/ ReadValue
    BY Zenon DEF Reads
<1>2. /\ a.style # "bare"
      /\ nameStart = f /\ nameEnd = m /\ valueStart = r
      /\ c \in m + 2 .. z
      /\ result = ReadSoFar(given, i - 1)
    BY <1>1, Zenon DEF InValue
<1>3. ValueAt(text, a, m, r, z) /\ (a.style = "token" \/ a.style = "quoted")
    <2>1. ValueAt(text, a, m, r, z)
        BY <1>1, <1>2, Zenon
    <2>2. QED
        BY <2>1, Zenon DEF ValueAt
<1>4. r = m + 1 \/ r = m + 2
    BY <1>1, <1>3, Zenon
<1>5. f # NPos /\ m # NPos /\ r # NPos
    <2>1. 0 < f /\ f < m
        BY <1>1, Zenon
    <2>2. QED
        BY <1>4, <2>1 DEF NPos
<1>6. ReadValue
    BY <1>1, <1>2, <1>5, Zenon DEF StartName, ReadName, StartValue
<1>7. PICK b \in m + 2 .. z : b = c /\ c' = b + 1
    BY <1>1, <1>2, Zenon
<1>8. CASE b < z
    <2>1. text[c] \notin {"quote", ";"}
        <3>1. b \in r .. z - 1
            BY <1>4, <1>8
        <3>2. QED
            BY <1>3, <1>7, <3>1, Zenon DEF ValueAt
    <2>2. UNCHANGED <<nameStart, nameEnd, valueStart, result>>
        BY <1>6, <2>1 DEF ReadValue
    <2>3. b + 1 \in m + 2 .. z
        BY <1>8
    <2>4. InValue(first, mid, from, stop, i)'
        <3>1. /\ nameStart' = f /\ nameEnd' = m /\ valueStart' = r
              /\ c' \in m + 2 .. z
              /\ result' = ReadSoFar(given', i - 1)
            BY <1>1, <1>2, <1>7, <2>2, <2>3
        <3>2. QED
            BY <1>1, <1>2, <3>1, Zenon DEF InValue
    <2>5. QED
        BY <1>1, <2>4 DEF AttributesRead, AttributeRead
<1>9. CASE b = z
    <2>1. text[c] \in {"quote", ";"}
        <3>1. CASE a.style = "token"
            <4>1. z <= l /\ a.style # "quoted"
                BY <1>1, <1>7, <1>9, <3>1
            <4>2. text[z] = ";"
                BY <1>1, <4>1, Zenon
            <4>3. QED
                BY <1>7, <1>9, <4>2
        <3>2. CASE a.style = "quoted"
            <4>1. text[z] = "quote"
                BY <1>3, <3>2 DEF ValueAt
            <4>2. QED
                BY <1>7, <1>9, <4>1
        <3>3. QED
            BY <1>3, <3>1, <3>2
    <2>2. Substr(nameStart, nameEnd) = a.name
        <3>1. SubSeq(text, f, m - 1) = a.name
            BY <1>1 DEF NameAt
        <3>2. QED
            BY <1>2, <1>5, <3>1, Zenon DEF Substr
    <2>3. Decode(Substr(valueStart, c)) = a.value
        <3>1. Decode(SubSeq(text, r, z - 1)) = a.value
            BY <1>3 DEF ValueAt
        <3>2. c # NPos /\ c = z
            <4>1. z # 0
                BY <1>9
            <4>2. QED
                BY <1>7, <1>9, <4>1 DEF NPos
        <3>3. QED
            BY <1>2, <3>1, <3>2, Zenon DEF Substr
    <2>4. Emplace(a.name, a.value) /\ nameStart' = NPos /\ nameEnd' = NPos /\ valueStart' = NPos
        BY <1>6, <2>1, <2>2, <2>3, Zenon DEF ReadValue, Forget
    <2>5. Emplaced(stop, i)
        BY <1>1, <1>2, <1>7, <1>9, <2>4, Zenon DEF Emplaced
    <2>6. QED
        BY <2>5, EmplacedNext
<1>10. QED
    <2>1. b < z \/ b = z
        OBVIOUS
    <2>2. QED
        BY <1>8, <1>9, <2>1, Zenon

LEMMA AttributesScanInv ==
    ASSUME NEW first, NEW mid, NEW from, NEW stop, NEW i \in 1 .. Len(given),
           given \in Seq(AttributeForms),
           AttributesView(text, given, first, mid, from, stop),
           AttributeRead(first, mid, from, stop, i),
           AttributesScan
    PROVE  AttributesRead(first, mid, from, stop)'
<1>1. PICK a : \E f \in Nat, m \in Nat, r \in Nat, z \in Nat, l \in Nat :
          Reading(first, mid, from, stop, i, a, f, m, r, z, l)
    BY ReadingIs
<1>2. PICK f \in Nat, m \in Nat, r \in Nat, z \in Nat, l \in Nat :
          Reading(first, mid, from, stop, i, a, f, m, r, z, l)
    BY <1>1
<1>3. Reads(first, mid, from, stop, i, a, f, m, r, z, l)
    BY <1>2, ReadsIs
<1>4. CASE BeforeName(first, i)
    BY <1>3, <1>4, ScanBeforeName
<1>5. CASE InName(first, mid, i)
    BY <1>3, <1>5, ScanInName
<1>6. CASE BeforeValue(first, mid, i)
    BY <1>3, <1>6, ScanBeforeValue
<1>7. CASE InValue(first, mid, from, stop, i)
    BY <1>3, <1>7, ScanInValue
<1>8. QED
    BY <1>4, <1>5, <1>6, <1>7, Zenon DEF AttributeRead

(***************************************************************************)
(* The end of the text is inside the last attribute, in its name if it is  *)
(* bare and in its value if it is a token.                                 *)
(***************************************************************************)
LEMMA AttributesEndInv ==
    ASSUME NEW first, NEW mid, NEW from, NEW stop, NEW i \in 1 .. Len(given),
           given \in Seq(AttributeForms),
           AttributesView(text, given, first, mid, from, stop),
           AttributeRead(first, mid, from, stop, i),
           AttributesEnd
    PROVE  AllRead'
<1>1. PICK a : \E f \in Nat, m \in Nat, r \in Nat, z \in Nat, l \in Nat :
          Reading(first, mid, from, stop, i, a, f, m, r, z, l)
    BY ReadingIs
<1>2. PICK f \in Nat, m \in Nat, r \in Nat, z \in Nat, l \in Nat :
          Reading(first, mid, from, stop, i, a, f, m, r, z, l)
    BY <1>1
<1>3. /\ a = given[i] /\ f = first[i] /\ m = mid[i] /\ r = from[i] /\ z = stop[i] /\ l = Len(text)
      /\ AttributeAt(text, a, f, m, r, z)
      /\ Place(a, f, m, r, z, l)
    BY <1>2, Zenon DEF Reading
<1>4. /\ NameAt(text, a, f, m)
      /\ (a.style = "bare" /\ a.value = << >>) \/ (a.style # "bare" /\ ValueAt(text, a, m, r, z))
    BY <1>3, Zenon DEF AttributeAt
<1>5. /\ 0 < f /\ f < m /\ m <= z /\ z <= l + 1 /\ f <= l
      /\ a.style = "bare" => z = m
      /\ a.style = "token" => r = m + 1 /\ m + 2 <= z
      /\ a.style = "quoted" => r = m + 2 /\ m + 2 <= z /\ z <= l
    BY <1>3, Zenon DEF Place
<1>6. c = l + 1 /\ c' = c + 1 /\ given' = given /\ text' = text
    BY <1>3, Zenon DEF AttributesEnd, Finish
<1>7. f # NPos /\ m # NPos
    BY <1>5 DEF NPos
<1>8. ASSUME z = l + 1 PROVE i = Len(given)
    <2>1. PICK t, attributes : t = text /\ attributes = given
        OBVIOUS
    <2>2. AttributesView(t, attributes, first, mid, from, stop) /\ Len(attributes) \in Nat
          /\ i \in 1 .. Len(attributes)
        BY <2>1, LenProperties
    <2>3. \/ /\ i = Len(attributes)
             /\ attributes[i].style = "quoted" => stop[i] = Len(t)
             /\ attributes[i].style # "quoted" => stop[i] = Len(t) + 1
          \/ /\ i + 1 \in 1 .. Len(attributes)
             /\ stop[i] < first[i + 1] /\ first[i + 1] <= Len(t) /\ first[i + 1] \in Nat
             /\ attributes[i].style # "quoted" => t[stop[i]] = ";"
             /\ \A k \in stop[i] + 1 .. first[i + 1] - 1 : t[k] \in {" ", ";"}
        BY <2>2, PlaceOfNext
    <2>4. CASE i = Len(attributes)
        BY <2>1, <2>4
    <2>5. CASE stop[i] < first[i + 1] /\ first[i + 1] <= Len(t) /\ first[i + 1] \in Nat
        <3>1. PICK g \in Nat : g = first[i + 1]
            BY <2>5
        <3>2. z < g /\ g <= l
            BY <1>3, <2>1, <2>5, <3>1, Zenon
        <3>3. FALSE
            BY <1>8, <3>2
        <3>4. QED
            BY <3>3
    <2>6. QED
        BY <2>3, <2>4, <2>5, Zenon
<1>9. ASSUME z = l + 1, result = ReadSoFar(given, i - 1), Emplace(a.name, a.value)
      PROVE  AllRead'
    <2>1. i = Len(given) /\ Len(given) \in Nat /\ i \in Nat \ {0}
        BY <1>8, <1>9, LenProperties
    <2>2. result' = ReadSoFar(given, i)
        BY <1>3, <1>9, <2>1, EmplacedIsRead
    <2>3. c' = l + 2
        BY <1>6
    <2>4. QED
        BY <1>3, <1>6, <2>1, <2>2, <2>3, Zenon DEF AllRead
<1>10. CASE BeforeName(first, i)
    <2>1. c <= f
        BY <1>3, <1>10 DEF BeforeName
    <2>2. QED
        BY <1>5, <1>6, <2>1
<1>11. CASE InName(first, mid, i)
    <2>1. /\ nameStart = f /\ nameEnd = NPos /\ valueStart = NPos /\ c \in f + 1 .. m
          /\ result = ReadSoFar(given, i - 1)
        BY <1>3, <1>11, Zenon DEF InName
    <2>2. z = l + 1 /\ m = l + 1
        <3>1. l + 1 \in f + 1 .. m
            BY <1>6, <2>1, Zenon
        <3>2. QED
            BY <1>5, <3>1
    <2>3. a.value = << >>
        <3>1. a.style = "bare" \/ a.style = "token" \/ a.style = "quoted"
            BY <1>4 DEF ValueAt
        <3>2. ~(m + 2 <= z)
            BY <2>2
        <3>3. QED
            BY <1>4, <1>5, <3>1, <3>2, Zenon
    <2>4. Substr(nameStart, NPos) = a.name
        <3>1. SubSeq(text, f, m - 1) = a.name
            BY <1>4 DEF NameAt
        <3>2. m - 1 = l
            BY <2>2
        <3>3. QED
            BY <1>3, <2>1, <3>1, <3>2, Zenon DEF Substr
    <2>5. Emplace(a.name, a.value)
        BY <1>7, <2>1, <2>3, <2>4, Zenon DEF AttributesEnd
    <2>6. QED
        BY <1>9, <2>1, <2>2, <2>5
<1>12. CASE BeforeValue(first, mid, i)
    <2>1. c = m + 1 /\ a.style # "bare"
        BY <1>3, <1>12, Zenon DEF BeforeValue
    <2>2. m = l
        <3>1. l + 1 = m + 1
            BY <1>6, <2>1, Zenon
        <3>2. QED
            BY <3>1
    <2>3. a.style = "token" \/ a.style = "quoted"
        <3>1. ValueAt(text, a, m, r, z)
            BY <1>4, <2>1, Zenon
        <3>2. QED
            BY <3>1 DEF ValueAt
    <2>4. m + 2 <= z
        BY <1>5, <2>3, Zenon
    <2>5. QED
        BY <1>5, <2>2, <2>4
<1>13. CASE InValue(first, mid, from, stop, i)
    <2>1. /\ a.style # "bare"
          /\ nameStart = f /\ nameEnd = m /\ valueStart = r
          /\ c \in m + 2 .. z
          /\ result = ReadSoFar(given, i - 1)
        BY <1>3, <1>13, Zenon DEF InValue
    <2>2. z = l + 1
        <3>1. l + 1 \in m + 2 .. z
            BY <1>6, <2>1, Zenon
        <3>2. QED
            BY <1>5, <3>1
    <2>3. ValueAt(text, a, m, r, z)
        BY <1>4, <2>1, Zenon
    <2>4. r # NPos
        <3>1. r = m + 1 \/ r = m + 2
            BY <2>3, Zenon DEF ValueAt
        <3>2. QED
            BY <3>1 DEF NPos
    <2>5. Substr(nameStart, nameEnd) = a.name
        <3>1. SubSeq(text, f, m - 1) = a.name
            BY <1>4 DEF NameAt
        <3>2. QED
            BY <1>7, <2>1, <3>1, Zenon DEF Substr
    <2>6. Decode(Substr(valueStart, NPos)) = a.value
        <3>1. Decode(SubSeq(text, r, z - 1)) = a.value
            BY <2>3 DEF ValueAt
        <3>2. z - 1 = l
            BY <2>2
        <3>3. QED
            BY <1>3, <2>1, <3>1, <3>2, Zenon DEF Substr
    <2>7. Emplace(a.name, a.value)
        BY <1>7, <2>1, <2>4, <2>5, <2>6, Zenon DEF AttributesEnd
    <2>8. QED
        BY <1>9, <2>1, <2>2, <2>7
<1>14. QED
    BY <1>10, <1>11, <1>12, <1>13, Zenon DEF AttributeRead

LEMMA NextAttributesInv == AttributesInv /\ [Next]_vars => AttributesInv'
<1> SUFFICES ASSUME AttributesInv, [Next]_vars, job' = "attributes", given' # << >>
             PROVE  /\ given' \in Seq(AttributeForms)
                    /\ \E first, mid, from, stop :
                           /\ AttributesView(text', given', first, mid, from, stop)
                           /\ AttributesRead(first, mid, from, stop)'
    BY DEF AttributesInv
<1>1. job = "attributes" /\ given' = given /\ text' = text /\ given # << >>
    BY GivenStays
<1>2. PICK first, mid, from, stop : /\ given \in Seq(AttributeForms)
                                    /\ AttributesView(text, given, first, mid, from, stop)
                                    /\ AttributesRead(first, mid, from, stop)
    BY <1>1 DEF AttributesInv
<1>3. PICK l \in Nat : l = Len(text)
    BY <1>2 DEF AttributesView
<1>4. AttributesRead(first, mid, from, stop)'
    <2>1. CASE UNCHANGED vars
        <3>1. UNCHANGED <<c, nameStart, nameEnd, valueStart, text, given, result>>
            BY <2>1 DEF vars, scan
        <3>2. UNCHANGED <<AllRead, BehindAll>>
            BY <3>1 DEF AllRead, BehindAll, NoPositions
        <3>3. ASSUME NEW i, AttributeRead(first, mid, from, stop, i)
              PROVE  AttributeRead(first, mid, from, stop, i)'
            <4>1. CASE BeforeName(first, i)
                <5>1. BeforeName(first, i)'
                    BY <3>1, <4>1 DEF BeforeName, NoPositions
                <5>2. QED
                    BY <5>1 DEF AttributeRead
            <4>2. CASE InName(first, mid, i)
                <5>1. InName(first, mid, i)'
                    BY <3>1, <4>2 DEF InName
                <5>2. QED
                    BY <5>1 DEF AttributeRead
            <4>3. CASE BeforeValue(first, mid, i)
                <5>1. BeforeValue(first, mid, i)'
                    BY <3>1, <4>3 DEF BeforeValue
                <5>2. QED
                    BY <5>1 DEF AttributeRead
            <4>4. CASE InValue(first, mid, from, stop, i)
                <5>1. InValue(first, mid, from, stop, i)'
                    BY <3>1, <4>4 DEF InValue
                <5>2. QED
                    BY <5>1 DEF AttributeRead
            <4>5. QED
                BY <3>3, <4>1, <4>2, <4>3, <4>4, Zenon DEF AttributeRead
        <3>4. QED
            BY <1>1, <1>2, <3>2, <3>3, Zenon DEF AttributesRead
    <2>2. CASE AttributesScan
        <3>1. c <= l /\ c' = c + 1
            BY <1>3, <2>2 DEF AttributesScan
        <3>2. ~AllRead
            <4>1. ~(l + 2 <= l)
                OBVIOUS
            <4>2. QED
                BY <1>3, <3>1, <4>1, Zenon DEF AllRead
        <3>3. ~BehindAll
            <4>1. ~(l + 1 <= l)
                OBVIOUS
            <4>2. QED
                BY <1>3, <3>1, <4>1, Zenon DEF BehindAll
        <3>4. PICK i \in 1 .. Len(given) : AttributeRead(first, mid, from, stop, i)
            BY <1>2, <3>2, <3>3, Zenon DEF AttributesRead
        <3>5. QED
            BY <1>2, <2>2, <3>4, AttributesScanInv
    <2>3. CASE AttributesEnd
        <3>1. c = l + 1 /\ c' = c + 1
            BY <1>3, <2>3 DEF AttributesEnd, Finish
        <3>2. ~AllRead
            <4>1. l + 2 # l + 1
                OBVIOUS
            <4>2. QED
                BY <1>3, <3>1, <4>1, Zenon DEF AllRead
        <3>3. CASE BehindAll
            <4>1. nameStart = NPos
                BY <3>3 DEF BehindAll, NoPositions
            <4>2. result' = result
                BY <2>3, <4>1, Zenon DEF AttributesEnd
            <4>3. c' = l + 2
                BY <3>1
            <4>4. AllRead'
                BY <1>1, <1>3, <3>3, <4>2, <4>3, Zenon DEF AllRead, BehindAll
            <4>5. QED
                BY <4>4 DEF AttributesRead
        <3>4. CASE \E i \in 1 .. Len(given) : AttributeRead(first, mid, from, stop, i)
            <4>1. PICK i \in 1 .. Len(given) : AttributeRead(first, mid, from, stop, i)
                BY <3>4
            <4>2. AllRead'
                BY <1>2, <2>3, <4>1, AttributesEndInv
            <4>3. QED
                BY <4>2 DEF AttributesRead
        <3>5. QED
            BY <1>2, <3>2, <3>3, <3>4, Zenon DEF AttributesRead
    <2>4. ~QueryScan /\ ~QueryEnd /\ ~ReadRequestLine /\ ~ReadHeaderLine
        BY <1>1 DEF QueryScan, QueryEnd, ReadRequestLine, ReadHeaderLine
    <2>5. QED
        BY <2>1, <2>2, <2>3, <2>4 DEF Next
<1>5. QED
    BY <1>1, <1>2, <1>4

LEMMA AttributesAreReadBack ==
    ASSUME AttributesInv, job = "attributes", given # << >>, Done
    PROVE  result = ReadSoFar(given, Len(given))
<1>1. PICK first, mid, from, stop : /\ given \in Seq(AttributeForms)
                                    /\ AttributesView(text, given, first, mid, from, stop)
                                    /\ AttributesRead(first, mid, from, stop)
    BY DEF AttributesInv
<1>2. PICK l \in Nat : l = Len(text)
    BY <1>1 DEF AttributesView
<1>3. c = l + 2
    BY <1>2 DEF Done
<1>4. ~BehindAll
    <2>1. l + 2 # l + 1
        OBVIOUS
    <2>2. QED
        BY <1>2, <1>3, <2>1, Zenon DEF BehindAll
<1>5. ASSUME NEW i \in 1 .. Len(given), AttributeRead(first, mid, from, stop, i) PROVE FALSE
    <2>1. PICK f \in Nat, m \in Nat, r \in Nat, z \in Nat, k \in Nat :
              /\ f = first[i] /\ m = mid[i] /\ r = from[i] /\ z = stop[i] /\ k = Len(text)
              /\ Place(given[i], f, m, r, z, k)
        BY <1>1, PlaceIs DEF PlaceOf
    <2>2. k = l /\ f <= l /\ m <= l + 1 /\ z <= l + 1
          /\ (given[i].style # "bare" => m + 2 <= z) /\ f < m
        <3>1. k = l
            BY <1>2, <2>1
        <3>2. 0 < f /\ f < m /\ m <= z /\ z <= l + 1 /\ f <= l
            BY <2>1, <3>1, Zenon DEF Place
        <3>3. PICK b : b = given[i].style
            OBVIOUS
        <3>4. m <= l + 1
            BY <3>2
        <3>5. given[i].style # "bare" => m + 2 <= z
            <4>1. given[i] \in AttributeForms
                BY <1>1, ElementOfSeq
            <4>2. given[i].style \in {"bare", "token", "quoted"}
                BY <4>1, AttributeFormIs
            <4>3. QED
                BY <2>1, <4>2 DEF Place
        <3>6. QED
            BY <3>1, <3>2, <3>4, <3>5, Zenon
    <2>3. c \in Nat /\ c = l + 2
        BY <1>3
    <2>4. CASE BeforeName(first, i)
        <3>1. l + 2 <= f
            BY <2>1, <2>3, <2>4, Zenon DEF BeforeName
        <3>2. QED
            BY <2>2, <3>1
    <2>5. CASE InName(first, mid, i)
        <3>1. l + 2 \in f + 1 .. m
            BY <2>1, <2>3, <2>5, Zenon DEF InName
        <3>2. QED
            BY <2>2, <3>1
    <2>6. CASE BeforeValue(first, mid, i)
        <3>1. l + 2 = m + 1 /\ m + 2 <= z
            BY <2>1, <2>2, <2>3, <2>6, Zenon DEF BeforeValue
        <3>2. QED
            BY <2>2, <3>1
    <2>7. CASE InValue(first, mid, from, stop, i)
        <3>1. l + 2 \in m + 2 .. z
            BY <2>1, <2>3, <2>7, Zenon DEF InValue
        <3>2. QED
            BY <2>2, <3>1
    <2>8. QED
        BY <1>5, <2>4, <2>5, <2>6, <2>7, Zenon DEF AttributeRead
<1>6. QED
    BY <1>1, <1>4, <1>5, Zenon DEF AttributesRead, AllRead

-----------------------------------------------------------------------------
(* The head of a request: what its lines hold *)

LEMMA FindIs ==
    ASSUME NEW s, NEW char, NEW from \in Nat, NEW p \in Nat, NEW l \in Nat, l = Len(s),
           from <= p, p <= l, s[p] = char,
           \A j \in from .. p - 1 : s[j] # char
    PROVE  Find(s, char, from) = p
<1> DEFINE at == {i \in from .. Len(s) : s[i] = char}
<1>1. p \in at
    BY SMT
<1>2. ASSUME NEW j \in at PROVE p <= j /\ j \in Nat
    <2>1. j \in from .. l /\ s[j] = char
        BY <1>2
    <2>2. ~(j \in from .. p - 1)
        BY <2>1
    <2>3. QED
        BY <2>1, <2>2
<1>3. Find(s, char, from) = IF at = {} THEN NPos ELSE CHOOSE i \in at : \A j \in at : i <= j
    BY Zenon DEF Find
<1> HIDE DEF at
<1>4. ASSUME NEW i \in at, \A j \in at : i <= j PROVE i = p
    <2>1. i <= p /\ p <= i /\ i \in Nat
        BY <1>1, <1>2, <1>4
    <2>2. QED
        BY <2>1
<1>5. \A j \in at : p <= j
    BY <1>2
<1>6. (CHOOSE i \in at : \A j \in at : i <= j) = p
    BY <1>1, <1>4, <1>5, Zenon
<1>7. QED
    BY <1>1, <1>3, <1>6, Zenon

LEMMA FindNone ==
    ASSUME NEW s, NEW char, NEW from \in Nat, NEW l \in Nat, l = Len(s),
           \A j \in from .. l : s[j] # char
    PROVE  Find(s, char, from) = NPos
<1>1. {i \in from .. Len(s) : s[i] = char} = {}
    OBVIOUS
<1>2. QED
    BY <1>1, Zenon DEF Find

(***************************************************************************)
(* A header field's value begins behind the colon and one blank.           *)
(***************************************************************************)
BlankAt(s, p, l) == l = Len(s) /\ s[p + 1] = " " /\ s[p + 2] # " "

Begins(s, p, i) == /\ \A j \in p + 1 .. i - 1 : s[j] = " "
                   /\ i >= Len(s) \/ s[i] # " "

LEMMA ValueStartIs ==
    ASSUME NEW s, NEW p \in Nat, NEW l \in Nat, p + 2 <= l, BlankAt(s, p, l)
    PROVE  ValueStart(s, p) = p + 2
<1>1. p + 2 \in p + 1 .. l + 1 /\ (p + 2) - 1 = p + 1 /\ p + 1 \in p + 1 .. p + 1
      /\ \A j \in p + 1 .. p + 1 : j = p + 1
    OBVIOUS
<1>2. Begins(s, p, p + 2)
    <2>1. \A j \in p + 1 .. (p + 2) - 1 : s[j] = " "
        BY <1>1, Zenon DEF BlankAt
    <2>2. p + 2 >= Len(s) \/ s[p + 2] # " "
        BY Zenon DEF BlankAt
    <2>3. QED
        BY <2>1, <2>2, Zenon DEF Begins
<1>3. ASSUME NEW i \in p + 1 .. l + 1, Begins(s, p, i) PROVE i = p + 2
    <2>1. CASE i = p + 1
        <3>1. s[i] = " " /\ l = Len(s)
            BY <2>1, Zenon DEF BlankAt
        <3>2. i >= l
            BY <1>3, <3>1, Zenon DEF Begins
        <3>3. FALSE
            BY <2>1, <3>2
        <3>4. QED
            BY <3>3
    <2>2. CASE i > p + 2
        <3>1. p + 2 \in p + 1 .. i - 1 /\ p + 1 \in p + 1 .. i - 1
            BY <2>2
        <3>2. s[p + 2] = " "
            BY <1>3, <3>1, Zenon DEF Begins
        <3>3. QED
            BY <3>2, Zenon DEF BlankAt
    <2>3. QED
        BY <2>1, <2>2
<1>4. ValueStart(s, p) = CHOOSE i \in p + 1 .. l + 1 : Begins(s, p, i)
    <2>1. l = Len(s)
        BY Zenon DEF BlankAt
    <2>2. QED
        BY <2>1, Zenon DEF ValueStart, Begins
<1>5. QED
    BY <1>1, <1>2, <1>3, <1>4, Zenon

LineChar == Char \cup {"CR"}

StartsWith(s, x, y) == x \in Seq(LineChar) /\ y \in Seq(LineChar) /\ Holds(s, 0, x \o y)

LEMMA StartPieces ==
    ASSUME NEW s, NEW x, NEW y, StartsWith(s, x, y)
    PROVE  /\ Len(x) \in Nat /\ Len(y) \in Nat
           /\ Len(x \o y) = Len(x) + Len(y)
           /\ Holds(s, 0, x) /\ Holds(s, Len(x), y)
<1>1. x \in Seq(LineChar) /\ y \in Seq(LineChar) /\ Holds(s, 0, x \o y)
    BY DEF StartsWith
<1>2. PICK n \in Nat : n = Len(x)
    BY <1>1, LenProperties
<1>3. n = 0 + n
    OBVIOUS
<1>4. TwoPieces(LineChar, s, 0, n, x, y)
    BY <1>1, <1>2, <1>3, Zenon DEF TwoPieces
<1>5. Len(x \o y) = Len(x) + Len(y) /\ Holds(s, 0, x) /\ Holds(s, n, y)
    BY <1>4, Pieces
<1>6. QED
    BY <1>1, <1>2, <1>5, LenProperties

LEMMA LineSigns ==
    /\ Char \subseteq LineChar
    /\ "CR" \in LineChar /\ ":" \in LineChar /\ " " \in LineChar /\ "/" \in LineChar
    /\ "?" \in LineChar /\ "HTTP" \in LineChar
    /\ "CR" # " "
BY CharIs DEF LineChar, Signs

LEMMA OneText ==
    ASSUME NEW D, NEW x \in D
    PROVE  <<x>> \in Seq(D) /\ Len(<<x>>) = 1 /\ <<x>>[1] = x
OBVIOUS

LEMMA LineTexts ==
    /\ \A char \in LineChar : <<char>> \in Seq(LineChar) /\ Len(<<char>>) = 1 /\ <<char>>[1] = char
    /\ \A x \in LineChar, y \in LineChar :
           /\ <<x, y>> \in Seq(LineChar) /\ Len(<<x, y>>) = 2
           /\ <<x, y>>[1] = x /\ <<x, y>>[2] = y
    /\ \A x \in LineChar, y \in LineChar, z \in LineChar :
           /\ <<x, y, z>> \in Seq(LineChar) /\ Len(<<x, y, z>>) = 3
           /\ <<x, y, z>>[1] = x /\ <<x, y, z>>[2] = y /\ <<x, y, z>>[3] = z
OBVIOUS

HeaderText(field) == field.name \o <<":", " ">> \o field.value \o <<"CR">>

LEMMA PartType ==
    ASSUME NEW chars, NEW s \in Without(chars)
    PROVE  s \in Seq(LineChar) /\ \A j \in 1 .. Len(s) : s[j] \notin chars
<1>1. s \in Seq(Char \ chars) /\ Char \ chars \subseteq LineChar
    BY LineSigns DEF Without
<1>2. \A j \in 1 .. Len(s) : s[j] \in Char \ chars
    BY <1>1, ElementOfSeq
<1>3. QED
    BY <1>1, <1>2, SeqMonotonic

LEMMA ValueType ==
    ASSUME NEW field \in HeaderFields
    PROVE  /\ field.name \in Without({":"})
           /\ field.value \in Seq(Char) /\ field.value \in Seq(LineChar)
           /\ field.value # << >> => field.value[1] # " "
<1>1. /\ field.name \in Without({":"})
      /\ field.value \in Seq(Char)
      /\ field.value # << >> => field.value[1] # " "
    BY DEF HeaderFields
<1>2. QED
    BY <1>1, LineSigns, SeqMonotonic

LEMMA HeaderIsThere ==
    ASSUME NEW field \in HeaderFields
    PROVE  LET s == HeaderText(field)
           IN  \E n \in Nat, k \in Nat :
                   /\ n = Len(field.name) /\ k = Len(field.value)
                   /\ Len(s) = n + k + 3
                   /\ Holds(s, 0, field.name) /\ Holds(s, n + 2, field.value)
                   /\ s[n + 1] = ":" /\ s[n + 2] = " " /\ s[n + k + 3] = "CR"
<1>1. PICK a, b, e, r, s : /\ a = field.name /\ b = field.value /\ e = <<":", " ">> /\ r = <<"CR">>
                           /\ s = HeaderText(field)
    OBVIOUS
<1>2. a \in Seq(LineChar) /\ b \in Seq(LineChar)
    BY <1>1, ValueType, PartType
<1>3. /\ e \in Seq(LineChar) /\ Len(e) = 2 /\ e[1] = ":" /\ e[2] = " "
      /\ r \in Seq(LineChar) /\ Len(r) = 1 /\ r[1] = "CR"
    <2>1. ":" \in LineChar /\ " " \in LineChar /\ "CR" \in LineChar
        BY LineSigns
    <2>2. e \in Seq(LineChar) /\ Len(e) = 2 /\ e[1] = ":" /\ e[2] = " "
        BY <1>1, <2>1, LineTexts
    <2>3. r \in Seq(LineChar) /\ Len(r) = 1 /\ r[1] = "CR"
        BY <1>1, <2>1, LineTexts
    <2>4. QED
        BY <2>2, <2>3
<1>4. PICK x \in Seq(LineChar) : x = a \o e
    BY <1>2, <1>3, ConcatProperties
<1>5. PICK y \in Seq(LineChar) : y = x \o b
    BY <1>2, <1>4, ConcatProperties
<1>6. s = y \o r
    BY <1>1, <1>4, <1>5, Zenon DEF HeaderText
<1>7. Holds(s, 0, s)
    BY DEF Holds
<1>8. Len(y) \in Nat /\ Len(s) = Len(y) + Len(r) /\ Holds(s, 0, y) /\ Holds(s, Len(y), r)
    <2>1. StartsWith(s, y, r)
        BY <1>3, <1>5, <1>6, <1>7, Zenon DEF StartsWith
    <2>2. QED
        BY <1>6, <2>1, StartPieces
<1>9. Len(x) \in Nat /\ Len(b) \in Nat /\ Len(y) = Len(x) + Len(b)
      /\ Holds(s, 0, x) /\ Holds(s, Len(x), b)
    <2>1. StartsWith(s, x, b)
        BY <1>2, <1>4, <1>5, <1>8, Zenon DEF StartsWith
    <2>2. QED
        BY <1>5, <2>1, StartPieces
<1>10. Len(a) \in Nat /\ Len(x) = Len(a) + Len(e) /\ Holds(s, 0, a) /\ Holds(s, Len(a), e)
    <2>1. StartsWith(s, a, e)
        BY <1>2, <1>3, <1>4, <1>9, Zenon DEF StartsWith
    <2>2. QED
        BY <1>4, <2>1, StartPieces
<1>11. PICK n \in Nat, k \in Nat : n = Len(a) /\ k = Len(b)
    BY <1>9, <1>10
<1>12. Len(x) = n + 2 /\ Len(y) = (n + 2) + k /\ Len(s) = ((n + 2) + k) + 1
    BY <1>3, <1>8, <1>9, <1>10, <1>11, Zenon
<1>13. s[n + 1] = ":" /\ s[n + 2] = " "
    <2>1. 1 \in 1 .. 2 /\ 2 \in 1 .. 2
        OBVIOUS
    <2>2. QED
        BY <1>3, <1>10, <1>11, <2>1, Zenon DEF Holds
<1>14. s[((n + 2) + k) + 1] = "CR"
    <2>1. 1 \in 1 .. 1
        OBVIOUS
    <2>2. QED
        BY <1>3, <1>8, <1>12, <2>1, Zenon DEF Holds
<1>15. ((n + 2) + k) + 1 = n + k + 3
    OBVIOUS
<1>16. /\ n = Len(a) /\ k = Len(b) /\ Len(s) = n + k + 3
       /\ Holds(s, 0, a) /\ Holds(s, n + 2, b)
       /\ s[n + 1] = ":" /\ s[n + 2] = " " /\ s[n + k + 3] = "CR"
    BY <1>9, <1>10, <1>11, <1>12, <1>13, <1>14, <1>15, Zenon
<1>17. QED
    BY <1>1, <1>16, Zenon

(***************************************************************************)
(* What HttpHeader::parse cuts off of the line of a field                  *)
(***************************************************************************)
FieldRead(field, s, p, l) ==
    /\ p # NPos /\ l = Len(s) /\ p + 2 <= l
    /\ Find(s, ":", 1) = p
    /\ ValueStart(s, p) = p + 2
    /\ Last(s) = "CR"
    /\ SubSeq(s, 1, p - 1) = field.name
    /\ SubSeq(s, p + 2, l - 1) = field.value

LEMMA HeaderIsRead ==
    ASSUME NEW field \in HeaderFields
    PROVE  \E p \in Nat, l \in Nat : FieldRead(field, HeaderText(field), p, l)
<1>1. PICK s : s = HeaderText(field)
    OBVIOUS
<1>2. PICK n \in Nat, k \in Nat :
          /\ n = Len(field.name) /\ k = Len(field.value)
          /\ Len(s) = n + k + 3
          /\ Holds(s, 0, field.name) /\ Holds(s, n + 2, field.value)
          /\ s[n + 1] = ":" /\ s[n + 2] = " " /\ s[n + k + 3] = "CR"
    BY <1>1, HeaderIsThere
<1>3. PICK p \in Nat, l \in Nat : p = n + 1 /\ l = n + k + 3
    OBVIOUS
<1>4. /\ 1 <= p /\ p <= l /\ p + 2 <= l /\ p + 1 = n + 2 /\ p # 0 /\ p - 1 = n /\ p + 2 = n + 3
      /\ l - 1 = (n + 2) + k /\ p + 2 = (n + 2) + 1 /\ l - 1 \in Nat /\ n + 2 \in Nat /\ n = 0 + n
      /\ \A j \in 1 .. p - 1 : j \in 1 .. n /\ 0 + j = j
      /\ k = 0 => p + 2 = l
      /\ k # 0 => 1 \in 1 .. k
    BY <1>3
<1>5. /\ field.name \in Seq(LineChar) /\ field.value \in Seq(LineChar)
      /\ field.value # << >> => field.value[1] # " "
      /\ \A j \in 1 .. Len(field.name) : field.name[j] # ":"
    BY ValueType, PartType
<1>6. \A j \in 1 .. p - 1 : s[j] # ":"
    <2>1. \A j \in 1 .. n : s[0 + j] = field.name[j]
        BY <1>2, Zenon DEF Holds
    <2>2. QED
        BY <1>2, <1>4, <1>5, <2>1, Zenon
<1>7. Find(s, ":", 1) = p
    <2>1. l = Len(s) /\ s[p] = ":"
        BY <1>2, <1>3, Zenon
    <2>2. 1 \in Nat /\ 1 <= p /\ p <= l
        BY <1>4
    <2>3. QED
        BY <1>6, <2>1, <2>2, FindIs, Zenon
<1>8. s[p + 2] # " "
    <2>1. CASE k = 0
        BY <1>2, <1>3, <1>4, <2>1, LineSigns, Zenon
    <2>2. CASE k # 0
        <3>1. s[p + 2] = field.value[1]
            BY <1>2, <1>4, <2>2, Zenon DEF Holds
        <3>2. field.value # << >>
            BY <1>2, <1>5, <2>2, EmptySeq
        <3>3. QED
            BY <1>5, <3>1, <3>2
    <2>3. QED
        BY <2>1, <2>2
<1>9. ValueStart(s, p) = p + 2
    <2>1. BlankAt(s, p, l)
        BY <1>2, <1>3, <1>4, <1>8, Zenon DEF BlankAt
    <2>2. QED
        BY <1>4, <2>1, ValueStartIs
<1>10. Last(s) = "CR"
    BY <1>2, Zenon DEF Last
<1>11. SubSeq(s, 1, p - 1) = field.name
    <2>1. PICK o \in Nat : o = 0
        OBVIOUS
    <2>2. Holds(s, o, field.name) /\ n = o + Len(field.name)
        BY <1>2, <1>4, <2>1, Zenon
    <2>3. SubSeq(s, o + 1, n) = field.name
        <3>1. PICK w \in Seq(LineChar) : w = field.name
            BY <1>5
        <3>2. n = o + Len(w) /\ Holds(s, o, w)
            BY <2>2, <3>1, Zenon
        <3>3. SubSeq(s, o + 1, n) = w
            BY <3>2, HoldsPart
        <3>4. QED
            BY <3>1, <3>3, Zenon
    <2>4. o + 1 = 1
        BY <2>1
    <2>5. QED
        BY <1>4, <2>3, <2>4, Zenon
<1>12. SubSeq(s, p + 2, l - 1) = field.value
    <2>1. PICK q \in Nat, e \in Nat : q = n + 2 /\ e = l - 1 /\ e = q + k /\ q + 1 = p + 2
        BY <1>4
    <2>2. Holds(s, q, field.value) /\ e = q + Len(field.value)
        BY <1>2, <2>1, Zenon
    <2>3. SubSeq(s, q + 1, e) = field.value
        <3>1. PICK w \in Seq(LineChar) : w = field.value
            BY <1>5
        <3>2. e = q + Len(w) /\ Holds(s, q, w)
            BY <2>2, <3>1, Zenon
        <3>3. SubSeq(s, q + 1, e) = w
            BY <3>2, HoldsPart
        <3>4. QED
            BY <3>1, <3>3, Zenon
    <2>4. QED
        BY <2>1, <2>3, Zenon
<1>13. p # NPos /\ l = Len(s)
    BY <1>2, <1>3, <1>4 DEF NPos
<1>14. FieldRead(field, s, p, l)
    BY <1>4, <1>7, <1>9, <1>10, <1>11, <1>12, <1>13, Zenon DEF FieldRead
<1>15. QED
    BY <1>1, <1>14

Marked(query) == IF query = << >> THEN << >> ELSE <<"?">> \o query

LineText(head) ==
    head.method \o <<" ">> \o head.path \o Marked(head.query)
        \o <<" ", "HTTP", "/">> \o head.version \o <<"CR">>

LEMMA EmptyText ==
    /\ << >> \in Seq(LineChar) /\ Len(<< >>) = 0
    /\ \A j \in 1 .. 0 : FALSE
OBVIOUS

LEMMA OneMore ==
    ASSUME NEW k \in Nat
    PROVE  /\ 1 + k = k + 1 /\ 1 \in 1 .. 1 /\ 1 \in 1 .. 1 + k
           /\ \A j \in 1 .. 1 + k : j \in 1 .. 1 \/ (j - 1 \in 1 .. k /\ 1 + (j - 1) = j)
           /\ \A j \in 1 .. k : 1 + j \in 1 .. 1 + k
           /\ \A j \in 1 .. 1 : j = 1
           /\ \A j \in 1 .. k, q \in Nat : (q + 1) + j = q + (1 + j)
OBVIOUS

LEMMA MarkedIs ==
    ASSUME NEW query \in Without({" "})
    PROVE  /\ Marked(query) \in Seq(LineChar)
           /\ \A j \in 1 .. Len(Marked(query)) : Marked(query)[j] # " "
           /\ query = << >> => Len(Marked(query)) = 0
           /\ query # << >> => /\ Len(Marked(query)) = Len(query) + 1 /\ Len(query) \in Nat
                               /\ \A t, q : Holds(t, q, Marked(query)) =>
                                      t[q + 1] = "?" /\ (q \in Nat => Holds(t, q + 1, query))
<1>1. query \in Seq(LineChar) /\ \A j \in 1 .. Len(query) : query[j] # " "
    BY PartType
<1>2. PICK k \in Nat : k = Len(query)
    BY <1>1, LenProperties
<1>3. CASE query = << >>
    <2>1. Marked(query) = << >>
        BY <1>3, Zenon DEF Marked
    <2>2. QED
        BY <1>3, <2>1, EmptyText, Zenon
<1>4. CASE query # << >>
    <2>1. PICK e : e = <<"?">> /\ e \in Seq(LineChar) /\ Len(e) = 1 /\ e[1] = "?"
        BY LineSigns, OneText
    <2>2. PICK w \in Seq(LineChar) : w = e \o query /\ Joins(w, e, query)
        BY <1>1, <2>1, ConcatProperties, Joined
    <2>3. Marked(query) = w
        BY <1>4, <2>1, <2>2, Zenon DEF Marked
    <2>4. /\ Len(w) = 1 + k /\ 1 + k = k + 1
          /\ \A j \in 1 .. 1 : w[j] = e[j]
          /\ \A j \in 1 .. k : w[1 + j] = query[j]
        BY <1>2, <2>1, <2>2, OneMore, Zenon DEF Joins
    <2>5. 1 \in 1 .. 1 /\ 1 \in 1 .. 1 + k
          /\ (\A j \in 1 .. 1 + k : j \in 1 .. 1 \/ (j - 1 \in 1 .. k /\ 1 + (j - 1) = j))
          /\ (\A j \in 1 .. k : 1 + j \in 1 .. 1 + k)
          /\ (\A j \in 1 .. 1 : j = 1)
        BY OneMore
    <2>6. ASSUME NEW j \in 1 .. Len(w) PROVE w[j] # " "
        <3>1. j \in 1 .. 1 + k
            BY <2>4, Zenon
        <3>2. CASE j \in 1 .. 1
            <4>1. w[j] = "?"
                BY <2>1, <2>4, <2>5, <3>2, Zenon
            <4>2. QED
                BY <4>1
        <3>3. CASE j - 1 \in 1 .. k /\ 1 + (j - 1) = j
            <4>1. w[j] = query[j - 1]
                BY <2>4, <3>3, Zenon
            <4>2. QED
                BY <1>1, <1>2, <3>3, <4>1, Zenon
        <3>4. QED
            BY <2>5, <3>1, <3>2, <3>3, Zenon
    <2>7. ASSUME NEW t, NEW q, Holds(t, q, w)
          PROVE  t[q + 1] = "?" /\ (q \in Nat => Holds(t, q + 1, query))
        <3>1. t[q + 1] = "?"
            BY <2>1, <2>4, <2>5, <2>7, Zenon DEF Holds
        <3>2. ASSUME q \in Nat, NEW j \in 1 .. k PROVE t[(q + 1) + j] = query[j]
            <4>1. (q + 1) + j = q + (1 + j)
                BY <3>2, OneMore
            <4>2. t[q + (1 + j)] = w[1 + j]
                BY <2>4, <2>5, <2>7, Zenon DEF Holds
            <4>3. QED
                BY <2>4, <4>1, <4>2, Zenon
        <3>3. QED
            BY <1>2, <3>1, <3>2, Zenon DEF Holds
    <2>8. Len(w) = Len(query) + 1 /\ Len(query) \in Nat
        BY <1>2, <2>4, Zenon
    <2>9. QED
        BY <1>4, <2>3, <2>6, <2>7, <2>8, Zenon
<1>5. QED
    BY <1>3, <1>4

LEMMA HeadType ==
    ASSUME NEW head \in HeadForms
    PROVE  /\ head.method \in Without({" "}) /\ head.path \in Without({" ", "?"})
           /\ head.query \in Without({" "}) /\ head.version \in Seq(LineChar)
           /\ head.fields \in Seq(HeaderFields)
<1>1. /\ head.method \in Without({" "}) /\ head.path \in Without({" ", "?"})
      /\ head.query \in Without({" "}) /\ head.version \in Seq(Char)
      /\ head.fields \in Seq(HeaderFields)
    BY DEF HeadForms
<1>2. QED
    BY <1>1, LineSigns, SeqMonotonic

LineAt(head, s, m, p, k, v) ==
    /\ m = Len(head.method) /\ p = Len(head.path) /\ k = Len(Marked(head.query))
    /\ v = Len(head.version)
    /\ Len(s) = m + p + k + v + 5
    /\ Holds(s, 0, head.method)
    /\ s[m + 1] = " "
    /\ Holds(s, m + 1, head.path)
    /\ Holds(s, m + 1 + p, Marked(head.query))
    /\ s[m + p + k + 2] = " "
    /\ s[m + p + k + 3] = "HTTP"
    /\ s[m + p + k + 4] = "/"
    /\ Holds(s, m + p + k + 4, head.version)

LEMMA LineIsThere ==
    ASSUME NEW head \in HeadForms
    PROVE  \E m \in Nat, p \in Nat, k \in Nat, v \in Nat : LineAt(head, LineText(head), m, p, k, v)
<1>1. PICK a, b, q, w, s, e, h, r :
          /\ a = head.method /\ b = head.path /\ q = Marked(head.query) /\ w = head.version
          /\ s = LineText(head) /\ e = <<" ">> /\ h = <<" ", "HTTP", "/">> /\ r = <<"CR">>
    OBVIOUS
<1>2. a \in Seq(LineChar) /\ b \in Seq(LineChar) /\ q \in Seq(LineChar) /\ w \in Seq(LineChar)
    BY <1>1, HeadType, PartType, MarkedIs
<1>3. /\ e \in Seq(LineChar) /\ Len(e) = 1 /\ e[1] = " "
      /\ r \in Seq(LineChar)  /\ Len(r) = 1
      /\ h \in Seq(LineChar) /\ Len(h) = 3 /\ h[1] = " " /\ h[2] = "HTTP" /\ h[3] = "/"
    <2>1. " " \in LineChar /\ "CR" \in LineChar /\ "HTTP" \in LineChar /\ "/" \in LineChar
        BY LineSigns
    <2>2. e \in Seq(LineChar) /\ Len(e) = 1 /\ e[1] = " "
        BY <1>1, <2>1, LineTexts
    <2>3. r \in Seq(LineChar) /\ Len(r) = 1
        BY <1>1, <2>1, LineTexts
    <2>4. h \in Seq(LineChar) /\ Len(h) = 3 /\ h[1] = " " /\ h[2] = "HTTP" /\ h[3] = "/"
        BY <1>1, <2>1, LineTexts
    <2>5. QED
        BY <2>2, <2>3, <2>4
<1>4. PICK x1 \in Seq(LineChar) : x1 = a \o e
    BY <1>2, <1>3, ConcatProperties
<1>5. PICK x2 \in Seq(LineChar) : x2 = x1 \o b
    BY <1>2, <1>4, ConcatProperties
<1>6. PICK x3 \in Seq(LineChar) : x3 = x2 \o q
    BY <1>2, <1>5, ConcatProperties
<1>7. PICK x4 \in Seq(LineChar) : x4 = x3 \o h
    BY <1>3, <1>6, ConcatProperties
<1>8. PICK x5 \in Seq(LineChar) : x5 = x4 \o w
    BY <1>2, <1>7, ConcatProperties
<1>9. s = x5 \o r /\ Holds(s, 0, s)
    <2>1. s = x5 \o r
        BY <1>1, <1>4, <1>5, <1>6, <1>7, <1>8, Zenon DEF LineText
    <2>2. QED
        BY <2>1 DEF Holds
<1>10. Len(s) = Len(x5) + Len(r) /\ Holds(s, 0, x5)
    <2>1. StartsWith(s, x5, r)
        BY <1>3, <1>8, <1>9, Zenon DEF StartsWith
    <2>2. QED
        BY <1>9, <2>1, StartPieces
<1>11. Len(w) \in Nat /\ Len(x5) = Len(x4) + Len(w) /\ Holds(s, 0, x4) /\ Holds(s, Len(x4), w)
    <2>1. StartsWith(s, x4, w)
        BY <1>2, <1>7, <1>8, <1>10, Zenon DEF StartsWith
    <2>2. QED
        BY <1>8, <2>1, StartPieces
<1>12. Len(x4) = Len(x3) + Len(h) /\ Holds(s, 0, x3) /\ Holds(s, Len(x3), h)
    <2>1. StartsWith(s, x3, h)
        BY <1>3, <1>6, <1>7, <1>11, Zenon DEF StartsWith
    <2>2. QED
        BY <1>7, <2>1, StartPieces
<1>13. Len(q) \in Nat /\ Len(x3) = Len(x2) + Len(q) /\ Holds(s, 0, x2) /\ Holds(s, Len(x2), q)
    <2>1. StartsWith(s, x2, q)
        BY <1>2, <1>5, <1>6, <1>12, Zenon DEF StartsWith
    <2>2. QED
        BY <1>6, <2>1, StartPieces
<1>14. Len(b) \in Nat /\ Len(x2) = Len(x1) + Len(b) /\ Holds(s, 0, x1) /\ Holds(s, Len(x1), b)
    <2>1. StartsWith(s, x1, b)
        BY <1>2, <1>4, <1>5, <1>13, Zenon DEF StartsWith
    <2>2. QED
        BY <1>5, <2>1, StartPieces
<1>15. Len(a) \in Nat /\ Len(x1) = Len(a) + Len(e) /\ Holds(s, 0, a) /\ Holds(s, Len(a), e)
    <2>1. StartsWith(s, a, e)
        BY <1>2, <1>3, <1>4, <1>14, Zenon DEF StartsWith
    <2>2. QED
        BY <1>4, <2>1, StartPieces
<1>16. PICK m \in Nat, p \in Nat, k \in Nat, v \in Nat :
           m = Len(a) /\ p = Len(b) /\ k = Len(q) /\ v = Len(w)
    BY <1>11, <1>13, <1>14, <1>15
<1>17. /\ Len(x1) = m + 1 /\ Len(x2) = (m + 1) + p /\ Len(x3) = ((m + 1) + p) + k
       /\ Len(x4) = (((m + 1) + p) + k) + 3 /\ Len(x5) = ((((m + 1) + p) + k) + 3) + v
       /\ Len(s) = (((((m + 1) + p) + k) + 3) + v) + 1
    BY <1>3, <1>10, <1>11, <1>12, <1>13, <1>14, <1>15, <1>16, Zenon
<1>18. /\ (((((m + 1) + p) + k) + 3) + v) + 1 = m + p + k + v + 5
       /\ (m + 1) + p = m + 1 + p
       /\ (((m + 1) + p) + k) + 1 = m + p + k + 2
       /\ (((m + 1) + p) + k) + 2 = m + p + k + 3
       /\ (((m + 1) + p) + k) + 3 = m + p + k + 4
       /\ 1 \in 1 .. 1 /\ 1 \in 1 .. 3 /\ 2 \in 1 .. 3 /\ 3 \in 1 .. 3
    OBVIOUS
<1>19. s[m + 1] = " "
    BY <1>3, <1>15, <1>16, <1>18, Zenon DEF Holds
<1>20. s[m + p + k + 2] = " " /\ s[m + p + k + 3] = "HTTP" /\ s[m + p + k + 4] = "/"
    <2>1. PICK z : z = ((m + 1) + p) + k
        OBVIOUS
    <2>2. s[z + 1] = h[1] /\ s[z + 2] = h[2] /\ s[z + 3] = h[3]
        BY <1>3, <1>12, <1>17, <1>18, <2>1, Zenon DEF Holds
    <2>3. QED
        BY <1>3, <1>18, <2>1, <2>2, Zenon
<1>21. Holds(s, m + 1, b) /\ Holds(s, m + 1 + p, q) /\ Holds(s, m + p + k + 4, w)
    BY <1>11, <1>13, <1>14, <1>17, <1>18, Zenon
<1>22. Len(s) = m + p + k + v + 5
    BY <1>17, <1>18, Zenon
<1>23. LineAt(head, s, m, p, k, v)
    BY <1>1, <1>15, <1>16, <1>19, <1>20, <1>21, <1>22, Zenon DEF LineAt
<1>24. QED
    BY <1>1, <1>23

LineWith(method, path, query, version) ==
    [ok |-> TRUE, method |-> method, path |-> path, query |-> query, version |-> version]

LineOf(head) == LineWith(head.method, head.path, head.query, head.version)

(***************************************************************************)
(* What stands before a position is the same in the start of a text.       *)
(***************************************************************************)
LEMMA StartOf ==
    ASSUME NEW s, NEW n \in Nat
    PROVE  Len(SubSeq(s, 1, n)) = n /\ \A j \in 1 .. n : SubSeq(s, 1, n)[j] = s[j]
<1> DEFINE D == {s[i] : i \in 1 .. n}
<1>1. \A i \in 1 .. n : s[i] \in D
    OBVIOUS
<1> HIDE DEF D
<1>2. /\ Len(SubSeq(s, 1, n)) = (IF 1 <= n THEN n - 1 + 1 ELSE 0)
      /\ \A i \in 1 .. n - 1 + 1 : SubSeq(s, 1, n)[i] = s[1 + i - 1]
    BY <1>1, SubSeqProperties
<1>3. (IF 1 <= n THEN n - 1 + 1 ELSE 0) = n /\ n - 1 + 1 = n /\ \A i \in 1 .. n : 1 + i - 1 = i
    OBVIOUS
<1>4. QED
    BY <1>2, <1>3, Zenon

(***************************************************************************)
(* A part without a sign, at its place in the line                         *)
(***************************************************************************)
LEMMA WithoutSign ==
    ASSUME NEW s, NEW w, NEW char, NEW q \in Nat, NEW n \in Nat, n = Len(w), Holds(s, q, w),
           \A j \in 1 .. Len(w) : w[j] # char
    PROVE  \A j \in q + 1 .. q + n : s[j] # char
<1>1. ASSUME NEW j \in q + 1 .. q + n PROVE s[j] # char
    <2>1. PICK i \in 1 .. n : j = q + i
        <3>1. j - q \in 1 .. n /\ j = q + (j - q)
            OBVIOUS
        <3>2. QED
            BY <3>1
    <2>2. QED
        BY <2>1, Zenon DEF Holds
<1>2. QED
    BY <1>1

LEMMA RequestLineIsRead ==
    ASSUME NEW head \in HeadForms
    PROVE  RequestLine(LineText(head)) = LineOf(head)
<1>1. PICK s : s = LineText(head)
    OBVIOUS
<1>2. PICK m \in Nat, p \in Nat, k \in Nat, v \in Nat : LineAt(head, s, m, p, k, v)
    BY <1>1, LineIsThere
<1>3. /\ m = Len(head.method) /\ p = Len(head.path) /\ k = Len(Marked(head.query))
      /\ v = Len(head.version)
      /\ Len(s) = m + p + k + v + 5
      /\ Holds(s, 0, head.method)
      /\ s[m + 1] = " "
      /\ Holds(s, m + 1, head.path)
      /\ Holds(s, m + 1 + p, Marked(head.query))
      /\ s[m + p + k + 2] = " "
      /\ s[m + p + k + 3] = "HTTP"
      /\ s[m + p + k + 4] = "/"
      /\ Holds(s, m + p + k + 4, head.version)
    BY <1>2, Zenon DEF LineAt
<1>4. PICK d \in Nat, e \in Nat, b \in Nat, l \in Nat, x \in Nat, y \in Nat, o \in Nat :
          /\ d = m + 1 /\ e = m + p + k + 2 /\ b = m + p + k + 4 /\ l = m + p + k + v + 5
          /\ x = m + 1 + p /\ y = x + k /\ o = 0
    OBVIOUS
<1>5. /\ d - 1 = m /\ o + m = m /\ o + 1 = 1
      /\ x = d + p /\ y = e - 1 /\ y + 1 = e /\ b + v = l - 1
      /\ e + 1 = m + p + k + 3 /\ b - 1 = e + 1 /\ e + 2 = b
      /\ 1 <= d /\ d <= l /\ d + 1 <= e /\ e <= l /\ e + 1 <= b /\ b <= l /\ d <= x /\ x <= y
      /\ d # 0 /\ e # 0 /\ b # 0 /\ 1 \in Nat /\ d + 1 \in Nat /\ e + 1 \in Nat
      /\ \A j \in d + 1 .. e - 1 : j \in d + 1 .. x \/ j \in x + 1 .. y
      /\ \A j \in e + 1 .. b - 1 : j = e + 1
      /\ 1 \in 1 .. 1
    BY <1>4
<1>6. /\ \A j \in 1 .. Len(head.method) : head.method[j] # " "
      /\ \A j \in 1 .. Len(head.path) : head.path[j] # " " /\ head.path[j] # "?"
      /\ \A j \in 1 .. Len(Marked(head.query)) : Marked(head.query)[j] # " "
      /\ head.method \in Seq(LineChar) /\ head.path \in Seq(LineChar)
      /\ head.query \in Seq(LineChar) /\ head.version \in Seq(LineChar)
    <2>1. head.method \in Seq(LineChar) /\ \A j \in 1 .. Len(head.method) : head.method[j] # " "
        BY HeadType, PartType
    <2>2. head.path \in Seq(LineChar)
          /\ \A j \in 1 .. Len(head.path) : head.path[j] # " " /\ head.path[j] # "?"
        BY HeadType, PartType
    <2>3. head.query \in Seq(LineChar)
          /\ \A j \in 1 .. Len(Marked(head.query)) : Marked(head.query)[j] # " "
        BY HeadType, PartType, MarkedIs
    <2>4. QED
        BY <2>1, <2>2, <2>3, HeadType, Zenon
<1>7. /\ \A j \in o + 1 .. o + m : s[j] # " "
      /\ \A j \in d + 1 .. d + p : s[j] # " "
      /\ \A j \in d + 1 .. d + p : s[j] # "?"
      /\ \A j \in x + 1 .. x + k : s[j] # " "
    <2>1. Holds(s, o, head.method) /\ Holds(s, d, head.path) /\ Holds(s, x, Marked(head.query))
        BY <1>3, <1>4, Zenon
    <2>2. \A j \in o + 1 .. o + m : s[j] # " "
        <3>1. PICK w : w = head.method
            OBVIOUS
        <3>2. m = Len(w) /\ Holds(s, o, w) /\ \A j \in 1 .. Len(w) : w[j] # " "
            BY <1>3, <1>6, <2>1, <3>1, Zenon
        <3>3. QED
            BY <3>2, WithoutSign
    <2>3. /\ \A j \in d + 1 .. d + p : s[j] # " "
          /\ \A j \in d + 1 .. d + p : s[j] # "?"
        <3>1. PICK w : w = head.path
            OBVIOUS
        <3>2. p = Len(w) /\ Holds(s, d, w) /\ (\A j \in 1 .. Len(w) : w[j] # " ")
              /\ \A j \in 1 .. Len(w) : w[j] # "?"
            BY <1>3, <1>6, <2>1, <3>1, Zenon
        <3>3. QED
            BY <3>2, WithoutSign
    <2>4. \A j \in x + 1 .. x + k : s[j] # " "
        <3>1. PICK w : w = Marked(head.query)
            OBVIOUS
        <3>2. k = Len(w) /\ Holds(s, x, w) /\ \A j \in 1 .. Len(w) : w[j] # " "
            BY <1>3, <1>6, <2>1, <3>1, Zenon
        <3>3. QED
            BY <3>2, WithoutSign
    <2>5. QED
        BY <2>2, <2>3, <2>4
<1>8. l = Len(s) /\ s[d] = " " /\ s[e] = " " /\ s[b] = "/" /\ s[e + 1] = "HTTP"
    BY <1>3, <1>4, <1>5, Zenon
<1>9. Find(s, " ", 1) = d
    <2>1. \A j \in 1 .. d - 1 : s[j] # " "
        BY <1>5, <1>7, Zenon
    <2>2. l = Len(s) /\ s[d] = " " /\ 1 \in Nat /\ 1 <= d /\ d <= l
        BY <1>5, <1>8, Zenon
    <2>3. QED
        BY <2>1, <2>2, FindIs, Zenon
<1>10. Find(s, " ", d + 1) = e
    <2>1. \A j \in d + 1 .. e - 1 : s[j] # " "
        BY <1>4, <1>5, <1>7, Zenon
    <2>2. l = Len(s) /\ s[e] = " " /\ d + 1 \in Nat /\ d + 1 <= e /\ e <= l
        BY <1>5, <1>8, Zenon
    <2>3. QED
        BY <2>1, <2>2, FindIs, Zenon
<1>11. Find(s, "/", e + 1) = b
    <2>1. \A j \in e + 1 .. b - 1 : s[j] # "/"
        <3>1. "HTTP" # "/"
            OBVIOUS
        <3>2. QED
            BY <1>5, <1>8, <3>1, Zenon
    <2>2. l = Len(s) /\ s[b] = "/" /\ e + 1 \in Nat /\ e + 1 <= b /\ b <= l
        BY <1>5, <1>8, Zenon
    <2>3. QED
        BY <2>1, <2>2, FindIs, Zenon
<1>12. SubSeq(s, e + 1, b - 1) = <<"HTTP">>
    <2>1. PICK w \in Seq(LineChar) : w = <<"HTTP">> /\ Len(w) = 1 /\ w[1] = "HTTP"
        BY LineSigns, OneText
    <2>2. Holds(s, e, w)
        <3>1. \A j \in 1 .. 1 : j = 1
            OBVIOUS
        <3>2. QED
            BY <1>8, <2>1, <3>1, Zenon DEF Holds
    <2>3. PICK z \in Nat : z = e + 1
        BY <1>5
    <2>4. z = e + Len(w)
        BY <2>1, <2>3, Zenon
    <2>5. SubSeq(s, e + 1, z) = w
        BY <2>2, <2>4, HoldsPart
    <2>6. QED
        BY <1>5, <2>1, <2>3, <2>5, Zenon
<1>13. SubSeq(s, 1, d - 1) = head.method
    <2>1. PICK w \in Seq(LineChar) : w = head.method
        BY <1>6
    <2>2. m = o + Len(w) /\ Holds(s, o, w)
        BY <1>3, <1>4, <1>5, <2>1, Zenon
    <2>3. SubSeq(s, o + 1, m) = w
        BY <2>2, HoldsPart
    <2>4. QED
        BY <1>5, <2>1, <2>3, Zenon
<1>14. SubSeq(s, d + 1, x) = head.path
    <2>1. PICK w \in Seq(LineChar) : w = head.path
        BY <1>6
    <2>2. x = d + Len(w) /\ Holds(s, d, w)
        BY <1>3, <1>4, <1>5, <2>1, Zenon
    <2>3. SubSeq(s, d + 1, x) = w
        BY <2>2, HoldsPart
    <2>4. QED
        BY <2>1, <2>3, Zenon
<1>15. SubSeq(s, b + 1, l - 1) = head.version
    <2>1. PICK w \in Seq(LineChar) : w = head.version
        BY <1>6
    <2>2. PICK z \in Nat : z = b + v /\ z = l - 1
        BY <1>5
    <2>3. z = b + Len(w) /\ Holds(s, b, w)
        BY <1>3, <1>4, <2>1, <2>2, Zenon
    <2>4. SubSeq(s, b + 1, z) = w
        BY <2>3, HoldsPart
    <2>5. QED
        BY <2>1, <2>2, <2>4, Zenon
<1>16. PICK u : u = SubSeq(s, 1, e - 1) /\ Len(u) = y /\ \A j \in 1 .. y : u[j] = s[j]
    <2>1. Len(SubSeq(s, 1, y)) = y /\ \A j \in 1 .. y : SubSeq(s, 1, y)[j] = s[j]
        BY StartOf
    <2>2. QED
        BY <1>5, <2>1
<1>17. \A j \in d + 1 .. x : j \in 1 .. y
    BY <1>5
<1>18. PICK mark : mark = Find(u, "?", d + 1)
    OBVIOUS
<1>19. /\ SubSeq(s, d + 1, (IF mark = NPos THEN e ELSE mark) - 1) = head.path
       /\ (IF mark = NPos THEN << >> ELSE SubSeq(s, mark + 1, e - 1)) = head.query
    <2>1. CASE head.query = << >>
        <3>1. k = 0
            BY <1>3, <2>1, HeadType, MarkedIs
        <3>2. y = x /\ e - 1 = x
            BY <1>4, <1>5, <3>1
        <3>3. \A j \in d + 1 .. y : u[j] # "?"
            BY <1>5, <1>7, <1>16, <1>17, <3>2, Zenon
        <3>4. mark = NPos
            <4>1. y = Len(u) /\ d + 1 \in Nat
                BY <1>5, <1>16, Zenon
            <4>2. QED
                BY <1>18, <3>3, <4>1, FindNone, Zenon
        <3>5. QED
            BY <1>14, <2>1, <3>2, <3>4, Zenon
    <2>2. CASE head.query # << >>
        <3>1. PICK n \in Nat : n = Len(head.query) /\ k = n + 1
              /\ s[x + 1] = "?" /\ Holds(s, x + 1, head.query)
            <4>1. Holds(s, x, Marked(head.query)) /\ x \in Nat
                BY <1>3, <1>4, Zenon
            <4>2. /\ Len(Marked(head.query)) = Len(head.query) + 1 /\ Len(head.query) \in Nat
                  /\ \A t, q : Holds(t, q, Marked(head.query)) =>
                         t[q + 1] = "?" /\ (q \in Nat => Holds(t, q + 1, head.query))
                BY <2>2, HeadType, MarkedIs, Zenon
            <4>3. QED
                BY <1>3, <4>1, <4>2, Zenon
        <3>2. PICK g \in Nat : g = x + 1
            OBVIOUS
        <3>3. /\ d + 1 <= g /\ g <= y /\ g - 1 = x /\ e - 1 = g + n /\ g # 0 /\ g \in 1 .. y
              /\ \A j \in d + 1 .. g - 1 : j \in d + 1 .. x
            <4>1. k = n + 1
                BY <3>1
            <4>2. y = x + k /\ y = e - 1 /\ d <= x
                BY <1>4, <1>5, Zenon
            <4>3. QED
                BY <3>2, <4>1, <4>2
        <3>4. mark = g
            <4>1. \A j \in d + 1 .. g - 1 : u[j] # "?"
                BY <1>5, <1>7, <1>16, <1>17, <3>3, Zenon
            <4>2. u[g] = "?" /\ y = Len(u) /\ d + 1 \in Nat
                BY <1>5, <1>16, <3>1, <3>2, <3>3, Zenon
            <4>3. QED
                BY <1>18, <3>3, <4>1, <4>2, FindIs, Zenon
        <3>5. SubSeq(s, g + 1, e - 1) = head.query
            <4>1. PICK w \in Seq(LineChar) : w = head.query
                BY <1>6
            <4>2. PICK z \in Nat : z = g + n /\ z = e - 1
                BY <3>3
            <4>3. z = g + Len(w) /\ Holds(s, g, w)
                BY <3>1, <3>2, <4>1, <4>2, Zenon
            <4>4. SubSeq(s, g + 1, z) = w
                BY <4>3, HoldsPart
            <4>5. QED
                BY <4>1, <4>2, <4>4, Zenon
        <3>6. mark # NPos
            BY <3>3, <3>4 DEF NPos
        <3>7. QED
            BY <1>14, <3>3, <3>4, <3>5, <3>6, Zenon
    <2>3. QED
        BY <2>1, <2>2
<1>20. d # NPos /\ e # NPos /\ b # NPos
    BY <1>5 DEF NPos
<1>21. RequestLine(s) = LineWith(SubSeq(s, 1, d - 1),
                                 SubSeq(s, d + 1, (IF mark = NPos THEN e ELSE mark) - 1),
                                 IF mark = NPos THEN << >> ELSE SubSeq(s, mark + 1, e - 1),
                                 SubSeq(s, b + 1, l - 1))
    BY <1>8, <1>9, <1>10, <1>11, <1>12, <1>16, <1>18, <1>20, Zenon DEF RequestLine, LineWith
<1>22. QED
    BY <1>1, <1>13, <1>15, <1>19, <1>21, Zenon DEF LineOf

-----------------------------------------------------------------------------
(* A head is read as it was written. *)

(***************************************************************************)
(* The lines that are left once the first k fields are read                *)
(***************************************************************************)
Remains(head, k, ls) ==
    /\ k \in Nat /\ Len(head.fields) \in Nat /\ k <= Len(head.fields)
    /\ ls \in Seq(Seq(LineChar))
    /\ Len(ls) = (Len(head.fields) - k) + 1
    /\ \A j \in 1 .. Len(head.fields) - k : ls[j] = HeaderText(head.fields[k + j])
    /\ ls[(Len(head.fields) - k) + 1] = <<"CR">>

HeadIsRead ==
    /\ line = LineOf(given) /\ line # NoLine
    /\ \/ \E k \in Nat : Remains(given, k, lines) /\ result = ReadSoFar(given.fields, k)
       \/ lines = << >> /\ result = ReadSoFar(given.fields, Len(given.fields))

HeadIsGiven ==
    /\ line = NoLine /\ result = << >>
    /\ lines # << >> /\ lines \in Seq(Seq(LineChar))
    /\ Head(lines) = LineText(given)
    /\ Remains(given, 0, Tail(lines))

HeadInv ==
    job = "head" /\ given # << >> => given \in HeadForms /\ (HeadIsGiven \/ HeadIsRead)

LEMMA HeadOf ==
    ASSUME NEW D, NEW s \in Seq(D), s # << >>
    PROVE  Head(s) = s[1] /\ Len(Tail(s)) = Len(s) - 1 /\ Tail(s) \in Seq(D) /\ Len(s) \in Nat \ {0}
           /\ \A j \in 1 .. Len(s) - 1 : Tail(s)[j] = s[j + 1]
<1>1. Head(s) = s[1]
    OBVIOUS
<1>2. /\ Tail(s) \in Seq(D) /\ Len(Tail(s)) = Len(s) - 1
      /\ \A j \in 1 .. Len(Tail(s)) : Tail(s)[j] = s[j + 1]
    BY HeadTailProperties
<1>3. Len(s) \in Nat \ {0}
    BY LenProperties, EmptySeq
<1>4. QED
    BY <1>1, <1>2, <1>3

LEMMA HeaderTextType ==
    ASSUME NEW field \in HeaderFields
    PROVE  HeaderText(field) \in Seq(LineChar)
<1>1. PICK a \in Seq(LineChar), b \in Seq(LineChar) : a = field.name /\ b = field.value
    BY ValueType, PartType
<1>2. PICK e \in Seq(LineChar), r \in Seq(LineChar) : e = <<":", " ">> /\ r = <<"CR">>
    <2>1. ":" \in LineChar /\ " " \in LineChar /\ "CR" \in LineChar
        BY LineSigns
    <2>2. <<":", " ">> \in Seq(LineChar) /\ <<"CR">> \in Seq(LineChar)
        BY <2>1, LineTexts, Zenon
    <2>3. QED
        BY <2>2
<1>3. PICK x \in Seq(LineChar) : x = a \o e
    BY ConcatProperties
<1>4. PICK y \in Seq(LineChar) : y = x \o b
    BY ConcatProperties
<1>5. y \o r \in Seq(LineChar)
    BY ConcatProperties
<1>6. QED
    BY <1>1, <1>2, <1>3, <1>4, <1>5, Zenon DEF HeaderText

LEMMA LineTextType ==
    ASSUME NEW head \in HeadForms
    PROVE  LineText(head) \in Seq(LineChar)
<1>1. PICK a \in Seq(LineChar), b \in Seq(LineChar), q \in Seq(LineChar), w \in Seq(LineChar) :
          a = head.method /\ b = head.path /\ q = Marked(head.query) /\ w = head.version
    BY HeadType, PartType, MarkedIs
<1>2. PICK e \in Seq(LineChar), h \in Seq(LineChar), r \in Seq(LineChar) :
          e = <<" ">> /\ h = <<" ", "HTTP", "/">> /\ r = <<"CR">>
    <2>1. " " \in LineChar /\ "CR" \in LineChar /\ "HTTP" \in LineChar /\ "/" \in LineChar
        BY LineSigns
    <2>2. <<" ">> \in Seq(LineChar) /\ <<" ", "HTTP", "/">> \in Seq(LineChar)
          /\ <<"CR">> \in Seq(LineChar)
        BY <2>1, LineTexts, Zenon
    <2>3. QED
        BY <2>2
<1>3. PICK x1 \in Seq(LineChar) : x1 = a \o e
    BY ConcatProperties
<1>4. PICK x2 \in Seq(LineChar) : x2 = x1 \o b
    BY ConcatProperties
<1>5. PICK x3 \in Seq(LineChar) : x3 = x2 \o q
    BY ConcatProperties
<1>6. PICK x4 \in Seq(LineChar) : x4 = x3 \o h
    BY ConcatProperties
<1>7. PICK x5 \in Seq(LineChar) : x5 = x4 \o w
    BY ConcatProperties
<1>8. x5 \o r \in Seq(LineChar)
    BY ConcatProperties
<1>9. QED
    BY <1>1, <1>2, <1>3, <1>4, <1>5, <1>6, <1>7, <1>8, Zenon DEF LineText

LEMMA HeadIsWritten ==
    ASSUME NEW head \in HeadForms, NEW ls, ls = WriteHead(head)
    PROVE  /\ ls # << >> /\ ls \in Seq(Seq(LineChar))
           /\ Head(ls) = LineText(head)
           /\ Remains(head, 0, Tail(ls))
<1>1. PICK fields : fields = head.fields /\ fields \in Seq(HeaderFields)
    BY HeadType
<1>2. PICK n \in Nat : n = Len(fields)
    BY <1>1, LenProperties
<1>3. \A i \in 1 .. n : HeaderText(fields[i]) \in Seq(LineChar)
    BY <1>1, <1>2, ElementOfSeq, HeaderTextType
<1>4. PICK f : f = [i \in 1 .. n |-> HeaderText(fields[i])]
    OBVIOUS
<1>5. f \in Seq(Seq(LineChar)) /\ Len(f) = n /\ \A i \in 1 .. n : f[i] = HeaderText(fields[i])
    BY <1>3, <1>4
<1>6. PICK x \in Seq(LineChar) : x = LineText(head)
    BY LineTextType
<1>7. PICK y \in Seq(LineChar) : y = <<"CR">>
    <2>1. "CR" \in LineChar
        BY LineSigns
    <2>2. QED
        BY <2>1, LineTexts, Zenon
<1>8. PICK a \in Seq(Seq(LineChar)) : a = <<x>> /\ Len(a) = 1 /\ a[1] = x
    BY OneText, Zenon
<1>9. PICK b \in Seq(Seq(LineChar)) : b = <<y>> /\ Len(b) = 1 /\ b[1] = y
    BY OneText, Zenon
<1>10. PICK g \in Seq(Seq(LineChar)) : g = a \o f /\ Joins(g, a, f)
    BY <1>5, ConcatProperties, Joined
<1>11. PICK h \in Seq(Seq(LineChar)) : h = g \o b /\ Joins(h, g, b)
    BY ConcatProperties, Joined
<1>12. h = ls
    <2>1. WriteHead(head) = <<LineText(head)>> \o f \o << <<"CR">> >>
        BY <1>1, <1>2, <1>4, Zenon DEF WriteHead, LineText, Marked, HeaderText
    <2>2. QED
        BY <1>6, <1>7, <1>8, <1>9, <1>10, <1>11, <2>1, Zenon
<1>13. /\ Len(g) = 1 + n
       /\ g[1] = x
       /\ \A i \in 1 .. n : g[1 + i] = HeaderText(fields[i])
    <2>1. 1 \in 1 .. 1
        OBVIOUS
    <2>2. QED
        BY <1>5, <1>8, <1>10, <2>1, Zenon DEF Joins
<1>14. /\ Len(h) = (1 + n) + 1
       /\ \A i \in 1 .. 1 + n : h[i] = g[i]
       /\ h[(1 + n) + 1] = y
    <2>1. 1 \in 1 .. 1
        OBVIOUS
    <2>2. QED
        BY <1>9, <1>11, <1>13, <2>1, Zenon DEF Joins
<1>15. /\ (1 + n) + 1 # 0 /\ ((1 + n) + 1) - 1 = n + 1 /\ 1 \in 1 .. 1 + n
       /\ \A j \in 1 .. n : j + 1 = 1 + j /\ 1 + j \in 1 .. 1 + n /\ j \in 1 .. n + 1 /\ 0 + j = j
       /\ n + 1 \in 1 .. n + 1 /\ (n + 1) + 1 = (1 + n) + 1
       /\ n - 0 = n /\ 0 \in Nat /\ 0 <= n
    OBVIOUS
<1>16. h # << >>
    <2>1. Len(h) # 0
        BY <1>14, <1>15, Zenon
    <2>2. QED
        BY <2>1, EmptySeq
<1>17. /\ Head(h) = h[1] /\ Len(Tail(h)) = Len(h) - 1 /\ Tail(h) \in Seq(Seq(LineChar))
       /\ \A j \in 1 .. Len(h) - 1 : Tail(h)[j] = h[j + 1]
    BY <1>16, HeadOf
<1>18. PICK t : t = Tail(h)
    OBVIOUS
<1>19. /\ Len(t) = n + 1 /\ t \in Seq(Seq(LineChar))
       /\ \A j \in 1 .. n : t[j] = HeaderText(fields[0 + j])
       /\ t[n + 1] = y
    <2>1. /\ Len(t) = n + 1 /\ \A j \in 1 .. n + 1 : t[j] = h[j + 1]
        BY <1>14, <1>15, <1>17, <1>18, Zenon
    <2>2. t[n + 1] = y
        <3>1. t[n + 1] = h[(n + 1) + 1] /\ (n + 1) + 1 = (1 + n) + 1
            BY <1>15, <2>1, Zenon
        <3>2. QED
            BY <1>14, <3>1
    <2>3. ASSUME NEW j \in 1 .. n PROVE t[j] = HeaderText(fields[0 + j])
        <3>1. j + 1 = 1 + j /\ 1 + j \in 1 .. 1 + n /\ j \in 1 .. n + 1 /\ 0 + j = j
            BY <1>15, Zenon
        <3>2. t[j] = h[j + 1] /\ h[1 + j] = g[1 + j] /\ g[1 + j] = HeaderText(fields[j])
            BY <1>13, <1>14, <2>1, <3>1, Zenon
        <3>3. QED
            BY <3>1, <3>2
    <2>4. QED
        BY <1>17, <1>18, <2>1, <2>2, <2>3, Zenon
<1>20. Remains(head, 0, t)
    BY <1>1, <1>2, <1>7, <1>15, <1>19, Zenon DEF Remains
<1>21. Head(h) = LineText(head)
    BY <1>6, <1>13, <1>14, <1>15, <1>17, Zenon
<1>22. QED
    BY <1>12, <1>16, <1>18, <1>20, <1>21, Zenon

LEMMA InitHeadInv == Init => HeadInv
<1> SUFFICES ASSUME Init, job = "head", given # << >>
             PROVE  given \in HeadForms /\ (HeadIsGiven \/ HeadIsRead)
    BY DEF HeadInv
<1>1. given \in Heads /\ lines = WriteHead(given)
    BY DEF Init
<1>2. given \in HeadForms
    BY <1>1, FormsAssumption
<1>3. line = NoLine /\ result = << >>
    BY DEF Init
<1>4. PICK head \in HeadForms : head = given
    BY <1>2
<1>5. PICK ls : ls = lines /\ ls = WriteHead(head)
    BY <1>1, <1>4
<1>6. /\ ls # << >> /\ ls \in Seq(Seq(LineChar))
      /\ Head(ls) = LineText(head)
      /\ Remains(head, 0, Tail(ls))
    BY <1>5, HeadIsWritten
<1>7. HeadIsGiven
    BY <1>3, <1>4, <1>5, <1>6, Zenon DEF HeadIsGiven
<1>8. QED
    BY <1>2, <1>7

LEMMA LineIsNot ==
    ASSUME NEW head
    PROVE  LineOf(head).ok = TRUE /\ LineOf(head) # NoLine
<1>1. LineOf(head).ok = TRUE
    BY DEF LineOf, LineWith
<1>2. "ok" \in DOMAIN LineOf(head)
    BY DEF LineOf, LineWith
<1>3. DOMAIN << >> = {}
    OBVIOUS
<1>4. QED
    BY <1>1, <1>2, <1>3 DEF NoLine

LEMMA ReadRequestLineInv ==
    ASSUME given \in HeadForms, HeadIsGiven, ReadRequestLine
    PROVE  HeadIsRead'
<1>1. PICK head \in HeadForms : head = given
    OBVIOUS
<1>2. /\ result = << >> /\ Head(lines) = LineText(head)
      /\ Remains(head, 0, Tail(lines))
    BY <1>1, Zenon DEF HeadIsGiven
<1>3. /\ line' = RequestLine(Head(lines))
      /\ lines' = IF line'.ok THEN Tail(lines) ELSE << >>
      /\ given' = given /\ result' = result
    BY DEF ReadRequestLine
<1>4. line' = LineOf(head)
    BY <1>2, <1>3, RequestLineIsRead, Zenon
<1>5. lines' = Tail(lines)
    <2>1. line'.ok = TRUE
        BY <1>4, LineIsNot, Zenon
    <2>2. QED
        BY <1>3, <2>1, Zenon
<1>6. ReadSoFar(given.fields, 0) = << >>
    <2>1. ReadSoFar(given.fields, 0) = [j \in 1 .. 0 |-> Field(given.fields[j].name, given.fields[j].value)]
        BY DEF ReadSoFar
    <2>2. QED
        BY <2>1
<1>7. result' = ReadSoFar(given'.fields, 0) /\ Remains(given', 0, lines') /\ 0 \in Nat
    BY <1>1, <1>2, <1>3, <1>5, <1>6
<1>8. line' = LineOf(given') /\ line' # NoLine
    BY <1>1, <1>3, <1>4, LineIsNot, Zenon
<1>9. QED
    BY <1>7, <1>8, Zenon DEF HeadIsRead

(***************************************************************************)
(* What ReadHeaderLine does with the line s                                *)
(***************************************************************************)
Took(s, colon, value) ==
    \/ /\ colon = NPos
       /\ lines' = << >>
       /\ UNCHANGED result
    \/ /\ colon # NPos
       /\ lines' = Tail(lines)
       /\ IF value <= Len(s)
          THEN Emplace(SubSeq(s, 1, colon - 1),
                       SubSeq(s, value, IF Last(s) = "CR" THEN Len(s) - 1 ELSE Len(s)))
          ELSE UNCHANGED result

LEMMA ReadHeaderLineInv ==
    ASSUME given \in HeadForms, HeadIsRead, ReadHeaderLine
    PROVE  HeadIsRead'
<1>1. PICK head \in HeadForms : head = given
    OBVIOUS
<1>2. PICK fields : fields = head.fields /\ fields \in Seq(HeaderFields)
    BY HeadType
<1>3. PICK n \in Nat : n = Len(fields)
    BY <1>2, LenProperties
<1>4. lines # << >> /\ given' = given /\ line' = line
    BY DEF ReadHeaderLine
<1>5. PICK k \in Nat : Remains(head, k, lines) /\ result = ReadSoFar(fields, k)
    BY <1>1, <1>2, <1>4, Zenon DEF HeadIsRead
<1>6. line = LineOf(given) /\ line # NoLine
    BY DEF HeadIsRead
<1>7. PICK ls \in Seq(Seq(LineChar)) : ls = lines
    BY <1>5 DEF Remains
<1>8. PICK s : s = Head(lines)
    OBVIOUS
<1>9. Took(s, Find(s, ":", 1), ValueStart(s, Find(s, ":", 1)))
    BY <1>8, Zenon DEF ReadHeaderLine, Took
<1>10. /\ k <= n /\ Len(ls) = (n - k) + 1
       /\ \A j \in 1 .. n - k : ls[j] = HeaderText(fields[k + j])
       /\ ls[(n - k) + 1] = <<"CR">>
    BY <1>2, <1>3, <1>5, <1>7, Zenon DEF Remains
<1>11. /\ Head(ls) = ls[1] /\ Len(Tail(ls)) = Len(ls) - 1 /\ Tail(ls) \in Seq(Seq(LineChar))
       /\ \A j \in 1 .. Len(ls) - 1 : Tail(ls)[j] = ls[j + 1]
    BY <1>4, <1>7, HeadOf
<1>12. CASE k = n
    <2>1. (n - k) + 1 = 1
        BY <1>12
    <2>2. s = <<"CR">>
        BY <1>7, <1>8, <1>10, <1>11, <2>1, Zenon
    <2>3. Find(s, ":", 1) = NPos
        <3>1. PICK o \in Nat : o = 1
            OBVIOUS
        <3>2. "CR" # ":" /\ "CR" \in LineChar
            BY LineSigns
        <3>3. o = Len(s) /\ s[1] = "CR"
            BY <2>2, <3>1, <3>2, LineTexts, Zenon
        <3>4. \A j \in 1 .. o : j = 1
            BY <3>1
        <3>5. \A j \in 1 .. o : s[j] # ":"
            BY <3>2, <3>3, <3>4, Zenon
        <3>6. 1 \in Nat
            OBVIOUS
        <3>7. QED
            BY <3>3, <3>5, <3>6, FindNone, Zenon
    <2>4. lines' = << >> /\ result' = result
        BY <1>9, <2>3, Zenon DEF Took
    <2>5. lines' = << >> /\ result' = ReadSoFar(given'.fields, Len(given'.fields))
        BY <1>1, <1>2, <1>3, <1>4, <1>5, <1>12, <2>4, Zenon
    <2>6. QED
        BY <1>4, <1>6, <2>5, Zenon DEF HeadIsRead
<1>13. CASE k # n
    <2>1. /\ 1 \in 1 .. n - k /\ k + 1 \in 1 .. n /\ k + 1 \in Nat \ {0} /\ k + 1 <= n
          /\ (k + 1) - 1 = k
          /\ ((n - k) + 1) - 1 = (n - (k + 1)) + 1
          /\ (n - (k + 1)) + 1 = n - k
          /\ \A j \in 1 .. n - (k + 1) : /\ j \in 1 .. (n - (k + 1)) + 1
                                         /\ j + 1 \in 1 .. n - k
                                         /\ k + (j + 1) = (k + 1) + j
          /\ (n - (k + 1)) + 1 \in 1 .. (n - (k + 1)) + 1
        <3>1. k < n
            BY <1>10, <1>13
        <3>2. QED
            BY <3>1
    <2>2. PICK field \in HeaderFields : field = fields[k + 1]
        BY <1>2, <1>3, <2>1, ElementOfSeq
    <2>3. s = HeaderText(field)
        BY <1>7, <1>8, <1>10, <1>11, <2>1, <2>2, Zenon
    <2>4. PICK p \in Nat, l \in Nat : FieldRead(field, s, p, l)
        BY <2>3, HeaderIsRead
    <2>5. /\ p # NPos /\ l = Len(s) /\ p + 2 <= l
          /\ Find(s, ":", 1) = p
          /\ ValueStart(s, p) = p + 2
          /\ Last(s) = "CR"
          /\ SubSeq(s, 1, p - 1) = field.name
          /\ SubSeq(s, p + 2, l - 1) = field.value
        BY <2>4, Zenon DEF FieldRead
    <2>6. Took(s, p, p + 2)
        BY <1>9, <2>5, Zenon
    <2>7. lines' = Tail(lines) /\ Emplace(field.name, field.value)
        BY <2>5, <2>6, Zenon DEF Took
    <2>8. result' = ReadSoFar(fields, k + 1)
        <3>1. result = ReadSoFar(fields, (k + 1) - 1)
            BY <1>5, <2>1, Zenon
        <3>2. result' = Append(result, Field(fields[k + 1].name, fields[k + 1].value))
            BY <2>2, <2>7, Zenon DEF Emplace
        <3>3. QED
            BY <2>1, <3>1, <3>2, ReadOneMore
    <2>9. PICK t : t = Tail(ls)
        OBVIOUS
    <2>10. /\ t \in Seq(Seq(LineChar)) /\ Len(t) = (n - (k + 1)) + 1
           /\ \A j \in 1 .. n - (k + 1) : t[j] = HeaderText(fields[(k + 1) + j])
           /\ t[(n - (k + 1)) + 1] = <<"CR">>
        <3>1. t \in Seq(Seq(LineChar)) /\ Len(t) = (n - (k + 1)) + 1
              /\ \A j \in 1 .. (n - (k + 1)) + 1 : t[j] = ls[j + 1]
            BY <1>10, <1>11, <2>1, <2>9, Zenon
        <3>2. ASSUME NEW j \in 1 .. n - (k + 1) PROVE t[j] = HeaderText(fields[(k + 1) + j])
            <4>1. j \in 1 .. (n - (k + 1)) + 1 /\ j + 1 \in 1 .. n - k /\ k + (j + 1) = (k + 1) + j
                BY <2>1, Zenon
            <4>2. t[j] = ls[j + 1] /\ ls[j + 1] = HeaderText(fields[k + (j + 1)])
                BY <1>10, <3>1, <4>1, Zenon
            <4>3. QED
                BY <4>1, <4>2, Zenon
        <3>3. t[(n - (k + 1)) + 1] = ls[((n - (k + 1)) + 1) + 1]
            BY <2>1, <3>1, Zenon
        <3>4. ls[((n - (k + 1)) + 1) + 1] = <<"CR">>
            BY <1>10, <2>1, Zenon
        <3>5. QED
            BY <3>1, <3>2, <3>3, <3>4, Zenon
    <2>11. Remains(head, k + 1, t)
        <3>1. k + 1 \in Nat
            BY <2>1
        <3>2. QED
            BY <1>2, <1>3, <2>1, <2>10, <3>1, Zenon DEF Remains
    <2>12. Remains(given', k + 1, lines') /\ result' = ReadSoFar(given'.fields, k + 1) /\ k + 1 \in Nat
        BY <1>1, <1>2, <1>4, <1>7, <2>1, <2>7, <2>8, <2>9, <2>11
    <2>13. QED
        BY <1>4, <1>6, <2>12, Zenon DEF HeadIsRead
<1>14. QED
    BY <1>12, <1>13

LEMMA NextHeadInv == HeadInv /\ [Next]_vars => HeadInv'
<1> SUFFICES ASSUME HeadInv, [Next]_vars, job' = "head", given' # << >>
             PROVE  given' \in HeadForms /\ (HeadIsGiven' \/ HeadIsRead')
    BY DEF HeadInv
<1>1. job = "head" /\ given' = given /\ given # << >>
    BY GivenStays
<1>2. given \in HeadForms /\ (HeadIsGiven \/ HeadIsRead)
    BY <1>1 DEF HeadInv
<1>3. CASE UNCHANGED vars
    <2>1. UNCHANGED <<given, line, lines, result>>
        BY <1>3 DEF vars, scan
    <2>2. UNCHANGED <<HeadIsGiven, HeadIsRead>>
        BY <2>1 DEF HeadIsGiven, HeadIsRead
    <2>3. QED
        BY <1>1, <1>2, <2>2
<1>4. CASE ReadRequestLine
    <2>1. line = NoLine
        BY <1>4 DEF ReadRequestLine
    <2>2. HeadIsGiven
        BY <1>2, <2>1 DEF HeadIsRead
    <2>3. HeadIsRead'
        BY <1>2, <1>4, <2>2, ReadRequestLineInv
    <2>4. QED
        BY <1>1, <1>2, <2>3
<1>5. CASE ReadHeaderLine
    <2>1. line # NoLine
        BY <1>5 DEF ReadHeaderLine
    <2>2. HeadIsRead
        BY <1>2, <2>1 DEF HeadIsGiven
    <2>3. HeadIsRead'
        BY <1>2, <1>5, <2>2, ReadHeaderLineInv
    <2>4. QED
        BY <1>1, <1>2, <2>3
<1>6. ~QueryScan /\ ~QueryEnd /\ ~AttributesScan /\ ~AttributesEnd
    BY <1>1 DEF QueryScan, QueryEnd, AttributesScan, AttributesEnd
<1>7. QED
    BY <1>3, <1>4, <1>5, <1>6 DEF Next

LEMMA HeadIsReadBack ==
    ASSUME HeadInv, job = "head", given # << >>, Done
    PROVE  line = LineOf(given) /\ result = given.fields
<1>1. line # NoLine /\ lines = << >>
    BY DEF Done
<1>2. given \in HeadForms /\ HeadIsRead
    BY <1>1 DEF HeadInv, HeadIsGiven
<1>3. PICK fields : fields = given.fields /\ fields \in Seq(HeaderFields)
    BY <1>2, HeadType
<1>4. ASSUME NEW k \in Nat, Remains(given, k, lines) PROVE FALSE
    <2>1. PICK n \in Nat : n = Len(fields)
        BY <1>3, LenProperties
    <2>2. k <= n /\ Len(lines) = (n - k) + 1
        BY <1>3, <1>4, <2>1, Zenon DEF Remains
    <2>3. (n - k) + 1 # 0
        BY <2>2
    <2>4. Len(<< >>) = 0
        OBVIOUS
    <2>5. QED
        BY <1>1, <2>2, <2>3, <2>4, Zenon
<1>5. line = LineOf(given) /\ result = ReadSoFar(fields, Len(fields))
    BY <1>2, <1>3, <1>4, Zenon DEF HeadIsRead
<1>6. ReadSoFar(fields, Len(fields)) = fields
    <2>1. PICK n \in Nat : n = Len(fields)
        BY <1>3, LenProperties
    <2>2. ASSUME NEW j \in 1 .. n PROVE Field(fields[j].name, fields[j].value) = fields[j]
        <3>1. fields[j] \in HeaderFields
            BY <1>3, <2>1, ElementOfSeq
        <3>2. QED
            BY <3>1 DEF HeaderFields, Field
    <2>3. fields = [j \in 1 .. n |-> fields[j]]
        BY <1>3, <2>1
    <2>4. ReadSoFar(fields, n) = [j \in 1 .. n |-> fields[j]]
        BY <2>2, Zenon DEF ReadSoFar
    <2>5. QED
        BY <2>1, <2>3, <2>4, Zenon
<1>7. QED
    BY <1>3, <1>5, <1>6

JobType == job \in {"query", "attributes", "head"}

(***************************************************************************)
(* Whatever is written is read back, for fields, attributes and heads of   *)
(* any number and length that keep to FormsAssumption: QueryString::parse  *)
(* after QueryString::create, SemicolonSeparatedAttributes::parse, and     *)
(* RequestMessage::parse with HttpHeader::parse.                           *)
(***************************************************************************)
THEOREM WhatIsWrittenIsReadBack == Spec => []ReadBack
<1>1. Init => QueryInv /\ AttributesInv /\ HeadInv
    BY InitQueryInv, InitAttributesInv, InitHeadInv
<1>2. QueryInv /\ AttributesInv /\ HeadInv /\ [Next]_vars => QueryInv' /\ AttributesInv' /\ HeadInv'
    BY NextQueryInv, NextAttributesInv, NextHeadInv
<1>3. JobType /\ QueryInv /\ AttributesInv /\ HeadInv => ReadBack
    <2> SUFFICES ASSUME JobType, QueryInv, AttributesInv, HeadInv, Done, given # << >>
                 PROVE  IF job = "head"
                        THEN /\ line = [ok |-> TRUE, method |-> given.method, path |-> given.path,
                                        query |-> given.query, version |-> given.version]
                             /\ result = given.fields
                        ELSE result = [i \in 1 .. Len(given) |-> Field(given[i].name, given[i].value)]
        BY DEF ReadBack
    <2>1. CASE job = "query"
        <3>1. result = ReadSoFar(given, Len(given))
            BY <2>1, QueryIsReadBack
        <3>2. job # "head"
            BY <2>1
        <3>3. QED
            BY <3>1, <3>2, Zenon DEF ReadSoFar
    <2>2. CASE job = "attributes"
        <3>1. result = ReadSoFar(given, Len(given))
            BY <2>2, AttributesAreReadBack
        <3>2. job # "head"
            BY <2>2
        <3>3. QED
            BY <3>1, <3>2, Zenon DEF ReadSoFar
    <2>3. CASE job = "head"
        <3>1. line = LineOf(given) /\ result = given.fields
            BY <2>3, HeadIsReadBack
        <3>2. QED
            BY <2>3, <3>1, Zenon DEF LineOf, LineWith
    <2>4. QED
        BY <2>1, <2>2, <2>3 DEF JobType
<1>4. Init => JobType
    BY DEF Init, JobType
<1>5. JobType /\ [Next]_vars => JobType'
    BY GivenStays DEF JobType
<1>6. QED
    BY <1>1, <1>2, <1>3, <1>4, <1>5, PTL DEF Spec

=============================================================================
