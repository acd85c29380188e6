-------------------------------- MODULE Scans --------------------------------
(***************************************************************************)
(* What is found in a sequence that is gone through from left to right.    *)
(* They are written as recursive functions, not with SelectSeq and FoldSeq,*)
(* so that ScanProofs can state what they return.                          *)
(***************************************************************************)
EXTENDS Integers, Sequences

(***************************************************************************)
(* The positions of the elements of s that are in S, in ascending order    *)
(***************************************************************************)
Positions(s, S) ==
    LET upto[i \in 0 .. Len(s)] ==
            IF i = 0 THEN << >>
            ELSE IF s[i] \in S THEN Append(upto[i - 1], i)
            ELSE upto[i - 1]
    IN  upto[Len(s)]

(***************************************************************************)
(* Those elements themselves                                               *)
(***************************************************************************)
Only(s, S) ==
    LET at == Positions(s, S)
    IN  [k \in 1 .. Len(at) |-> s[at[k]]]

(***************************************************************************)
(* The sum of a sequence of numbers                                        *)
(***************************************************************************)
Total(s) ==
    LET upto[i \in 0 .. Len(s)] == IF i = 0 THEN 0 ELSE upto[i - 1] + s[i]
    IN  upto[Len(s)]
=============================================================================
