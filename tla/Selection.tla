------------------------------ MODULE Selection ------------------------------
(***************************************************************************)
(* The elements of a sequence that are in a set, in their order.  SelectSeq *)
(* takes a test; this takes a set and is written as a recursive function,  *)
(* so that theorems can be proved about it.                                *)
(***************************************************************************)
EXTENDS Integers, Sequences

\* The selection from every beginning of s.
Selections(s, K) ==
  LET f[i \in 0..Len(s)] ==
        IF i = 0 THEN <<>>
        ELSE IF s[i] \in K THEN Append(f[i - 1], s[i]) ELSE f[i - 1]
  IN  f

Selected(s, K) == Selections(s, K)[Len(s)]

=============================================================================
