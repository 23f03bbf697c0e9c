----------------------------- MODULE Selection -----------------------------
(***************************************************************************)
(* SelectSeq with a set for the test, and FoldLeft with a function, as     *)
(* recursive functions: proofs cannot look into SelectSeq and FoldLeft.    *)
(***************************************************************************)
EXTENDS Integers, Sequences

(* What the first i elements of s leave, for each i. *)
Selections(s, S) ==
  LET F[i \in 0 .. Len(s)] ==
        IF i = 0 THEN <<>> ELSE IF s[i] \in S THEN Append(F[i - 1], s[i]) ELSE F[i - 1]
  IN F

(* The elements of s that are in S, in their order. *)
Select(s, S) == Selections(s, S)[Len(s)]

(* The results of applying f, a function of pairs, to s and the elements   *)
(* of ts one after another, and the last of them.                          *)
Folds(f, s, ts) ==
  LET F[i \in 0 .. Len(ts)] == IF i = 0 THEN s ELSE f[<<F[i - 1], ts[i]>>]
  IN F
Fold(f, s, ts) == Folds(f, s, ts)[Len(ts)]
=============================================================================
