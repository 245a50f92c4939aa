----------------------------- MODULE Selection ------------------------------
(* What the jrtp library picks of a list by walking through it.              *)
EXTENDS Naturals, Sequences

(* The members of a list that are in a set, in their order, one by one *)
PickedUpTo(list, T) ==
  LET at[n \in 0 .. Len(list)] ==
        IF n = 0 THEN << >>
        ELSE IF list[n] \in T THEN Append(at[n - 1], list[n]) ELSE at[n - 1]
  IN at

Picked(list, T) == PickedUpTo(list, T)[Len(list)]
=============================================================================
