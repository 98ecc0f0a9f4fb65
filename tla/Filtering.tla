----------------------------- MODULE Filtering ------------------------------
(* What filter() of JavaScript and a comprehension of Python make of a list:  *)
(* the entries at the positions of a set, in their order.  Like SelectSeq,    *)
(* but first-order, so that it can be reasoned about.                         *)
EXTENDS Integers, Sequences

Filtered(s, positions) ==
    LET upto[n \in 0 .. Len(s)] ==
            IF n = 0 THEN << >>
            ELSE IF n \in positions THEN Append(upto[n - 1], s[n]) ELSE upto[n - 1]
    IN  upto[Len(s)]
=============================================================================
