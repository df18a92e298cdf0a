-------------------------------- MODULE Sums --------------------------------
(* The running sums of a sequence of numbers: SumsUpTo(w)[j] is that of its *)
(* first j.                                                                 *)
EXTENDS Integers, Sequences

SumsUpTo(w) ==
  LET upto[j \in 0 .. Len(w)] == IF j = 0 THEN 0 ELSE upto[j - 1] + w[j]
  IN  upto

Total(w) == SumsUpTo(w)[Len(w)]
=============================================================================
