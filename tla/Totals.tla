-------------------------------- MODULE Totals --------------------------------
(***************************************************************************)
(* The total of a sequence of numbers, as a recursive function: what it is *)
(* of longer sequences can be proved.                                      *)
(***************************************************************************)
EXTENDS Naturals, Sequences

\* The totals of the prefixes of s, by their lengths.
Totals(s) == LET total[i \in 0..Len(s)] == IF i = 0 THEN 0 ELSE total[i - 1] + s[i]
             IN  total

Total(s) == Totals(s)[Len(s)]
===============================================================================
