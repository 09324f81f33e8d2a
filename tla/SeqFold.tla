------------------------------ MODULE SeqFold -------------------------------
(***************************************************************************)
(* Folding a sequence from the left with a step that is a function, from   *)
(* the result so far to a function of the next element.  The community     *)
(* modules fold with operators, about which the provers can be told        *)
(* nothing.                                                                *)
(***************************************************************************)
EXTENDS Naturals, Sequences

(* base, then step[the result so far][s[i]] for each i                     *)
Fold(step, base, s) ==
    LET f[i \in 0 .. Len(s)] == IF i = 0 THEN base ELSE step[f[i - 1]][s[i]]
    IN  f[Len(s)]
=============================================================================
