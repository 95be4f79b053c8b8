------------------------------- MODULE Lists -------------------------------
(***************************************************************************)
(* Filtering a list, as a recursive function on its prefixes.  It is       *)
(* SelectSeq for a set of elements: the provers cannot reason about an     *)
(* operator that takes an operator.  The lemmas about it are in ListFacts. *)
(***************************************************************************)
EXTENDS Naturals, Sequences

\* The elements of s that are in keep, in their order.
Only(s, keep) ==
  LET upTo[i \in 0 .. Len(s)] ==
        IF i = 0 THEN <<>>
        ELSE IF s[i] \in keep THEN Append(upTo[i - 1], s[i]) ELSE upTo[i - 1]
  IN upTo[Len(s)]
=============================================================================
