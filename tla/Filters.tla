------------------------------- MODULE Filters -------------------------------
(***************************************************************************)
(* Filtering a sequence by a set, where the code iterates over a list and  *)
(* keeps what a set it holds does not contain.                             *)
(***************************************************************************)
EXTENDS Integers, Sequences

\* The elements of s that are not in T, in their order.
Without(s, T) ==
    LET kept[i \in 0..Len(s)] ==
            IF i = 0 THEN <<>>
            ELSE IF s[i] \in T THEN kept[i - 1] ELSE Append(kept[i - 1], s[i])
    IN kept[Len(s)]
==============================================================================
