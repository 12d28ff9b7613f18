---- MODULE Selections ----
(***************************************************************************)
(* Array.prototype.filter and its likes, with a recursive function where   *)
(* SelectSeq would take an operator: what it leaves can be reasoned about. *)
(***************************************************************************)
EXTENDS Naturals, Sequences

\* The elements of q that are not in S, in their order.
Without(q, S) ==
  LET rest[i \in 0..Len(q)] ==
        IF i = 0 THEN <<>>
        ELSE IF q[i] \in S THEN rest[i - 1] ELSE Append(rest[i - 1], q[i])
  IN rest[Len(q)]
====
