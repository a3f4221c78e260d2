--------------------------- MODULE SequenceFilter ---------------------------
(***************************************************************************)
(* Array.prototype.filter, as the queues of this program use it: what is in *)
(* a set stays, in its order.                                               *)
(***************************************************************************)
EXTENDS Naturals, Sequences

\* the elements of s that are in T
Only(s, T) ==
  LET kept[n \in 0 .. Len(s)] ==
        IF n = 0 THEN <<>>
        ELSE IF s[n] \in T THEN Append(kept[n - 1], s[n]) ELSE kept[n - 1]
  IN kept[Len(s)]
=============================================================================
