----------------------------- MODULE Filtering -----------------------------
(* What a loop that appends the members it keeps makes of a slice.  The same *)
(* as SelectSeq, as a recursive function, which can be proved about.         *)
EXTENDS Naturals, Sequences

Kept(s, S) ==
  LET upTo[n \in 0..Len(s)] ==
        IF n = 0 THEN <<>>
        ELSE IF s[n] \in S THEN Append(upTo[n - 1], s[n]) ELSE upTo[n - 1]
  IN upTo[Len(s)]
=============================================================================
