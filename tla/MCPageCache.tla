---------------------------- MODULE MCPageCache ----------------------------
(* Instances of PageCache for TLC: two chapters of one page each. *)
EXTENDS PageCache

CONSTANTS a, b, a1, b1

MCChapterOf == [k \in {a1, b1} |-> IF k = a1 THEN a ELSE b]

=============================================================================
