--------------------------- MODULE MCLocalDbTabs ---------------------------
(* Instances of LocalDbTabs for TLC. *)
EXTENDS LocalDbTabs, TLC

CONSTANTS t1, t2

(* Two events of one millisecond, the second one page further. *)
MCEvents ==
    {[timestamp |-> 1, pageIndex |-> p, readPercent |-> 50, completed |-> FALSE] :
        p \in {1, 2}}

(* One tab writes twice, the other once. *)
TwoAndOne == (t1 :> 2) @@ (t2 :> 1)

OneEach == (t1 :> 1) @@ (t2 :> 1)

=============================================================================
