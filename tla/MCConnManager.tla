---------------------------- MODULE MCConnManager ----------------------------
(* Model-checking instance of ConnManager: one or two concurrent callers. *)
EXTENDS ConnManager

CONSTANTS g1, g2

MCOneCaller == {g1}
MCTwoCallers == {g1, g2}

=============================================================================
