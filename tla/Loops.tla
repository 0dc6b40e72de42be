------------------------------- MODULE Loops -------------------------------
(***************************************************************************)
(* The loops of the tree, which follow links from node to node.  A         *)
(* loop is given by what one turn of it makes of its state; a loop that    *)
(* has ended stays where it is.                                            *)
(***************************************************************************)
EXTENDS Naturals

\* n turns of a loop, from x on
Steps(step, x, n) ==
    LET at[i \in 0..n] == IF i = 0 THEN x ELSE step[at[i - 1]]
    IN  at[n]
=============================================================================
