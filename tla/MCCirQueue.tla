---------------------------- MODULE MCCirQueue -----------------------------
(* A small instance of CirQueue.  Items stay ordinary model values: a FIFO *)
(* that swapped two entries must be told from one that did not.            *)
EXTENDS CirQueue

CONSTANTS p1, p2, c1, c2, x, y
=============================================================================
