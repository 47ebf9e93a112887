---------------------------- MODULE MCSupervisor ---------------------------
(* A small instance of Supervisor: programs may be started three at a time.*)
EXTENDS Supervisor

CONSTANTS p1, p2, p3, d1, d2, lister, switch
=============================================================================
