----------------------------- MODULE AtomicLoad -----------------------------
(***************************************************************************)
(* What loading a file promises: a file is claimed, its rows get into the  *)
(* database all together or not at all and only while it is claimed, and it*)
(* is put into the handled directory only when they are there.             *)
(***************************************************************************)
EXTENDS Naturals

CONSTANTS Files,     (* file names                                          *)
          RowsOf     (* RowsOf[f]: the rows of f that the database accepts  *)

VARIABLES place,     (* "in", "claimed", "handled" or "errored"             *)
          table      (* how often each row is in the database               *)

AllRows == UNION {RowsOf[f] : f \in Files}

Init ==
  /\ place = [f \in Files |-> "in"]
  /\ table = [r \in AllRows |-> 0]

Claim(f) ==
  /\ place[f] = "in"
  /\ place' = [place EXCEPT ![f] = "claimed"]
  /\ UNCHANGED table

Store(f) ==
  /\ place[f] = "claimed"
  /\ table' = [r \in AllRows |-> IF r \in RowsOf[f] THEN table[r] + 1 ELSE table[r]]
  /\ UNCHANGED place

Handle(f) ==
  /\ place[f] = "claimed"
  /\ \A r \in RowsOf[f] : table[r] > 0
  /\ place' = [place EXCEPT ![f] = "handled"]
  /\ UNCHANGED table

PutAside(f) ==
  /\ place[f] = "claimed"
  /\ place' = [place EXCEPT ![f] = "errored"]
  /\ UNCHANGED table

(* One file after a load that failed, or all at a restart.                 *)
GiveBack ==
  /\ \E S \in SUBSET {f \in Files : place[f] = "claimed"} :
       place' = [f \in Files |-> IF f \in S THEN "in" ELSE place[f]]
  /\ UNCHANGED table

Next ==
  \/ GiveBack
  \/ \E f \in Files : Claim(f) \/ Store(f) \/ Handle(f) \/ PutAside(f)

AtomicSpec == Init /\ [][Next]_<<place, table>>
=============================================================================
