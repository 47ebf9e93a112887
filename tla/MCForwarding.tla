---------------------------- MODULE MCForwarding ---------------------------
(* Small instances of Forwarding: three FSN files, one, or a zip with one  *)
(* inside in the switch directory; a standard, a Poka and an odd file or a *)
(* zip to convert; a file to be downloaded.                                *)
EXTENDS Forwarding

CONSTANTS a, b, c, zip, in, poka, odd

MCKind    == [f \in Files |-> IF f = zip THEN "zip" ELSE "fsn"]
MCInside  == [f \in Files |-> IF f = zip THEN {in} ELSE {}]
MCFormat  == [f \in Files |-> CASE f = poka -> "poka" [] f = odd -> "odd" [] OTHER -> "whole"]
(* 547 is the most with which Poka's length is not a standard one too.     *)
MCRecords == [f \in Files |-> IF f = poka THEN 547 ELSE 583]

Coming(entrance, files, most) ==
  [entrance |-> entrance, files |-> files, faults |-> FaultKinds, mishaps |-> most]

MCBatches ==
  {Coming("switch", {a, b, c}, 0), Coming("switch", {a, b}, 1), Coming("switch", {a}, 2),
   Coming("switch", {zip, in}, 2),
   Coming("trans", {a, poka, odd}, 1), Coming("trans", {poka}, 2), Coming("trans", {zip, in}, 1),
   Coming("bank", {a}, 1)}
=============================================================================
