----------------------------- MODULE ZipInPlace ----------------------------
(***************************************************************************)
(* ZIPFile as SwitchFileThread and ListTransFormDirThread call it: a zip is*)
(* claimed as <name>.START, unpacked into a directory of its own, and its  *)
(* files are moved beside it.  The result goes nowhere: a zip that could   *)
(* not be unpacked keeps its .START name, which neither thread looks at    *)
(* again, and CoverFiles restores the insert directory only.  What is left *)
(* of the directory it was unpacked to is not modelled.                    *)
(***************************************************************************)
EXTENDS ForwardDirs

VARIABLES dir,        (* the directory the zip came to                      *)
          claimed,    (* zips with a .START name                            *)
          unpacked,   (* files inside the directory it is unpacked to       *)
          place, file, todo      (* the thread: place, df, rest of its scan *)

StartFile(z) ==
  /\ place = "scan" /\ z \in todo \cap Zips
  /\ todo' = todo \ {z}
  /\ \/ /\ NoMishap
        /\ dir' = Without(dir, {z})
        /\ claimed' = claimed \cup {z}
        /\ place' = "unzip" /\ file' = z
     \/ /\ Mishap("move", {})
        /\ UNCHANGED <<dir, claimed, place, file>>
  /\ UNCHANGED <<unpacked, delivered>>

(* Only a directory that is missing altogether is noticed.                 *)
Unzip ==
  /\ place = "unzip"
  /\ \/ /\ NoMishap
        /\ unpacked' = Inside[file] /\ place' = "unpack"
     \/ \E S \in SUBSET Inside[file] :
          /\ Mishap("unzip", Inside[file] \ S)
          /\ unpacked' = S /\ place' = "unpack"
     \/ /\ Mishap("unzip", Inside[file])
        /\ unpacked' = {} /\ place' = "scan"
  /\ UNCHANGED <<dir, claimed, file, todo, delivered>>

MoveOut ==
  /\ place = "unpack" /\ place' = "rmdir"
  /\ \E S \in SUBSET unpacked :
       /\ IF S = unpacked THEN NoMishap ELSE Mishap("move", {})
       /\ dir' = [f \in Files |-> IF f \in S THEN Format[f] ELSE dir[f]]
       /\ delivered' = delivered \cup S
       /\ unpacked' = unpacked \ S
  /\ UNCHANGED <<claimed, file, todo>>

(* CheckDirEmpty; the directory goes, and the zip if it was empty.         *)
RemoveZip ==
  /\ place = "rmdir" /\ place' = "scan"
  /\ claimed' = IF unpacked = {} THEN claimed \ {file} ELSE claimed
  /\ unpacked' = {}
  /\ NoMishap
  /\ UNCHANGED <<dir, file, todo, delivered>>

ZIPFile == Unzip \/ MoveOut \/ RemoveZip
=============================================================================
