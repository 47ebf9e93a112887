----------------------------- MODULE Transform -----------------------------
(***************************************************************************)
(* ListTransFormDirThread of src/pokafile/pokafsntobase.c: FSN files with  *)
(* Poka's records of 1749 bytes become files with standard records of 1644 *)
(* bytes in the directory the uploading route reads.  The format is told   *)
(* from the length of the file alone.                                      *)
(***************************************************************************)
EXTENDS ForwardDirs

VARIABLES trClaimed, trUnpacked,       (* see ZipInPlace                    *)
          trErrored,                   (* names in the error directory      *)
          trPlace, trFile, trTodo      (* place, df, rest of the scan       *)

trVars == <<trClaimed, trUnpacked, trErrored, trPlace, trFile, trTodo>>

TrZip == INSTANCE ZipInPlace WITH dir <- transDir, claimed <- trClaimed,
         unpacked <- trUnpacked, place <- trPlace, file <- trFile, todo <- trTodo

TrInit ==
  /\ trPlace = "sleep" /\ trFile = NoFile /\ trTodo = {} /\ trUnpacked = {}
  /\ trClaimed = {} /\ trErrored = {}

TrKilled == /\ trPlace' = "sleep" /\ trFile' = NoFile /\ trTodo' = {} /\ trUnpacked' = {}
            /\ UNCHANGED <<trClaimed, trErrored>>

FILE_HEAD_SIZE == 32
STANDARD_ONE_RECORD_SIZE == 1644
ONE_RECORD_SIZE == 1749

(* The length of a file of a format: what is neither has bytes left over.  *)
FileSize(f) ==
  FILE_HEAD_SIZE + IF Format[f] = "poka" THEN Records[f] * ONE_RECORD_SIZE
                   ELSE Records[f] * STANDARD_ONE_RECORD_SIZE + IF Format[f] = "odd" THEN 1 ELSE 0

checkFileSize(fsize) ==
  LET records == fsize - FILE_HEAD_SIZE
  IN  IF records % STANDARD_ONE_RECORD_SIZE = 0 THEN 0
      ELSE IF records % ONE_RECORD_SIZE = 0 THEN 1 ELSE -1

Converted(c) == IF c = "poka" THEN "whole" ELSE "garbled"

OpenTransDir ==
  /\ trPlace = "sleep" /\ trPlace' = "scan"
  /\ trTodo' = {f \in Names(transDir) : Known(f)}
  /\ NoMishap
  /\ UNCHANGED <<dirVars, trClaimed, trUnpacked, trErrored, trFile, delivered>>

(* moveTransFSNFile: a standard file goes as it is, a file of neither      *)
(* length to the error directory.  One that cannot be moved stays.         *)
MoveTransFSNFile(f) ==
  LET size == checkFileSize(FileSize(f))
  IN  /\ trPlace = "scan" /\ f \in trTodo \ Zips /\ size # 1
      /\ trTodo' = trTodo \ {f}
      /\ \/ /\ NoMishap
            /\ transDir' = Without(transDir, {f})
            /\ IF size = 0
               THEN ready' = [ready EXCEPT ![f] = transDir[f]] /\ UNCHANGED trErrored
               ELSE trErrored' = trErrored \cup {f} /\ UNCHANGED ready
         \/ Mishap("move", {}) /\ UNCHANGED <<transDir, ready, trErrored>>
      /\ UNCHANGED <<switchDir, tmp, trClaimed, trUnpacked, trPlace, trFile, delivered>>

(* transFsnFile writes f.tmp record by record, renames it and removes the  *)
(* source.  What it cannot write or rename it deletes, and tries again.    *)
TransStarts(f) ==
  /\ trPlace = "scan" /\ f \in trTodo \ Zips
  /\ checkFileSize(FileSize(f)) = 1
  /\ trPlace' = "write" /\ trFile' = f /\ trTodo' = trTodo \ {f}
  /\ tmp' = [tmp EXCEPT ![f] = "part"]
  /\ NoMishap
  /\ UNCHANGED <<switchDir, transDir, ready, trClaimed, trUnpacked, trErrored, delivered>>

TransEnds ==
  /\ trPlace = "write"
  /\ \/ /\ NoMishap /\ trPlace' = "rename"
        /\ tmp' = [tmp EXCEPT ![trFile] = Converted(transDir[trFile])]
     \/ /\ Mishap("write", {}) /\ trPlace' = "scan"
        /\ tmp' = Without(tmp, {trFile})
  /\ UNCHANGED <<switchDir, transDir, ready, trClaimed, trUnpacked, trErrored, trFile,
                 trTodo, delivered>>

RenameConverted ==
  /\ trPlace = "rename"
  /\ \/ /\ NoMishap /\ trPlace' = "remove"
        /\ ready' = [ready EXCEPT ![trFile] = tmp[trFile]]
     \/ Mishap("move", {}) /\ trPlace' = "scan" /\ UNCHANGED ready
  /\ tmp' = Without(tmp, {trFile})
  /\ UNCHANGED <<switchDir, transDir, trClaimed, trUnpacked, trErrored, trFile, trTodo,
                 delivered>>

(* The last step: a kill before it has the file converted again.           *)
RemoveSource ==
  /\ trPlace = "remove" /\ trPlace' = "scan"
  /\ transDir' = Without(transDir, {trFile})
  /\ NoMishap
  /\ UNCHANGED <<switchDir, ready, tmp, trClaimed, trUnpacked, trErrored, trFile, trTodo,
                 delivered>>

CloseTransDir ==
  /\ trPlace = "scan" /\ trTodo = {} /\ trPlace' = "sleep"
  /\ NoMishap
  /\ UNCHANGED <<dirVars, trClaimed, trUnpacked, trErrored, trFile, trTodo, delivered>>

ListTransFormDirThread ==
  \/ OpenTransDir \/ TransEnds \/ RenameConverted \/ RemoveSource \/ CloseTransDir
  \/ \E f \in Files : MoveTransFSNFile(f) \/ TransStarts(f)
  \/ /\ TrZip!ZIPFile \/ \E z \in Zips : TrZip!StartFile(z)
     /\ UNCHANGED <<switchDir, ready, tmp, trErrored>>
=============================================================================
