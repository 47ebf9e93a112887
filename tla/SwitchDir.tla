----------------------------- MODULE SwitchDir -----------------------------
(***************************************************************************)
(* SwitchFileThread of src/pokafile/file.c: every file of the switch       *)
(* directory is copied to the forward directory, under a .tmp name until   *)
(* it is there, and then moved to the insert directory.  The thread runs   *)
(* three commands and looks at the result of none.                         *)
(***************************************************************************)
EXTENDS ForwardDirs

VARIABLES insertDir,                   (* names that reached the insert directory *)
          swClaimed, swUnpacked,       (* see ZipInPlace                    *)
          swPlace, swFile, swTodo      (* place, dirlist, rest of the scan  *)

swVars == <<insertDir, swClaimed, swUnpacked, swPlace, swFile, swTodo>>

SwZip == INSTANCE ZipInPlace WITH dir <- switchDir, claimed <- swClaimed,
         unpacked <- swUnpacked, place <- swPlace, file <- swFile, todo <- swTodo

SwInit ==
  /\ swPlace = "sleep" /\ swFile = NoFile /\ swTodo = {} /\ swUnpacked = {}
  /\ insertDir = {} /\ swClaimed = {}

SwKilled == /\ swPlace' = "sleep" /\ swFile' = NoFile /\ swTodo' = {} /\ swUnpacked' = {}
            /\ UNCHANGED <<insertDir, swClaimed>>

(* A name that comes during the scan is taken as one for the next.         *)
OpenSwitchDir ==
  /\ swPlace = "sleep" /\ swPlace' = "scan"
  /\ swTodo' = {f \in Names(switchDir) : Known(f)}
  /\ NoMishap
  /\ UNCHANGED <<dirVars, insertDir, swClaimed, swUnpacked, swFile, delivered>>

\* Slip: the copy is written under the name it is taken by.
CopyInPlace(f) ==
  /\ swPlace = "scan" /\ f \in swTodo \ Zips
  /\ swPlace' = "copy" /\ swFile' = f /\ swTodo' = swTodo \ {f}
  /\ ready' = [ready EXCEPT ![f] = "part"]
  /\ NoMishap
  /\ UNCHANGED <<switchDir, transDir, tmp, insertDir, swClaimed, swUnpacked, delivered>>

(* cp f <forward dir>/f.tmp                                                *)
CopyStarts(f) ==
  /\ swPlace = "scan" /\ f \in swTodo \ Zips
  /\ swPlace' = "copy" /\ swFile' = f /\ swTodo' = swTodo \ {f}
  /\ tmp' = [tmp EXCEPT ![f] = "part"]
  /\ NoMishap
  /\ UNCHANGED <<switchDir, transDir, ready, insertDir, swClaimed, swUnpacked, delivered>>

CopyEnds ==
  /\ swPlace = "copy" /\ swPlace' = "publish"
  /\ \/ tmp' = [tmp EXCEPT ![swFile] = switchDir[swFile]] /\ NoMishap
     \/ Mishap("copy", {swFile}) /\ UNCHANGED tmp
  /\ UNCHANGED <<switchDir, transDir, ready, insertDir, swClaimed, swUnpacked, swFile,
                 swTodo, delivered>>

(* mv f.tmp f                                                              *)
PublishCopy ==
  /\ swPlace = "publish" /\ swPlace' = "insert"
  /\ \/ /\ NoMishap
        /\ ready' = [ready EXCEPT ![swFile] = tmp[swFile]]
        /\ tmp' = Without(tmp, {swFile})
     \/ Mishap("move", {swFile}) /\ UNCHANGED <<ready, tmp>>
  /\ UNCHANGED <<switchDir, transDir, insertDir, swClaimed, swUnpacked, swFile, swTodo,
                 delivered>>

(* mv f <insert dir>/f.  A file that stays is forwarded again.             *)
MoveToInsert ==
  /\ swPlace = "insert" /\ swPlace' = "scan"
  /\ \/ /\ NoMishap
        /\ switchDir' = Without(switchDir, {swFile})
        /\ insertDir' = insertDir \cup {swFile}
     \/ Mishap("move", {}) /\ UNCHANGED <<switchDir, insertDir>>
  /\ UNCHANGED <<transDir, ready, tmp, swClaimed, swUnpacked, swFile, swTodo, delivered>>

CloseSwitchDir ==
  /\ swPlace = "scan" /\ swTodo = {} /\ swPlace' = "sleep"
  /\ NoMishap
  /\ UNCHANGED <<dirVars, insertDir, swClaimed, swUnpacked, swFile, swTodo, delivered>>

SwitchFileThread ==
  \/ OpenSwitchDir \/ CopyEnds \/ PublishCopy \/ MoveToInsert \/ CloseSwitchDir
  \/ \E f \in Files : CopyStarts(f)
  \/ /\ SwZip!ZIPFile \/ \E z \in Zips : SwZip!StartFile(z)
     /\ UNCHANGED <<transDir, ready, tmp, insertDir>>
=============================================================================
