------------------------------ MODULE Download -----------------------------
(***************************************************************************)
(* DownFile of src/pokafile/sendfile.c, the task of a downloading route.   *)
(* getdir_ftp.sh or getdir_sftp.sh gets the files of yesterday's directory *)
(* into a working directory, from which they are moved to the local one,   *)
(* here the switch directory.  Nobody looks at what the script says, and   *)
(* DownFile always returns SUCESS.                                         *)
(***************************************************************************)
EXTENDS ForwardDirs

VARIABLES bankDir,           (* the directory at the other bank             *)
          dlWork, dlStale,   (* working directories: of the task, and of    *)
                             (* tasks that were killed                      *)
          dlPlace, dlTodo,   (* place, rest of mget's list                  *)
          dlDone             (* lastdate is today                           *)

dlVars == <<bankDir, dlWork, dlStale, dlPlace, dlTodo, dlDone>>

DlInit ==
  /\ dlWork = Empty /\ dlPlace = "idle" /\ dlTodo = {} /\ dlStale = Empty /\ dlDone = FALSE
  /\ bankDir = [f \in Files |-> IF batch.entrance = "bank" /\ f \in batch.files
                                THEN Format[f] ELSE "none"]

DlEnds == dlWork' = Empty /\ dlPlace' = "idle" /\ dlTodo' = {}

DlKilled == DlEnds /\ dlStale' = MovedInto(dlStale, dlWork) /\ UNCHANGED <<bankDir, dlDone>>

(* RecoverDir.  A file of which a killed task had got a part is moved as   *)
(* any other.                                                              *)
RecoverDir ==
  /\ dlPlace = "idle" /\ ~ dlDone /\ bankDir # Empty
  /\ dlPlace' = "get" /\ dlTodo' = Names(bankDir)
  /\ \/ /\ switchDir' = MovedInto(switchDir, dlStale)
        /\ ignored' = ignored \cup {f \in Files : dlStale[f] = "part"}
        /\ UNCHANGED mishaps
     \/ dlStale # Empty /\ Mishap("move", {}) /\ UNCHANGED switchDir
  /\ dlStale' = Empty
  /\ UNCHANGED <<transDir, ready, tmp, bankDir, dlWork, dlDone, delivered>>

GetStarts(f) ==
  /\ dlPlace = "get" /\ f \in dlTodo
  /\ \A g \in Files : dlWork[g] # "part"
  /\ dlWork' = [dlWork EXCEPT ![f] = "part"]
  /\ NoMishap
  /\ UNCHANGED <<dirVars, bankDir, dlStale, dlPlace, dlTodo, dlDone, delivered>>

(* A connection that breaks leaves a part of one file, and the rest out.   *)
GetEnds(f) ==
  /\ dlPlace = "get" /\ dlWork[f] = "part" /\ f \in dlTodo
  /\ \/ /\ NoMishap
        /\ dlWork' = [dlWork EXCEPT ![f] = bankDir[f]]
        /\ dlTodo' = dlTodo \ {f}
     \/ /\ Mishap("cut", dlTodo)
        /\ dlTodo' = {} /\ UNCHANGED dlWork
  /\ UNCHANGED <<dirVars, bankDir, dlStale, dlPlace, dlDone, delivered>>

(* mv <working dir>/* <local dir>                                          *)
MoveGotten ==
  /\ dlPlace = "get" /\ dlTodo = {} /\ dlPlace' = "clean"
  /\ \/ /\ NoMishap
        /\ switchDir' = MovedInto(switchDir, dlWork)
        /\ dlWork' = Empty
     \/ Mishap("move", Names(dlWork)) /\ UNCHANGED <<switchDir, dlWork>>
  /\ UNCHANGED <<transDir, ready, tmp, bankDir, dlStale, dlTodo, dlDone, delivered>>

(* rm -rf <working dir>; SendTask notes the day.                           *)
DownloadEnds ==
  /\ dlPlace = "clean" /\ DlEnds /\ dlDone' = TRUE
  /\ NoMishap
  /\ UNCHANGED <<dirVars, bankDir, dlStale, delivered>>

DownFile ==
  \/ RecoverDir \/ MoveGotten \/ DownloadEnds
  \/ \E f \in Files : GetStarts(f) \/ GetEnds(f)
=============================================================================
