------------------------------- MODULE Upload ------------------------------
(***************************************************************************)
(* UploadFile of src/pokafile/sendfile.c, the task of an uploading route:  *)
(* files are moved from the local directory into a working directory,      *)
(* packed into one zip per batch and put to the other bank by a script     *)
(* whose answer is read from a file.  After a success the batch is moved   *)
(* to the handled directory, after a failure back; working directories     *)
(* that a killed process left are emptied into the local directory first.  *)
(*                                                                         *)
(* SendTask runs one task of a route at a time (RouteScheduler), again and *)
(* again.  The script puts the zip under a .tmp name and renames it, so at *)
(* the other bank it is all there or not at all.                           *)
(***************************************************************************)
EXTENDS ForwardDirs

VARIABLES work,              (* the working directory of the task           *)
          stale,             (* those of tasks that were killed, together   *)
          remote,            (* what of each file the other bank received   *)
          sent,              (* how often                                   *)
          stored,            (* names under handled/send                    *)
          upPlace, upTodo,   (* place, rest of the scan                     *)
          upStale,           (* the scan has still to come to stale         *)
          upCount            (* count                                       *)

upVars == <<work, stale, remote, sent, stored, upPlace, upTodo, upStale, upCount>>
upData == <<stale, remote, sent, stored>>

UpInit ==
  /\ work = Empty /\ upPlace = "idle" /\ upTodo = {} /\ upStale = FALSE /\ upCount = 0
  /\ stale = Empty /\ remote = Empty /\ stored = {}
  /\ sent = [f \in Files |-> 0]

UpEnds == work' = Empty /\ upPlace' = "idle" /\ upTodo' = {} /\ upStale' = FALSE /\ upCount' = 0

UpKilled == UpEnds /\ stale' = MovedInto(stale, work) /\ UNCHANGED <<remote, sent, stored>>

(* The extension is that of f itself: the names in tmp end in .tmp, which  *)
(* no rule names and which is refused without rules.                       *)
CheckRule(f) == Rules = {} \/ Kind[f] \in Rules

UploadStarts ==
  /\ upPlace = "idle" /\ upPlace' = "scan"
  /\ upTodo' = {f \in Names(ready) : CheckRule(f)}
  /\ upStale' = (stale # Empty)
  /\ NoMishap
  /\ UNCHANGED <<dirVars, work, upData, upCount, delivered>>

\* Slip: count goes on after a full batch.
CountOn(f) ==
  /\ upPlace = "scan" /\ f \in upTodo
  /\ upTodo' = upTodo \ {f}
  /\ ready' = Without(ready, {f})
  /\ work' = [work EXCEPT ![f] = ready[f]]
  /\ upCount' = upCount + 1
  /\ upPlace' = IF upCount + 1 = BatchSize THEN "upload" ELSE "scan"
  /\ NoMishap
  /\ UNCHANGED <<switchDir, transDir, tmp, upData, upStale, delivered>>

(* The mv of a file counts whether it succeeds or not.                     *)
TakeFile(f) ==
  /\ upPlace = "scan" /\ f \in upTodo
  /\ upTodo' = upTodo \ {f}
  /\ \/ /\ NoMishap
        /\ ready' = Without(ready, {f})
        /\ work' = [work EXCEPT ![f] = ready[f]]
     \/ Mishap("move", {}) /\ UNCHANGED <<ready, work>>
  /\ upCount' = (upCount + 1) % BatchSize
  /\ upPlace' = IF upCount' = 0 THEN "upload" ELSE "scan"
  /\ UNCHANGED <<switchDir, transDir, tmp, upData, upStale, delivered>>

\* Slip: the directories of killed tasks are passed over.
StaleStays ==
  /\ upPlace = "scan" /\ upStale
  /\ upStale' = FALSE
  /\ NoMishap
  /\ UNCHANGED <<dirVars, work, upData, upPlace, upTodo, upCount, delivered>>

(* rm PACK_*, mv <dir>/* <local dir>, rm -rf <dir>: what the mv left behind*)
(* is gone.                                                                *)
RecoverStale ==
  /\ upPlace = "scan" /\ upStale
  /\ upStale' = FALSE
  /\ \/ NoMishap /\ ready' = MovedInto(ready, stale)
     \/ Mishap("move", Names(stale)) /\ UNCHANGED ready
  /\ stale' = Empty
  /\ UNCHANGED <<switchDir, transDir, tmp, work, remote, sent, stored, upPlace, upTodo,
                 upCount, delivered>>

ScanEnds ==
  /\ upPlace = "scan" /\ upTodo = {} /\ ~ upStale
  /\ upPlace' = IF upCount # 0 THEN "upload" ELSE "clean"
  /\ upCount' = 0
  /\ NoMishap
  /\ UNCHANGED <<dirVars, work, upData, upTodo, upStale, delivered>>

Received ==
  /\ remote' = MovedInto(remote, work)
  /\ sent' = [f \in Files |-> IF work[f] # "none" THEN sent[f] + 1 ELSE sent[f]]

\* Slip: any answer is a success.
AnyAnswer ==
  /\ upPlace = "upload" /\ upPlace' = "store"
  /\ NoMishap \/ Mishap("put", {})
  /\ \/ work # Empty /\ Received
     \/ UNCHANGED <<remote, sent>>
  /\ UNCHANGED <<dirVars, work, stale, stored, upTodo, upStale, upCount, delivered>>

(* Upload: zip the directory, run putfile_ftp.sh or putfile_sftp.sh, read  *)
(* its answer.  The answer is taken from the script's log, which may miss  *)
(* what was delivered ("put") or show what was not ("cut": the line        *)
(* '150 Ok to send data' comes before the data).                           *)
PutFile ==
  /\ upPlace = "upload"
  /\ \/ /\ work # Empty /\ Received
        /\ \/ NoMishap /\ upPlace' = "store"
           \/ Mishap("put", {}) /\ upPlace' = "restore"
     \/ /\ UNCHANGED <<remote, sent>>
        /\ \/ work = Empty /\ NoMishap /\ upPlace' = "restore"
           \/ work # Empty /\ Mishap("put", {}) /\ upPlace' = "restore"
           \/ work # Empty /\ Mishap("cut", Names(work)) /\ upPlace' = "store"
  /\ UNCHANGED <<dirVars, work, stale, stored, upTodo, upStale, upCount, delivered>>

\* Slip: the files are copied to the handled directory.
StoreCopies(f) ==
  /\ upPlace = "store" /\ f \in Names(work)
  /\ stored' = stored \cup {f}
  /\ upPlace' = IF Names(work) \subseteq stored' THEN "scan" ELSE "store"
  /\ NoMishap
  /\ UNCHANGED <<dirVars, work, stale, remote, sent, upTodo, upStale, upCount, delivered>>

(* StroeFiles moves one file after the other.  One that cannot be moved is *)
(* sent again with the next batch, or deleted with the directory.          *)
StoreFile(f) ==
  /\ upPlace = "store" /\ f \in Names(work)
  /\ work' = Without(work, {f})
  /\ stored' = stored \cup {f}
  /\ NoMishap
  /\ UNCHANGED <<dirVars, stale, remote, sent, upPlace, upTodo, upStale, upCount, delivered>>

StoreEnds ==
  /\ upPlace = "store" /\ upPlace' = "scan"
  /\ \/ work = Empty /\ NoMishap
     \/ work # Empty /\ Mishap("move", {})
  /\ UNCHANGED <<dirVars, work, upData, upTodo, upStale, upCount, delivered>>

\* Slip: the directory is removed, and nothing moved back before.
RestoreNothing ==
  /\ upPlace = "restore" /\ UpEnds
  /\ NoMishap
  /\ UNCHANGED <<dirVars, upData, delivered>>

(* After an ERROR the batch is moved back and the directory removed, with  *)
(* what the mv left behind.                                                *)
RestoreFiles ==
  /\ upPlace = "restore" /\ UpEnds
  /\ \/ NoMishap /\ ready' = MovedInto(ready, work)
     \/ Mishap("move", Names(work)) /\ UNCHANGED ready
  /\ UNCHANGED <<switchDir, transDir, tmp, upData, delivered>>

RemoveWork ==
  /\ upPlace = "clean" /\ UpEnds
  /\ NoMishap
  /\ UNCHANGED <<dirVars, upData, delivered>>

UploadFile ==
  \/ UploadStarts \/ RecoverStale \/ ScanEnds \/ PutFile \/ StoreEnds
  \/ RestoreFiles \/ RemoveWork
  \/ \E f \in Files : TakeFile(f) \/ StoreFile(f)
=============================================================================
