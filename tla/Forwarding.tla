----------------------------- MODULE Forwarding ----------------------------
(***************************************************************************)
(* From a file's arrival to the other bank: SwitchFileThread and           *)
(* ListTransFormDirThread fill the local directory of a route, UploadFile  *)
(* empties it, and DownFile fills the switch directory from a bank's.  All *)
(* are threads of one process, which may be killed between any two steps,  *)
(* in the middle of a command included, and is started again.  The         *)
(* directories stay as they are.                                           *)
(***************************************************************************)
EXTENDS SwitchDir, Transform, Upload, Download

(* What comes to the switch directory is in the standard format.  Of what   *)
(* is to be converted the length tells the format (FormatTold).             *)
ASSUME FormatAssumption ==
  /\ \A b \in Batches :
       b.entrance # "trans" => \A f \in b.files \cup Inner : Format[f] = "whole"
  /\ \A f \in Files : /\ Format[f] = "poka" => Records[f] % 548 # 0
                      /\ Format[f] = "odd" => checkFileSize(FileSize(f)) = -1

VARIABLE up      (* the process runs *)

vars == <<dirVars, pastVars, swVars, trVars, upVars, dlVars, up>>

Init ==
  /\ DirInit /\ SwInit /\ TrInit /\ UpInit /\ DlInit
  /\ up = TRUE

(* A sender renames a file when it is all there, as our own scripts do.    *)
Deliver(f) ==
  /\ f \in batch.files \ (delivered \cup Inner)
  /\ delivered' = delivered \cup {f}
  /\ \/ /\ batch.entrance = "switch"
        /\ switchDir' = [switchDir EXCEPT ![f] = Format[f]]
        /\ UNCHANGED transDir
     \/ /\ batch.entrance = "trans"
        /\ transDir' = [transDir EXCEPT ![f] = Format[f]]
        /\ UNCHANGED switchDir
  /\ UNCHANGED <<ready, tmp, ignored, mishaps, swVars, trVars, upVars, dlVars, up>>

(* A kill.  A cp or a script that is running may finish or not; a put that *)
(* does is seen as one that was done just before.                          *)
Kill ==
  /\ up /\ up' = FALSE
  /\ Mishap("kill", {})
  /\ SwKilled /\ TrKilled /\ UpKilled /\ DlKilled
  /\ UNCHANGED <<dirVars, delivered>>

Restart ==
  /\ ~ up /\ up' = TRUE
  /\ UNCHANGED <<dirVars, delivered, ignored, mishaps, swVars, trVars, upVars, dlVars>>

Switching    == up /\ SwitchFileThread /\ UNCHANGED <<trVars, upVars, dlVars, up>>
Transforming == up /\ ListTransFormDirThread /\ UNCHANGED <<swVars, upVars, dlVars, up>>
Uploading    == up /\ UploadFile /\ UNCHANGED <<swVars, trVars, dlVars, up>>
Downloading  == up /\ DownFile /\ UNCHANGED <<swVars, trVars, upVars, up>>

Next ==
  /\ \/ \E f \in Files : Deliver(f)
     \/ Kill \/ Restart \/ Switching \/ Transforming \/ Uploading \/ Downloading
  /\ UNCHANGED batch

(* Every thread goes on, the scheduler starts the task of a route again and*)
(* again, and pokadaemon a process that was killed.  Mishaps end           *)
(* (batch.mishaps): after the last one the commands work.                  *)
Fairness ==
  /\ WF_vars(Restart /\ UNCHANGED batch)
  /\ WF_vars(Switching /\ UNCHANGED batch) /\ WF_vars(Transforming /\ UNCHANGED batch)
  /\ WF_vars(Uploading /\ UNCHANGED batch) /\ WF_vars(Downloading /\ UNCHANGED batch)

Spec == Init /\ [][Next]_vars /\ Fairness

-----------------------------------------------------------------------------
(* Type invariant.  The count of a batch stays below its size.             *)
TypeOK ==
  /\ {switchDir, transDir, ready, tmp, work, stale, remote, bankDir, dlWork, dlStale}
       \subseteq Directory
  /\ delivered \subseteq Files /\ ignored \subseteq Files
  /\ mishaps \in 0 .. batch.mishaps /\ batch \in Batches /\ up \in BOOLEAN
  /\ insertDir \cup stored \cup trErrored \cup swUnpacked \cup trUnpacked \subseteq Files
  /\ swClaimed \cup trClaimed \subseteq Zips
  /\ swPlace \in {"sleep", "scan", "copy", "publish", "insert", "unzip", "unpack", "rmdir"}
  /\ trPlace \in {"sleep", "scan", "write", "rename", "remove", "unzip", "unpack", "rmdir"}
  /\ upPlace \in {"idle", "scan", "upload", "store", "restore", "clean"}
  /\ dlPlace \in {"idle", "get", "clean"}
  /\ {swFile, trFile} \subseteq Files \cup {NoFile}
  /\ swTodo \cup trTodo \cup upTodo \cup dlTodo \subseteq Files
  /\ sent \in [Files -> Nat] /\ upCount \in 0 .. BatchSize - 1
  /\ upStale \in BOOLEAN /\ dlDone \in BOOLEAN

(* A file on its way out is under its name in one of these.                *)
Outbound(f) == f \in UNION {Names(d) : d \in {ready, work, stale, remote}}
Waiting(f)  == \/ f \in UNION {Names(d) : d \in {switchDir, transDir, dlWork, dlStale}}
               \/ f \in Names(bankDir) /\ ~ dlDone

(* Whatever the threads, kills and failed commands do, a file that came is *)
(* still waiting, on its way out or received by the other bank; in the     *)
(* error directory because it is no FSN file; or a zip, still there or     *)
(* with all its files out.  The rest are files of a command that failed    *)
(* with nobody looking.  In particular what SwitchFileThread moves to the  *)
(* insert directory has been forwarded.                                    *)
NothingLost ==
  \A f \in delivered \ ignored :
    \/ Waiting(f) \/ Outbound(f)
    \/ f \in trErrored /\ Format[f] = "odd"
    \/ f \in Zips /\ (f \in swClaimed \cup trClaimed \/ Inside[f] \subseteq delivered \cup ignored)

(* What the other bank receives is all of a file, in the standard format.  *)
SentWhole == \A f \in Names(remote) \ ignored : remote[f] = "whole"

(* What lies under handled/send was received.                              *)
HandledIsSent == \A f \in stored \ ignored : remote[f] # "none"

(* A file is sent once when nothing goes wrong.  A failed command or a lost*)
(* answer has it sent once more, a kill once for each thread that has it:  *)
(* the copy that was published before the source was moved away, the batch *)
(* that was received before it was stored.                                 *)
SentOnce ==
  LET threads == IF batch.entrance = "bank" THEN 3 ELSE 2
  IN  \A f \in Files : sent[f] <= 1 + threads * mishaps

(* A file that comes to the switch directory, or to be converted, is sent  *)
(* in the end, unless a command failed with nobody looking or it is no FSN *)
(* file.                                                                   *)
Sent(f) == remote[f] # "none" \/ f \in ignored \cup trErrored
Forwarded ==
  \A f \in Files \ Zips : (switchDir[f] # "none" \/ transDir[f] # "none") ~> Sent(f)
=============================================================================
