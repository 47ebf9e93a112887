------------------------ MODULE ForwardingLossProofs -----------------------
(***************************************************************************)
(* For any files, batches and mishaps, kills included: no file is lost on  *)
(* its way through the four threads but by a command that failed with      *)
(* nobody looking.                                                         *)
(***************************************************************************)
EXTENDS ForwardingProofs

Out(f) ==
  \/ f \in ignored
  \/ ready[f] # "none" \/ work[f] # "none" \/ stale[f] # "none" \/ remote[f] # "none"

Unzipped(z) == Inside[z] \subseteq delivered \cup ignored

Here(f) ==
  \/ switchDir[f] # "none" \/ transDir[f] # "none" \/ dlWork[f] # "none" \/ dlStale[f] # "none"
  \/ f \in trErrored /\ Format[f] = "odd"
  \/ f \in Zips /\ (f \in swClaimed \/ f \in trClaimed \/ Unzipped(f))

(* A file of the bank that DownFile has still to get.                      *)
ToGet(f) ==
  /\ bankDir[f] # "none" /\ ~ dlDone
  /\ dlPlace # "clean" /\ (dlPlace = "get" => f \in dlTodo)

Kept == delivered \subseteq Files /\ \A f \in delivered : Out(f) \/ Here(f) \/ ToGet(f)

(* What a thread has of a zip's files that are not out yet.                *)
ZipKept(place, file, unpacked) ==
  place \in {"unpack", "rmdir"} =>
    file \in Zips /\ Inside[file] \subseteq unpacked \cup delivered \cup ignored

(* The file is there until its copy has a name the uploading task takes.   *)
SwitchKept ==
  /\ \A f \in swTodo : switchDir[f] # "none"
  /\ swPlace \in {"copy", "publish", "insert"} => swFile \notin swTodo
  /\ swPlace = "copy" => switchDir[swFile] # "none"
  /\ swPlace \in {"copy", "publish"} => tmp[swFile] # "none"
  /\ swPlace = "insert" => Out(swFile)
  /\ ZipKept(swPlace, swFile, swUnpacked)

TransKept ==
  /\ trPlace = "remove" => Out(trFile)
  /\ ZipKept(trPlace, trFile, trUnpacked)

(* When the working directory is removed, what is left in it was received. *)
UploadKept ==
  /\ \A f \in upTodo : ready[f] # "none"
  /\ upPlace \in {"idle", "clean"} \/ (upPlace = "scan" /\ upCount = 0) =>
       \A f \in Files \ ignored : work[f] # "none" => remote[f] # "none"

(* A working directory holds files the bank still has.                     *)
DownloadKept ==
  /\ \A f \in Files : dlWork[f] # "none" \/ dlStale[f] # "none" => bankDir[f] # "none"
  /\ dlPlace = "clean" => \A f \in Files : dlWork[f] # "none" => f \in ignored
  /\ dlPlace = "get" => ~ dlDone
  /\ \A f \in dlTodo : bankDir[f] # "none"

KeptInv == Inv /\ Kept /\ SwitchKept /\ TransKept /\ UploadKept /\ DownloadKept

-----------------------------------------------------------------------------
(* SwitchFileThread gives a file up when it has been published and moved.  *)
LEMMA SwitchLoses ==
  ASSUME KeptInv, SwitchFileThread, UNCHANGED <<trVars, upVars, dlVars, batch>>
  PROVE  (Kept /\ SwitchKept /\ TransKept /\ UploadKept /\ DownloadKept)'
<1> USE DEF KeptInv, Inv
<1> DEFINE Goal == Kept /\ SwitchKept /\ TransKept /\ UploadKept /\ DownloadKept
<1>1. CASE OpenSwitchDir
  <2> USE <1>1 DEF OpenSwitchDir, NoMishap, dirVars, trVars, upVars, dlVars
  <2>1. \A g \in Files : Out(g) => Out(g)'
    BY DEF Out
  <2>2. Kept'
    BY <2>1 DEF Kept, Here, Unzipped, ToGet
  <2>3. (SwitchKept /\ TransKept)'
    BY DEF SwitchKept, TransKept, ZipKept, Out, Names
  <2>4. (UploadKept /\ DownloadKept)'
    BY DEF UploadKept, DownloadKept
  <2> QED
    BY <2>1, <2>2, <2>3, <2>4
<1>2. ASSUME NEW f \in Files, CopyStarts(f) PROVE Goal'
  <2> USE <1>2 DEF CopyStarts, NoMishap, trVars, upVars, dlVars
  <2>1. \A g \in Files : Out(g) => Out(g)'
    BY DEF Out
  <2>2. Kept'
    BY <2>1 DEF Kept, Here, Unzipped, ToGet
  <2>3. (SwitchKept /\ TransKept)'
    BY DEF SwitchKept, TransKept, ZipKept, Types, Directory, Out
  <2>4. (UploadKept /\ DownloadKept)'
    BY DEF UploadKept, DownloadKept
  <2> QED
    BY <2>1, <2>2, <2>3, <2>4
<1>3. CASE CopyEnds
  <2> USE <1>3 DEF CopyEnds, NoMishap, Mishap, trVars, upVars, dlVars
  <2>1. \A g \in Files : Out(g) => Out(g)'
    BY DEF Out
  <2>2. Kept'
    BY <2>1 DEF Kept, Here, Unzipped, ToGet
  <2>3. (SwitchKept /\ TransKept)'
    BY DEF SwitchKept, TransKept, ZipKept, Types, Directory, Out
  <2>4. (UploadKept /\ DownloadKept)'
    BY DEF UploadKept, DownloadKept
  <2> QED
    BY <2>1, <2>2, <2>3, <2>4
<1>4. CASE PublishCopy
  <2> USE <1>4 DEF PublishCopy, NoMishap, Mishap, trVars, upVars, dlVars
  <2>0. swFile \in Files /\ tmp[swFile] # "none"
    BY DEF SwitchWhole, SwitchKept
  <2>1. \A g \in Files : Out(g) => Out(g)'
    BY <2>0 DEF Out, Types, Directory
  <2>2. Kept'
    BY <2>1 DEF Kept, Here, Unzipped, ToGet
  <2>3. (SwitchKept /\ TransKept)'
    BY <2>0 DEF SwitchKept, TransKept, ZipKept, Types, Directory, Out, TransWhole
  <2>4. (UploadKept /\ DownloadKept)'
    BY <2>0 DEF UploadKept, DownloadKept, Types, Directory
  <2> QED
    BY <2>1, <2>2, <2>3, <2>4
<1>5. CASE MoveToInsert
  <2> USE <1>5 DEF MoveToInsert, NoMishap, Mishap, trVars, upVars, dlVars
  <2>0. swFile \in Files /\ Out(swFile)
    BY DEF SwitchWhole, SwitchKept
  <2>1. \A g \in Files : Out(g) => Out(g)'
    BY DEF Out
  <2>2. Kept'
    BY <2>0, <2>1 DEF Kept, Here, Unzipped, ToGet, Without
  <2>3. (SwitchKept /\ TransKept)'
    BY DEF SwitchKept, TransKept, ZipKept, Types, Out, Without
  <2>4. (UploadKept /\ DownloadKept)'
    BY DEF UploadKept, DownloadKept
  <2> QED
    BY <2>1, <2>2, <2>3, <2>4
<1>6. CASE CloseSwitchDir
  <2> USE <1>6 DEF CloseSwitchDir, NoMishap, dirVars, trVars, upVars, dlVars
  <2>1. \A g \in Files : Out(g) => Out(g)'
    BY DEF Out
  <2>2. Kept'
    BY <2>1 DEF Kept, Here, Unzipped, ToGet
  <2>3. (SwitchKept /\ TransKept)'
    BY DEF SwitchKept, TransKept, ZipKept, Out
  <2>4. (UploadKept /\ DownloadKept)'
    BY DEF UploadKept, DownloadKept
  <2> QED
    BY <2>1, <2>2, <2>3, <2>4
<1>7. ASSUME NEW z \in Zips, SwZip!StartFile(z), UNCHANGED <<transDir, ready, tmp, insertDir>>
      PROVE  Goal'
  <2> USE <1>7 DEF SwZip!StartFile, SwZip!NoMishap, SwZip!Mishap, SwZip!Without, SwZip!Zips,
          trVars, upVars, dlVars
  <2>1. \A g \in Files : Out(g) => Out(g)'
    BY DEF Out
  <2>2. Kept'
    BY <2>1 DEF Kept, Here, Unzipped, ToGet
  <2>3. (SwitchKept /\ TransKept)'
    BY DEF SwitchKept, TransKept, ZipKept, Types, Out
  <2>4. (UploadKept /\ DownloadKept)'
    BY DEF UploadKept, DownloadKept
  <2> QED
    BY <2>1, <2>2, <2>3, <2>4
<1>8. CASE SwZip!Unzip /\ UNCHANGED <<transDir, ready, tmp, insertDir>>
  <2> USE <1>8 DEF SwZip!Unzip, SwZip!NoMishap, SwZip!Mishap, trVars, upVars, dlVars
  <2>0. swFile \in Zips
    BY DEF SwitchWhole
  <2>1. \A g \in Files : Out(g) => Out(g)'
    BY DEF Out
  <2>2. Kept'
    BY <2>1 DEF Kept, Here, Unzipped, ToGet
  <2>3. (SwitchKept /\ TransKept)'
    BY <2>0 DEF SwitchKept, TransKept, ZipKept, Out
  <2>4. (UploadKept /\ DownloadKept)'
    BY DEF UploadKept, DownloadKept
  <2> QED
    BY <2>1, <2>2, <2>3, <2>4
<1>9. CASE SwZip!MoveOut /\ UNCHANGED <<transDir, ready, tmp, insertDir>>
  <2> USE <1>9 DEF SwZip!MoveOut, SwZip!NoMishap, SwZip!Mishap, trVars, upVars, dlVars
  <2>1. \A g \in Files : Out(g) => Out(g)'
    BY DEF Out
  <2>2. Kept'
    BY <2>1, ForwardAssumption, InnerFiles DEF Kept, Here, Unzipped, ToGet, Types
  <2>3. (SwitchKept /\ TransKept)'
    BY ForwardAssumption, InnerFiles DEF SwitchKept, TransKept, ZipKept, Types, Out
  <2>4. (UploadKept /\ DownloadKept)'
    BY DEF UploadKept, DownloadKept
  <2> QED
    BY <2>1, <2>2, <2>3, <2>4
<1>10. CASE SwZip!RemoveZip /\ UNCHANGED <<transDir, ready, tmp, insertDir>>
  <2> USE <1>10 DEF SwZip!RemoveZip, SwZip!NoMishap, trVars, upVars, dlVars
  <2>0. swFile \in Zips /\ Inside[swFile] \subseteq swUnpacked \cup delivered \cup ignored
    BY DEF SwitchKept, ZipKept
  <2>1. \A g \in Files : Out(g) => Out(g)'
    BY DEF Out
  <2>2. Kept'
    BY <2>0, <2>1 DEF Kept, Here, Unzipped, ToGet
  <2>3. (SwitchKept /\ TransKept)'
    BY DEF SwitchKept, TransKept, ZipKept, Out
  <2>4. (UploadKept /\ DownloadKept)'
    BY DEF UploadKept, DownloadKept
  <2> QED
    BY <2>1, <2>2, <2>3, <2>4
<1> QED
  BY <1>1, <1>2, <1>3, <1>4, <1>5, <1>6, <1>7, <1>8, <1>9, <1>10 DEF SwitchFileThread,
     SwZip!ZIPFile

(* The conversion gives a file up when its copy has its name.              *)
LEMMA TransLoses ==
  ASSUME KeptInv, ListTransFormDirThread, UNCHANGED <<swVars, upVars, dlVars, batch>>
  PROVE  (Kept /\ SwitchKept /\ TransKept /\ UploadKept /\ DownloadKept)'
<1> USE DEF KeptInv, Inv
<1> DEFINE Goal == Kept /\ SwitchKept /\ TransKept /\ UploadKept /\ DownloadKept
<1>1. CASE OpenTransDir
  <2> USE <1>1 DEF OpenTransDir, NoMishap, dirVars, swVars, upVars, dlVars
  <2>1. \A g \in Files : Out(g) => Out(g)'
    BY DEF Out
  <2>2. Kept'
    BY <2>1 DEF Kept, Here, Unzipped, ToGet
  <2>3. (SwitchKept /\ TransKept)'
    BY DEF SwitchKept, TransKept, ZipKept, Out
  <2>4. (UploadKept /\ DownloadKept)'
    BY DEF UploadKept, DownloadKept
  <2> QED
    BY <2>1, <2>2, <2>3, <2>4
<1>2. ASSUME NEW f \in Files, MoveTransFSNFile(f) PROVE Goal'
  <2> USE <1>2 DEF MoveTransFSNFile, NoMishap, Mishap, swVars, upVars, dlVars
  <2>0. transDir[f] # "none" /\ (checkFileSize(FileSize(f)) \notin {0, 1} => Format[f] = "odd")
    BY FormatTold, FormatAssumption, ForwardAssumption DEF TransWhole, Names
  <2>1. \A g \in Files : Out(g) => Out(g)'
    BY <2>0 DEF Out, Types, Directory
  <2>2. Kept'
    BY <2>0 DEF Kept, Here, Unzipped, ToGet, Out, Types, Directory, Without
  <2>3. (SwitchKept /\ TransKept)'
    BY <2>1 DEF SwitchKept, TransKept, ZipKept, SwitchWhole
  <2>4. (UploadKept /\ DownloadKept)'
    BY <2>0 DEF UploadKept, DownloadKept, Types, Directory
  <2> QED
    BY <2>1, <2>2, <2>3, <2>4
<1>3. ASSUME NEW f \in Files, TransStarts(f) PROVE Goal'
  <2> USE <1>3 DEF TransStarts, NoMishap, swVars, upVars, dlVars
  <2>1. \A g \in Files : Out(g) => Out(g)'
    BY DEF Out
  <2>2. Kept'
    BY <2>1 DEF Kept, Here, Unzipped, ToGet
  <2>3. (SwitchKept /\ TransKept)'
    BY DEF SwitchKept, TransKept, ZipKept, Out
  <2>4. (UploadKept /\ DownloadKept)'
    BY DEF UploadKept, DownloadKept
  <2> QED
    BY <2>1, <2>2, <2>3, <2>4
<1>4. CASE TransEnds
  <2> USE <1>4 DEF TransEnds, NoMishap, Mishap, swVars, upVars, dlVars
  <2>0. batch.entrance = "trans"
    BY DEF TransIdle
  <2>1. \A g \in Files : Out(g) => Out(g)'
    BY DEF Out
  <2>2. Kept'
    BY <2>1 DEF Kept, Here, Unzipped, ToGet
  <2>3. (SwitchKept /\ TransKept)'
    BY <2>0 DEF SwitchKept, TransKept, ZipKept, SwitchIdle
  <2>4. (UploadKept /\ DownloadKept)'
    BY DEF UploadKept, DownloadKept
  <2> QED
    BY <2>1, <2>2, <2>3, <2>4
<1>5. CASE RenameConverted
  <2> USE <1>5 DEF RenameConverted, NoMishap, Mishap, swVars, upVars, dlVars
  <2>0. batch.entrance = "trans" /\ trFile \in Files /\ tmp[trFile] = "whole"
    BY DEF TransWhole, TransIdle
  <2>1. \A g \in Files : Out(g) => Out(g)'
    BY <2>0 DEF Out, Types, Directory
  <2>2. Kept'
    BY <2>1 DEF Kept, Here, Unzipped, ToGet
  <2>3. (SwitchKept /\ TransKept)'
    BY <2>0 DEF SwitchKept, TransKept, ZipKept, Types, Directory, Out, SwitchIdle
  <2>4. (UploadKept /\ DownloadKept)'
    BY <2>0 DEF UploadKept, DownloadKept, Types, Directory
  <2> QED
    BY <2>1, <2>2, <2>3, <2>4
<1>6. CASE RemoveSource
  <2> USE <1>6 DEF RemoveSource, NoMishap, swVars, upVars, dlVars
  <2>0. trFile \in Files /\ Out(trFile)
    BY DEF TransWhole, TransKept
  <2>1. \A g \in Files : Out(g) => Out(g)'
    BY DEF Out
  <2>2. Kept'
    BY <2>0, <2>1 DEF Kept, Here, Unzipped, ToGet, Without
  <2>3. (SwitchKept /\ TransKept)'
    BY DEF SwitchKept, TransKept, ZipKept, Out
  <2>4. (UploadKept /\ DownloadKept)'
    BY DEF UploadKept, DownloadKept
  <2> QED
    BY <2>1, <2>2, <2>3, <2>4
<1>7. CASE CloseTransDir
  <2> USE <1>7 DEF CloseTransDir, NoMishap, dirVars, swVars, upVars, dlVars
  <2>1. \A g \in Files : Out(g) => Out(g)'
    BY DEF Out
  <2>2. Kept'
    BY <2>1 DEF Kept, Here, Unzipped, ToGet
  <2>3. (SwitchKept /\ TransKept)'
    BY DEF SwitchKept, TransKept, ZipKept, Out
  <2>4. (UploadKept /\ DownloadKept)'
    BY DEF UploadKept, DownloadKept
  <2> QED
    BY <2>1, <2>2, <2>3, <2>4
<1>8. ASSUME NEW z \in Zips, TrZip!StartFile(z), UNCHANGED <<switchDir, ready, tmp, trErrored>>
      PROVE  Goal'
  <2> USE <1>8 DEF TrZip!StartFile, TrZip!NoMishap, TrZip!Mishap, TrZip!Without, TrZip!Zips,
          swVars, upVars, dlVars
  <2>1. \A g \in Files : Out(g) => Out(g)'
    BY DEF Out
  <2>2. Kept'
    BY <2>1 DEF Kept, Here, Unzipped, ToGet
  <2>3. (SwitchKept /\ TransKept)'
    BY DEF SwitchKept, TransKept, ZipKept, Out
  <2>4. (UploadKept /\ DownloadKept)'
    BY DEF UploadKept, DownloadKept
  <2> QED
    BY <2>1, <2>2, <2>3, <2>4
<1>9. CASE TrZip!Unzip /\ UNCHANGED <<switchDir, ready, tmp, trErrored>>
  <2> USE <1>9 DEF TrZip!Unzip, TrZip!NoMishap, TrZip!Mishap, swVars, upVars, dlVars
  <2>0. trFile \in Zips
    BY DEF TransWhole
  <2>1. \A g \in Files : Out(g) => Out(g)'
    BY DEF Out
  <2>2. Kept'
    BY <2>1 DEF Kept, Here, Unzipped, ToGet
  <2>3. (SwitchKept /\ TransKept)'
    BY <2>0 DEF SwitchKept, TransKept, ZipKept, Out
  <2>4. (UploadKept /\ DownloadKept)'
    BY DEF UploadKept, DownloadKept
  <2> QED
    BY <2>1, <2>2, <2>3, <2>4
<1>10. CASE TrZip!MoveOut /\ UNCHANGED <<switchDir, ready, tmp, trErrored>>
  <2> USE <1>10 DEF TrZip!MoveOut, TrZip!NoMishap, TrZip!Mishap, swVars, upVars, dlVars
  <2>1. \A g \in Files : Out(g) => Out(g)'
    BY DEF Out
  <2>2. Kept'
    BY <2>1, ForwardAssumption, InnerFiles DEF Kept, Here, Unzipped, ToGet, Types
  <2>3. (SwitchKept /\ TransKept)'
    BY ForwardAssumption, InnerFiles DEF SwitchKept, TransKept, ZipKept, Out
  <2>4. (UploadKept /\ DownloadKept)'
    BY DEF UploadKept, DownloadKept
  <2> QED
    BY <2>1, <2>2, <2>3, <2>4
<1>11. CASE TrZip!RemoveZip /\ UNCHANGED <<switchDir, ready, tmp, trErrored>>
  <2> USE <1>11 DEF TrZip!RemoveZip, TrZip!NoMishap, swVars, upVars, dlVars
  <2>0. trFile \in Zips /\ Inside[trFile] \subseteq trUnpacked \cup delivered \cup ignored
    BY DEF TransKept, ZipKept
  <2>1. \A g \in Files : Out(g) => Out(g)'
    BY DEF Out
  <2>2. Kept'
    BY <2>0, <2>1 DEF Kept, Here, Unzipped, ToGet
  <2>3. (SwitchKept /\ TransKept)'
    BY DEF SwitchKept, TransKept, ZipKept, Out
  <2>4. (UploadKept /\ DownloadKept)'
    BY DEF UploadKept, DownloadKept
  <2> QED
    BY <2>1, <2>2, <2>3, <2>4
<1> QED
  BY <1>1, <1>2, <1>3, <1>4, <1>5, <1>6, <1>7, <1>8, <1>9, <1>10, <1>11 DEF
     ListTransFormDirThread, TrZip!ZIPFile

(* The upload gives a file up when it was received.                        *)
LEMMA UploadLoses ==
  ASSUME KeptInv, UploadFile, UNCHANGED <<swVars, trVars, dlVars, batch>>
  PROVE  (Kept /\ SwitchKept /\ TransKept /\ UploadKept /\ DownloadKept)'
<1> USE DEF KeptInv, Inv
<1> DEFINE Goal == Kept /\ SwitchKept /\ TransKept /\ UploadKept /\ DownloadKept
<1>1. CASE UploadStarts
  <2> USE <1>1 DEF UploadStarts, NoMishap, dirVars, swVars, trVars, dlVars, upData
  <2>1. \A g \in Files : Out(g) => Out(g)'
    BY DEF Out
  <2>2. Kept'
    BY <2>1 DEF Kept, Here, Unzipped, ToGet
  <2>3. (SwitchKept /\ TransKept)'
    BY DEF SwitchKept, TransKept, ZipKept, Out
  <2>4. (UploadKept /\ DownloadKept)'
    BY DEF UploadKept, DownloadKept, Names
  <2> QED
    BY <2>1, <2>2, <2>3, <2>4
<1>2. ASSUME NEW f \in Files, TakeFile(f) PROVE Goal'
  <2> USE <1>2 DEF TakeFile, NoMishap, Mishap, swVars, trVars, dlVars, upData
  <2>1. \A g \in Files : Out(g) => Out(g)'
    BY DEF Out, Types, Directory, Without, UploadKept
  <2>2. Kept'
    BY <2>1 DEF Kept, Here, Unzipped, ToGet
  <2>3. (SwitchKept /\ TransKept)'
    BY <2>1 DEF SwitchKept, TransKept, ZipKept, SwitchWhole, TransWhole
  <2>4. (UploadKept /\ DownloadKept)'
    BY DEF UploadKept, DownloadKept, Types, Without
  <2> QED
    BY <2>1, <2>2, <2>3, <2>4
<1>3. CASE RecoverStale
  <2> USE <1>3 DEF RecoverStale, NoMishap, Mishap, swVars, trVars, dlVars
  <2>1. \A g \in Files : Out(g) => Out(g)'
    BY DEF Out, MovedInto, Names
  <2>2. Kept'
    BY <2>1 DEF Kept, Here, Unzipped, ToGet
  <2>3. (SwitchKept /\ TransKept)'
    BY <2>1 DEF SwitchKept, TransKept, ZipKept, SwitchWhole, TransWhole
  <2>4. (UploadKept /\ DownloadKept)'
    BY DEF UploadKept, DownloadKept, Types, MovedInto
  <2> QED
    BY <2>1, <2>2, <2>3, <2>4
<1>4. CASE ScanEnds
  <2> USE <1>4 DEF ScanEnds, NoMishap, dirVars, swVars, trVars, dlVars, upData
  <2>1. \A g \in Files : Out(g) => Out(g)'
    BY DEF Out
  <2>2. Kept'
    BY <2>1 DEF Kept, Here, Unzipped, ToGet
  <2>3. (SwitchKept /\ TransKept)'
    BY DEF SwitchKept, TransKept, ZipKept, Out
  <2>4. (UploadKept /\ DownloadKept)'
    BY DEF UploadKept, DownloadKept
  <2> QED
    BY <2>1, <2>2, <2>3, <2>4
<1>5. CASE PutFile
  <2> USE <1>5 DEF PutFile, Received, NoMishap, Mishap, dirVars, swVars, trVars, dlVars
  <2>1. \A g \in Files : Out(g) => Out(g)'
    BY DEF Out, MovedInto
  <2>2. Kept'
    BY <2>1 DEF Kept, Here, Unzipped, ToGet
  <2>3. (SwitchKept /\ TransKept)'
    BY <2>1 DEF SwitchKept, TransKept, ZipKept, SwitchWhole, TransWhole
  <2>4. (UploadKept /\ DownloadKept)'
    BY DEF UploadKept, DownloadKept
  <2> QED
    BY <2>1, <2>2, <2>3, <2>4
<1>6. ASSUME NEW f \in Files, StoreFile(f) PROVE Goal'
  <2> USE <1>6 DEF StoreFile, NoMishap, dirVars, swVars, trVars, dlVars
  <2>1. \A g \in Files : Out(g) => Out(g)'
    BY DEF Out, StoredSent
  <2>2. Kept'
    BY <2>1 DEF Kept, Here, Unzipped, ToGet
  <2>3. (SwitchKept /\ TransKept)'
    BY <2>1 DEF SwitchKept, TransKept, ZipKept, SwitchWhole, TransWhole
  <2>4. (UploadKept /\ DownloadKept)'
    BY DEF UploadKept, DownloadKept
  <2> QED
    BY <2>1, <2>2, <2>3, <2>4
<1>7. CASE StoreEnds
  <2> USE <1>7 DEF StoreEnds, NoMishap, Mishap, dirVars, swVars, trVars, dlVars, upData
  <2>1. \A g \in Files : Out(g) => Out(g)'
    BY DEF Out
  <2>2. Kept'
    BY <2>1 DEF Kept, Here, Unzipped, ToGet
  <2>3. (SwitchKept /\ TransKept)'
    BY DEF SwitchKept, TransKept, ZipKept, Out
  <2>4. (UploadKept /\ DownloadKept)'
    BY DEF UploadKept, DownloadKept, StoredSent
  <2> QED
    BY <2>1, <2>2, <2>3, <2>4
<1>8. CASE RestoreFiles
  <2> USE <1>8 DEF RestoreFiles, UpEnds, NoMishap, Mishap, swVars, trVars, dlVars, upData
  <2>1. \A g \in Files : Out(g) => Out(g)'
    BY DEF Out, MovedInto, Names
  <2>2. Kept'
    BY <2>1 DEF Kept, Here, Unzipped, ToGet
  <2>3. (SwitchKept /\ TransKept)'
    BY <2>1 DEF SwitchKept, TransKept, ZipKept, SwitchWhole, TransWhole
  <2>4. (UploadKept /\ DownloadKept)'
    BY DEF UploadKept, DownloadKept, Empty
  <2> QED
    BY <2>1, <2>2, <2>3, <2>4
<1>9. CASE RemoveWork
  <2> USE <1>9 DEF RemoveWork, UpEnds, NoMishap, dirVars, swVars, trVars, dlVars, upData
  <2>1. \A g \in Files : Out(g) => Out(g)'
    BY DEF Out, UploadKept
  <2>2. Kept'
    BY <2>1 DEF Kept, Here, Unzipped, ToGet
  <2>3. (SwitchKept /\ TransKept)'
    BY <2>1 DEF SwitchKept, TransKept, ZipKept, SwitchWhole, TransWhole
  <2>4. (UploadKept /\ DownloadKept)'
    BY DEF UploadKept, DownloadKept, Empty
  <2> QED
    BY <2>1, <2>2, <2>3, <2>4
<1> QED
  BY <1>1, <1>2, <1>3, <1>4, <1>5, <1>6, <1>7, <1>8, <1>9 DEF UploadFile

(* The download gives up only what the bank still has.                     *)
LEMMA DownloadLoses ==
  ASSUME KeptInv, DownFile, UNCHANGED <<swVars, trVars, upVars, batch>>
  PROVE  (Kept /\ SwitchKept /\ TransKept /\ UploadKept /\ DownloadKept)'
<1> USE DEF KeptInv, Inv
<1> DEFINE Goal == Kept /\ SwitchKept /\ TransKept /\ UploadKept /\ DownloadKept
<1>1. CASE RecoverDir
  <2> USE <1>1 DEF RecoverDir, Mishap, swVars, trVars, upVars
  <2>1. \A g \in Files : Out(g) => Out(g)'
    BY DEF Out
  <2>2. Kept'
    BY <2>1 DEF Kept, Here, Unzipped, ToGet, MovedInto, Names, DownloadKept
  <2>3. (SwitchKept /\ TransKept)'
    BY DEF SwitchKept, TransKept, ZipKept, Types, Out, SwitchWhole, MovedInto
  <2>4. (UploadKept /\ DownloadKept)'
    BY DEF UploadKept, DownloadKept, Empty, Names
  <2> QED
    BY <2>1, <2>2, <2>3, <2>4
<1>2. ASSUME NEW f \in Files, GetStarts(f) PROVE Goal'
  <2> USE <1>2 DEF GetStarts, NoMishap, dirVars, swVars, trVars, upVars
  <2>1. \A g \in Files : Out(g) => Out(g)'
    BY DEF Out
  <2>2. Kept'
    BY <2>1 DEF Kept, Here, Unzipped, ToGet
  <2>3. (SwitchKept /\ TransKept)'
    BY DEF SwitchKept, TransKept, ZipKept, Out
  <2>4. (UploadKept /\ DownloadKept)'
    BY DEF UploadKept, DownloadKept
  <2> QED
    BY <2>1, <2>2, <2>3, <2>4
<1>3. ASSUME NEW f \in Files, GetEnds(f) PROVE Goal'
  <2> USE <1>3 DEF GetEnds, NoMishap, Mishap, dirVars, swVars, trVars, upVars
  <2>1. \A g \in Files : Out(g) => Out(g)'
    BY DEF Out
  <2>2. Kept'
    BY DEF Kept, Here, Unzipped, ToGet, Out, Types, Directory, DownloadKept
  <2>3. (SwitchKept /\ TransKept)'
    BY DEF SwitchKept, TransKept, ZipKept, Out
  <2>4. (UploadKept /\ DownloadKept)'
    BY DEF UploadKept, DownloadKept, Types, Directory
  <2> QED
    BY <2>1, <2>2, <2>3, <2>4
<1>4. CASE MoveGotten
  <2> USE <1>4 DEF MoveGotten, NoMishap, Mishap, swVars, trVars, upVars
  <2>1. \A g \in Files : Out(g) => Out(g)'
    BY DEF Out
  <2>2. Kept'
    BY <2>1 DEF Kept, Here, Unzipped, ToGet, MovedInto
  <2>3. (SwitchKept /\ TransKept)'
    BY DEF SwitchKept, TransKept, ZipKept, Types, Out, SwitchWhole, MovedInto
  <2>4. (UploadKept /\ DownloadKept)'
    BY DEF UploadKept, DownloadKept, Empty, Names
  <2> QED
    BY <2>1, <2>2, <2>3, <2>4
<1>5. CASE DownloadEnds
  <2> USE <1>5 DEF DownloadEnds, DlEnds, NoMishap, dirVars, swVars, trVars, upVars
  <2>1. \A g \in Files : Out(g) => Out(g)'
    BY DEF Out
  <2>2. Kept'
    BY DEF Kept, Here, Unzipped, ToGet, Out, DownloadKept
  <2>3. (SwitchKept /\ TransKept)'
    BY DEF SwitchKept, TransKept, ZipKept, Out
  <2>4. (UploadKept /\ DownloadKept)'
    BY DEF UploadKept, DownloadKept, Empty
  <2> QED
    BY <2>1, <2>2, <2>3, <2>4
<1> QED
  BY <1>1, <1>2, <1>3, <1>4, <1>5 DEF DownFile

(* What comes is there.                                                    *)
LEMMA DeliverLoses ==
  ASSUME KeptInv, NEW f \in Files, Deliver(f), UNCHANGED batch
  PROVE  (Kept /\ SwitchKept /\ TransKept /\ UploadKept /\ DownloadKept)'
<1> USE DEF KeptInv, Inv, Deliver, swVars, trVars, upVars, dlVars
<1>1. Format[f] # "none"
  BY ForwardAssumption
<1>2. Kept'
  BY <1>1 DEF Kept, Out, Here, Unzipped, ToGet, Types, Directory
<1>3. (SwitchKept /\ TransKept)'
  BY <1>1 DEF SwitchKept, TransKept, ZipKept, Out, Types, Directory, SwitchWhole
<1>4. (UploadKept /\ DownloadKept)'
  BY DEF UploadKept, DownloadKept
<1> QED
  BY <1>2, <1>3, <1>4

(* A kill moves files to where the next task looks for them.               *)
LEMMA KillLoses ==
  ASSUME KeptInv, Kill, UNCHANGED batch
  PROVE  (Kept /\ SwitchKept /\ TransKept /\ UploadKept /\ DownloadKept)'
<1> USE DEF KeptInv, Inv, Kill, Mishap, SwKilled, TrKilled, UpKilled, UpEnds, DlKilled, DlEnds,
        dirVars
<1>1. \A g \in Files : Out(g) => Out(g)'
  BY DEF Out, MovedInto
<1>2. Kept'
  BY <1>1 DEF Kept, Here, Unzipped, ToGet, MovedInto
<1>3. (SwitchKept /\ TransKept /\ UploadKept)'
  BY DEF SwitchKept, TransKept, ZipKept, UploadKept, Empty
<1>4. DownloadKept'
  BY DEF DownloadKept, MovedInto, Empty
<1> QED
  BY <1>2, <1>3, <1>4

(* A restart and a stutter change none of it.                              *)
LEMMA UnchangedLoses ==
  ASSUME KeptInv, UNCHANGED <<dirVars, pastVars, swVars, trVars, upVars, dlVars>>
  PROVE  (Kept /\ SwitchKept /\ TransKept /\ UploadKept /\ DownloadKept)'
BY DEF KeptInv, Kept, SwitchKept, TransKept, UploadKept, DownloadKept, ZipKept, Out, Here,
   Unzipped,
       ToGet, dirVars, pastVars, swVars, trVars, upVars, dlVars

(* At the start there is only what the bank has.                           *)
LEMMA InitKept == Init => KeptInv
<1> SUFFICES ASSUME Init PROVE KeptInv
  OBVIOUS
<1> USE DEF Init, DirInit, SwInit, TrInit, UpInit, DlInit
<1>1. Inv
  BY InitInv
<1>2. delivered \subseteq Files /\ \A f \in delivered : bankDir[f] # "none"
  BY ForwardAssumption
<1>3. Kept
  BY <1>2 DEF Kept, ToGet
<1>4. SwitchKept /\ TransKept /\ UploadKept /\ DownloadKept
  BY DEF SwitchKept, TransKept, ZipKept, UploadKept, DownloadKept, Empty
<1> QED
  BY <1>1, <1>3, <1>4 DEF KeptInv

(* One lemma per thread.                                                   *)
LEMMA NextKept == KeptInv /\ [Next]_vars => KeptInv'
<1> SUFFICES ASSUME KeptInv, [Next]_vars
             PROVE  (Kept /\ SwitchKept /\ TransKept /\ UploadKept /\ DownloadKept)'
  BY NextInv DEF KeptInv
<1> DEFINE Goal == Kept /\ SwitchKept /\ TransKept /\ UploadKept /\ DownloadKept
<1>1. ASSUME NEW f \in Files, Deliver(f), UNCHANGED batch PROVE Goal'
  BY <1>1, DeliverLoses
<1>2. CASE Kill /\ UNCHANGED batch
  BY <1>2, KillLoses
<1>3. CASE Restart /\ UNCHANGED batch
  BY <1>3, UnchangedLoses DEF Restart, pastVars
<1>4. CASE Switching /\ UNCHANGED batch
  BY <1>4, SwitchLoses DEF Switching
<1>5. CASE Transforming /\ UNCHANGED batch
  BY <1>5, TransLoses DEF Transforming
<1>6. CASE Uploading /\ UNCHANGED batch
  BY <1>6, UploadLoses DEF Uploading
<1>7. CASE Downloading /\ UNCHANGED batch
  BY <1>7, DownloadLoses DEF Downloading
<1>8. CASE UNCHANGED vars
  BY <1>8, UnchangedLoses DEF vars
<1> QED
  BY <1>1, <1>2, <1>3, <1>4, <1>5, <1>6, <1>7, <1>8 DEF Next

(* Whatever is killed and whichever command fails, a file that came is     *)
(* waiting, on its way out, received, in the error directory or unpacked,  *)
(* unless a command failed on it with nobody looking: every thread makes   *)
(* the next copy before it gives up the last.                              *)
THEOREM NothingLostCorrect == Spec => []NothingLost
<1>1. KeptInv => NothingLost
  BY DEF KeptInv, Inv, Types, Kept, Out, Here, Unzipped, ToGet, NothingLost, Waiting, Outbound,
         Names
<1>2. Spec => []KeptInv
  BY InitKept, NextKept, PTL DEF Spec
<1> QED
  BY <1>1, <1>2, PTL
=============================================================================
