-------------------------- MODULE ForwardingProofs -------------------------
(***************************************************************************)
(* For any files, batches and mishaps, kills included: what the length of  *)
(* a file tells of its format, that what the other bank receives is whole  *)
(* and in the standard format, that what is stored as sent was received,   *)
(* and how often a file is sent.                                           *)
(***************************************************************************)
EXTENDS Forwarding, TLAPS

(* Poka's records are 105 bytes longer.  1644 = 3 * 548, 105 = 3 * 35, and  *)
(* 35 has no factor in common with 548.                                    *)
LEMMA LengthsCoincide ==
  ASSUME NEW n \in Nat
  PROVE  (n * 1749) % 1644 = 0 <=> n % 548 = 0
<1> DEFINE q == n \div 548
           r == n % 548
<1>1. q \in Nat /\ r \in 0 .. 547 /\ n = 548 * q + r
  OBVIOUS
<1> HIDE DEF q, r
<1>2. n * 1749 = 1644 * (583 * q + r) + r * 105
  BY <1>1
<1>3. (r * 105) % 1644 = 0 <=> r = 0
  BY <1>1
<1>4. (1644 * (583 * q + r) + r * 105) % 1644 = (r * 105) % 1644
  BY <1>1
<1>5. (n * 1749) % 1644 = 0 <=> r = 0
  BY <1>2, <1>3, <1>4
<1> QED
  BY <1>5 DEF r

(* checkFileSize passes every standard file on as it is, and recognizes a  *)
(* Poka file exactly if its number of records is no multiple of 548.       *)
THEOREM FormatTold ==
  \A f \in Files :
    /\ Format[f] = "whole" => checkFileSize(FileSize(f)) = 0
    /\ Format[f] = "poka" => (checkFileSize(FileSize(f)) = 1 <=> Records[f] % 548 # 0)
<1> SUFFICES ASSUME NEW f \in Files
             PROVE  /\ Format[f] = "whole" => checkFileSize(FileSize(f)) = 0
                    /\ Format[f] = "poka" =>
                         (checkFileSize(FileSize(f)) = 1 <=> Records[f] % 548 # 0)
  OBVIOUS
<1> DEFINE n == Records[f]
<1>1. n \in Nat
  BY ForwardAssumption
<1> USE DEF FILE_HEAD_SIZE, STANDARD_ONE_RECORD_SIZE, ONE_RECORD_SIZE
<1>2. ASSUME Format[f] = "whole" PROVE checkFileSize(FileSize(f)) = 0
  <2>1. FileSize(f) = 32 + n * 1644
    BY <1>1, <1>2 DEF FileSize
  <2>2. FileSize(f) - 32 = n * 1644 /\ (n * 1644) % 1644 = 0
    BY <1>1, <2>1
  <2> QED
    BY <2>2 DEF checkFileSize
<1>3. ASSUME Format[f] = "poka"
      PROVE  checkFileSize(FileSize(f)) = 1 <=> n % 548 # 0
  <2>1. FileSize(f) = 32 + n * 1749
    BY <1>1, <1>3 DEF FileSize
  <2>2. FileSize(f) - 32 = n * 1749 /\ (n * 1749) % 1749 = 0
    BY <1>1, <2>1
  <2>3. (n * 1749) % 1644 = 0 <=> n % 548 = 0
    BY <1>1, LengthsCoincide
  <2>4. CASE n % 548 = 0
    BY <2>2, <2>3, <2>4 DEF checkFileSize
  <2>5. CASE n % 548 # 0
    BY <2>2, <2>3, <2>5 DEF checkFileSize
  <2> QED
    BY <2>4, <2>5
<1> QED
  BY <1>2, <1>3

-----------------------------------------------------------------------------

Types ==
  /\ switchDir \in Directory /\ transDir \in Directory /\ ready \in Directory /\ tmp \in Directory
  /\ work \in Directory /\ stale \in Directory /\ remote \in Directory
  /\ bankDir \in Directory /\ dlWork \in Directory /\ dlStale \in Directory
  /\ swTodo \subseteq Files /\ trTodo \subseteq Files /\ upTodo \subseteq Files
  /\ dlTodo \subseteq Files /\ stored \subseteq Files
  /\ swUnpacked \subseteq Inner /\ trUnpacked \subseteq Inner
  /\ batch \in Batches

(* The files of d, but for those of a command that nobody looked at.       *)
Good(d) == \A f \in Files : d[f] \in {"none", "whole"} \/ f \in ignored

OutWhole == Good(ready) /\ Good(work) /\ Good(stale) /\ Good(remote)

(* The copy is whole before it gets its name.                              *)
SwitchWhole ==
  /\ Good(switchDir)
  /\ swPlace \in {"copy", "publish", "insert"} => swFile \in Files
  /\ swPlace = "unzip" => swFile \in Zips
  /\ swPlace = "publish" => tmp[swFile] \in {"none", "whole"} \/ swFile \in ignored

(* The file that is read has Poka's records, the file that was written is  *)
(* whole, and the list of the scan holds none of both.                     *)
TransWhole ==
  /\ \A f \in Files : transDir[f] \in {"none", Format[f]}
  /\ trTodo \subseteq Names(transDir)
  /\ trPlace \in {"write", "rename", "remove"} => trFile \in Files \ trTodo
  /\ trPlace = "unzip" => trFile \in Zips
  /\ trPlace = "write" => transDir[trFile] = "poka"
  /\ trPlace = "rename" => tmp[trFile] = "whole"

(* A part of a file is of one that mget has still to get.                  *)
GotWhole ==
  /\ \A f \in Files : bankDir[f] \in {"none", "whole"}
  /\ \A f \in Files : dlWork[f] \in {"none", "whole", "part"}
  /\ \A f \in Files : dlStale[f] \in {"none", "whole", "part"}
  /\ \A f \in Files : dlWork[f] = "part" => f \in ignored \/ (dlPlace = "get" /\ f \in dlTodo)

(* A batch comes in at one place, and threads that have nothing to do do   *)
(* nothing.                                                                *)
SwitchIdle ==
  batch.entrance = "trans" =>
    /\ switchDir = Empty /\ swTodo = {} /\ swPlace \in {"sleep", "scan"}
    /\ bankDir = Empty /\ dlPlace = "idle" /\ dlWork = Empty /\ dlStale = Empty
TransIdle ==
  batch.entrance # "trans" =>
    transDir = Empty /\ trTodo = {} /\ trPlace \in {"sleep", "scan"}

(* A batch is moved to the handled directory after it was received.        *)
StoredSent ==
  /\ \A f \in stored \ ignored : remote[f] # "none"
  /\ upPlace = "store" => \A f \in Files \ ignored : work[f] # "none" => remote[f] # "none"

Inv ==
  /\ Types
  /\ OutWhole /\ SwitchWhole /\ TransWhole /\ GotWhole
  /\ SwitchIdle /\ TransIdle /\ StoredSent

-----------------------------------------------------------------------------
(* What goes wrong only adds to the files nobody looked at.                *)
LEMMA IgnoredGrows ==
  ASSUME NEW k, NEW S, Mishap(k, S) \/ NoMishap
  PROVE  ignored \subseteq ignored'
BY DEF Mishap, NoMishap

(* What a zip holds are files and no zips.                                 *)
LEMMA InnerFiles == Inner \subseteq Files /\ \A f \in Inner : f \notin Zips
BY ForwardAssumption DEF Inner, Zips

(* SwitchFileThread: the copy gets its name after it was written.          *)
LEMMA SwitchKeeps ==
  ASSUME Inv, SwitchFileThread, UNCHANGED <<trVars, upVars, dlVars, batch>>
  PROVE  Inv'
<1> USE DEF Inv
<1>1. CASE OpenSwitchDir
  <2> USE <1>1 DEF OpenSwitchDir, NoMishap, dirVars, trVars, upVars, dlVars
  <2>1. Types'
    BY DEF Types, Names
  <2>2. (OutWhole /\ SwitchWhole /\ TransWhole /\ GotWhole)'
    BY DEF OutWhole, SwitchWhole, TransWhole, GotWhole, Good, Names
  <2>3. (SwitchIdle /\ TransIdle /\ StoredSent)'
    BY DEF SwitchIdle, TransIdle, StoredSent, Names, Empty
  <2> QED
    BY <2>1, <2>2, <2>3
<1>2. ASSUME NEW f \in Files, CopyStarts(f) PROVE Inv'
  <2> USE <1>2 DEF CopyStarts, NoMishap, trVars, upVars, dlVars
  <2>1. Types'
    BY DEF Types, Directory, Contents
  <2>2. (OutWhole /\ SwitchWhole /\ GotWhole)'
    BY DEF OutWhole, SwitchWhole, GotWhole, Good
  <2>3. TransWhole'
    BY DEF TransWhole, TransIdle, SwitchIdle, Names
  <2>4. (SwitchIdle /\ TransIdle /\ StoredSent)'
    BY DEF SwitchIdle, TransIdle, StoredSent
  <2> QED
    BY <2>1, <2>2, <2>3, <2>4
<1>3. CASE CopyEnds
  <2> USE <1>3 DEF CopyEnds, NoMishap, Mishap, trVars, upVars, dlVars
  <2>0. swFile \in Files
    BY DEF SwitchWhole
  <2>1. Types'
    BY <2>0 DEF Types, Directory, Contents
  <2>2. (OutWhole /\ GotWhole)'
    BY DEF OutWhole, GotWhole, Good
  <2>3. SwitchWhole'
    BY <2>0 DEF SwitchWhole, Good, Types, Directory
  <2>4. TransWhole'
    BY DEF TransWhole, TransIdle, SwitchIdle, Names
  <2>5. (SwitchIdle /\ TransIdle /\ StoredSent)'
    BY DEF SwitchIdle, TransIdle, StoredSent
  <2> QED
    BY <2>1, <2>2, <2>3, <2>4, <2>5
<1>4. CASE PublishCopy
  <2> USE <1>4 DEF PublishCopy, NoMishap, Mishap, trVars, upVars, dlVars
  <2>0. swFile \in Files
    BY DEF SwitchWhole
  <2>1. Types'
    BY <2>0 DEF Types, Directory, Without
  <2>2. (OutWhole /\ GotWhole)'
    BY <2>0 DEF OutWhole, SwitchWhole, GotWhole, Good, Types, Directory
  <2>3. SwitchWhole'
    BY <2>0 DEF SwitchWhole, Good
  <2>4. TransWhole'
    BY DEF TransWhole, TransIdle, SwitchIdle, Names
  <2>5. (SwitchIdle /\ TransIdle /\ StoredSent)'
    BY DEF SwitchIdle, TransIdle, StoredSent
  <2> QED
    BY <2>1, <2>2, <2>3, <2>4, <2>5
<1>5. CASE MoveToInsert
  <2> USE <1>5 DEF MoveToInsert, NoMishap, Mishap, trVars, upVars, dlVars
  <2>1. Types'
    BY DEF Types, Directory, Without
  <2>2. (OutWhole /\ SwitchWhole /\ GotWhole)'
    BY DEF OutWhole, SwitchWhole, GotWhole, Good, Without
  <2>3. TransWhole'
    BY DEF TransWhole, Names
  <2>4. (SwitchIdle /\ TransIdle /\ StoredSent)'
    BY DEF SwitchIdle, TransIdle, StoredSent
  <2> QED
    BY <2>1, <2>2, <2>3, <2>4
<1>6. CASE CloseSwitchDir
  <2> USE <1>6 DEF CloseSwitchDir, NoMishap, dirVars, trVars, upVars, dlVars
  <2>1. Types'
    BY DEF Types
  <2>2. (OutWhole /\ SwitchWhole /\ TransWhole /\ GotWhole)'
    BY DEF OutWhole, SwitchWhole, TransWhole, GotWhole, Good, Names
  <2>3. (SwitchIdle /\ TransIdle /\ StoredSent)'
    BY DEF SwitchIdle, TransIdle, StoredSent
  <2> QED
    BY <2>1, <2>2, <2>3
<1>7. ASSUME NEW z \in Zips, SwZip!StartFile(z), UNCHANGED <<transDir, ready, tmp, insertDir>>
      PROVE  Inv'
  <2> USE <1>7 DEF SwZip!StartFile, SwZip!NoMishap, SwZip!Mishap, SwZip!Without,
          trVars, upVars, dlVars
  <2>1. Types'
    BY DEF Types, Directory, Without
  <2>2. (OutWhole /\ SwitchWhole /\ GotWhole)'
    BY DEF OutWhole, SwitchWhole, GotWhole, Good, Without
  <2>3. TransWhole'
    BY DEF TransWhole, Names
  <2>4. (SwitchIdle /\ TransIdle /\ StoredSent)'
    BY DEF SwitchIdle, TransIdle, StoredSent
  <2> QED
    BY <2>1, <2>2, <2>3, <2>4
<1>8. CASE SwZip!Unzip /\ UNCHANGED <<transDir, ready, tmp, insertDir>>
  <2> USE <1>8 DEF SwZip!Unzip, SwZip!NoMishap, SwZip!Mishap, SwZip!Without,
          trVars, upVars, dlVars
  <2>1. swFile \in Zips /\ Inside[swFile] \subseteq Inner
    BY DEF SwitchWhole, Inner
  <2>2. Types'
    BY <2>1 DEF Types
  <2>3. (OutWhole /\ SwitchWhole /\ GotWhole)'
    BY DEF OutWhole, SwitchWhole, GotWhole, Good
  <2>4. TransWhole'
    BY DEF TransWhole, Names
  <2>5. (SwitchIdle /\ TransIdle /\ StoredSent)'
    BY DEF SwitchIdle, TransIdle, StoredSent
  <2> QED
    BY <2>1, <2>2, <2>3, <2>4, <2>5
<1>9. CASE SwZip!MoveOut /\ UNCHANGED <<transDir, ready, tmp, insertDir>>
  <2> USE <1>9 DEF SwZip!MoveOut, SwZip!NoMishap, SwZip!Mishap, SwZip!Without,
          trVars, upVars, dlVars
  <2>1. batch.entrance # "trans" /\ \A f \in swUnpacked : Format[f] = "whole"
    BY FormatAssumption DEF SwitchIdle, Types
  <2>2. Types'
    BY <2>1 DEF Types, Directory, Contents
  <2>3. (OutWhole /\ SwitchWhole /\ GotWhole)'
    BY <2>1 DEF OutWhole, SwitchWhole, GotWhole, Good
  <2>4. TransWhole'
    BY DEF TransWhole, Names
  <2>5. (SwitchIdle /\ TransIdle /\ StoredSent)'
    BY <2>1 DEF TransIdle, SwitchIdle, StoredSent
  <2> QED
    BY <2>1, <2>2, <2>3, <2>4, <2>5
<1>10. CASE SwZip!RemoveZip /\ UNCHANGED <<transDir, ready, tmp, insertDir>>
  <2> USE <1>10 DEF SwZip!RemoveZip, SwZip!NoMishap, SwZip!Mishap, SwZip!Without,
          trVars, upVars, dlVars
  <2>1. Types'
    BY DEF Types
  <2>2. (OutWhole /\ SwitchWhole /\ GotWhole)'
    BY DEF OutWhole, SwitchWhole, GotWhole, Good
  <2>3. TransWhole'
    BY DEF TransWhole, Names
  <2>4. (SwitchIdle /\ TransIdle /\ StoredSent)'
    BY DEF SwitchIdle, TransIdle, StoredSent
  <2> QED
    BY <2>1, <2>2, <2>3, <2>4
<1> QED
  BY <1>1, <1>2, <1>3, <1>4, <1>5, <1>6, <1>7, <1>8, <1>9, <1>10
     DEF SwitchFileThread, SwZip!ZIPFile

(* ListTransFormDirThread: what is passed on is standard or converted.     *)
LEMMA TransKeeps ==
  ASSUME Inv, ListTransFormDirThread, UNCHANGED <<swVars, upVars, dlVars, batch>>
  PROVE  Inv'
<1> USE DEF Inv
<1>1. CASE OpenTransDir
  <2> USE <1>1 DEF OpenTransDir, NoMishap, Mishap, dirVars, swVars, upVars, dlVars
  <2>1. Types'
    BY DEF Types, Names
  <2>2. (OutWhole /\ SwitchWhole /\ GotWhole)'
    BY DEF OutWhole, SwitchWhole, GotWhole, Good
  <2>3. TransWhole'
    BY DEF TransWhole, Names
  <2>4. (SwitchIdle /\ TransIdle /\ StoredSent)'
    BY DEF SwitchIdle, TransIdle, StoredSent, Names, Empty
  <2> QED
    BY <2>1, <2>2, <2>3, <2>4
<1>2. ASSUME NEW f \in Files, MoveTransFSNFile(f) PROVE Inv'
  <2> USE <1>2 DEF MoveTransFSNFile, NoMishap, Mishap, dirVars, swVars, upVars, dlVars
  <2>1. transDir[f] = Format[f]
    BY DEF TransWhole, Names
  <2>2. checkFileSize(FileSize(f)) = 0 => Format[f] = "whole"
    BY FormatTold, FormatAssumption, ForwardAssumption
  <2>3. Types'
    BY DEF Types, Directory, Without
  <2>4. (OutWhole /\ SwitchWhole /\ GotWhole)'
    BY <2>1, <2>2 DEF Types, Directory, OutWhole, SwitchWhole, GotWhole, Good
  <2>5. TransWhole'
    BY DEF TransWhole, Names, Without
  <2>6. (SwitchIdle /\ TransIdle /\ StoredSent)'
    BY DEF SwitchIdle, TransIdle, StoredSent
  <2> QED
    BY <2>1, <2>2, <2>3, <2>4, <2>5, <2>6
<1>3. ASSUME NEW f \in Files, TransStarts(f) PROVE Inv'
  <2> USE <1>3 DEF TransStarts, NoMishap, Mishap, dirVars, swVars, upVars, dlVars
  <2>1. transDir[f] = Format[f] /\ batch.entrance = "trans"
    BY DEF TransWhole, TransIdle, Names
  <2>2. Format[f] = "poka"
    BY FormatTold, FormatAssumption, ForwardAssumption
  <2>3. Types'
    BY DEF Types, Directory, Contents
  <2>4. (OutWhole /\ SwitchWhole /\ GotWhole)'
    BY <2>1 DEF SwitchIdle, OutWhole, SwitchWhole, GotWhole, Good
  <2>5. TransWhole'
    BY <2>1, <2>2 DEF TransWhole, Names
  <2>6. (SwitchIdle /\ TransIdle /\ StoredSent)'
    BY <2>1 DEF SwitchIdle, TransIdle, StoredSent
  <2> QED
    BY <2>1, <2>2, <2>3, <2>4, <2>5, <2>6
<1>4. CASE TransEnds
  <2> USE <1>4 DEF TransEnds, NoMishap, Mishap, dirVars, swVars, upVars, dlVars
  <2>1. trFile \in Files /\ transDir[trFile] = "poka" /\ batch.entrance = "trans"
    BY DEF TransWhole, TransIdle
  <2>2. Types'
    BY <2>1 DEF Types, Directory, Contents, Without, Converted
  <2>3. (OutWhole /\ SwitchWhole /\ GotWhole)'
    BY <2>1 DEF SwitchIdle, OutWhole, SwitchWhole, GotWhole, Good
  <2>4. TransWhole'
    BY <2>1 DEF TransWhole, Names, Converted, Types, Directory
  <2>5. (SwitchIdle /\ TransIdle /\ StoredSent)'
    BY <2>1 DEF SwitchIdle, TransIdle, StoredSent
  <2> QED
    BY <2>1, <2>2, <2>3, <2>4, <2>5
<1>5. CASE RenameConverted
  <2> USE <1>5 DEF RenameConverted, NoMishap, Mishap, dirVars, swVars, upVars, dlVars
  <2>1. trFile \in Files /\ tmp[trFile] = "whole" /\ batch.entrance = "trans"
    BY DEF TransWhole, TransIdle
  <2>2. Types'
    BY <2>1 DEF Types, Directory, Without
  <2>3. (OutWhole /\ SwitchWhole /\ GotWhole)'
    BY <2>1 DEF SwitchIdle, Types, Directory, OutWhole, SwitchWhole, GotWhole, Good
  <2>4. TransWhole'
    BY <2>1 DEF TransWhole, Names
  <2>5. (SwitchIdle /\ TransIdle /\ StoredSent)'
    BY <2>1 DEF SwitchIdle, TransIdle, StoredSent
  <2> QED
    BY <2>1, <2>2, <2>3, <2>4, <2>5
<1>6. CASE RemoveSource
  <2> USE <1>6 DEF RemoveSource, NoMishap, Mishap, dirVars, swVars, upVars, dlVars
  <2>1. trFile \in Files \ trTodo
    BY DEF TransWhole
  <2>2. Types'
    BY DEF Types, Directory, Without
  <2>3. (OutWhole /\ SwitchWhole /\ GotWhole)'
    BY DEF OutWhole, SwitchWhole, GotWhole, Good
  <2>4. TransWhole'
    BY <2>1 DEF TransWhole, Names, Without
  <2>5. (SwitchIdle /\ TransIdle /\ StoredSent)'
    BY DEF SwitchIdle, TransIdle, StoredSent
  <2> QED
    BY <2>1, <2>2, <2>3, <2>4, <2>5
<1>7. CASE CloseTransDir
  <2> USE <1>7 DEF CloseTransDir, NoMishap, Mishap, dirVars, swVars, upVars, dlVars
  <2>1. Types'
    BY DEF Types
  <2>2. (OutWhole /\ SwitchWhole /\ GotWhole)'
    BY DEF OutWhole, SwitchWhole, GotWhole, Good
  <2>3. TransWhole'
    BY DEF TransWhole, Names
  <2>4. (SwitchIdle /\ TransIdle /\ StoredSent)'
    BY DEF SwitchIdle, TransIdle, StoredSent
  <2> QED
    BY <2>1, <2>2, <2>3, <2>4
<1>8. ASSUME NEW z \in Zips, TrZip!StartFile(z), UNCHANGED <<switchDir, ready, tmp, trErrored>>
      PROVE  Inv'
  <2> USE <1>8 DEF TrZip!StartFile, TrZip!NoMishap, TrZip!Mishap, TrZip!Without,
          dirVars, swVars, upVars, dlVars
  <2>1. Types'
    BY DEF Types, Directory, Without
  <2>2. (OutWhole /\ SwitchWhole /\ GotWhole)'
    BY DEF OutWhole, SwitchWhole, GotWhole, Good
  <2>3. TransWhole'
    BY DEF TransWhole, Names, Without
  <2>4. (SwitchIdle /\ TransIdle /\ StoredSent)'
    BY DEF SwitchIdle, TransIdle, StoredSent
  <2> QED
    BY <2>1, <2>2, <2>3, <2>4
<1>9. CASE TrZip!Unzip /\ UNCHANGED <<switchDir, ready, tmp, trErrored>>
  <2> USE <1>9 DEF TrZip!Unzip, TrZip!NoMishap, TrZip!Mishap, TrZip!Without,
          dirVars, swVars, upVars, dlVars
  <2>1. trFile \in Zips /\ Inside[trFile] \subseteq Inner
    BY DEF TransWhole, Inner
  <2>2. Types'
    BY <2>1 DEF Types
  <2>3. (OutWhole /\ SwitchWhole /\ GotWhole)'
    BY DEF OutWhole, SwitchWhole, GotWhole, Good
  <2>4. TransWhole'
    BY DEF TransWhole, Names
  <2>5. (SwitchIdle /\ TransIdle /\ StoredSent)'
    BY DEF SwitchIdle, TransIdle, StoredSent
  <2> QED
    BY <2>1, <2>2, <2>3, <2>4, <2>5
<1>10. CASE TrZip!MoveOut /\ UNCHANGED <<switchDir, ready, tmp, trErrored>>
  <2> USE <1>10 DEF TrZip!MoveOut, TrZip!NoMishap, TrZip!Mishap, TrZip!Without,
          dirVars, swVars, upVars, dlVars
  <2>1. batch.entrance = "trans"
    BY DEF TransIdle
  <2>2. Types'
    BY ForwardAssumption DEF Types, Directory, Contents
  <2>3. (OutWhole /\ SwitchWhole /\ GotWhole)'
    BY DEF OutWhole, SwitchWhole, GotWhole, Good
  <2>4. TransWhole'
    BY ForwardAssumption DEF TransWhole, Names
  <2>5. (SwitchIdle /\ TransIdle /\ StoredSent)'
    BY <2>1 DEF SwitchIdle, TransIdle, StoredSent
  <2> QED
    BY <2>1, <2>2, <2>3, <2>4, <2>5
<1>11. CASE TrZip!RemoveZip /\ UNCHANGED <<switchDir, ready, tmp, trErrored>>
  <2> USE <1>11 DEF TrZip!RemoveZip, TrZip!NoMishap, TrZip!Mishap, TrZip!Without,
          dirVars, swVars, upVars, dlVars
  <2>1. Types'
    BY DEF Types
  <2>2. (OutWhole /\ SwitchWhole /\ GotWhole)'
    BY DEF OutWhole, SwitchWhole, GotWhole, Good
  <2>3. TransWhole'
    BY DEF TransWhole, Names
  <2>4. (SwitchIdle /\ TransIdle /\ StoredSent)'
    BY DEF SwitchIdle, TransIdle, StoredSent
  <2> QED
    BY <2>1, <2>2, <2>3, <2>4
<1> QED
  BY <1>1, <1>2, <1>3, <1>4, <1>5, <1>6, <1>7, <1>8, <1>9, <1>10, <1>11
     DEF ListTransFormDirThread, TrZip!ZIPFile

(* UploadFile: what is stored was received.                                *)
LEMMA UploadKeeps ==
  ASSUME Inv, UploadFile, UNCHANGED <<swVars, trVars, dlVars, batch>>
  PROVE  Inv'
<1> USE DEF Inv
<1>1. CASE UploadStarts
  <2> USE <1>1 DEF UploadStarts, NoMishap, Mishap, dirVars, upData, swVars, trVars, dlVars
  <2>1. Types'
    BY DEF Types, Names
  <2>2. OutWhole'
    BY DEF OutWhole, Good
  <2>3. (SwitchWhole /\ TransWhole /\ GotWhole /\ SwitchIdle /\ TransIdle)'
    BY DEF SwitchWhole, TransWhole, GotWhole, SwitchIdle, TransIdle, Good, Names
  <2>4. StoredSent'
    BY DEF StoredSent
  <2> QED
    BY <2>1, <2>2, <2>3, <2>4
<1>2. ASSUME NEW f \in Files, TakeFile(f) PROVE Inv'
  <2> USE <1>2 DEF TakeFile, NoMishap, Mishap, dirVars, upData, swVars, trVars, dlVars
  <2>1. Types'
    BY DEF Types, Directory, Without
  <2>2. OutWhole'
    BY DEF OutWhole, Good, Types, Directory, Without
  <2>3. (SwitchWhole /\ TransWhole /\ GotWhole /\ SwitchIdle /\ TransIdle)'
    BY DEF SwitchWhole, TransWhole, GotWhole, SwitchIdle, TransIdle, Good, Names
  <2>4. StoredSent'
    BY DEF StoredSent
  <2> QED
    BY <2>1, <2>2, <2>3, <2>4
<1>3. CASE RecoverStale
  <2> USE <1>3 DEF RecoverStale, NoMishap, Mishap, dirVars, upData, swVars, trVars, dlVars
  <2>1. Types'
    BY DEF Types, Directory, MovedInto, Empty
  <2>2. OutWhole'
    BY DEF OutWhole, Good, MovedInto, Empty
  <2>3. (SwitchWhole /\ TransWhole /\ GotWhole /\ SwitchIdle /\ TransIdle)'
    BY DEF SwitchWhole, TransWhole, GotWhole, SwitchIdle, TransIdle, Good, Names
  <2>4. StoredSent'
    BY DEF StoredSent
  <2> QED
    BY <2>1, <2>2, <2>3, <2>4
<1>4. CASE ScanEnds
  <2> USE <1>4 DEF ScanEnds, NoMishap, Mishap, dirVars, upData, swVars, trVars, dlVars
  <2>1. Types'
    BY DEF Types
  <2>2. OutWhole'
    BY DEF OutWhole, Good
  <2>3. (SwitchWhole /\ TransWhole /\ GotWhole /\ SwitchIdle /\ TransIdle)'
    BY DEF SwitchWhole, TransWhole, GotWhole, SwitchIdle, TransIdle, Good, Names
  <2>4. StoredSent'
    BY DEF StoredSent
  <2> QED
    BY <2>1, <2>2, <2>3, <2>4
<1>5. CASE PutFile
  <2> USE <1>5 DEF PutFile, Received, NoMishap, Mishap, dirVars, upData, swVars, trVars, dlVars
  <2>1. Types'
    BY DEF Types, Directory, MovedInto
  <2>2. OutWhole'
    BY DEF OutWhole, Good, MovedInto
  <2>3. (SwitchWhole /\ TransWhole /\ GotWhole /\ SwitchIdle /\ TransIdle)'
    BY DEF SwitchWhole, TransWhole, GotWhole, SwitchIdle, TransIdle, Good, Names
  <2>4. StoredSent'
    BY DEF StoredSent, MovedInto, Names, Types
  <2> QED
    BY <2>1, <2>2, <2>3, <2>4
<1>6. ASSUME NEW f \in Files, StoreFile(f) PROVE Inv'
  <2> USE <1>6 DEF StoreFile, NoMishap, Mishap, dirVars, upData, swVars, trVars, dlVars
  <2>1. Types'
    BY DEF Types, Directory, Without
  <2>2. OutWhole'
    BY DEF OutWhole, Good, Without
  <2>3. (SwitchWhole /\ TransWhole /\ GotWhole /\ SwitchIdle /\ TransIdle)'
    BY DEF SwitchWhole, TransWhole, GotWhole, SwitchIdle, TransIdle, Good, Names
  <2>4. StoredSent'
    BY DEF StoredSent, Names, Without
  <2> QED
    BY <2>1, <2>2, <2>3, <2>4
<1>7. CASE StoreEnds
  <2> USE <1>7 DEF StoreEnds, NoMishap, Mishap, dirVars, upData, swVars, trVars, dlVars
  <2>1. Types'
    BY DEF Types
  <2>2. OutWhole'
    BY DEF OutWhole, Good
  <2>3. (SwitchWhole /\ TransWhole /\ GotWhole /\ SwitchIdle /\ TransIdle)'
    BY DEF SwitchWhole, TransWhole, GotWhole, SwitchIdle, TransIdle, Good, Names
  <2>4. StoredSent'
    BY DEF StoredSent
  <2> QED
    BY <2>1, <2>2, <2>3, <2>4
<1>8. CASE RestoreFiles
  <2> USE <1>8 DEF RestoreFiles, UpEnds, NoMishap, Mishap, dirVars, upData, swVars, trVars,
          dlVars
  <2>1. Types'
    BY DEF Types, Directory, MovedInto, Empty
  <2>2. OutWhole'
    BY DEF OutWhole, Good, MovedInto, Empty
  <2>3. (SwitchWhole /\ TransWhole /\ GotWhole /\ SwitchIdle /\ TransIdle)'
    BY DEF SwitchWhole, TransWhole, GotWhole, SwitchIdle, TransIdle, Good, Names
  <2>4. StoredSent'
    BY DEF StoredSent
  <2> QED
    BY <2>1, <2>2, <2>3, <2>4
<1>9. CASE RemoveWork
  <2> USE <1>9 DEF RemoveWork, UpEnds, NoMishap, Mishap, dirVars, upData, swVars, trVars, dlVars
  <2>1. Types'
    BY DEF Types, Directory, Empty
  <2>2. OutWhole'
    BY DEF OutWhole, Good, Empty
  <2>3. (SwitchWhole /\ TransWhole /\ GotWhole /\ SwitchIdle /\ TransIdle)'
    BY DEF SwitchWhole, TransWhole, GotWhole, SwitchIdle, TransIdle, Good, Names
  <2>4. StoredSent'
    BY DEF StoredSent
  <2> QED
    BY <2>1, <2>2, <2>3, <2>4
<1> QED
  BY <1>1, <1>2, <1>3, <1>4, <1>5, <1>6, <1>7, <1>8, <1>9 DEF UploadFile

(* DownFile: a part of a file is of one still to be gotten.                *)
LEMMA DownloadKeeps ==
  ASSUME Inv, DownFile, UNCHANGED <<swVars, trVars, upVars, batch>>
  PROVE  Inv'
<1> USE DEF Inv
<1>1. CASE RecoverDir
  <2> USE <1>1 DEF RecoverDir, NoMishap, Mishap, dirVars, swVars, trVars, upVars
  <2>1. Types'
    BY DEF Types, Directory, MovedInto, Empty, Names
  <2>2. (OutWhole /\ TransWhole /\ TransIdle /\ StoredSent)'
    BY DEF OutWhole, TransWhole, TransIdle, StoredSent, Good, Names
  <2>3. SwitchWhole'
    BY DEF SwitchWhole, GotWhole, Good, MovedInto
  <2>4. SwitchIdle'
    BY DEF SwitchIdle
  <2>5. GotWhole'
    BY DEF GotWhole, Empty, Names
  <2> QED
    BY <2>1, <2>2, <2>3, <2>4, <2>5
<1>2. ASSUME NEW f \in Files, GetStarts(f) PROVE Inv'
  <2> USE <1>2 DEF GetStarts, NoMishap, Mishap, dirVars, swVars, trVars, upVars
  <2>1. Types'
    BY DEF Types, Directory, Contents
  <2>2. (OutWhole /\ TransWhole /\ TransIdle /\ StoredSent)'
    BY DEF OutWhole, TransWhole, TransIdle, StoredSent, Good, Names
  <2>3. SwitchWhole'
    BY DEF SwitchWhole, Good
  <2>4. SwitchIdle'
    BY DEF SwitchIdle
  <2>5. GotWhole'
    BY DEF GotWhole, Types, Directory
  <2> QED
    BY <2>1, <2>2, <2>3, <2>4, <2>5
<1>3. ASSUME NEW f \in Files, GetEnds(f) PROVE Inv'
  <2> USE <1>3 DEF GetEnds, NoMishap, Mishap, dirVars, swVars, trVars, upVars
  <2>1. Types'
    BY DEF Types, Directory, Contents
  <2>2. (OutWhole /\ TransWhole /\ TransIdle /\ StoredSent)'
    BY DEF OutWhole, TransWhole, TransIdle, StoredSent, Good, Names
  <2>3. SwitchWhole'
    BY DEF SwitchWhole, Good
  <2>4. SwitchIdle'
    BY DEF SwitchIdle
  <2>5. GotWhole'
    BY DEF GotWhole, Types, Directory
  <2> QED
    BY <2>1, <2>2, <2>3, <2>4, <2>5
<1>4. CASE MoveGotten
  <2> USE <1>4 DEF MoveGotten, NoMishap, Mishap, dirVars, swVars, trVars, upVars
  <2>1. Types'
    BY DEF Types, Directory, MovedInto, Empty
  <2>2. (OutWhole /\ TransWhole /\ TransIdle /\ StoredSent)'
    BY DEF OutWhole, TransWhole, TransIdle, StoredSent, Good, Names
  <2>3. SwitchWhole'
    BY DEF SwitchWhole, GotWhole, Good, MovedInto
  <2>4. SwitchIdle'
    BY DEF SwitchIdle
  <2>5. GotWhole'
    BY DEF GotWhole, Empty, Names
  <2> QED
    BY <2>1, <2>2, <2>3, <2>4, <2>5
<1>5. CASE DownloadEnds
  <2> USE <1>5 DEF DownloadEnds, DlEnds, NoMishap, Mishap, dirVars, swVars, trVars, upVars
  <2>1. Types'
    BY DEF Types, Directory, Empty
  <2>2. (OutWhole /\ TransWhole /\ TransIdle /\ StoredSent)'
    BY DEF OutWhole, TransWhole, TransIdle, StoredSent, Good, Names
  <2>3. SwitchWhole'
    BY DEF SwitchWhole, Good
  <2>4. SwitchIdle'
    BY DEF SwitchIdle
  <2>5. GotWhole'
    BY DEF GotWhole, Empty
  <2> QED
    BY <2>1, <2>2, <2>3, <2>4, <2>5
<1> QED
  BY <1>1, <1>2, <1>3, <1>4, <1>5 DEF DownFile

(* The process and its senders.                                            *)
LEMMA DeliverKeeps ==
  ASSUME Inv, NEW f \in Files, Deliver(f), UNCHANGED batch
  PROVE  Inv'
<1> USE DEF Inv, Deliver, swVars, trVars, upVars, dlVars
<1>1. Format[f] \in Contents
  BY ForwardAssumption DEF Contents
<1>2. batch.entrance # "trans" => Format[f] = "whole"
  BY FormatAssumption DEF Types
<1>3. Types'
  BY <1>1 DEF Types, Directory
<1>4. (OutWhole /\ GotWhole /\ StoredSent)'
  BY DEF OutWhole, GotWhole, StoredSent, Good
<1>5. SwitchWhole'
  BY <1>2 DEF SwitchWhole, Good, Types, Directory
<1>6. TransWhole'
  BY <1>1 DEF TransWhole, Names, Types, Directory, Contents
<1>7. (SwitchIdle /\ TransIdle)'
  BY DEF SwitchIdle, TransIdle
<1> QED
  BY <1>3, <1>4, <1>5, <1>6, <1>7

(* A kill interrupts all of them at once.                                  *)
LEMMA KillKeeps ==
  ASSUME Inv, Kill, UNCHANGED batch
  PROVE  Inv'
<1> USE DEF Inv, Kill, Mishap, SwKilled, TrKilled, UpKilled, UpEnds, DlKilled, DlEnds, dirVars
<1>1. Types'
  BY DEF Types, Directory, MovedInto, Empty
<1>2. OutWhole'
  BY DEF OutWhole, Good, MovedInto, Empty
<1>3. (SwitchWhole /\ TransWhole)'
  BY DEF SwitchWhole, TransWhole, Good, Names
<1>4. GotWhole'
  BY DEF GotWhole, MovedInto, Empty
<1>5. (TransIdle /\ StoredSent)'
  BY DEF TransIdle, StoredSent
<1>6. SwitchIdle'
  BY DEF SwitchIdle, MovedInto, Empty
<1> QED
  BY <1>1, <1>2, <1>3, <1>4, <1>5, <1>6

(* A restart and a stutter change none of it.                              *)
LEMMA UnchangedKeeps ==
  ASSUME Inv, UNCHANGED <<dirVars, pastVars, swVars, trVars, upVars, dlVars>>
  PROVE  Inv'
BY DEF Inv, Types, OutWhole, SwitchWhole, TransWhole, GotWhole, SwitchIdle, TransIdle,
       StoredSent, Good, Names, dirVars, pastVars, swVars, trVars, upVars, dlVars

(* At the start there is only what the bank has.                           *)
LEMMA InitInv == Init => Inv
<1> SUFFICES ASSUME Init PROVE Inv
  OBVIOUS
<1> USE DEF Init, DirInit, SwInit, TrInit, UpInit, DlInit
<1>1. \A f \in Files : bankDir[f] \in {"none", "whole"}
  BY FormatAssumption
<1>2. batch.entrance # "bank" => bankDir = Empty
  BY DEF Empty
<1>3. Types
  BY <1>1, ForwardAssumption DEF Types, Directory, Contents, Empty
<1>4. OutWhole /\ SwitchWhole /\ TransWhole
  BY DEF OutWhole, SwitchWhole, TransWhole, Good, Empty
<1>5. GotWhole
  BY <1>1 DEF GotWhole, Empty
<1>6. SwitchIdle /\ TransIdle /\ StoredSent
  BY <1>2 DEF SwitchIdle, TransIdle, StoredSent
<1> QED
  BY <1>3, <1>4, <1>5, <1>6 DEF Inv

(* One lemma per thread.                                                   *)
LEMMA NextInv == Inv /\ [Next]_vars => Inv'
<1> SUFFICES ASSUME Inv, [Next]_vars PROVE Inv'
  OBVIOUS
<1>1. ASSUME NEW f \in Files, Deliver(f), UNCHANGED batch PROVE Inv'
  BY <1>1, DeliverKeeps
<1>2. CASE Kill /\ UNCHANGED batch
  BY <1>2, KillKeeps
<1>3. CASE Restart /\ UNCHANGED batch
  BY <1>3, UnchangedKeeps DEF Restart, pastVars
<1>4. CASE Switching /\ UNCHANGED batch
  BY <1>4, SwitchKeeps DEF Switching
<1>5. CASE Transforming /\ UNCHANGED batch
  BY <1>5, TransKeeps DEF Transforming
<1>6. CASE Uploading /\ UNCHANGED batch
  BY <1>6, UploadKeeps DEF Uploading
<1>7. CASE Downloading /\ UNCHANGED batch
  BY <1>7, DownloadKeeps DEF Downloading
<1>8. CASE UNCHANGED vars
  BY <1>8, UnchangedKeeps DEF vars
<1> QED
  BY <1>1, <1>2, <1>3, <1>4, <1>5, <1>6, <1>7, <1>8 DEF Next

(* The inductive invariant holds of every behaviour of the five threads.   *)
THEOREM Invariance == Spec => []Inv
BY InitInv, NextInv, PTL DEF Spec

(* What the other bank receives is whole and in the standard format,       *)
(* whatever is killed and whichever command fails, but for the files of a  *)
(* command whose failure nobody looked at.                                 *)
THEOREM SentWholeCorrect == Spec => []SentWhole
<1>1. Inv => SentWhole
  BY DEF Inv, OutWhole, Good, SentWhole, Names
<1> QED
  BY <1>1, Invariance, PTL

(* What UploadFile moves to the handled directory was received before: a   *)
(* failed transfer, or a kill at any step of one, leaves nothing there.    *)
THEOREM HandledIsSentCorrect == Spec => []HandledIsSent
<1>1. Inv => HandledIsSent
  BY DEF Inv, StoredSent, HandledIsSent
<1> QED
  BY <1>1, Invariance, PTL

-----------------------------------------------------------------------------
(* What TypeOK says besides Types.                                         *)
Counts ==
  /\ delivered \subseteq Files /\ ignored \subseteq Files
  /\ mishaps \in 0 .. batch.mishaps /\ batch.mishaps \in Nat
  /\ sent \in [Files -> Nat] /\ upCount \in 0 .. BatchSize - 1

Places ==
  /\ swPlace \in {"sleep", "scan", "copy", "publish", "insert", "unzip", "unpack", "rmdir"}
  /\ trPlace \in {"sleep", "scan", "write", "rename", "remove", "unzip", "unpack", "rmdir"}
  /\ upPlace \in {"idle", "scan", "upload", "store", "restore", "clean"}
  /\ dlPlace \in {"idle", "get", "clean"}
  /\ swFile \in Files \cup {NoFile} /\ trFile \in Files \cup {NoFile}
  /\ swClaimed \subseteq Zips /\ trClaimed \subseteq Zips
  /\ insertDir \subseteq Files /\ trErrored \subseteq Files
  /\ upStale \in BOOLEAN /\ dlDone \in BOOLEAN /\ up \in BOOLEAN

(* SwitchFileThread keeps the types.                                       *)
LEMMA SwitchTyped ==
  ASSUME Inv, Counts, Places, SwitchFileThread, UNCHANGED <<trVars, upVars, dlVars, batch, up>>
  PROVE  Counts' /\ Places'
<1> USE DEF Inv
<1>1. CASE OpenSwitchDir
  <2> USE <1>1 DEF OpenSwitchDir, NoMishap, dirVars, trVars, upVars, dlVars
  <2>1. Counts'
    BY DEF Counts
  <2>2. Places'
    BY DEF Places
  <2> QED
    BY <2>1, <2>2
<1>2. ASSUME NEW f \in Files, CopyStarts(f) PROVE Counts' /\ Places'
  <2> USE <1>2 DEF CopyStarts, NoMishap, trVars, upVars, dlVars
  <2>1. Counts'
    BY DEF Counts
  <2>2. Places'
    BY DEF Places
  <2> QED
    BY <2>1, <2>2
<1>3. CASE CopyEnds
  <2> USE <1>3 DEF CopyEnds, NoMishap, Mishap, trVars, upVars, dlVars
  <2>1. Counts'
    BY DEF Counts, SwitchWhole
  <2>2. Places'
    BY DEF Places
  <2> QED
    BY <2>1, <2>2
<1>4. CASE PublishCopy
  <2> USE <1>4 DEF PublishCopy, NoMishap, Mishap, trVars, upVars, dlVars
  <2>1. Counts'
    BY DEF Counts, SwitchWhole
  <2>2. Places'
    BY DEF Places
  <2> QED
    BY <2>1, <2>2
<1>5. CASE MoveToInsert
  <2> USE <1>5 DEF MoveToInsert, NoMishap, Mishap, trVars, upVars, dlVars
  <2>1. Counts'
    BY DEF Counts
  <2>2. Places'
    BY DEF Places, SwitchWhole
  <2> QED
    BY <2>1, <2>2
<1>6. CASE CloseSwitchDir
  <2> USE <1>6 DEF CloseSwitchDir, NoMishap, dirVars, trVars, upVars, dlVars
  <2>1. Counts'
    BY DEF Counts
  <2>2. Places'
    BY DEF Places
  <2> QED
    BY <2>1, <2>2
<1>7. ASSUME NEW z \in Zips, SwZip!StartFile(z), UNCHANGED <<transDir, ready, tmp, insertDir>>
      PROVE  Counts' /\ Places'
  <2> USE <1>7 DEF SwZip!StartFile, SwZip!NoMishap, SwZip!Mishap, SwZip!Without, SwZip!Zips,
          trVars, upVars, dlVars
  <2>1. Counts'
    BY DEF Counts
  <2>2. Places'
    BY DEF Places
  <2> QED
    BY <2>1, <2>2
<1>8. CASE SwZip!Unzip /\ UNCHANGED <<transDir, ready, tmp, insertDir>>
  <2> USE <1>8 DEF SwZip!Unzip, SwZip!NoMishap, SwZip!Mishap, trVars, upVars, dlVars
  <2>1. Counts'
    BY ForwardAssumption DEF Counts, SwitchWhole, Zips
  <2>2. Places'
    BY DEF Places
  <2> QED
    BY <2>1, <2>2
<1>9. CASE SwZip!MoveOut /\ UNCHANGED <<transDir, ready, tmp, insertDir>>
  <2> USE <1>9 DEF SwZip!MoveOut, SwZip!NoMishap, SwZip!Mishap, trVars, upVars, dlVars
  <2>1. Counts'
    BY InnerFiles DEF Counts, Types
  <2>2. Places'
    BY DEF Places
  <2> QED
    BY <2>1, <2>2
<1>10. CASE SwZip!RemoveZip /\ UNCHANGED <<transDir, ready, tmp, insertDir>>
  <2> USE <1>10 DEF SwZip!RemoveZip, SwZip!NoMishap, trVars, upVars, dlVars
  <2>1. Counts'
    BY DEF Counts
  <2>2. Places'
    BY DEF Places
  <2> QED
    BY <2>1, <2>2
<1> QED
  BY <1>1, <1>2, <1>3, <1>4, <1>5, <1>6, <1>7, <1>8, <1>9, <1>10
     DEF SwitchFileThread, SwZip!ZIPFile

(* ListTransFormDirThread keeps the types.                                 *)
LEMMA TransTyped ==
  ASSUME Inv, Counts, Places, ListTransFormDirThread, UNCHANGED <<swVars, upVars, dlVars,
  batch, up>>
  PROVE  Counts' /\ Places'
<1> USE DEF Inv
<1>1. CASE OpenTransDir
  <2> USE <1>1 DEF OpenTransDir, NoMishap, dirVars, swVars, upVars, dlVars
  <2>1. Counts'
    BY DEF Counts
  <2>2. Places'
    BY DEF Places
  <2> QED
    BY <2>1, <2>2
<1>2. ASSUME NEW f \in Files, MoveTransFSNFile(f) PROVE Counts' /\ Places'
  <2> USE <1>2 DEF MoveTransFSNFile, NoMishap, Mishap, swVars, upVars, dlVars
  <2>1. Counts'
    BY DEF Counts
  <2>2. Places'
    BY DEF Places
  <2> QED
    BY <2>1, <2>2
<1>3. ASSUME NEW f \in Files, TransStarts(f) PROVE Counts' /\ Places'
  <2> USE <1>3 DEF TransStarts, NoMishap, swVars, upVars, dlVars
  <2>1. Counts'
    BY DEF Counts
  <2>2. Places'
    BY DEF Places
  <2> QED
    BY <2>1, <2>2
<1>4. CASE TransEnds
  <2> USE <1>4 DEF TransEnds, NoMishap, Mishap, swVars, upVars, dlVars
  <2>1. Counts'
    BY DEF Counts
  <2>2. Places'
    BY DEF Places
  <2> QED
    BY <2>1, <2>2
<1>5. CASE RenameConverted
  <2> USE <1>5 DEF RenameConverted, NoMishap, Mishap, swVars, upVars, dlVars
  <2>1. Counts'
    BY DEF Counts
  <2>2. Places'
    BY DEF Places
  <2> QED
    BY <2>1, <2>2
<1>6. CASE RemoveSource
  <2> USE <1>6 DEF RemoveSource, NoMishap, swVars, upVars, dlVars
  <2>1. Counts'
    BY DEF Counts
  <2>2. Places'
    BY DEF Places
  <2> QED
    BY <2>1, <2>2
<1>7. CASE CloseTransDir
  <2> USE <1>7 DEF CloseTransDir, NoMishap, dirVars, swVars, upVars, dlVars
  <2>1. Counts'
    BY DEF Counts
  <2>2. Places'
    BY DEF Places
  <2> QED
    BY <2>1, <2>2
<1>8. ASSUME NEW z \in Zips, TrZip!StartFile(z), UNCHANGED <<switchDir, ready, tmp, trErrored>>
      PROVE  Counts' /\ Places'
  <2> USE <1>8 DEF TrZip!StartFile, TrZip!NoMishap, TrZip!Mishap, TrZip!Without, TrZip!Zips,
          swVars, upVars, dlVars
  <2>1. Counts'
    BY DEF Counts
  <2>2. Places'
    BY DEF Places
  <2> QED
    BY <2>1, <2>2
<1>9. CASE TrZip!Unzip /\ UNCHANGED <<switchDir, ready, tmp, trErrored>>
  <2> USE <1>9 DEF TrZip!Unzip, TrZip!NoMishap, TrZip!Mishap, swVars, upVars, dlVars
  <2>1. Counts'
    BY ForwardAssumption DEF Counts, TransWhole, Zips
  <2>2. Places'
    BY DEF Places
  <2> QED
    BY <2>1, <2>2
<1>10. CASE TrZip!MoveOut /\ UNCHANGED <<switchDir, ready, tmp, trErrored>>
  <2> USE <1>10 DEF TrZip!MoveOut, TrZip!NoMishap, TrZip!Mishap, swVars, upVars, dlVars
  <2>1. Counts'
    BY InnerFiles DEF Counts, Types
  <2>2. Places'
    BY DEF Places
  <2> QED
    BY <2>1, <2>2
<1>11. CASE TrZip!RemoveZip /\ UNCHANGED <<switchDir, ready, tmp, trErrored>>
  <2> USE <1>11 DEF TrZip!RemoveZip, TrZip!NoMishap, swVars, upVars, dlVars
  <2>1. Counts'
    BY DEF Counts
  <2>2. Places'
    BY DEF Places
  <2> QED
    BY <2>1, <2>2
<1> QED
  BY <1>1, <1>2, <1>3, <1>4, <1>5, <1>6, <1>7, <1>8, <1>9, <1>10, <1>11
     DEF ListTransFormDirThread, TrZip!ZIPFile

(* UploadFile keeps the types.                                             *)
LEMMA UploadTyped ==
  ASSUME Inv, Counts, Places, UploadFile, UNCHANGED <<swVars, trVars, dlVars, batch, up>>
  PROVE  Counts' /\ Places'
<1> USE DEF Inv
<1>1. CASE UploadStarts
  <2> USE <1>1 DEF UploadStarts, NoMishap, dirVars, upData, swVars, trVars, dlVars
  <2>1. Counts'
    BY DEF Counts
  <2>2. Places'
    BY DEF Places
  <2> QED
    BY <2>1, <2>2
<1>2. ASSUME NEW f \in Files, TakeFile(f) PROVE Counts' /\ Places'
  <2> USE <1>2 DEF TakeFile, NoMishap, Mishap, upData, swVars, trVars, dlVars
  <2>1. Counts'
    BY ForwardAssumption DEF Counts
  <2>2. Places'
    BY DEF Places
  <2> QED
    BY <2>1, <2>2
<1>3. CASE RecoverStale
  <2> USE <1>3 DEF RecoverStale, NoMishap, Mishap, swVars, trVars, dlVars
  <2>1. Counts'
    BY DEF Counts, Names
  <2>2. Places'
    BY DEF Places
  <2> QED
    BY <2>1, <2>2
<1>4. CASE ScanEnds
  <2> USE <1>4 DEF ScanEnds, NoMishap, dirVars, upData, swVars, trVars, dlVars
  <2>1. Counts'
    BY ForwardAssumption DEF Counts
  <2>2. Places'
    BY DEF Places
  <2> QED
    BY <2>1, <2>2
<1>5. CASE PutFile
  <2> USE <1>5 DEF PutFile, NoMishap, Mishap, dirVars, Received, swVars, trVars, dlVars
  <2>1. Counts'
    BY DEF Counts, Names
  <2>2. Places'
    BY DEF Places
  <2> QED
    BY <2>1, <2>2
<1>6. ASSUME NEW f \in Files, StoreFile(f) PROVE Counts' /\ Places'
  <2> USE <1>6 DEF StoreFile, NoMishap, dirVars, swVars, trVars, dlVars
  <2>1. Counts'
    BY DEF Counts
  <2>2. Places'
    BY DEF Places
  <2> QED
    BY <2>1, <2>2
<1>7. CASE StoreEnds
  <2> USE <1>7 DEF StoreEnds, NoMishap, Mishap, dirVars, upData, swVars, trVars, dlVars
  <2>1. Counts'
    BY DEF Counts
  <2>2. Places'
    BY DEF Places
  <2> QED
    BY <2>1, <2>2
<1>8. CASE RestoreFiles
  <2> USE <1>8 DEF RestoreFiles, NoMishap, Mishap, upData, UpEnds, swVars, trVars, dlVars
  <2>1. Counts'
    BY ForwardAssumption DEF Counts, Names
  <2>2. Places'
    BY DEF Places
  <2> QED
    BY <2>1, <2>2
<1>9. CASE RemoveWork
  <2> USE <1>9 DEF RemoveWork, NoMishap, dirVars, upData, UpEnds, swVars, trVars, dlVars
  <2>1. Counts'
    BY ForwardAssumption DEF Counts
  <2>2. Places'
    BY DEF Places
  <2> QED
    BY <2>1, <2>2
<1> QED
  BY <1>1, <1>2, <1>3, <1>4, <1>5, <1>6, <1>7, <1>8, <1>9
     DEF UploadFile

(* DownFile keeps the types.                                               *)
LEMMA DownloadTyped ==
  ASSUME Inv, Counts, Places, DownFile, UNCHANGED <<swVars, trVars, upVars, batch, up>>
  PROVE  Counts' /\ Places'
<1> USE DEF Inv
<1>1. CASE RecoverDir
  <2> USE <1>1 DEF RecoverDir, Mishap, swVars, trVars, upVars
  <2>1. Counts'
    BY DEF Counts
  <2>2. Places'
    BY DEF Places
  <2> QED
    BY <2>1, <2>2
<1>2. ASSUME NEW f \in Files, GetStarts(f) PROVE Counts' /\ Places'
  <2> USE <1>2 DEF GetStarts, NoMishap, dirVars, swVars, trVars, upVars
  <2>1. Counts'
    BY DEF Counts
  <2>2. Places'
    BY DEF Places
  <2> QED
    BY <2>1, <2>2
<1>3. ASSUME NEW f \in Files, GetEnds(f) PROVE Counts' /\ Places'
  <2> USE <1>3 DEF GetEnds, NoMishap, Mishap, dirVars, swVars, trVars, upVars
  <2>1. Counts'
    BY DEF Counts, Types
  <2>2. Places'
    BY DEF Places
  <2> QED
    BY <2>1, <2>2
<1>4. CASE MoveGotten
  <2> USE <1>4 DEF MoveGotten, NoMishap, Mishap, swVars, trVars, upVars
  <2>1. Counts'
    BY DEF Counts, Names
  <2>2. Places'
    BY DEF Places
  <2> QED
    BY <2>1, <2>2
<1>5. CASE DownloadEnds
  <2> USE <1>5 DEF DownloadEnds, NoMishap, dirVars, DlEnds, swVars, trVars, upVars
  <2>1. Counts'
    BY DEF Counts
  <2>2. Places'
    BY DEF Places
  <2> QED
    BY <2>1, <2>2
<1> QED
  BY <1>1, <1>2, <1>3, <1>4, <1>5
     DEF DownFile

(* Every step keeps the types.                                             *)
LEMMA TypedNext == Inv /\ Counts /\ Places /\ [Next]_vars => Counts' /\ Places'
<1> SUFFICES ASSUME Inv, Counts, Places, [Next]_vars PROVE Counts' /\ Places'
  OBVIOUS
<1>1. ASSUME NEW f \in Files, Deliver(f), UNCHANGED batch PROVE Counts' /\ Places'
  BY <1>1 DEF Counts, Places, Deliver, swVars, trVars, upVars, dlVars
<1>2. CASE Kill /\ UNCHANGED batch
  <2> USE <1>2 DEF Kill, Mishap, SwKilled, TrKilled, UpKilled, UpEnds, DlKilled, DlEnds
  <2>1. Counts'
    BY ForwardAssumption DEF Counts
  <2>2. Places'
    BY DEF Places
  <2> QED
    BY <2>1, <2>2
<1>3. CASE Restart /\ UNCHANGED batch
  BY <1>3 DEF Counts, Places, Restart, swVars, trVars, upVars, dlVars
<1>4. CASE Switching /\ UNCHANGED batch
  BY <1>4, SwitchTyped DEF Switching
<1>5. CASE Transforming /\ UNCHANGED batch
  BY <1>5, TransTyped DEF Transforming
<1>6. CASE Uploading /\ UNCHANGED batch
  BY <1>6, UploadTyped DEF Uploading
<1>7. CASE Downloading /\ UNCHANGED batch
  BY <1>7, DownloadTyped DEF Downloading
<1>8. CASE UNCHANGED vars
  BY <1>8 DEF Counts, Places, vars, pastVars, swVars, trVars, upVars, dlVars
<1> QED
  BY <1>1, <1>2, <1>3, <1>4, <1>5, <1>6, <1>7, <1>8 DEF Next

(* The types at the start.                                                 *)
LEMMA TypedInit == Init => Counts /\ Places
<1> SUFFICES ASSUME Init PROVE Counts /\ Places
  OBVIOUS
<1> USE DEF Init, DirInit, SwInit, TrInit, UpInit, DlInit
<1>1. Counts
  BY ForwardAssumption DEF Counts
<1>2. Places
  BY DEF Places
<1> QED
  BY <1>1, <1>2

(* Every variable of the five modules keeps its type: in particular the    *)
(* count of a batch stays below its size, and no more goes wrong than may. *)
THEOREM TypeCorrect == Spec => []TypeOK
<1>1. Inv /\ Counts /\ Places => TypeOK
  BY InnerFiles DEF Inv, Types, Counts, Places, TypeOK
<1>2. Spec => [](Counts /\ Places)
  BY TypedInit, TypedNext, Invariance, PTL DEF Spec
<1> QED
  BY <1>1, <1>2, Invariance, PTL

-----------------------------------------------------------------------------
(* Copies that may still be sent.  A name that comes inside a zip comes with*)
(* this zip and in no other way.                                           *)
Origin(f) == IF f \in Inner THEN CHOOSE z \in Zips : f \in Inside[z] ELSE f
One(p)    == IF p THEN 1 ELSE 0

OneOrigin ==
  /\ \A y, z \in Zips : y # z => Inside[y] \cap Inside[z] = {}
  /\ \A B \in Batches : B.entrance = "bank" => B.files \cap Inner = {}

(* A file whose copy has been published does not count while its source    *)
(* has still to be removed, nor one that was received until it is stored.   *)
InSwitch(f) == One(switchDir[f] # "none" /\ ~ (swPlace = "insert" /\ swFile = f))
InTrans(f)  == One(transDir[f] # "none" /\ ~ (trPlace = "remove" /\ trFile = f))

SwZipped(f) == One(swPlace = "unzip" /\ swFile = Origin(f) /\ f \in Inner) + One(f \in swUnpacked)
TrZipped(f) == One(trPlace = "unzip" /\ trFile = Origin(f) /\ f \in Inner) + One(f \in trUnpacked)

Coming(g)   == One(g \in batch.files \ (delivered \cup Inner))
AtBank(g)   == One(bankDir[g] # "none" /\ ~ dlDone /\ (dlPlace = "idle" \/ g \in dlTodo))
Gotten(g)   == One(dlWork[g] # "none" /\ g \notin dlTodo) + One(dlStale[g] # "none")

Arriving(g) == Coming(g) + AtBank(g) + Gotten(g)
Switched(f) == InSwitch(f) + SwZipped(f) + IF f \in Inner THEN InSwitch(Origin(f)) ELSE 0
Transed(f)  == InTrans(f) + TrZipped(f) + IF f \in Inner THEN InTrans(Origin(f)) ELSE 0
Leaving(f)  == One(ready[f] # "none") + One(work[f] # "none" /\ upPlace # "store")
               + One(stale[f] # "none") + sent[f]

Total(f)  == Arriving(Origin(f)) + Switched(f) + Transed(f) + Leaving(f)
Budget    == 1 + (IF batch.entrance = "bank" THEN 3 ELSE 2) * mishaps

(* The source of a copy is there until it is removed, and threads that have*)
(* nothing to download do nothing.                                         *)
SwitchSource ==
  /\ swTodo \subseteq Names(switchDir)
  /\ swPlace \in {"copy", "publish", "insert"} =>
       swFile \notin swTodo /\ switchDir[swFile] # "none"
TransSource == trPlace \in {"write", "rename", "remove"} => transDir[trFile] # "none"
BankIdle ==
  batch.entrance # "bank" =>
    bankDir = Empty /\ dlPlace = "idle" /\ dlWork = Empty /\ dlStale = Empty
BankSource ==
  /\ dlTodo \subseteq Names(bankDir) /\ (dlPlace # "idle" => ~ dlDone)
  /\ \A f \in Inner : bankDir[f] = "none" /\ dlWork[f] = "none" /\ dlStale[f] = "none"

Counted  == \A f \in Files : Total(f) <= Budget
Sources  == SwitchSource /\ TransSource /\ BankIdle /\ BankSource
CountInv == Sources /\ Counted

(* Where a file comes from.                                                *)
LEMMA OriginFacts ==
  ASSUME OneOrigin, NEW f \in Files
  PROVE  /\ Origin(f) \in Files
         /\ f \notin Inner => Origin(f) = f
         /\ f \in Inner => /\ f \notin Zips /\ Origin(f) \in Zips /\ Origin(f) # f
                          /\ f \in Inside[Origin(f)] /\ Origin(f) \notin Inner
                          /\ \A z \in Zips : f \in Inside[z] => z = Origin(f)
<1>1. CASE f \notin Inner
  BY <1>1 DEF Origin
<1>2. CASE f \in Inner
  <2>1. \E z \in Zips : f \in Inside[z]
    BY <1>2 DEF Inner
  <2>2. Origin(f) \in Zips /\ f \in Inside[Origin(f)]
    BY <1>2, <2>1 DEF Origin
  <2>3. \A z \in Zips : f \in Inside[z] => z = Origin(f)
    BY <2>2 DEF OneOrigin
  <2>4. f \notin Zips /\ Origin(f) \notin Inner /\ Zips \subseteq Files
    BY <1>2, <2>2, InnerFiles DEF Zips
  <2> QED
    BY <1>2, <2>2, <2>3, <2>4
<1> QED
  BY <1>1, <1>2

(* All the numbers are.                                                    *)
LEMMA Numbers ==
  ASSUME Counts, NEW f \in Files
  PROVE  /\ InSwitch(f) \in {0, 1} /\ InTrans(f) \in {0, 1}
         /\ SwZipped(f) \in 0 .. 2 /\ TrZipped(f) \in 0 .. 2
         /\ Coming(f) \in {0, 1} /\ AtBank(f) \in {0, 1} /\ Gotten(f) \in 0 .. 2
         /\ Leaving(f) \in Nat /\ mishaps \in Nat
<1>1. sent[f] \in Nat
  BY DEF Counts
<1>2. mishaps \in Nat
  BY DEF Counts
<1>3. Leaving(f) \in Nat
  BY <1>1 DEF Leaving, One
<1> QED
  BY <1>2, <1>3 DEF InSwitch, InTrans, SwZipped, TrZipped, Coming, AtBank, Gotten, One

(* And so are the sums.                                                    *)
LEMMA SumNumbers ==
  ASSUME Counts, OneOrigin, NEW f \in Files
  PROVE  /\ Arriving(Origin(f)) \in Nat /\ Switched(f) \in Nat /\ Transed(f) \in Nat
         /\ Leaving(f) \in Nat /\ Total(f) \in Nat /\ mishaps \in Nat
<1> DEFINE o == Origin(f)
<1>1. /\ InSwitch(f) \in Nat /\ InTrans(f) \in Nat /\ InSwitch(o) \in Nat /\ InTrans(o) \in Nat
      /\ SwZipped(f) \in Nat /\ TrZipped(f) \in Nat
      /\ Coming(o) \in Nat /\ AtBank(o) \in Nat /\ Gotten(o) \in Nat
      /\ Leaving(f) \in Nat /\ mishaps \in Nat
  BY OriginFacts, Numbers
<1>2. Arriving(o) \in Nat /\ Switched(f) \in Nat /\ Transed(f) \in Nat
  BY <1>1 DEF Arriving, Switched, Transed
<1> QED
  BY <1>1, <1>2 DEF Total

-----------------------------------------------------------------------------
(* The source of every copy stays until it is moved or removed.            *)
LEMMA SwitchSources ==
  ASSUME Inv, Sources, SwitchFileThread, UNCHANGED <<trVars, upVars, dlVars, batch>>
  PROVE  Sources'
<1> USE DEF Inv
<1>1. (BankIdle /\ BankSource)'
  BY DEF Sources, BankIdle, BankSource, dlVars, Names
<1>2. CASE OpenSwitchDir \/ CopyEnds \/ PublishCopy \/ MoveToInsert \/ CloseSwitchDir
  BY <1>1, <1>2 DEF Sources, SwitchSource, TransSource, OpenSwitchDir, CopyEnds, PublishCopy,
     MoveToInsert, CloseSwitchDir, NoMishap, Names, Without, dirVars, trVars
<1>3. ASSUME NEW f \in Files, CopyStarts(f)
      PROVE  Sources'
  BY <1>1, <1>3 DEF Sources, SwitchSource, TransSource, CopyStarts, Names, trVars
<1>4. CASE /\ SwZip!ZIPFile \/ \E z \in Zips : SwZip!StartFile(z)
           /\ UNCHANGED <<transDir, ready, tmp, insertDir>>
  <2>1. TransSource'
    BY <1>4 DEF Sources, TransSource, trVars
  <2>2. ASSUME NEW z \in Zips, SwZip!StartFile(z)
        PROVE  SwitchSource'
    BY <2>2 DEF Sources, SwitchSource, SwZip!StartFile, SwZip!Without, Names
  <2>3. ASSUME SwZip!ZIPFile
        PROVE  SwitchSource'
    <3>1. \A f \in Inner : Format[f] # "none"
      BY ForwardAssumption, InnerFiles
    <3>2. swPlace' \in {"unpack", "scan", "rmdir"} /\ swTodo' = swTodo
      BY <2>3 DEF SwZip!ZIPFile, SwZip!Unzip, SwZip!MoveOut, SwZip!RemoveZip
    <3>3. Names(switchDir) \subseteq Names(switchDir)'
      BY <2>3, <3>1 DEF SwZip!ZIPFile, SwZip!Unzip, SwZip!MoveOut, SwZip!RemoveZip, Names, Types
    <3> QED
      BY <3>2, <3>3 DEF Sources, SwitchSource
  <2> QED
    BY <1>1, <1>4, <2>1, <2>2, <2>3 DEF Sources
<1> QED
  BY <1>2, <1>3, <1>4 DEF SwitchFileThread

(* A file that is converted stays until its copy has its name.             *)
LEMMA TransSources ==
  ASSUME Inv, Sources, ListTransFormDirThread, UNCHANGED <<swVars, upVars, dlVars, batch>>
  PROVE  Sources'
<1> USE DEF Inv
<1>1. (BankIdle /\ BankSource)'
  BY DEF Sources, BankIdle, BankSource, dlVars, Names
<1>2. switchDir' = switchDir
  BY DEF ListTransFormDirThread, OpenTransDir, TransEnds, RenameConverted, RemoveSource,
     CloseTransDir, MoveTransFSNFile, TransStarts, dirVars
<1>3. SwitchSource'
  BY <1>2 DEF Sources, SwitchSource, swVars, Names
<1>4. TransSource'
  <2>1. CASE OpenTransDir \/ TransEnds \/ RenameConverted \/ RemoveSource \/ CloseTransDir
    BY <2>1 DEF Sources, TransSource, OpenTransDir, TransEnds, RenameConverted, RemoveSource,
       CloseTransDir, dirVars
  <2>2. ASSUME NEW f \in Files, MoveTransFSNFile(f) \/ TransStarts(f)
        PROVE  TransSource'
    BY <2>2 DEF TransWhole, Sources, TransSource, MoveTransFSNFile, TransStarts, Names
  <2>3. ASSUME NEW z \in Zips, TrZip!StartFile(z)
        PROVE  TransSource'
    BY <2>3 DEF TransSource, TrZip!StartFile
  <2>4. ASSUME TrZip!ZIPFile
        PROVE  TransSource'
    BY <2>4 DEF TransSource, TrZip!ZIPFile, TrZip!Unzip, TrZip!MoveOut, TrZip!RemoveZip
  <2> QED
    BY <2>1, <2>2, <2>3, <2>4 DEF ListTransFormDirThread
<1> QED
  BY <1>1, <1>3, <1>4 DEF Sources

(* UploadFile takes from none of these directories.                        *)
LEMMA UploadSources ==
  ASSUME Sources, UploadFile, UNCHANGED <<swVars, trVars, dlVars, batch>>
  PROVE  Sources'
<1>1. switchDir' = switchDir /\ transDir' = transDir
  BY DEF UploadFile, UploadStarts, RecoverStale, ScanEnds, PutFile, StoreEnds, RestoreFiles,
     RemoveWork, TakeFile, StoreFile, dirVars
<1> QED
  BY <1>1 DEF Sources, SwitchSource, TransSource, BankIdle, BankSource, Names, swVars, trVars,
     dlVars

(* DownFile only adds to the switch directory.                             *)
LEMMA DownloadSources ==
  ASSUME Inv, Sources, DownFile, UNCHANGED <<swVars, trVars, upVars, batch>>
  PROVE  Sources'
<1> USE DEF Inv
<1>1. TransSource'
  BY DEF Sources, TransSource, DownFile, RecoverDir, MoveGotten, DownloadEnds, GetStarts,
     GetEnds, trVars, dirVars
<1>2. Names(switchDir) \subseteq Names(switchDir)'
  BY DEF DownFile, RecoverDir, MoveGotten, DownloadEnds, GetStarts, GetEnds, dirVars, Names,
     MovedInto
<1>3. SwitchSource'
  BY <1>2 DEF Sources, SwitchSource, SwitchWhole, swVars, Names
<1>4. BankIdle'
  BY DEF Sources, BankIdle, DownFile, RecoverDir, MoveGotten, DownloadEnds, GetStarts, GetEnds
<1>5. BankSource'
  BY InnerFiles DEF Sources, BankSource, Names, Types, Directory, MovedInto, Empty, DownFile,
     RecoverDir, MoveGotten, DownloadEnds, DlEnds, GetStarts, GetEnds
<1> QED
  BY <1>1, <1>3, <1>4, <1>5 DEF Sources

(* What comes replaces nothing by nothing.                                 *)
LEMMA DeliverSources ==
  ASSUME Inv, Sources, NEW f \in Files, Deliver(f), UNCHANGED batch
  PROVE  Sources'
<1>1. Format[f] # "none"
  BY ForwardAssumption
<1>2. Names(switchDir) \subseteq Names(switchDir)' /\ Names(transDir) \subseteq Names(transDir)'
  BY <1>1 DEF Deliver, Names, Inv, Types, Directory
<1> QED
  BY <1>2 DEF Deliver, Inv, Sources, SwitchSource, TransSource, BankIdle, BankSource, SwitchWhole,
     TransWhole, Names, swVars, trVars, dlVars

(* After a kill no copy is under way.                                      *)
LEMMA KillSources ==
  ASSUME Sources, Kill, UNCHANGED batch
  PROVE  Sources'
BY InnerFiles DEF Kill, SwKilled, TrKilled, UpKilled, DlKilled, DlEnds, Sources, SwitchSource,
   TransSource, BankIdle, BankSource, MovedInto, Empty, Names, dirVars

(* A restart and a stutter change none of it.                              *)
LEMMA UnchangedSources ==
  ASSUME Sources, UNCHANGED <<dirVars, pastVars, swVars, trVars, upVars, dlVars>>
  PROVE  Sources'
BY DEF Sources, SwitchSource, TransSource, BankIdle, BankSource, Names, dirVars, pastVars,
   swVars, trVars, dlVars

-----------------------------------------------------------------------------
(* One more when something goes wrong, and none otherwise.                 *)
Slack == IF mishaps' = mishaps THEN 0 ELSE 1

(* A copy gets its name before its source goes: PublishCopy and the steps  *)
(* around it move one copy on, and a zip turns into its files.             *)
LEMMA SwitchCounts ==
  ASSUME Inv, Sources, Counts, OneOrigin, SwitchFileThread,
         UNCHANGED <<trVars, upVars, dlVars, batch>>, NEW f \in Files
  PROVE  Switched(f)' + Leaving(f)' <= Switched(f) + Leaving(f) + Slack
<1> DEFINE o == Origin(f)
<1> USE DEF One, Slack
<1>1. /\ f \in Files /\ o \in Files
      /\ f \notin Inner => o = f
      /\ f \in Inner => /\ f \notin Zips /\ o \in Zips /\ o # f
                       /\ \A z \in Zips : f \in Inside[z] => z = o
  BY OriginFacts
<1>2. /\ sent' = sent /\ sent[f] \in Nat /\ mishaps \in Nat
      /\ UNCHANGED <<work, upPlace, stale>>
  BY DEF upVars, Counts
<1>3. switchDir \in Directory /\ ready \in Directory
  BY DEF Inv, Types
<1> HIDE DEF o
<1>4. ASSUME UNCHANGED <<switchDir, ready, swUnpacked>>,
             swPlace \notin {"insert", "unzip"}, swPlace' \notin {"insert", "unzip"}
      PROVE  Switched(f)' + Leaving(f)' <= Switched(f) + Leaving(f) + Slack
  BY <1>2, <1>4 DEF o, Switched, InSwitch, SwZipped, Leaving
<1>5. CASE OpenSwitchDir \/ CopyEnds \/ CloseSwitchDir
  BY <1>4, <1>5 DEF OpenSwitchDir, CopyEnds, CloseSwitchDir, dirVars
<1>6. ASSUME NEW g \in Files, CopyStarts(g)
      PROVE  UNCHANGED <<switchDir, ready, swUnpacked>> /\ swPlace = "scan" /\ swPlace' = "copy"
  BY <1>6 DEF CopyStarts
<1>7. /\ Switched(f) = InSwitch(f) + SwZipped(f) + (IF f \in Inner THEN InSwitch(o) ELSE 0)
      /\ Switched(f)' = InSwitch(f)' + SwZipped(f)' + (IF f \in Inner THEN InSwitch(o)' ELSE 0)
      /\ InSwitch(f) \in Nat /\ InSwitch(f)' \in Nat
      /\ SwZipped(f) \in Nat /\ SwZipped(f)' \in Nat
      /\ InSwitch(o) \in Nat /\ InSwitch(o)' \in Nat /\ Leaving(f) \in Nat /\ Leaving(f)' \in Nat
  BY <1>2 DEF o, Switched, InSwitch, SwZipped, Leaving
<1>8. CASE PublishCopy
  <2>1. /\ swPlace = "publish" /\ swPlace' = "insert" /\ swFile' = swFile
        /\ UNCHANGED <<switchDir, swUnpacked>>
        /\ switchDir[swFile] # "none"
        /\ \A g \in Files : g # swFile => ready'[g] = ready[g]
    BY <1>3, <1>8 DEF PublishCopy, Sources, SwitchSource, Directory
  <2>2. InSwitch(f)' = InSwitch(f) - One(f = swFile) /\ InSwitch(o)' <= InSwitch(o)
    BY <2>1 DEF InSwitch
  <2>3. SwZipped(f)' = SwZipped(f)
    BY <2>1 DEF SwZipped
  <2>4. Leaving(f)' <= Leaving(f) + One(f = swFile)
    BY <1>2, <2>1 DEF Leaving
  <2> QED
    BY <1>7, <2>2, <2>3, <2>4
<1>9. CASE MoveToInsert
  <2>1. /\ swPlace = "insert" /\ swPlace' = "scan" /\ UNCHANGED <<ready, swUnpacked, swFile>>
        /\ \/ mishaps' = mishaps /\ switchDir' = Without(switchDir, {swFile})
           \/ mishaps' = mishaps + 1 /\ switchDir' = switchDir
    BY <1>9 DEF MoveToInsert, NoMishap, Mishap
  <2>2. /\ InSwitch(f)' = InSwitch(f) \/ (f = swFile /\ InSwitch(f)' <= InSwitch(f) + Slack)
        /\ InSwitch(o)' = InSwitch(o) \/ (o = swFile /\ InSwitch(o)' <= InSwitch(o) + Slack)
    BY <1>1, <1>2, <2>1 DEF InSwitch, Without
  <2>3. SwZipped(f)' = SwZipped(f) /\ Leaving(f)' = Leaving(f)
    BY <1>2, <2>1 DEF SwZipped, Leaving
  <2> QED
    BY <1>1, <1>7, <2>2, <2>3
<1>10. ASSUME UNCHANGED <<transDir, ready, tmp, insertDir>>
       PROVE  Leaving(f)' = Leaving(f)
  BY <1>2, <1>10 DEF Leaving
<1>11. ASSUME NEW z \in Zips, SwZip!StartFile(z), UNCHANGED <<transDir, ready, tmp, insertDir>>
       PROVE  Switched(f)' + Leaving(f)' <= Switched(f) + Leaving(f) + Slack
  <2>1. /\ swPlace = "scan" /\ switchDir[z] # "none" /\ z \in Files /\ swUnpacked' = swUnpacked
        /\ \/ /\ switchDir' = Without(switchDir, {z}) /\ swPlace' = "unzip" /\ swFile' = z
           \/ UNCHANGED <<switchDir, swPlace, swFile>>
    BY <1>11 DEF SwZip!StartFile, SwZip!Without, Without, Sources, SwitchSource, Names
  <2>2. CASE UNCHANGED <<switchDir, swPlace, swFile>>
    <3>1. InSwitch(f)' = InSwitch(f) /\ InSwitch(o)' = InSwitch(o) /\ SwZipped(f)' = SwZipped(f)
      BY <2>1, <2>2 DEF InSwitch, SwZipped
    <3> QED
      BY <1>7, <1>10, <1>11, <3>1
  <2>3. CASE switchDir' = Without(switchDir, {z}) /\ swPlace' = "unzip" /\ swFile' = z
    <3>1. InSwitch(f)' <= InSwitch(f) /\ InSwitch(o)' = InSwitch(o) - One(o = z)
      BY <1>1, <2>1, <2>3 DEF InSwitch, Without
    <3>2. SwZipped(f)' = SwZipped(f) + One(z = o /\ f \in Inner)
      BY <2>1, <2>3 DEF o, SwZipped
    <3> QED
      BY <1>1, <1>7, <1>10, <1>11, <3>1, <3>2
  <2> QED
    BY <2>1, <2>2, <2>3
<1>12. ASSUME SwZip!Unzip, UNCHANGED <<transDir, ready, tmp, insertDir>>
       PROVE  Switched(f)' + Leaving(f)' <= Switched(f) + Leaving(f) + Slack
  <2>1. /\ swPlace = "unzip" /\ swPlace' \in {"unpack", "scan"}
        /\ swUnpacked' \subseteq Inside[swFile]
        /\ UNCHANGED <<switchDir, swFile>> /\ swFile \in Zips
    BY <1>12 DEF SwZip!Unzip, Inv, SwitchWhole
  <2>2. InSwitch(f)' = InSwitch(f) /\ InSwitch(o)' = InSwitch(o)
    BY <2>1 DEF InSwitch
  <2>3. f \in swUnpacked' => f \in Inner /\ swFile = o
    BY <1>1, <2>1 DEF Inner
  <2>4. SwZipped(f)' <= SwZipped(f)
    BY <2>1, <2>3 DEF o, SwZipped
  <2> QED
    BY <1>7, <1>10, <1>12, <2>2, <2>4
<1>13. ASSUME SwZip!MoveOut, UNCHANGED <<transDir, ready, tmp, insertDir>>
       PROVE  Switched(f)' + Leaving(f)' <= Switched(f) + Leaving(f) + Slack
  <2>1. PICK S \in SUBSET swUnpacked :
          /\ switchDir' = [g \in Files |-> IF g \in S THEN Format[g] ELSE switchDir[g]]
          /\ swUnpacked' = swUnpacked \ S
    BY <1>13 DEF SwZip!MoveOut
  <2>2. swPlace = "unpack" /\ swPlace' = "rmdir" /\ swFile' = swFile /\ swUnpacked \subseteq Inner
    BY <1>13 DEF SwZip!MoveOut, Inv, Types
  <2>3. InSwitch(f)' <= InSwitch(f) + One(f \in S) /\ SwZipped(f)' = SwZipped(f) - One(f \in S)
    BY <2>1, <2>2 DEF InSwitch, SwZipped
  <2>4. f \in Inner => InSwitch(o)' = InSwitch(o)
    BY <1>1, <2>1, <2>2, InnerFiles DEF InSwitch
  <2> QED
    BY <1>7, <1>10, <1>13, <2>3, <2>4
<1>14. ASSUME SwZip!RemoveZip, UNCHANGED <<transDir, ready, tmp, insertDir>>
       PROVE  Switched(f)' + Leaving(f)' <= Switched(f) + Leaving(f) + Slack
  <2>1. /\ swPlace = "rmdir" /\ swPlace' = "scan" /\ swUnpacked' = {}
        /\ UNCHANGED <<switchDir, swFile>>
    BY <1>14 DEF SwZip!RemoveZip
  <2>2. InSwitch(f)' = InSwitch(f) /\ InSwitch(o)' = InSwitch(o) /\ SwZipped(f)' <= SwZipped(f)
    BY <2>1 DEF InSwitch, SwZipped
  <2> QED
    BY <1>7, <1>10, <1>14, <2>2
<1> QED
  BY <1>4, <1>5, <1>6, <1>8, <1>9, <1>11, <1>12, <1>13, <1>14 DEF SwitchFileThread, SwZip!ZIPFile

(* The converted file gets its name before its source is removed.          *)
LEMMA TransCounts ==
  ASSUME Inv, Sources, Counts, OneOrigin, ListTransFormDirThread,
         UNCHANGED <<swVars, upVars, dlVars, batch>>, NEW f \in Files
  PROVE  Transed(f)' + Leaving(f)' <= Transed(f) + Leaving(f) + Slack
<1> DEFINE o == Origin(f)
<1> USE DEF One, Slack
<1>1. /\ f \in Files /\ o \in Files
      /\ f \notin Inner => o = f
      /\ f \in Inner => /\ f \notin Zips /\ o \in Zips /\ o # f
                       /\ \A z \in Zips : f \in Inside[z] => z = o
  BY OriginFacts
<1>2. /\ sent' = sent /\ sent[f] \in Nat /\ mishaps \in Nat
      /\ UNCHANGED <<work, upPlace, stale>>
  BY DEF upVars, Counts
<1>3. transDir \in Directory /\ ready \in Directory
  BY DEF Inv, Types
<1> HIDE DEF o
<1>4. ASSUME UNCHANGED <<transDir, ready, trUnpacked>>,
             trPlace \notin {"remove", "unzip"}, trPlace' \notin {"remove", "unzip"}
      PROVE  Transed(f)' + Leaving(f)' <= Transed(f) + Leaving(f) + Slack
  BY <1>2, <1>4 DEF o, Transed, InTrans, TrZipped, Leaving
<1>5. CASE OpenTransDir \/ TransEnds \/ CloseTransDir
  BY <1>4, <1>5 DEF OpenTransDir, TransEnds, CloseTransDir, dirVars
<1>6. ASSUME NEW g \in Files, TransStarts(g)
      PROVE  UNCHANGED <<transDir, ready, trUnpacked>> /\ trPlace = "scan" /\ trPlace' = "write"
  BY <1>6 DEF TransStarts
<1>7. /\ Transed(f) = InTrans(f) + TrZipped(f) + (IF f \in Inner THEN InTrans(o) ELSE 0)
      /\ Transed(f)' = InTrans(f)' + TrZipped(f)' + (IF f \in Inner THEN InTrans(o)' ELSE 0)
      /\ InTrans(f) \in Nat /\ InTrans(f)' \in Nat
      /\ TrZipped(f) \in Nat /\ TrZipped(f)' \in Nat
      /\ InTrans(o) \in Nat /\ InTrans(o)' \in Nat /\ Leaving(f) \in Nat /\ Leaving(f)' \in Nat
  BY <1>2 DEF o, Transed, InTrans, TrZipped, Leaving
<1>8. CASE RenameConverted
  <2>1. /\ trPlace = "rename" /\ trFile' = trFile /\ UNCHANGED <<transDir, trUnpacked>>
        /\ transDir[trFile] # "none"
        /\ \/ /\ trPlace' = "remove"
              /\ \A g \in Files : g # trFile => ready'[g] = ready[g]
           \/ trPlace' = "scan" /\ ready' = ready
    BY <1>3, <1>8 DEF RenameConverted, Sources, TransSource, Directory
  <2>2. CASE trPlace' = "scan" /\ ready' = ready
    BY <1>4, <2>1, <2>2
  <2>3. CASE trPlace' = "remove" /\ \A g \in Files : g # trFile => ready'[g] = ready[g]
    <3>1. InTrans(f)' = InTrans(f) - One(f = trFile) /\ InTrans(o)' <= InTrans(o)
      BY <2>1, <2>3 DEF InTrans
    <3>2. TrZipped(f)' = TrZipped(f)
      BY <2>1, <2>3 DEF TrZipped
    <3>3. Leaving(f)' <= Leaving(f) + One(f = trFile)
      BY <1>2, <2>3 DEF Leaving
    <3> QED
      BY <1>7, <3>1, <3>2, <3>3
  <2> QED
    BY <2>1, <2>2, <2>3
<1>9. CASE RemoveSource
  <2>1. /\ trPlace = "remove" /\ trPlace' = "scan" /\ UNCHANGED <<ready, trUnpacked, trFile>>
        /\ transDir' = Without(transDir, {trFile})
    BY <1>9 DEF RemoveSource
  <2>2. InTrans(f)' = InTrans(f) /\ InTrans(o)' = InTrans(o)
    BY <1>1, <2>1 DEF InTrans, Without
  <2>3. TrZipped(f)' = TrZipped(f) /\ Leaving(f)' = Leaving(f)
    BY <1>2, <2>1 DEF TrZipped, Leaving
  <2> QED
    BY <1>7, <2>2, <2>3
<1>10. ASSUME NEW g \in Files, MoveTransFSNFile(g)
       PROVE  Transed(f)' + Leaving(f)' <= Transed(f) + Leaving(f) + Slack
  <2>1. /\ trPlace = "scan" /\ UNCHANGED <<trPlace, trFile, trUnpacked>> /\ transDir[g] # "none"
        /\ \/ /\ transDir' = Without(transDir, {g})
              /\ \A e \in Files : e # g => ready'[e] = ready[e]
           \/ transDir' = transDir /\ ready' = ready
    BY <1>3, <1>10 DEF MoveTransFSNFile, Inv, TransWhole, Names, Directory
  <2>2. CASE transDir' = transDir /\ ready' = ready
    BY <1>4, <2>1, <2>2
  <2>3. CASE transDir' = Without(transDir, {g}) /\ \A e \in Files : e # g => ready'[e] = ready[e]
    <3>1. InTrans(f)' = InTrans(f) - One(f = g) /\ InTrans(o)' <= InTrans(o)
      BY <1>1, <2>1, <2>3 DEF InTrans, Without
    <3>2. TrZipped(f)' = TrZipped(f)
      BY <2>1 DEF TrZipped
    <3>3. Leaving(f)' <= Leaving(f) + One(f = g)
      BY <1>2, <2>3 DEF Leaving
    <3> QED
      BY <1>7, <3>1, <3>2, <3>3
  <2> QED
    BY <2>1, <2>2, <2>3
<1>11. ASSUME UNCHANGED <<switchDir, ready, tmp, trErrored>>
       PROVE  Leaving(f)' = Leaving(f)
  BY <1>2, <1>11 DEF Leaving
<1>12. ASSUME NEW z \in Zips, TrZip!StartFile(z), UNCHANGED <<switchDir, ready, tmp, trErrored>>
       PROVE  Transed(f)' + Leaving(f)' <= Transed(f) + Leaving(f) + Slack
  <2>1. /\ trPlace = "scan" /\ transDir[z] # "none" /\ z \in Files /\ trUnpacked' = trUnpacked
        /\ \/ /\ transDir' = Without(transDir, {z}) /\ trPlace' = "unzip" /\ trFile' = z
           \/ UNCHANGED <<transDir, trPlace, trFile>>
    BY <1>12 DEF TrZip!StartFile, TrZip!Without, Without, Inv, TransWhole, Names
  <2>2. CASE UNCHANGED <<transDir, trPlace, trFile>>
    BY <1>4, <1>12, <2>1, <2>2
  <2>3. CASE transDir' = Without(transDir, {z}) /\ trPlace' = "unzip" /\ trFile' = z
    <3>1. InTrans(f)' <= InTrans(f) /\ InTrans(o)' = InTrans(o) - One(o = z)
      BY <1>1, <2>1, <2>3 DEF InTrans, Without
    <3>2. TrZipped(f)' = TrZipped(f) + One(z = o /\ f \in Inner)
      BY <2>1, <2>3 DEF o, TrZipped
    <3> QED
      BY <1>1, <1>7, <1>11, <1>12, <3>1, <3>2
  <2> QED
    BY <2>1, <2>2, <2>3
<1>13. ASSUME TrZip!Unzip, UNCHANGED <<switchDir, ready, tmp, trErrored>>
       PROVE  Transed(f)' + Leaving(f)' <= Transed(f) + Leaving(f) + Slack
  <2>1. /\ trPlace = "unzip" /\ trPlace' \in {"unpack", "scan"}
        /\ trUnpacked' \subseteq Inside[trFile]
        /\ UNCHANGED <<transDir, trFile>> /\ trFile \in Zips
    BY <1>13 DEF TrZip!Unzip, Inv, TransWhole
  <2>2. InTrans(f)' = InTrans(f) /\ InTrans(o)' = InTrans(o)
    BY <2>1 DEF InTrans
  <2>3. f \in trUnpacked' => f \in Inner /\ trFile = o
    BY <1>1, <2>1 DEF Inner
  <2>4. TrZipped(f)' <= TrZipped(f)
    BY <2>1, <2>3 DEF o, TrZipped
  <2> QED
    BY <1>7, <1>11, <1>13, <2>2, <2>4
<1>14. ASSUME TrZip!MoveOut, UNCHANGED <<switchDir, ready, tmp, trErrored>>
       PROVE  Transed(f)' + Leaving(f)' <= Transed(f) + Leaving(f) + Slack
  <2>1. PICK S \in SUBSET trUnpacked :
          /\ transDir' = [g \in Files |-> IF g \in S THEN Format[g] ELSE transDir[g]]
          /\ trUnpacked' = trUnpacked \ S
    BY <1>14 DEF TrZip!MoveOut
  <2>2. trPlace = "unpack" /\ trPlace' = "rmdir" /\ trFile' = trFile /\ trUnpacked \subseteq Inner
    BY <1>14 DEF TrZip!MoveOut, Inv, Types
  <2>3. InTrans(f)' <= InTrans(f) + One(f \in S) /\ TrZipped(f)' = TrZipped(f) - One(f \in S)
    BY <2>1, <2>2 DEF InTrans, TrZipped
  <2>4. f \in Inner => InTrans(o)' = InTrans(o)
    BY <1>1, <2>1, <2>2, InnerFiles DEF InTrans
  <2> QED
    BY <1>7, <1>11, <1>14, <2>3, <2>4
<1>15. ASSUME TrZip!RemoveZip, UNCHANGED <<switchDir, ready, tmp, trErrored>>
       PROVE  Transed(f)' + Leaving(f)' <= Transed(f) + Leaving(f) + Slack
  <2>1. /\ trPlace = "rmdir" /\ trPlace' = "scan" /\ trUnpacked' = {}
        /\ UNCHANGED <<transDir, trFile>>
    BY <1>15 DEF TrZip!RemoveZip
  <2>2. InTrans(f)' = InTrans(f) /\ InTrans(o)' = InTrans(o) /\ TrZipped(f)' <= TrZipped(f)
    BY <2>1 DEF InTrans, TrZipped
  <2> QED
    BY <1>7, <1>11, <1>15, <2>2
<1> QED
  BY <1>4, <1>5, <1>6, <1>8, <1>9, <1>10, <1>12, <1>13, <1>14, <1>15
     DEF ListTransFormDirThread, TrZip!ZIPFile

(* A batch that was received and cannot be moved away is sent again.       *)
LEMMA UploadCounts ==
  ASSUME Inv, Counts, UploadFile, NEW f \in Files
  PROVE  Leaving(f)' <= Leaving(f) + Slack
<1> USE DEF One, Slack, Leaving
<1>1. sent[f] \in Nat /\ mishaps \in Nat
  BY DEF Counts
<1>2. work \in Directory /\ ready \in Directory /\ stale \in Directory
  BY DEF Inv, Types
<1>3. CASE UploadStarts \/ ScanEnds
  BY <1>1, <1>3 DEF UploadStarts, ScanEnds, dirVars, upData
<1>4. ASSUME NEW g \in Files, TakeFile(g)
      PROVE  Leaving(f)' <= Leaving(f) + Slack
  <2>1. UNCHANGED <<stale, sent>> /\ upPlace = "scan" /\ upPlace' \in {"upload", "scan"}
    BY <1>4 DEF TakeFile, upData
  <2>2. \/ /\ ready' = Without(ready, {g})
           /\ work' = [work EXCEPT ![g] = ready[g]]
        \/ UNCHANGED <<ready, work>>
    BY <1>4 DEF TakeFile
  <2> QED
    BY <1>1, <1>2, <2>1, <2>2 DEF Without, Directory
<1>5. CASE RecoverStale
  BY <1>1, <1>5 DEF RecoverStale, MovedInto, Empty
<1>6. CASE PutFile
  BY <1>1, <1>6 DEF PutFile, Received, NoMishap, Mishap, dirVars
<1>7. ASSUME NEW g \in Files, StoreFile(g)
      PROVE  Leaving(f)' <= Leaving(f) + Slack
  BY <1>1, <1>7 DEF StoreFile, dirVars
<1>8. CASE StoreEnds
  BY <1>1, <1>8 DEF StoreEnds, NoMishap, Mishap, Empty, dirVars, upData
<1>9. CASE RestoreFiles \/ RemoveWork
  BY <1>1, <1>9 DEF RestoreFiles, RemoveWork, UpEnds, MovedInto, Empty, dirVars, upData
<1> QED
  BY <1>3, <1>4, <1>5, <1>6, <1>7, <1>8, <1>9 DEF UploadFile

(* What is gotten comes to the switch directory, and nothing of it is in a *)
(* zip as well.                                                            *)
LEMMA DownloadCounts ==
  ASSUME Inv, Sources, Counts, OneOrigin, DownFile, UNCHANGED <<swVars, batch>>, NEW f \in Files
  PROVE  Arriving(Origin(f))' + Switched(f)' <= Arriving(Origin(f)) + Switched(f)
<1> DEFINE o == Origin(f)
<1> USE DEF One
<1>1. /\ f \in Files /\ o \in Files
      /\ f \notin Inner => o = f
      /\ f \in Inner => o \notin Inner /\ o # f
  BY OriginFacts
<1>2. /\ f \in Inner => dlWork[f] = "none" /\ dlStale[f] = "none"
      /\ dlTodo \subseteq Names(bankDir) /\ (dlPlace # "idle" => ~ dlDone)
  BY DEF Sources, BankSource
<1>3. dlWork \in Directory
  BY DEF Inv, Types
<1> HIDE DEF o
<1>4. /\ Switched(f) = InSwitch(f) + SwZipped(f) + (IF f \in Inner THEN InSwitch(o) ELSE 0)
      /\ Switched(f)' = InSwitch(f)' + SwZipped(f)' + (IF f \in Inner THEN InSwitch(o)' ELSE 0)
      /\ InSwitch(f) \in Nat /\ InSwitch(f)' \in Nat
      /\ SwZipped(f) \in Nat /\ SwZipped(f)' = SwZipped(f)
      /\ InSwitch(o) \in Nat /\ InSwitch(o)' \in Nat
  BY DEF o, Switched, InSwitch, SwZipped, swVars
<1>5. /\ Arriving(o) = Coming(o) + AtBank(o) + Gotten(o)
      /\ Arriving(o)' = Coming(o)' + AtBank(o)' + Gotten(o)'
      /\ Coming(o) \in Nat /\ AtBank(o) \in Nat /\ AtBank(o)' \in Nat
      /\ Gotten(o) \in Nat /\ Gotten(o)' \in Nat
  BY DEF Arriving, Coming, AtBank, Gotten
<1>6. Coming(o)' = Coming(o)
  BY DEF Coming, DownFile, RecoverDir, MoveGotten, DownloadEnds, GetStarts, GetEnds
<1>7. ASSUME switchDir' = switchDir
      PROVE  InSwitch(f)' = InSwitch(f) /\ InSwitch(o)' = InSwitch(o)
  BY <1>7 DEF InSwitch, swVars
<1>8. ASSUME NEW d, switchDir' = MovedInto(switchDir, d), f \in Inner => d[f] = "none"
      PROVE  /\ InSwitch(o)' <= InSwitch(o) + One(d[o] # "none")
             /\ f \in Inner => InSwitch(f)' = InSwitch(f)
  BY <1>1, <1>8 DEF InSwitch, MovedInto, swVars
<1>9. CASE RecoverDir
  <2>1. /\ UNCHANGED <<bankDir, dlWork, dlDone>> /\ dlStale' = Empty /\ dlTodo' = Names(bankDir)
        /\ dlPlace = "idle" /\ dlPlace' = "get"
        /\ switchDir' = switchDir \/ switchDir' = MovedInto(switchDir, dlStale)
    BY <1>9 DEF RecoverDir
  <2>2. AtBank(o)' = AtBank(o)
    BY <1>1, <2>1 DEF AtBank, Names
  <2>3. Gotten(o)' + One(dlStale[o] # "none") <= Gotten(o)
    BY <1>1, <1>2, <2>1 DEF Gotten, Empty
  <2>4. CASE switchDir' = switchDir
    <3>1. InSwitch(f)' = InSwitch(f) /\ InSwitch(o)' = InSwitch(o)
      BY <1>7, <2>4
    <3> QED
      BY <1>4, <1>5, <1>6, <2>2, <2>3, <3>1 DEF o
  <2>5. CASE switchDir' = MovedInto(switchDir, dlStale)
    <3>1. /\ InSwitch(o)' <= InSwitch(o) + One(dlStale[o] # "none")
          /\ f \in Inner => InSwitch(f)' = InSwitch(f)
      BY <1>2, <1>8, <2>5
    <3> QED
      BY <1>1, <1>4, <1>5, <1>6, <2>2, <2>3, <3>1 DEF o
  <2> QED
    BY <2>1, <2>4, <2>5
<1>10. ASSUME NEW g \in Files, GetStarts(g) \/ GetEnds(g)
       PROVE  Arriving(o)' + Switched(f)' <= Arriving(o) + Switched(f)
  <2>1. /\ UNCHANGED <<switchDir, bankDir, dlStale, dlPlace, dlDone>> /\ dlPlace = "get"
        /\ g \in dlTodo
        /\ \/ dlTodo' = dlTodo /\ dlWork' = [dlWork EXCEPT ![g] = "part"]
           \/ dlTodo' = dlTodo \ {g} /\ dlWork' = [dlWork EXCEPT ![g] = bankDir[g]]
           \/ dlTodo' = {} /\ dlWork' = dlWork
    BY <1>10 DEF GetStarts, GetEnds, dirVars
  <2>2. AtBank(o)' + Gotten(o)' <= AtBank(o) + Gotten(o)
    BY <1>1, <1>2, <1>3, <2>1 DEF AtBank, Gotten, Names, Directory
  <2>3. InSwitch(f)' = InSwitch(f) /\ InSwitch(o)' = InSwitch(o)
    BY <1>7, <2>1
  <2> QED
    BY <1>4, <1>5, <1>6, <2>2, <2>3
<1>11. CASE MoveGotten
  <2>1. /\ UNCHANGED <<bankDir, dlStale, dlTodo, dlDone>> /\ dlTodo = {}
        /\ dlPlace = "get" /\ dlPlace' = "clean"
        /\ \/ switchDir' = MovedInto(switchDir, dlWork) /\ dlWork' = Empty
           \/ UNCHANGED <<switchDir, dlWork>>
    BY <1>11 DEF MoveGotten
  <2>2. AtBank(o)' = AtBank(o)
    BY <2>1 DEF AtBank
  <2>3. \/ switchDir' = switchDir /\ Gotten(o)' = Gotten(o)
        \/ /\ switchDir' = MovedInto(switchDir, dlWork)
           /\ Gotten(o)' + One(dlWork[o] # "none") <= Gotten(o)
    BY <1>1, <2>1 DEF Gotten, Empty
  <2>4. CASE switchDir' = switchDir /\ Gotten(o)' = Gotten(o)
    <3>1. InSwitch(f)' = InSwitch(f) /\ InSwitch(o)' = InSwitch(o)
      BY <1>7, <2>4
    <3> QED
      BY <1>4, <1>5, <1>6, <2>2, <2>4, <3>1 DEF o
  <2>5. CASE /\ switchDir' = MovedInto(switchDir, dlWork)
             /\ Gotten(o)' + One(dlWork[o] # "none") <= Gotten(o)
    <3>1. /\ InSwitch(o)' <= InSwitch(o) + One(dlWork[o] # "none")
          /\ f \in Inner => InSwitch(f)' = InSwitch(f)
      BY <1>2, <1>8, <2>5
    <3> QED
      BY <1>1, <1>4, <1>5, <1>6, <2>2, <2>5, <3>1 DEF o
  <2> QED
    BY <2>3, <2>4, <2>5
<1>12. CASE DownloadEnds
  <2>1. /\ UNCHANGED <<switchDir, bankDir, dlStale>> /\ dlDone' = TRUE
        /\ dlWork' = Empty /\ dlTodo' = {} /\ dlPlace' = "idle"
    BY <1>12 DEF DownloadEnds, DlEnds, dirVars
  <2>2. AtBank(o)' + Gotten(o)' <= AtBank(o) + Gotten(o)
    BY <1>1, <2>1 DEF AtBank, Gotten, Empty
  <2>3. InSwitch(f)' = InSwitch(f) /\ InSwitch(o)' = InSwitch(o)
    BY <1>7, <2>1
  <2> QED
    BY <1>4, <1>5, <1>6, <2>2, <2>3 DEF o
<1> QED
  BY <1>9, <1>10, <1>11, <1>12 DEF o, DownFile

(* A file that comes is no longer coming.                                  *)
LEMMA DeliverCounts ==
  ASSUME Inv, Counts, OneOrigin, NEW g \in Files, Deliver(g), UNCHANGED batch, NEW f \in Files
  PROVE  Total(f)' <= Total(f)
<1> DEFINE o == Origin(f)
<1> USE DEF One
<1>1. /\ f \in Files /\ o \in Files
      /\ f \notin Inner => o = f
      /\ f \in Inner => o \notin Inner /\ o # f
  BY OriginFacts
<1>2. switchDir \in Directory /\ transDir \in Directory /\ sent[f] \in Nat
  BY DEF Inv, Types, Counts
<1> HIDE DEF o
<1>3. /\ UNCHANGED <<ready, swVars, trVars, upVars, dlVars>>
      /\ g \in batch.files \ (delivered \cup Inner) /\ delivered' = delivered \cup {g}
      /\ \/ switchDir' = [switchDir EXCEPT ![g] = Format[g]] /\ transDir' = transDir
         \/ transDir' = [transDir EXCEPT ![g] = Format[g]] /\ switchDir' = switchDir
  BY DEF Deliver
<1>4. Leaving(f)' = Leaving(f) /\ Leaving(f) \in Nat
  BY <1>2, <1>3 DEF Leaving, upVars
<1>5. AtBank(o)' = AtBank(o) /\ AtBank(o) \in Nat /\ Gotten(o)' = Gotten(o) /\ Gotten(o) \in Nat
  BY <1>3 DEF AtBank, Gotten, dlVars
<1>6. SwZipped(f)' = SwZipped(f) /\ SwZipped(f) \in Nat
  BY <1>3 DEF SwZipped, swVars
<1>7. TrZipped(f)' = TrZipped(f) /\ TrZipped(f) \in Nat
  BY <1>3 DEF TrZipped, trVars
<1>8. Coming(o)' = Coming(o) - One(o = g) /\ Coming(o) \in Nat /\ Coming(o)' \in Nat
  BY <1>3 DEF Coming
<1>9. /\ InSwitch(f) \in Nat /\ InSwitch(f)' \in Nat /\ InSwitch(o) \in Nat /\ InSwitch(o)' \in Nat
      /\ InTrans(f) \in Nat /\ InTrans(f)' \in Nat /\ InTrans(o) \in Nat /\ InTrans(o)' \in Nat
  BY DEF InSwitch, InTrans
<1>10. \/ /\ InSwitch(f)' <= InSwitch(f) + One(f = g) /\ InSwitch(o)' <= InSwitch(o) + One(o = g)
          /\ InTrans(f)' = InTrans(f) /\ InTrans(o)' = InTrans(o)
       \/ /\ InTrans(f)' <= InTrans(f) + One(f = g) /\ InTrans(o)' <= InTrans(o) + One(o = g)
          /\ InSwitch(f)' = InSwitch(f) /\ InSwitch(o)' = InSwitch(o)
  <2>1. UNCHANGED <<swPlace, swFile, trPlace, trFile>>
    BY <1>3 DEF swVars, trVars
  <2>2. CASE switchDir' = [switchDir EXCEPT ![g] = Format[g]] /\ transDir' = transDir
    BY <1>1, <1>2, <2>1, <2>2 DEF InSwitch, InTrans, Directory
  <2>3. CASE transDir' = [transDir EXCEPT ![g] = Format[g]] /\ switchDir' = switchDir
    BY <1>1, <1>2, <2>1, <2>3 DEF InSwitch, InTrans, Directory
  <2> QED
    BY <1>3, <2>2, <2>3
<1>11. /\ Total(f) = Coming(o) + AtBank(o) + Gotten(o)
                     + (InSwitch(f) + SwZipped(f) + IF f \in Inner THEN InSwitch(o) ELSE 0)
                     + (InTrans(f) + TrZipped(f) + IF f \in Inner THEN InTrans(o) ELSE 0)
                     + Leaving(f)
       /\ Total(f)' = Coming(o)' + AtBank(o)' + Gotten(o)'
                     + (InSwitch(f)' + SwZipped(f)' + IF f \in Inner THEN InSwitch(o)' ELSE 0)
                     + (InTrans(f)' + TrZipped(f)' + IF f \in Inner THEN InTrans(o)' ELSE 0)
                     + Leaving(f)'
  BY DEF o, Total, Arriving, Switched, Transed
<1>12. f \in Inner => f # g
  BY <1>3
<1> QED
  BY <1>1, <1>4, <1>5, <1>6, <1>7, <1>8, <1>9, <1>10, <1>11, <1>12

(* A kill has a file sent once more for each thread that has it.           *)
LEMMA KillCounts ==
  ASSUME Inv, Counts, OneOrigin, Sources, Kill, UNCHANGED batch, NEW f \in Files
  PROVE  Total(f)' <= Total(f) + (IF batch.entrance = "bank" THEN 3 ELSE 2)
<1> DEFINE o == Origin(f)
<1> USE DEF One
<1>1. /\ f \in Files /\ o \in Files
      /\ f \notin Inner => o = f
      /\ f \in Inner => o \notin Inner /\ o # f
  BY OriginFacts
<1>2. sent[f] \in Nat
  BY DEF Counts
<1> HIDE DEF o
<1>3. /\ Arriving(o) \in Nat /\ Switched(f) \in Nat /\ Transed(f) \in Nat /\ Leaving(f) \in Nat
      /\ Arriving(o)' \in Nat /\ Switched(f)' \in Nat /\ Transed(f)' \in Nat /\ Leaving(f)' \in Nat
  <2>1. /\ InSwitch(f) \in Nat /\ InSwitch(o) \in Nat /\ SwZipped(f) \in Nat
        /\ InTrans(f) \in Nat /\ InTrans(o) \in Nat /\ TrZipped(f) \in Nat
        /\ Coming(o) \in Nat /\ AtBank(o) \in Nat /\ Gotten(o) \in Nat
    BY DEF InSwitch, SwZipped, InTrans, TrZipped, Coming, AtBank, Gotten
  <2>2. /\ InSwitch(f)' \in Nat /\ InSwitch(o)' \in Nat /\ SwZipped(f)' \in Nat
        /\ InTrans(f)' \in Nat /\ InTrans(o)' \in Nat /\ TrZipped(f)' \in Nat
        /\ Coming(o)' \in Nat /\ AtBank(o)' \in Nat /\ Gotten(o)' \in Nat
    BY DEF InSwitch, SwZipped, InTrans, TrZipped, Coming, AtBank, Gotten
  <2>3. sent' = sent
    BY DEF Kill, UpKilled
  <2>4. Leaving(f) \in Nat /\ Leaving(f)' \in Nat
    BY <1>2, <2>3 DEF Leaving
  <2>5. Arriving(o) \in Nat /\ Switched(f) \in Nat /\ Transed(f) \in Nat
    BY <2>1 DEF Arriving, Switched, Transed, o
  <2>6. Arriving(o)' \in Nat /\ Switched(f)' \in Nat /\ Transed(f)' \in Nat
    BY <2>2 DEF Arriving, Switched, Transed, o
  <2> QED
    BY <2>4, <2>5, <2>6
<1>4. Switched(f)' <= Switched(f) + One(batch.entrance # "trans")
  <2>1. /\ switchDir' = switchDir /\ swPlace' = "sleep" /\ swUnpacked' = {}
        /\ batch.entrance = "trans" => swPlace # "insert"
    BY DEF Kill, SwKilled, dirVars, Inv, SwitchIdle
  <2>2. /\ InSwitch(f)' <= InSwitch(f) + One(swPlace = "insert" /\ swFile = f)
        /\ InSwitch(o)' <= InSwitch(o) + One(swPlace = "insert" /\ swFile = o)
        /\ InSwitch(f) \in Nat /\ InSwitch(o) \in Nat /\ InSwitch(f)' \in Nat /\ InSwitch(o)' \in Nat
    BY <2>1 DEF InSwitch
  <2>3. SwZipped(f)' = 0 /\ SwZipped(f) \in Nat
    BY <2>1 DEF SwZipped
  <2>4. /\ Switched(f) = InSwitch(f) + SwZipped(f) + (IF f \in Inner THEN InSwitch(o) ELSE 0)
        /\ Switched(f)' = InSwitch(f)' + SwZipped(f)' + (IF f \in Inner THEN InSwitch(o)' ELSE 0)
    BY DEF o, Switched
  <2> QED
    BY <1>1, <2>1, <2>2, <2>3, <2>4
<1>5. Transed(f)' <= Transed(f) + One(batch.entrance = "trans")
  <2>1. /\ transDir' = transDir /\ trPlace' = "sleep" /\ trUnpacked' = {}
        /\ batch.entrance # "trans" => trPlace # "remove"
    BY DEF Kill, TrKilled, dirVars, Inv, TransIdle
  <2>2. /\ InTrans(f)' <= InTrans(f) + One(trPlace = "remove" /\ trFile = f)
        /\ InTrans(o)' <= InTrans(o) + One(trPlace = "remove" /\ trFile = o)
        /\ InTrans(f) \in Nat /\ InTrans(o) \in Nat /\ InTrans(f)' \in Nat /\ InTrans(o)' \in Nat
    BY <2>1 DEF InTrans
  <2>3. TrZipped(f)' = 0 /\ TrZipped(f) \in Nat
    BY <2>1 DEF TrZipped
  <2>4. /\ Transed(f) = InTrans(f) + TrZipped(f) + (IF f \in Inner THEN InTrans(o) ELSE 0)
        /\ Transed(f)' = InTrans(f)' + TrZipped(f)' + (IF f \in Inner THEN InTrans(o)' ELSE 0)
    BY DEF o, Transed
  <2> QED
    BY <1>1, <2>1, <2>2, <2>3, <2>4
<1>6. Leaving(f)' <= Leaving(f) + 1
  BY <1>2 DEF Leaving, Kill, UpKilled, UpEnds, MovedInto, Empty, dirVars
<1>7. Arriving(o)' <= Arriving(o) + One(batch.entrance = "bank")
  <2>1. Coming(o)' = Coming(o) /\ Coming(o) \in Nat
    BY DEF Coming, Kill
  <2>2. /\ dlTodo' = {} /\ dlPlace' = "idle" /\ dlWork' = Empty /\ bankDir' = bankDir
        /\ dlStale' = MovedInto(dlStale, dlWork) /\ dlDone' = dlDone
    BY DEF Kill, DlKilled, DlEnds
  <2>3. CASE batch.entrance # "bank"
    <3>1. bankDir[o] = "none" /\ dlWork[o] = "none" /\ dlStale[o] = "none"
      BY <1>1, <2>3 DEF Sources, BankIdle, Empty
    <3>2. AtBank(o)' = AtBank(o) /\ Gotten(o)' = Gotten(o)
      BY <1>1, <2>2, <3>1 DEF AtBank, Gotten, MovedInto, Empty
    <3> QED
      BY <1>3, <2>1, <3>2, <2>3 DEF Arriving
  <2>4. CASE batch.entrance = "bank"
    <3>1. AtBank(o)' + Gotten(o)' <= AtBank(o) + Gotten(o) + 1
      BY <1>1, <2>2 DEF AtBank, Gotten, MovedInto, Empty
    <3>2. AtBank(o) \in Nat /\ AtBank(o)' \in Nat /\ Gotten(o) \in Nat /\ Gotten(o)' \in Nat
      BY DEF AtBank, Gotten
    <3> QED
      BY <2>1, <2>4, <3>1, <3>2 DEF Arriving
  <2> QED
    BY <2>3, <2>4
<1> QED
  BY <1>3, <1>4, <1>5, <1>6, <1>7 DEF Total, o

(* Every thread notes what goes wrong, and takes nothing from what came.   *)
LEMMA ThreadsCount ==
  ASSUME Counts
  PROVE  /\ SwitchFileThread => /\ mishaps' \in {mishaps, mishaps + 1}
                               /\ delivered \subseteq delivered' /\ transDir' = transDir
         /\ ListTransFormDirThread => /\ mishaps' \in {mishaps, mishaps + 1}
                                     /\ delivered \subseteq delivered' /\ switchDir' = switchDir
         /\ UploadFile => /\ mishaps' \in {mishaps, mishaps + 1}
                         /\ UNCHANGED <<delivered, switchDir, transDir>>
         /\ DownFile => mishaps' \in {mishaps, mishaps + 1} /\ UNCHANGED <<ready, transDir>>
<1> USE DEF NoMishap, Mishap, dirVars
<1>1. SwitchFileThread => /\ mishaps' \in {mishaps, mishaps + 1}
                          /\ delivered \subseteq delivered' /\ transDir' = transDir
  BY DEF SwitchFileThread, OpenSwitchDir, CopyStarts, CopyEnds, PublishCopy, MoveToInsert,
     CloseSwitchDir, SwZip!ZIPFile, SwZip!StartFile, SwZip!Unzip, SwZip!MoveOut, SwZip!RemoveZip,
     SwZip!NoMishap, SwZip!Mishap
<1>2. ListTransFormDirThread => /\ mishaps' \in {mishaps, mishaps + 1}
                                /\ delivered \subseteq delivered' /\ switchDir' = switchDir
  BY DEF ListTransFormDirThread, OpenTransDir, MoveTransFSNFile, TransStarts, TransEnds,
     RenameConverted, RemoveSource, CloseTransDir, TrZip!ZIPFile, TrZip!StartFile, TrZip!Unzip,
     TrZip!MoveOut, TrZip!RemoveZip, TrZip!NoMishap, TrZip!Mishap
<1>3. UploadFile => /\ mishaps' \in {mishaps, mishaps + 1}
                    /\ UNCHANGED <<delivered, switchDir, transDir>>
  BY DEF UploadFile, UploadStarts, TakeFile, RecoverStale, ScanEnds, PutFile, StoreFile,
     StoreEnds, RestoreFiles, RemoveWork
<1>4. DownFile => mishaps' \in {mishaps, mishaps + 1} /\ UNCHANGED <<ready, transDir>>
  BY DEF DownFile, RecoverDir, GetStarts, GetEnds, MoveGotten, DownloadEnds
<1> QED
  BY <1>1, <1>2, <1>3, <1>4

(* What no thread touches counts the same.                                 *)
LEMMA OthersCount ==
  ASSUME NEW f
  PROVE  /\ UNCHANGED <<switchDir, swVars>> => Switched(f)' = Switched(f)
         /\ UNCHANGED <<transDir, trVars>> => Transed(f)' = Transed(f)
         /\ UNCHANGED <<ready, upVars>> => Leaving(f)' = Leaving(f)
         /\ UNCHANGED <<dlVars, batch>> /\ delivered \subseteq delivered'
              => Arriving(Origin(f))' <= Arriving(Origin(f))
<1>1. UNCHANGED <<switchDir, swVars>> => Switched(f)' = Switched(f)
  BY DEF Switched, InSwitch, SwZipped, swVars
<1>2. UNCHANGED <<transDir, trVars>> => Transed(f)' = Transed(f)
  BY DEF Transed, InTrans, TrZipped, trVars
<1>3. UNCHANGED <<ready, upVars>> => Leaving(f)' = Leaving(f)
  BY DEF Leaving, upVars
<1>4. ASSUME UNCHANGED <<dlVars, batch>>, delivered \subseteq delivered'
      PROVE  Arriving(Origin(f))' <= Arriving(Origin(f))
  <2>1. AtBank(Origin(f))' = AtBank(Origin(f)) /\ Gotten(Origin(f))' = Gotten(Origin(f))
    BY <1>4 DEF AtBank, Gotten, dlVars
  <2>2. AtBank(Origin(f)) \in Nat /\ Gotten(Origin(f)) \in Nat
    BY DEF AtBank, Gotten, One
  <2>3. /\ Coming(Origin(f))' \in Nat /\ Coming(Origin(f)) \in Nat
        /\ Coming(Origin(f))' <= Coming(Origin(f))
    BY <1>4 DEF Coming, One
  <2> QED
    BY <2>1, <2>2, <2>3 DEF Arriving
<1> QED
  BY <1>1, <1>2, <1>3, <1>4

(* At the start a file is at one place at most.                            *)
LEMMA InitCount ==
  ASSUME OneOrigin, Init
  PROVE  CountInv
<1> USE DEF Init, DirInit, SwInit, TrInit, UpInit, DlInit, One
<1>1. Sources
  <2>1. batch.entrance = "bank" => batch.files \cap Inner = {}
    BY DEF OneOrigin
  <2>2. SwitchSource /\ TransSource /\ BankIdle
    BY DEF SwitchSource, TransSource, BankIdle, Empty
  <2>3. BankSource
    BY <2>1, InnerFiles DEF BankSource, Empty
  <2> QED
    BY <2>2, <2>3 DEF Sources
<1>2. ASSUME NEW f \in Files PROVE Total(f) <= Budget
  <2> DEFINE o == Origin(f)
  <2>1. o \in Files
    BY OriginFacts
  <2>2. \A e \in Files : InSwitch(e) = 0 /\ InTrans(e) = 0
    BY DEF InSwitch, InTrans, Empty
  <2>3. SwZipped(f) = 0 /\ TrZipped(f) = 0
    BY DEF SwZipped, TrZipped
  <2>4. Leaving(f) = 0
    BY DEF Leaving, Empty
  <2>5. Gotten(o) = 0
    BY <2>1 DEF Gotten, Empty
  <2>6. /\ Coming(o) \in {0, 1} /\ AtBank(o) \in {0, 1}
        /\ batch.entrance = "bank" => Coming(o) = 0
        /\ batch.entrance # "bank" => AtBank(o) = 0
    BY <2>1 DEF Coming, AtBank
  <2>7. Switched(f) = 0 /\ Transed(f) = 0 /\ Arriving(o) <= 1 /\ Arriving(o) \in Nat
    BY <2>1, <2>2, <2>3, <2>5, <2>6 DEF Switched, Transed, Arriving
  <2>8. Total(f) <= 1
    BY <2>4, <2>7 DEF Total
  <2>9. Budget = 1
    BY DEF Budget
  <2>10. Total(f) \in Nat
    BY <2>4, <2>7 DEF Total
  <2> QED
    BY <2>8, <2>9, <2>10
<1> QED
  BY <1>1, <1>2 DEF CountInv, Counted

(* Every step keeps the count: a mishap adds to both sides.                *)
LEMMA NextCount ==
  ASSUME OneOrigin, Inv, Counts, Counts', CountInv, [Next]_vars
  PROVE  CountInv'
<1>1. Sources
  BY DEF CountInv
<1>2. Sources'
  <2>1. ASSUME NEW f \in Files, Deliver(f), UNCHANGED batch PROVE Sources'
    BY <1>1, <2>1, DeliverSources
  <2>2. CASE Kill /\ UNCHANGED batch
    BY <1>1, <2>2, KillSources
  <2>3. CASE Restart /\ UNCHANGED batch
    BY <1>1, <2>3, UnchangedSources DEF Restart, pastVars
  <2>4. CASE Switching /\ UNCHANGED batch
    BY <1>1, <2>4, SwitchSources DEF Switching
  <2>5. CASE Transforming /\ UNCHANGED batch
    BY <1>1, <2>5, TransSources DEF Transforming
  <2>6. CASE Uploading /\ UNCHANGED batch
    BY <1>1, <2>6, UploadSources DEF Uploading
  <2>7. CASE Downloading /\ UNCHANGED batch
    BY <1>1, <2>7, DownloadSources DEF Downloading
  <2>8. CASE UNCHANGED vars
    BY <1>1, <2>8, UnchangedSources DEF vars
  <2> QED
    BY <2>1, <2>2, <2>3, <2>4, <2>5, <2>6, <2>7, <2>8 DEF Next
<1>3. ASSUME NEW f \in Files PROVE Total(f)' <= Budget'
  <2>1. /\ Arriving(Origin(f)) \in Nat /\ Switched(f) \in Nat /\ Transed(f) \in Nat
        /\ Leaving(f) \in Nat /\ mishaps \in Nat
        /\ Arriving(Origin(f))' \in Nat /\ Switched(f)' \in Nat /\ Transed(f)' \in Nat
        /\ Leaving(f)' \in Nat /\ mishaps' \in Nat
    <3>1. /\ Arriving(Origin(f)) \in Nat /\ Switched(f) \in Nat /\ Transed(f) \in Nat
          /\ Leaving(f) \in Nat /\ mishaps \in Nat
      BY SumNumbers
    <3>2. /\ Arriving(Origin(f))' \in Nat /\ Switched(f)' \in Nat /\ Transed(f)' \in Nat
          /\ Leaving(f)' \in Nat /\ mishaps' \in Nat
      <4>1. sent'[f] \in Nat /\ mishaps' \in Nat
        BY DEF Counts
      <4>2. Leaving(f)' \in Nat
        BY <4>1 DEF Leaving, One
      <4>3. Arriving(Origin(f))' \in Nat
        BY DEF Arriving, Coming, AtBank, Gotten, One
      <4>4. Switched(f)' \in Nat
        BY DEF Switched, InSwitch, SwZipped, One
      <4>5. Transed(f)' \in Nat
        BY DEF Transed, InTrans, TrZipped, One
      <4> QED
        BY <4>1, <4>2, <4>3, <4>4, <4>5
    <3> QED
      BY <3>1, <3>2
  <2>2. /\ Total(f) = Arriving(Origin(f)) + Switched(f) + Transed(f) + Leaving(f)
        /\ Total(f)' = Arriving(Origin(f))' + Switched(f)' + Transed(f)' + Leaving(f)'
        /\ Total(f) <= Budget
    BY DEF Total, CountInv, Counted
  <2>3. batch' = batch
    BY DEF Next, vars, pastVars
  <2>4. /\ Budget = 1 + (IF batch.entrance = "bank" THEN 3 ELSE 2) * mishaps
        /\ Budget' = 1 + (IF batch.entrance = "bank" THEN 3 ELSE 2) * mishaps'
    BY <2>3 DEF Budget
  <2>5. ASSUME mishaps' \in {mishaps, mishaps + 1},
               Arriving(Origin(f))' + Switched(f)' + Transed(f)' + Leaving(f)'
                 <= Arriving(Origin(f)) + Switched(f) + Transed(f) + Leaving(f) + Slack
        PROVE  Total(f)' <= Budget'
    BY <2>1, <2>2, <2>4, <2>5 DEF Slack
  <2>6. ASSUME NEW g \in Files, Deliver(g), UNCHANGED batch PROVE Total(f)' <= Budget'
    <3>1. Total(f)' <= Total(f)
      BY <2>6, DeliverCounts
    <3>2. mishaps' = mishaps
      BY <2>6 DEF Deliver
    <3> QED
      BY <2>1, <2>2, <2>4, <3>1, <3>2
  <2>7. CASE Kill /\ UNCHANGED batch
    <3>1. Total(f)' <= Total(f) + (IF batch.entrance = "bank" THEN 3 ELSE 2)
      BY <1>1, <2>7, KillCounts
    <3>2. mishaps' = mishaps + 1
      BY <2>7 DEF Kill, Mishap
    <3> QED
      BY <2>1, <2>2, <2>4, <3>1, <3>2
  <2>8. CASE Switching /\ UNCHANGED batch
    <3>1. /\ SwitchFileThread /\ UNCHANGED <<trVars, upVars, dlVars, batch>>
          /\ mishaps' \in {mishaps, mishaps + 1}
          /\ delivered \subseteq delivered' /\ transDir' = transDir
      BY <2>8, ThreadsCount DEF Switching
    <3>2. Switched(f)' + Leaving(f)' <= Switched(f) + Leaving(f) + Slack
      BY <1>1, <3>1, SwitchCounts
    <3>3. Transed(f)' = Transed(f) /\ Arriving(Origin(f))' <= Arriving(Origin(f))
      BY <3>1, OthersCount
    <3> QED
      BY <2>1, <2>5, <3>1, <3>2, <3>3 DEF Slack
  <2>9. CASE Transforming /\ UNCHANGED batch
    <3>1. /\ ListTransFormDirThread /\ UNCHANGED <<swVars, upVars, dlVars, batch>>
          /\ mishaps' \in {mishaps, mishaps + 1}
          /\ delivered \subseteq delivered' /\ switchDir' = switchDir
      BY <2>9, ThreadsCount DEF Transforming
    <3>2. Transed(f)' + Leaving(f)' <= Transed(f) + Leaving(f) + Slack
      BY <1>1, <3>1, TransCounts
    <3>3. Switched(f)' = Switched(f) /\ Arriving(Origin(f))' <= Arriving(Origin(f))
      BY <3>1, OthersCount
    <3> QED
      BY <2>1, <2>5, <3>1, <3>2, <3>3 DEF Slack
  <2>10. CASE Uploading /\ UNCHANGED batch
    <3>1. /\ UploadFile /\ UNCHANGED <<swVars, trVars, dlVars, batch>>
          /\ mishaps' \in {mishaps, mishaps + 1}
          /\ UNCHANGED <<delivered, switchDir, transDir>>
      BY <2>10, ThreadsCount DEF Uploading
    <3>2. Leaving(f)' <= Leaving(f) + Slack
      BY <3>1, UploadCounts
    <3>3. /\ Switched(f)' = Switched(f) /\ Transed(f)' = Transed(f)
          /\ Arriving(Origin(f))' <= Arriving(Origin(f))
      BY <3>1, OthersCount
    <3> QED
      BY <2>1, <2>5, <3>1, <3>2, <3>3 DEF Slack
  <2>11. CASE Downloading /\ UNCHANGED batch
    <3>1. /\ DownFile /\ UNCHANGED <<swVars, trVars, upVars, batch>>
          /\ mishaps' \in {mishaps, mishaps + 1} /\ UNCHANGED <<ready, transDir>>
      BY <2>11, ThreadsCount DEF Downloading
    <3>2. Arriving(Origin(f))' + Switched(f)' <= Arriving(Origin(f)) + Switched(f)
      BY <1>1, <3>1, DownloadCounts
    <3>3. Transed(f)' = Transed(f) /\ Leaving(f)' = Leaving(f)
      BY <3>1, OthersCount
    <3> QED
      BY <2>1, <2>5, <3>1, <3>2, <3>3 DEF Slack
  <2>12. CASE (Restart /\ UNCHANGED batch) \/ UNCHANGED vars
    <3>1. UNCHANGED <<dirVars, delivered, mishaps, swVars, trVars, upVars, dlVars, batch>>
      BY <2>12 DEF Restart, vars, pastVars
    <3>2. /\ Switched(f)' = Switched(f) /\ Transed(f)' = Transed(f) /\ Leaving(f)' = Leaving(f)
          /\ Arriving(Origin(f))' <= Arriving(Origin(f))
      BY <3>1, OthersCount DEF dirVars
    <3> QED
      BY <2>1, <2>2, <2>4, <3>1, <3>2
  <2> QED
    BY <2>6, <2>7, <2>8, <2>9, <2>10, <2>11, <2>12 DEF Next
<1> QED
  BY <1>2, <1>3 DEF CountInv, Counted

(* Where no name comes in two ways, the other bank receives a file once,   *)
(* and once more for a failed command, a lost answer or, for each thread   *)
(* that has the file, a kill.                                              *)
THEOREM SentOnceCorrect ==
  ASSUME OneOrigin
  PROVE  Spec => []SentOnce
<1>1. Counts /\ CountInv => SentOnce
  <2> SUFFICES ASSUME Counts, CountInv, NEW f \in Files
               PROVE  sent[f] <= Budget
    BY DEF SentOnce, Budget
  <2>1. sent[f] \in Nat /\ mishaps \in Nat
    BY DEF Counts
  <2>2. sent[f] <= Leaving(f)
    BY <2>1 DEF Leaving, One
  <2>3. /\ Arriving(Origin(f)) \in Nat /\ Switched(f) \in Nat /\ Transed(f) \in Nat
        /\ Leaving(f) \in Nat
    BY SumNumbers
  <2>4. Total(f) <= Budget /\ Total(f) \in Nat /\ Budget \in Nat
    BY <2>1, SumNumbers DEF CountInv, Counted, Budget
  <2> QED
    BY <2>1, <2>2, <2>3, <2>4 DEF Total
<1>2. Init => Inv /\ Counts /\ Places /\ CountInv
  BY InitInv, TypedInit, InitCount
<1>3. Inv /\ Counts /\ Places /\ CountInv /\ [Next]_vars => (Inv /\ Counts /\ Places /\ CountInv)'
  BY NextInv, TypedNext, NextCount
<1> QED
  BY <1>1, <1>2, <1>3, PTL DEF Spec
=============================================================================
