---------------------------- MODULE ForwardDirs ----------------------------
(***************************************************************************)
(* What the threads that pass files on to another bank share: the          *)
(* directories one of them fills and another empties, the files that may   *)
(* come, and what may go wrong.  SwitchDir, Transform, Upload and Download *)
(* each model one of the threads; Forwarding composes them.                *)
(*                                                                         *)
(* A directory is a function from names to contents.  Of a file's bytes    *)
(* there is only whether they are all there, and in which format.          *)
(***************************************************************************)
EXTENDS Integers, FiniteSets

CONSTANTS Files,       (* file names                                        *)
          Kind,        (* Kind[f]: "fsn", "zip" or "other"                  *)
          Inside,      (* Inside[z]: the names a zip unpacks to             *)
          Format,      (* Format[f]: what a file holds when it comes        *)
          Records,     (* Records[f]: how many records                      *)
          Rules,       (* kinds the rules of the uploading route name       *)
          BatchSize,   (* files of one upload: 20 in the code               *)
          Batches,     (* which files come where, and what may go wrong     *)
                       (* (bound mishaps: how often something does)         *)
          NoFile

Contents == {"whole",      (* a standard FSN file, or any file of another kind *)
             "poka",       (* an FSN file with Poka's longer records        *)
             "odd",        (* neither                                       *)
             "part",       (* not all of it                                 *)
             "garbled"}    (* cut at the wrong places                       *)

Entrances == {"switch", "trans", "bank"}
FaultKinds == {"kill",     (* the process is killed                         *)
               "move",     (* a mv or a rename fails                        *)
               "copy",     (* cp writes only part of a file                 *)
               "unzip",    (* unzip fails, or leaves files out              *)
               "write",    (* a converted file cannot be written            *)
               "put",      (* a transfer fails, or its answer is lost       *)
               "cut"}      (* a transfer breaks off and nobody notices      *)

Zips  == {f \in Files : Kind[f] = "zip"}
Inner == UNION {Inside[z] : z \in Zips}

ASSUME ForwardAssumption ==
  /\ Kind \in [Files -> {"fsn", "zip", "other"}]
  /\ Inside \in [Files -> SUBSET Files]
  /\ \A f \in Inner : f \notin Zips
  /\ Format \in [Files -> {"whole", "poka", "odd"}]
  /\ Records \in [Files -> Nat]
  /\ BatchSize \in Nat \ {0}
  /\ Batches \subseteq [entrance : Entrances, files : SUBSET Files, faults : SUBSET FaultKinds,
                 mishaps : Nat]
  /\ NoFile \notin Files

VARIABLES
  switchDir,      (* the switch directory, SwitchDir of the configuration   *)
  transDir,       (* the directory of files to convert, fsn_trans           *)
  ready,          (* the local directory of the uploading route: the one    *)
                  (* SwitchFileThread copies to, or fsn_trans_fin           *)
  tmp,            (* the names f.tmp in it, as f                            *)
  delivered,      (* names that came to an entrance (only properties read it) *)
  ignored,        (* files of a command that failed with nobody looking at  *)
                  (* its result (only properties read it)                   *)
  mishaps,        (* how often something went wrong                         *)
  batch           (* the member of Batches that comes                       *)

dirVars  == <<switchDir, transDir, ready, tmp>>
pastVars == <<delivered, ignored, mishaps, batch>>

Directory == [Files -> Contents \cup {"none"}]
Empty     == [f \in Files |-> "none"]
Names(d)         == {f \in Files : d[f] # "none"}
Without(d, S)    == [f \in Files |-> IF f \in S THEN "none" ELSE d[f]]
MovedInto(d, e)  == [f \in Files |-> IF e[f] # "none" THEN e[f] ELSE d[f]]

(* CheckFileType, as far as it matters here.                               *)
Known(f) == Kind[f] # "other"

(* Something of the kind k goes wrong, and what it did to the files in S   *)
(* is not looked at.                                                       *)
Mishap(k, S) ==
  /\ k \in batch.faults /\ mishaps < batch.mishaps
  /\ mishaps' = mishaps + 1
  /\ ignored' = ignored \cup S

NoMishap == UNCHANGED <<mishaps, ignored>>

DirInit ==
  /\ switchDir = Empty /\ transDir = Empty /\ ready = Empty /\ tmp = Empty
  /\ batch \in Batches
  /\ delivered = IF batch.entrance = "bank" THEN batch.files ELSE {}
  /\ ignored = {} /\ mishaps = 0
=============================================================================
