---------------------------- MODULE MCIngestDir ----------------------------
(* Small instances of IngestDir: a zip with one FSN file inside, an FSN    *)
(* file that comes by itself and a CT file.                                *)
EXTENDS IngestDir, TLC

CONSTANTS fsn, inner, zip, ct, h1, h2

KindOf(f) == CASE f = zip -> "zip" [] f = ct -> "ct" [] OTHER -> "record"

MCKind   == [f \in Files |-> KindOf(f)]
MCInside == [f \in Files |-> IF f = zip THEN {inner} ELSE {}]

(* The zip and the FSN file when renames and moves fail, or the FSN and    *)
(* the CT file when sessions and loads go wrong as well.                   *)
ZipsOrRecords ==
  {[files |-> {fsn, inner, zip}, faults |-> {"rename"}],
   [files |-> {fsn, ct}, faults |-> {"rename", "waring", "nodata", "session"}]}

ZipUnpacks == {[files |-> {inner, zip}, faults |-> {"unzip"}]}
SessionEnds == {[files |-> {fsn}, faults |-> {"session"}]}

HandlerSymmetry == Permutations(Handlers)
=============================================================================
