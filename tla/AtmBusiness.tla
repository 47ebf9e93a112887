----------------------------- MODULE AtmBusiness ------------------------------
(***************************************************************************)
(* The load of ATM and CRS files in FSNFile.  A file names one business and*)
(* holds its notes.  A handler looks for the business in BUSINESSLIST_ATM, *)
(* reads the notes into a temporary table of its session, lists the        *)
(* business, copies the notes into MONEYDATA_ATM and commits.  BUSINESS-   *)
(* LIST_ATM has no unique key but its id, and DDL on the temporary table   *)
(* commits whatever is pending.  Handlers have different files, by         *)
(* ClaimedOnce of IngestDir, but two files may name the same business.     *)
(***************************************************************************)
EXTENDS Integers, FiniteSets

CONSTANTS Files,      (* names in the insert directory                      *)
          Business,   (* Business[f]: the key in the name of f              *)
          Empty,      (* files without a note that the database accepts     *)
          Batches,    (* bound: the files that come to one directory        *)
          Handlers,
          Faults,     (* what may go wrong                                  *)
          MaxKills,   (* bound: kills of the process                        *)
          MaxNotes,   (* bound: notes[f] counts no further                  *)
          None

FaultKinds == {"space",    (* ORA-1688                                      *)
               "number",   (* a note without a serial number                *)
               "session",  (* the connection breaks                         *)
               "rename",   (* a rename fails                                *)
               "residue"}  (* a field is shorter than what lay in its place *)

Keys == {Business[f] : f \in Files} \cup Files

ASSUME AtmAssumption ==
  /\ \A f \in Files : Business[f] \notin Files
  /\ Empty \subseteq Files /\ Batches \subseteq SUBSET Files
  /\ Faults \subseteq FaultKinds
  /\ MaxKills \in Nat /\ MaxNotes \in Nat \ {0}
  /\ None \notin Keys

VARIABLES
  place,              (* of a file: "in", "claimed", "handled", "errored",  *)
                      (* or "none": it never comes                          *)
  listed,             (* rows of a key committed in BUSINESSLIST_ATM        *)
  notes,              (* copies of a file's notes committed in MONEYDATA_ATM*)
  tmp,                (* files whose notes are in a session's own table     *)
  tx,                 (* what a session has not committed: its row in the   *)
                      (* list, rows it has deleted there, files copied      *)
  session,            (* "ok", "broken": nobody noticed yet, or "lost"      *)
  pc, file, key, iRet,
  kills

dbVars == <<listed, notes, tmp, tx, session>>
vars   == <<place, dbVars, pc, file, key, iRet, kills>>

Fault(k) == k \in Faults

NoTx == [row |-> 0, gone |-> 0, copied |-> {}]

Init ==
  /\ \E B \in Batches : place = [f \in Files |-> IF f \in B THEN "in" ELSE "none"]
  /\ listed = [k \in Keys |-> 0]
  /\ notes = [f \in Files |-> 0]
  /\ tmp = [h \in Handlers |-> {}]
  /\ tx = [h \in Handlers |-> NoTx]
  /\ session = [h \in Handlers |-> "ok"]
  /\ pc = [h \in Handlers |-> "idle"]
  /\ file = [h \in Handlers |-> None]
  /\ key = [h \in Handlers |-> None]
  /\ iRet = [h \in Handlers |-> "SUCESS"]
  /\ kills = 0

-----------------------------------------------------------------------------
(* The database.  A session that breaks takes its transaction and its      *)
(* temporary rows with it.                                                 *)
SessionBreaks(h) ==
  /\ Fault("session") /\ session[h] = "ok"
  /\ session' = [session EXCEPT ![h] = "broken"]
  /\ tmp' = [tmp EXCEPT ![h] = {}]
  /\ tx' = [tx EXCEPT ![h] = NoTx]
  /\ UNCHANGED <<place, listed, notes, pc, file, key, iRet, kills>>

\* Slip: a lost connection is worth another try.
JudgeRetriesLoss(code) ==
  IF code \in {3113, 3114, 1688, 12514} THEN "WARING"
  ELSE IF code \in {0, 1405} THEN "SUCESS" ELSE IF code = 1403 THEN "NODATA" ELSE "ERROR"

JudgeSqlExecResultLocal(code) ==
  CASE code \in {3114, 1688, 12514} -> "WARING"
    [] code \in {0, 1405}           -> "SUCESS"
    [] code = 1403                  -> "NODATA"
    [] OTHER                        -> "ERROR"

(* The codes of a statement that would answer one of well, and what the    *)
(* session is after it.                                                    *)
Codes(h, well) == CASE session[h] = "ok"     -> well
                    [] session[h] = "broken" -> {3113}
                    [] session[h] = "lost"   -> {3114}
Notice(h) == session' = [session EXCEPT ![h] = IF @ = "ok" THEN "ok" ELSE "lost"]

At(h, place_) == pc[h] = place_
Goto(h, to)   == pc' = [pc EXCEPT ![h] = to]
Result(h, r)  == iRet' = [iRet EXCEPT ![h] = r]
Space         == IF Fault("space") THEN {1688} ELSE {}
Capped(n)     == IF n < MaxNotes THEN n ELSE MaxNotes

(* What a commit, asked for or implied by DDL, does to the tables.         *)
Publish(h) ==
  /\ listed' = IF key[h] = None THEN listed
               ELSE [listed EXCEPT ![key[h]] = Capped(@ - tx[h].gone + tx[h].row)]
  /\ notes' = [f \in Files |-> IF f \in tx[h].copied THEN Capped(notes[f] + 1) ELSE notes[f]]
  /\ tx' = [tx EXCEPT ![h] = NoTx]

Visible(h) == listed[key[h]] - tx[h].gone + tx[h].row

-----------------------------------------------------------------------------
(* The head of FSNFile.                                                    *)
Take(h, f) ==
  /\ At(h, "idle") /\ place[f] = "in"
  /\ place' = [place EXCEPT ![f] = "claimed"]
  /\ file' = [file EXCEPT ![h] = f]
  /\ Goto(h, "create")
  /\ UNCHANGED <<dbVars, key, iRet, kills>>

(* Look for the temporary table of this thread, and create it if the answer*)
(* is ORA-942; every other answer, a lost connection too, will do.         *)
CreateTemp(h) ==
  /\ At(h, "create")
  /\ \/ Goto(h, "name") /\ UNCHANGED iRet
     \/ session[h] = "ok" /\ Fault("space") /\ Goto(h, "check") /\ Result(h, "WARING")
  /\ Notice(h)
  /\ UNCHANGED <<place, listed, notes, tmp, tx, file, key, kills>>

(* The terminal of the name is found only over a connection.               *)
GetMessageFromPerInfo(h) == session[h] = "ok"

(* Whatever is wrong with the name, its terminal or the connection is an   *)
(* ERROR.  business is a local variable that is not cleared, and the fields*)
(* are copied into it without a terminating zero.                          *)
ReadAtmFileName(h) ==
  LET f == file[h]
  IN  /\ At(h, "name") /\ Notice(h)
      /\ \/ /\ GetMessageFromPerInfo(h)
            /\ Goto(h, "dup") /\ UNCHANGED iRet
            /\ \/ key' = [key EXCEPT ![h] = Business[f]]
               \/ Fault("residue") /\ key' = [key EXCEPT ![h] = f]
         \/ Goto(h, "move2") /\ Result(h, "ERROR") /\ UNCHANGED key
      /\ UNCHANGED <<place, listed, notes, tmp, tx, file, kills>>

(* DBS_SELECT1.  If the statement fails, the count is not initialised.     *)
CheckDuplicate(h) ==
  /\ At(h, "dup") /\ Notice(h)
  /\ \/ /\ session[h] = "ok" => Visible(h) = 0
        /\ Goto(h, "load") /\ UNCHANGED iRet
     \/ /\ session[h] = "ok" => Visible(h) >= 1
        /\ Goto(h, "move2") /\ Result(h, "ERROR")
  /\ UNCHANGED <<place, listed, notes, tmp, tx, file, key, kills>>

InsertTemp(h) ==
  tmp' = [tmp EXCEPT ![h] = IF file[h] \in Empty THEN @ ELSE @ \cup {file[h]}]

(* WriteToSnoTable into the temporary table, whose rows live until they are*)
(* truncated or the session ends: a file that cannot be read, a full table-*)
(* space (rolled back), a note without a number (not rolled back), or the  *)
(* notes and a commit, in which the connection may break.                  *)
LoadTemp(h) ==
  LET Ends(r, s) == /\ Result(h, r) /\ session' = [session EXCEPT ![h] = s]
                    /\ Goto(h, IF r = "SUCESS" THEN "insert" ELSE "truncate")
  IN  /\ At(h, "load")
      /\ \/ Ends("ERROR", session[h]) /\ UNCHANGED tmp
         \/ session[h] = "ok" /\ Ends("SUCESS", "ok") /\ InsertTemp(h)
         \/ session[h] = "ok" /\ Fault("space") /\ Ends("WARING", "ok") /\ UNCHANGED tmp
         \/ session[h] = "ok" /\ Fault("number") /\ Ends("WARING", "ok") /\ InsertTemp(h)
         \/ /\ session[h] = "ok" /\ Fault("session") /\ Ends("ERROR", "lost")
            /\ tmp' = [tmp EXCEPT ![h] = {}]
         \/ session[h] # "ok" /\ Ends("WARING", "lost") /\ UNCHANGED tmp
         \/ session[h] = "broken" /\ Ends("ERROR", "lost") /\ UNCHANGED tmp
      /\ UNCHANGED <<place, listed, notes, tx, file, key, kills>>

-----------------------------------------------------------------------------
(* The loop that is left at the first thing that goes wrong.               *)
Statement(h, here, well, next) ==
  /\ At(h, here)
  /\ \E code \in Codes(h, well) :
       /\ Result(h, JudgeSqlExecResultLocal(code))
       /\ tx' = [tx EXCEPT ![h] = IF code = 0 THEN next.tx ELSE @]
       /\ Goto(h, IF code = 0 THEN next.pc ELSE next.else)
  /\ Notice(h)
  /\ UNCHANGED <<place, listed, notes, tmp, file, key, kills>>

InsertBusiness(h) ==
  Statement(h, "insert", {0} \cup Space,
            [tx |-> [tx[h] EXCEPT !.row = 1], pc |-> "select", else |-> "truncate"])

(* DBS_SEL_ONE_ROW: ORA-2112 if there is more than one row.  The id goes   *)
(* into a copy of business, and never comes back.                          *)
SelectBusiness(h) ==
  Statement(h, "select", {IF Visible(h) > 1 THEN 2112 ELSE 0},
            [tx |-> tx[h], pc |-> "copy", else |-> "truncate"])

(* INSERT ... SELECT, ORA-1403 without a row to copy.  The id in it was    *)
(* never set: what it holds may make the statement fail.                   *)
FromTmpToAtm(h) ==
  Statement(h, "copy", {IF tmp[h] = {} THEN 1403 ELSE 0, 12899} \cup Space,
            [tx |-> [tx[h] EXCEPT !.copied = tmp[h]], pc |-> "commit", else |-> "delete"])

DbsCommit(h) ==
  /\ At(h, "commit") /\ Goto(h, "truncate")
  /\ \/ /\ session[h] = "ok" /\ Publish(h)
        /\ Result(h, "SUCESS") /\ UNCHANGED <<session, tmp>>
     \/ /\ session[h] = "ok" /\ Fault("session")
        /\ Publish(h) \/ (UNCHANGED <<listed, notes>> /\ tx' = [tx EXCEPT ![h] = NoTx])
        /\ Result(h, JudgeSqlExecResultLocal(3113))
        /\ session' = [session EXCEPT ![h] = "lost"]
        /\ tmp' = [tmp EXCEPT ![h] = {}]
     \/ /\ session[h] # "ok"
        /\ \E code \in Codes(h, {}) : Result(h, JudgeSqlExecResultLocal(code))
        /\ Notice(h) /\ UNCHANGED <<listed, notes, tx, tmp>>
  /\ UNCHANGED <<place, file, key, kills>>

\* Slip: the business is not taken off the list again.
DeleteNothing(h) ==
  /\ At(h, "delete") /\ Goto(h, "commit2") /\ Notice(h)
  /\ UNCHANGED <<place, listed, notes, tmp, tx, file, key, iRet, kills>>

(* DBS_DELETE goes by the key: it takes every visible row of the business, *)
(* and waits for another session that has deleted them.                    *)
DeleteBusiness(h) ==
  /\ At(h, "delete") /\ Goto(h, "commit2") /\ Notice(h)
  /\ \A g \in Handlers \ {h} : key[g] = key[h] => tx[g].gone = 0
  /\ tx' = [tx EXCEPT ![h] = IF session[h] = "ok"
                             THEN [NoTx EXCEPT !.gone = listed[key[h]]] ELSE @]
  /\ UNCHANGED <<place, listed, notes, tmp, file, key, iRet, kills>>

(* The result of this commit is dropped.                                   *)
CommitDelete(h) ==
  /\ At(h, "commit2") /\ Goto(h, "truncate") /\ Notice(h)
  /\ IF session[h] = "ok" THEN Publish(h) ELSE UNCHANGED <<listed, notes, tx>>
  /\ UNCHANGED <<place, tmp, file, key, iRet, kills>>

\* Slip: the table is emptied only after a load that succeeded.
TruncateLoaded(h) ==
  /\ At(h, "truncate") /\ Notice(h)
  /\ Goto(h, IF iRet[h] = "WARING" THEN "check" ELSE "move")
  /\ IF session[h] = "ok" /\ iRet[h] = "SUCESS"
     THEN Publish(h) /\ tmp' = [tmp EXCEPT ![h] = {}]
     ELSE UNCHANGED <<listed, notes, tx, tmp>>
  /\ UNCHANGED <<place, file, key, iRet, kills>>

(* DDL: commits first.                                                     *)
TruncateTemp(h) ==
  /\ At(h, "truncate") /\ Notice(h)
  /\ Goto(h, IF iRet[h] = "WARING" THEN "check" ELSE "move")
  /\ IF session[h] = "ok"
     THEN Publish(h) /\ tmp' = [tmp EXCEPT ![h] = {}]
     ELSE UNCHANGED <<listed, notes, tx, tmp>>
  /\ UNCHANGED <<place, file, key, iRet, kills>>

-----------------------------------------------------------------------------
\* Slip: a file without notes is moved like a loaded one.
MoveAnyway(h) ==
  /\ pc[h] \in {"move", "move2"} /\ Goto(h, "check")
  /\ place' = [place EXCEPT ![file[h]] = IF iRet[h] = "ERROR" THEN "errored" ELSE "handled"]
  /\ UNCHANGED <<dbVars, file, key, iRet, kills>>

(* MoveFSNFile has no case for NODATA: its rename is to "/", and fails.  A *)
(* move from the head of FSNFile is not tried again.                       *)
MoveFSNFile(h) ==
  /\ pc[h] \in {"move", "move2"}
  /\ \/ /\ iRet[h] # "NODATA" /\ Goto(h, "check")
        /\ place' = [place EXCEPT ![file[h]] =
                       IF iRet[h] = "SUCESS" THEN "handled" ELSE "errored"]
     \/ /\ iRet[h] = "NODATA" \/ Fault("rename")
        /\ Goto(h, IF pc[h] = "move" THEN "move2" ELSE "check")
        /\ UNCHANGED place
  /\ UNCHANGED <<dbVars, file, key, iRet, kills>>

\* Slip: a file that is not given back stays in the thread's hands.
CheckKeepsFile(h) ==
  /\ At(h, "check")
  /\ \/ /\ iRet[h] = "WARING" /\ Goto(h, "test")
        /\ place' = [place EXCEPT ![file[h]] = "in"]
        /\ file' = [file EXCEPT ![h] = None]
     \/ iRet[h] # "WARING" /\ Goto(h, "idle") /\ UNCHANGED <<place, file>>
  /\ key' = [key EXCEPT ![h] = None]
  /\ Result(h, "SUCESS")
  /\ UNCHANGED <<dbVars, kills>>

CheckResult(h) ==
  /\ At(h, "check")
  /\ \/ /\ iRet[h] = "WARING" /\ Goto(h, "test")
        /\ \/ place' = [place EXCEPT ![file[h]] = "in"]                \* StopFile
           \/ Fault("rename") /\ UNCHANGED place
     \/ iRet[h] # "WARING" /\ Goto(h, "idle") /\ UNCHANGED place
  /\ file' = [file EXCEPT ![h] = None]
  /\ key' = [key EXCEPT ![h] = None]
  /\ Result(h, "SUCESS")
  /\ UNCHANGED <<dbVars, kills>>

(* TestConnectionDB, and a new connection if it returns ERROR.             *)
TestConnectionDB(h) ==
  /\ At(h, "test") /\ Goto(h, "idle")
  /\ \E code \in Codes(h, {0}) :
       IF JudgeSqlExecResultLocal(code) = "ERROR"
       THEN session' = [session EXCEPT ![h] = "ok"] ELSE Notice(h)
  /\ UNCHANGED <<place, listed, notes, tmp, tx, file, key, iRet, kills>>

(* A kill and the next start: CoverFiles gives back every claimed file.    *)
KillAndRestart ==
  /\ kills < MaxKills
  /\ kills' = kills + 1
  /\ place' = [f \in Files |-> IF place[f] = "claimed" THEN "in" ELSE place[f]]
  /\ tmp' = [h \in Handlers |-> {}]
  /\ tx' = [h \in Handlers |-> NoTx]
  /\ session' = [h \in Handlers |-> "ok"]
  /\ pc' = [h \in Handlers |-> "idle"]
  /\ file' = [h \in Handlers |-> None]
  /\ key' = [h \in Handlers |-> None]
  /\ iRet' = [h \in Handlers |-> "SUCESS"]
  /\ UNCHANGED <<listed, notes>>

Handler(h) ==
  \/ (\E f \in Files : Take(h, f)) \/ CreateTemp(h) \/ ReadAtmFileName(h)
  \/ CheckDuplicate(h) \/ LoadTemp(h) \/ InsertBusiness(h) \/ SelectBusiness(h)
  \/ FromTmpToAtm(h) \/ DbsCommit(h) \/ DeleteBusiness(h) \/ CommitDelete(h)
  \/ TruncateTemp(h) \/ MoveFSNFile(h) \/ CheckResult(h) \/ TestConnectionDB(h)

Next == KillAndRestart \/ \E h \in Handlers : SessionBreaks(h) \/ Handler(h)

Spec == Init /\ [][Next]_vars

-----------------------------------------------------------------------------
(* Type invariant.                                                         *)
TypeOK ==
  /\ place \in [Files -> {"in", "claimed", "handled", "errored", "none"}]
  /\ listed \in [Keys -> 0 .. MaxNotes] /\ notes \in [Files -> 0 .. MaxNotes]
  /\ tmp \in [Handlers -> SUBSET Files]
  /\ tx \in [Handlers -> [row : {0, 1}, gone : 0 .. MaxNotes, copied : SUBSET Files]]
  /\ session \in [Handlers -> {"ok", "broken", "lost"}]
  /\ pc \in [Handlers -> {"idle", "create", "name", "dup", "load", "insert", "select", "copy",
                          "commit", "delete", "commit2", "truncate", "move", "move2",
                          "check", "test"}]
  /\ file \in [Handlers -> Files \cup {None}]
  /\ \A h \in Handlers : pc[h] \in {"idle", "test"} <=> file[h] = None
  /\ key \in [Handlers -> Keys \cup {None}]
  /\ iRet \in [Handlers -> {"SUCESS", "WARING", "ERROR", "NODATA"}]
  /\ kills \in 0 .. MaxKills

(* The temporary table outlives commit, rollback and the file, and what is *)
(* in it is copied under the business of the next: it never holds notes of *)
(* another file.                                                           *)
TempIsOwn == \A h \in Handlers : tmp[h] \subseteq {file[h]}

(* The notes of a file are in the database once, and at most once more for *)
(* each kill, though the check for duplicates goes by a key that may not be*)
(* the file's own, and loads are retried.                                  *)
NotesOnce == \A f \in Files : notes[f] <= 1 + kills

(* A file in the handled directory has its notes in the database.          *)
HandledStored == \A f \in Files : place[f] = "handled" => notes[f] > 0

Alone(f) == \A g \in Files \ {f} : Business[g] # Business[f]

(* The business of a file that has it to itself is on the list exactly as  *)
(* often as its notes are stored, although the DDL that follows a failure  *)
(* commits whatever was done before it.                                    *)
ListedWithNotes ==
  \A f \in Files : Alone(f) => listed[Business[f]] + listed[f] = notes[f]

(* Of the files that name one business, one is loaded: the others are      *)
(* duplicates.                                                             *)
NoDuplicates ==
  \A f, g \in Files :
    f # g /\ Business[f] = Business[g] => notes[f] = 0 \/ notes[g] = 0
=============================================================================
