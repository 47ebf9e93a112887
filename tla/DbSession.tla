----------------------------- MODULE DbSession ------------------------------
(***************************************************************************)
(* One handler thread and its Oracle session, row by row: FSNFile, BFFile, *)
(* BKFile, DKFile and SKFile open a file, insert its rows into one         *)
(* transaction, roll back or commit, and move the file; CheckResult gives  *)
(* it back after a WARING and looks at the connection.  Rows that are      *)
(* neither rolled back nor committed stay in the session, and go into the  *)
(* database with the next file the thread commits.  The other handlers     *)
(* have sessions of their own and, by ClaimedOnce of IngestDir, other files*)
(***************************************************************************)
EXTENDS Integers, Sequences, FiniteSets

CONSTANTS Files,      (* names in the insert directory                      *)
          Kind,       (* Kind[f]: "FSN", "BF", "BK", "DK" or "SK"           *)
          Rows,       (* Rows[f]: the records of f, each by its row kind    *)
          Rejected,   (* <<f, i>>: the database refuses row i of f          *)
          Faults,     (* what the environment may do wrong                  *)
          QUE_SIZE,   (* slots of the queue BFFile and SKFile read into     *)
          Budgets,    (* bound: the loads each file may have, [Files -> Nat]*)
          MaxKills,   (* bound: kills of the process                        *)
          None

RowKinds == [FSN |-> {"note", "doubtful", "nomon"},   (* nomon: no number   *)
             BF  |-> {"bundle", "monbox"},
             BK  |-> {"package"}, DK |-> {"bag"}, SK |-> {"account"}]

FaultKinds == {"read",        (* a file cannot be opened, read or parsed    *)
               "tablespace",  (* ORA-1688 from an insert of a row           *)
               "doubtspace",  (* ORA-1688 from the insert of a doubtful note*)
               "session",     (* the connection breaks                      *)
               "rename"}      (* a rename fails                             *)

ASSUME SessionAssumption ==
  /\ Kind \in [Files -> DOMAIN RowKinds]
  /\ \A f \in Files : Rows[f] \in Seq(RowKinds[Kind[f]])
  /\ Faults \subseteq FaultKinds
  /\ QUE_SIZE \in Nat /\ Budgets \subseteq [Files -> Nat] /\ MaxKills \in Nat
  /\ None \notin Files

Entries == UNION {{f} \X (DOMAIN Rows[f]) \X {"data", "doubt"} : f \in Files}

VARIABLES
  place,             (* of a file: "in", "claimed", "handled", "errored"    *)
  stored,            (* of an entry: how often it is committed              *)
  pending,           (* ... and how often it is inserted but not committed  *)
  session,           (* "ok", "broken": nobody noticed yet, or "lost"       *)
  pc, file, row, iRet,
  budget,            (* of a file: loads left                               *)
  kills              (* of the process                                      *)

dbVars == <<stored, pending, session>>
vars   == <<place, dbVars, pc, file, row, iRet, budget, kills>>

Fault(k) == k \in Faults

Init ==
  /\ place = [f \in Files |-> "in"]
  /\ stored = [e \in Entries |-> 0]
  /\ pending = [e \in Entries |-> 0]
  /\ session = "ok"
  /\ pc = "idle" /\ file = None /\ row = 0 /\ iRet = "SUCESS"
  /\ budget \in Budgets
  /\ kills = 0

-----------------------------------------------------------------------------
(* The database.  The server drops the transaction of a connection that    *)
(* breaks.                                                                 *)
SessionBreaks ==
  /\ Fault("session") /\ session = "ok"
  /\ session' = "broken"
  /\ pending' = [e \in Entries |-> 0]
  /\ UNCHANGED <<place, stored, pc, file, row, iRet, budget, kills>>

\* Slip: what is not known is well.
JudgeTrusts(code) ==
  IF code \in {3114, 1688, 12514} THEN "WARING" ELSE IF code = 1403 THEN "NODATA" ELSE "SUCESS"

JudgeSqlExecResultLocal(code) ==
  CASE code \in {3114, 1688, 12514} -> "WARING"
    [] code \in {0, 1405}           -> "SUCESS"
    [] code = 1403                  -> "NODATA"
    [] OTHER                        -> "ERROR"

(* ORA-3113 once, from the first statement after the break, then ORA-3114. *)
Codes(well) == CASE session = "ok"     -> well
                 [] session = "broken" -> {3113}
                 [] session = "lost"   -> {3114}
Notice      == session' = IF session = "ok" THEN "ok" ELSE "lost"

(* One INSERT; ORA-1 stands for every code of a row the database refuses.  *)
Insert(e, refused, full) ==
  \E code \in Codes((IF refused THEN {1} ELSE {0}) \cup (IF full THEN {1688} ELSE {})) :
    /\ iRet' = JudgeSqlExecResultLocal(code)
    /\ pending' = IF code = 0 THEN [pending EXCEPT ![e] = @ + 1] ELSE pending
    /\ Notice /\ UNCHANGED stored

-----------------------------------------------------------------------------
(* Opening a file.  ERROR is a file that is missing or malformed, WARING a *)
(* read or a malloc that failed; either way no row has been inserted.      *)
Take(f) ==
  /\ pc = "idle" /\ place[f] = "in" /\ budget[f] > 0
  /\ place' = [place EXCEPT ![f] = "claimed"]
  /\ budget' = [budget EXCEPT ![f] = @ - 1]
  /\ file' = f
  /\ pc' = "open"
  /\ UNCHANGED <<dbVars, row, iRet, kills>>

Open(kind, failures) ==
  /\ pc = "open" /\ Kind[file] = kind
  /\ \/ /\ pc' = "rows" /\ row' = 1
        /\ UNCHANGED iRet
     \/ /\ Fault("read")
        /\ \E r \in failures :
             iRet' = r /\ pc' = IF r = "WARING" THEN "check" ELSE "move"
        /\ UNCHANGED row
  /\ UNCHANGED <<place, dbVars, file, budget, kills>>

WriteToSnoTable == Open("FSN", {"ERROR", "WARING"})

(* ReadBFFile and ReadSkContents push the whole file into a local queue    *)
(* first; with a row more than it holds, push_cir_queue never returns.     *)
ReadBFFile     == Open("BF", {"ERROR", "WARING"}) /\ Len(Rows[file]) < QUE_SIZE
ReadSkContents == Open("SK", {"ERROR", "WARING"}) /\ Len(Rows[file]) < QUE_SIZE
ReadBkContents == Open("BK", {"ERROR"})
ReadDkContents == Open("DK", {"ERROR"})

-----------------------------------------------------------------------------
(* The loop over the rows.                                                 *)
AtRow(what) ==
  /\ pc = "rows" /\ row \in DOMAIN Rows[file] /\ Rows[file][row] \in what

InsertRow(what, next) ==
  /\ AtRow(what)
  /\ Insert(<<file, row, "data">>, <<file, row>> \in Rejected, Fault("tablespace"))
  /\ pc' = next
  /\ UNCHANGED <<place, file, row, budget, kills>>

InsertNote == InsertRow({"note"}, "judge")
InsertDoubtful == InsertRow({"doubtful"}, "doubt")

\* Slip: the black list is looked up only for the first note of a file.
CheckFirstMon ==
  /\ pc = "doubt" /\ pc' = "judge"
  /\ pending' = IF row = 1 /\ session = "ok" THEN [pending EXCEPT ![<<file, row, "doubt">>] = @ + 1]
                ELSE pending
  /\ UNCHANGED <<place, stored, session, file, row, iRet, budget, kills>>

(* A note on the black list goes into a second table, whatever became of   *)
(* its own insert; the result of this one is dropped.                      *)
CheckDoubtMon ==
  LET e == <<file, row, "doubt">>
  IN  /\ pc = "doubt" /\ pc' = "judge"
      /\ \E code \in Codes({0} \cup (IF Fault("doubtspace") THEN {1688} ELSE {})) :
           pending' = IF code = 0 THEN [pending EXCEPT ![e] = @ + 1] ELSE pending
      /\ Notice
      /\ UNCHANGED <<place, stored, file, row, iRet, budget, kills>>

(* A note without a number, when images are saved: return WARING at once.  *)
NoteWithoutNumber ==
  /\ AtRow({"nomon"})
  /\ iRet' = "WARING"
  /\ pc' = "check"
  /\ UNCHANGED <<place, dbVars, file, row, budget, kills>>

InsertBundle  == InsertRow({"bundle"}, "judge")
InsertMonbox  == InsertRow({"monbox"}, "judge")
InsertPackage == InsertRow({"package"}, "judge")
InsertBag     == InsertRow({"bag"}, "judge")
InsertAccount == InsertRow({"account"}, "judge")

RolledBack == {"note", "doubtful", "bundle", "account"}

\* Slip: a WARING is counted like an ERROR and the loop goes on.
GoOn ==
  /\ pc = "judge" /\ pc' = "rows"
  /\ row' = row + 1
  /\ UNCHANGED <<place, dbVars, file, iRet, budget, kills>>

(* Only a WARING stops the loop: a refused row is skipped.  Whether what   *)
(* was inserted so far is rolled back depends on the kind of row.          *)
JudgeRow ==
  /\ pc = "judge"
  /\ IF iRet = "WARING"
     THEN /\ pc' = IF Rows[file][row] \in RolledBack THEN "rollback" ELSE "check"
          /\ UNCHANGED row
     ELSE pc' = "rows" /\ row' = row + 1
  /\ UNCHANGED <<place, dbVars, file, iRet, budget, kills>>

\* Slip: the rollback is forgotten.
ReturnWaring ==
  /\ pc = "rollback" /\ pc' = "check"
  /\ UNCHANGED <<place, dbVars, file, row, iRet, budget, kills>>

DbsRollback ==
  /\ pc = "rollback" /\ pc' = "check"
  /\ pending' = [e \in Entries |-> 0]
  /\ Notice
  /\ UNCHANGED <<place, stored, file, row, iRet, budget, kills>>

(* The connection may also break in the commit, which then answers ORA-3113*)
(* whether the server had finished it or not.                              *)
StorePending == stored' = [e \in Entries |-> stored[e] + pending[e]]

DbsCommit ==
  /\ pc = "rows" /\ row > Len(Rows[file])
  /\ \/ \E code \in Codes({0}) :
          /\ iRet' = JudgeSqlExecResultLocal(code)
          /\ StorePending
          /\ Notice
     \/ /\ Fault("session") /\ session = "ok"
        /\ iRet' = JudgeSqlExecResultLocal(3113)
        /\ StorePending \/ UNCHANGED stored
        /\ session' = "lost"
  /\ pending' = [e \in Entries |-> 0]
  /\ pc' = IF iRet' = "WARING" THEN "check" ELSE "move"
  /\ UNCHANGED <<place, file, row, budget, kills>>

-----------------------------------------------------------------------------
(* MoveFSNFile, MoveBFFile, MoveDKFile, MoveSKFile: tried again once.      *)
MoveFile ==
  /\ pc \in {"move", "move2"}
  /\ \/ /\ place' = [place EXCEPT ![file] = IF iRet = "SUCESS" THEN "handled" ELSE "errored"]
        /\ pc' = "check"
     \/ /\ Fault("rename")
        /\ pc' = IF pc = "move" THEN "move2" ELSE "check"
        /\ UNCHANGED place
  /\ UNCHANGED <<dbVars, file, row, iRet, budget, kills>>

\* Slip: a file that cannot be given back is kept for another try.
CheckKeepsFile ==
  /\ pc = "check"
  /\ IF iRet = "WARING"
     THEN /\ pc' = "test"
          /\ \/ place' = [place EXCEPT ![file] = "in"] /\ file' = None
             \/ Fault("rename") /\ UNCHANGED <<place, file>>
     ELSE pc' = "idle" /\ file' = None /\ UNCHANGED place
  /\ row' = 0 /\ iRet' = "SUCESS"
  /\ UNCHANGED <<dbVars, budget, kills>>

CheckResult ==
  /\ pc = "check"
  /\ IF iRet = "WARING"
     THEN /\ pc' = "test"
          /\ \/ place' = [place EXCEPT ![file] = "in"]                 \* StopFile
             \/ Fault("rename") /\ UNCHANGED place
     ELSE pc' = "idle" /\ UNCHANGED place
  /\ file' = None /\ row' = 0 /\ iRet' = "SUCESS"
  /\ UNCHANGED <<dbVars, budget, kills>>

(* TestConnectionDB; only its ERROR leads to DisconnectDB, which has no    *)
(* transaction left to commit, and a new connection.                       *)
TestConnectionDB ==
  /\ pc = "test" /\ pc' = "idle"
  /\ \E code \in Codes({0}) :
       IF JudgeSqlExecResultLocal(code) = "ERROR" THEN session' = "ok" ELSE Notice
  /\ UNCHANGED <<place, stored, pending, file, row, iRet, budget, kills>>

(* A kill and the next start: CoverFiles gives back every claimed file.    *)
KillAndRestart ==
  /\ kills < MaxKills
  /\ kills' = kills + 1
  /\ place' = [f \in Files |-> IF place[f] = "claimed" THEN "in" ELSE place[f]]
  /\ pending' = [e \in Entries |-> 0]
  /\ session' = "ok"
  /\ pc' = "idle" /\ file' = None /\ row' = 0 /\ iRet' = "SUCESS"
  /\ UNCHANGED <<stored, budget>>

Next ==
  \/ \E f \in Files : Take(f)
  \/ WriteToSnoTable \/ ReadBFFile \/ ReadSkContents \/ ReadBkContents \/ ReadDkContents
  \/ InsertNote \/ InsertDoubtful \/ CheckDoubtMon \/ NoteWithoutNumber
  \/ InsertBundle \/ InsertMonbox \/ InsertPackage \/ InsertBag \/ InsertAccount
  \/ JudgeRow \/ DbsRollback \/ DbsCommit \/ MoveFile \/ CheckResult \/ TestConnectionDB
  \/ SessionBreaks \/ KillAndRestart

Spec == Init /\ [][Next]_vars

-----------------------------------------------------------------------------
(* Type invariant.                                                         *)
TypeOK ==
  /\ place \in [Files -> {"in", "claimed", "handled", "errored"}]
  /\ stored \in [Entries -> Nat] /\ pending \in [Entries -> Nat]
  /\ session \in {"ok", "broken", "lost"}
  /\ pc \in {"idle", "open", "rows", "doubt", "judge", "rollback", "move", "move2",
             "check", "test"}
  /\ file \in Files \cup {None}
  /\ pc \in {"idle", "test"} <=> file = None
  /\ row \in Nat
  /\ iRet \in {"SUCESS", "WARING", "ERROR"}
  /\ budget \in [Files -> Nat]
  /\ kills \in 0 .. MaxKills

Accepted(f) == {e \in Entries : e[1] = f /\ e[3] = "data" /\ <<f, e[2]>> \notin Rejected}

(* Files all of whose rows are rolled back when a WARING stops the load.   *)
Transactional == {f \in Files : \A i \in DOMAIN Rows[f] : Rows[f][i] \in RolledBack}

(* A file of any kind reaches the handled directory only when every row the*)
(* database accepts is committed, though an insert that fails because the  *)
(* connection broke is skipped like a refused row.                         *)
HandledComplete ==
  \A f \in Files : place[f] = "handled" => \A e \in Accepted(f) : stored[e] > 0

(* When the thread turns to its next file, its session holds rows of no    *)
(* file but the kinds whose loads end in WARING without a rollback.        *)
NothingLeftPending ==
  pc = "idle" => \A e \in Entries : pending[e] > 0 => e[1] \notin Transactional

(* The rows of a transactional file are committed once, and at most once   *)
(* more for each kill, though the thread's session also carries files that *)
(* are not rolled back, and loads are retried and renames fail.            *)
RowsOnce == \A f \in Transactional : \A e \in Accepted(f) : stored[e] <= 1 + kills

(* A note on the black list is in the database only with its entry in the  *)
(* table of doubtful notes.                                                *)
DoubtNoted ==
  \A f \in Files : \A i \in DOMAIN Rows[f] :
    Rows[f][i] = "doubtful" => stored[<<f, i, "data">>] <= stored[<<f, i, "doubt">>]

AcceptedRows == UNION {Accepted(f) : f \in Transactional}

Abstract == INSTANCE AtomicLoad
              WITH Files <- Transactional,
                   RowsOf <- [f \in Transactional |-> Accepted(f)],
                   place <- [f \in Transactional |-> place[f]],
                   table <- [e \in AcceptedRows |-> stored[e]]

(* What the load of a transactional file does to the directories and the   *)
(* tables is AtomicLoad: all its rows at once, while it is claimed.        *)
LoadsAtomically == Abstract!AtomicSpec
=============================================================================
