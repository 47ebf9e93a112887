-------------------------- MODULE DbSessionProofs --------------------------
(***************************************************************************)
(* For any files, rows, refused rows, loads and kills: what is committed,  *)
(* what a session still holds, and that the loads of transactional files   *)
(* implement AtomicLoad.                                                   *)
(***************************************************************************)
EXTENDS DbSession, TLAPS

Loading  == {"rows", "doubt", "judge", "rollback"}
DataOf(f) == {e \in Entries : e[1] = f /\ e[3] = "data"}

(* The file in hand is claimed, until it is moved or given back; a load    *)
(* goes through its rows in turn.                                          *)
OwnClaim ==
  /\ file # None /\ (pc # "check" \/ iRet = "WARING") => place[file] = "claimed"
  /\ pc \in {"move", "move2"} => iRet # "WARING"
  /\ pc = "rollback" => iRet = "WARING"
  /\ pc = "rows" => row > 0
  /\ pc \in {"doubt", "judge"} => row \in DOMAIN Rows[file]
  /\ pc = "doubt" => Rows[file][row] = "doubtful"

(* Nothing is pending in a connection that broke.                          *)
LostIsEmpty == session # "ok" => \A e \in Entries : pending[e] = 0

(* Of transactional files, only the one being loaded has rows pending.     *)
OwnRows ==
  \A e \in Entries :
    pending[e] > 0 /\ e[1] \in Transactional => e[1] = file /\ pc \in Loading

(* Each of its rows is pending at most once, and not before its turn.      *)
PendingOnce ==
  file \in Transactional =>
    \A e \in DataOf(file) :
      /\ pc \in Loading => pending[e] <= 1
      /\ pc = "rows" /\ e[2] >= row => pending[e] = 0
      /\ pc \in {"doubt", "judge"} /\ e[2] > row => pending[e] = 0

(* A file that may be loaded again has its rows once less than it may.     *)
LoadsCounted ==
  \A f \in Transactional : \A e \in DataOf(f) :
    /\ stored[e] <= 1 + kills
    /\ place[f] = "in" => stored[e] <= kills
    /\ f = file /\ (pc \in Loading \cup {"open"} \/ iRet = "WARING") => stored[e] <= kills

(* A load that will say SUCESS has inserted, one that says it has stored,  *)
(* every row the database accepts.                                         *)
Complete ==
  file # None =>
    \A e \in Accepted(file) :
      /\ session = "ok" /\ pc = "rows" /\ e[2] < row => pending[e] > 0
      /\ session = "ok" /\ pc \in {"doubt", "judge"} /\ iRet # "WARING" /\ e[2] <= row =>
           pending[e] > 0
      /\ pc \in {"move", "move2"} /\ iRet = "SUCESS" => stored[e] > 0

Inv ==
  /\ TypeOK /\ OwnClaim /\ LostIsEmpty /\ OwnRows
  /\ PendingOnce /\ LoadsCounted /\ Complete /\ HandledComplete

-----------------------------------------------------------------------------
(* What JudgeSqlExecResultLocal makes of the codes that occur.             *)
LEMMA Judged ==
  /\ JudgeSqlExecResultLocal(0) = "SUCESS"
  /\ \A code \in {1, 3113} : JudgeSqlExecResultLocal(code) = "ERROR"
  /\ \A code \in {1688, 3114} : JudgeSqlExecResultLocal(code) = "WARING"
BY DEF JudgeSqlExecResultLocal

(* What a session answers: a broken one notices, a lost one is lost for    *)
(* good.                                                                   *)
LEMMA CodesOf ==
  ASSUME NEW well
  PROVE  /\ session = "ok" => Codes(well) = well
         /\ session = "broken" => Codes(well) = {3113}
         /\ session = "lost" => Codes(well) = {3114}
BY DEF Codes

(* Rows of a file are numbered from 1.                                     *)
LEMMA RowFacts ==
  \A f \in Files : Len(Rows[f]) \in Nat /\ DOMAIN Rows[f] = 1 .. Len(Rows[f])
BY SessionAssumption

(* An entry is a row of a file in one of the two tables.                   *)
LEMMA EntryFacts ==
  /\ \A f \in Files : \A i \in DOMAIN Rows[f] : \A k \in {"data", "doubt"} : <<f, i, k>> \in Entries
  /\ \A e \in Entries : /\ e[1] \in Files /\ e[2] \in DOMAIN Rows[e[1]] /\ e[3] \in {"data", "doubt"}
                        /\ e = <<e[1], e[2], e[3]>>
BY DEF Entries

(* Nothing is stored, pending or in hand at the start.                     *)
LEMMA InitInv == Init => Inv
<1> SUFFICES ASSUME Init PROVE Inv
  OBVIOUS
<1> USE DEF Init
<1>1. TypeOK
  BY SessionAssumption DEF TypeOK
<1>2. OwnClaim /\ LostIsEmpty /\ OwnRows
  BY DEF OwnClaim, LostIsEmpty, OwnRows
<1>3. PendingOnce /\ LoadsCounted /\ Complete /\ HandledComplete
  BY SessionAssumption DEF PendingOnce, LoadsCounted, Complete, HandledComplete, Loading,
     DataOf, Transactional
<1> QED
  BY <1>1, <1>2, <1>3 DEF Inv

(* What an INSERT answers, and what is pending then.                       *)
LEMMA InsertOutcome ==
  ASSUME session \in {"ok", "broken", "lost"},
         NEW e, NEW refused \in BOOLEAN, NEW full \in BOOLEAN, Insert(e, refused, full)
  PROVE  /\ \/ /\ session = "ok" /\ session' = "ok" /\ ~refused /\ iRet' = "SUCESS"
               /\ pending' = [pending EXCEPT ![e] = @ + 1]
            \/ session = "ok" /\ session' = "ok" /\ refused /\ iRet' = "ERROR" /\ pending' = pending
            \/ session = "ok" /\ session' = "ok" /\ iRet' = "WARING" /\ pending' = pending
            \/ session # "ok" /\ session' = "lost" /\ iRet' \in {"ERROR", "WARING"} /\ pending' = pending
         /\ stored' = stored
<1> DEFINE well == (IF refused THEN {1} ELSE {0}) \cup (IF full THEN {1688} ELSE {})
<1>1. PICK code \in Codes(well) :
        /\ iRet' = JudgeSqlExecResultLocal(code)
        /\ pending' = IF code = 0 THEN [pending EXCEPT ![e] = @ + 1] ELSE pending
        /\ session' = IF session = "ok" THEN "ok" ELSE "lost"
        /\ stored' = stored
  BY DEF Insert, Notice
<1>2. CASE session = "ok"
  <2>1. code \in well
    BY <1>2, CodesOf
  <2>2. (code = 0 /\ ~refused) \/ (code = 1 /\ refused) \/ code = 1688
    BY <2>1
  <2> QED
    BY <1>1, <1>2, <2>2, Judged
<1>3. CASE session # "ok"
  <2>1. code \in {3113, 3114}
    BY <1>3, CodesOf
  <2> QED
    BY <1>1, <1>3, <2>1, Judged
<1> QED
  BY <1>2, <1>3

(* The INSERT of a row keeps the invariant.                                *)
LEMMA InsertKeeps ==
  ASSUME Inv, NEW what, NEW next \in {"judge", "doubt"},
         next = "doubt" => what = {"doubtful"}, InsertRow(what, next)
  PROVE  Inv'
<1> DEFINE e0 == <<file, row, "data">>
           refused == <<file, row>> \in Rejected
<1>1. /\ pc = "rows" /\ pc' = next /\ row \in DOMAIN Rows[file] /\ Rows[file][row] \in what
      /\ Insert(e0, refused, Fault("tablespace"))
      /\ UNCHANGED <<place, file, row, budget, kills>>
  BY DEF InsertRow, AtRow
<1>2. TypeOK /\ OwnClaim /\ LostIsEmpty /\ OwnRows /\ PendingOnce /\ LoadsCounted /\ Complete
      /\ HandledComplete
  BY DEF Inv
<1>3. file \in Files /\ place[file] = "claimed"
  BY <1>1, <1>2 DEF TypeOK, OwnClaim
<1>4. e0 \in Entries /\ e0 \in DataOf(file) /\ row \in Nat
  BY <1>1, <1>2, <1>3, EntryFacts DEF DataOf, TypeOK
<1>5. /\ \/ /\ session = "ok" /\ session' = "ok" /\ ~refused /\ iRet' = "SUCESS"
            /\ pending' = [pending EXCEPT ![e0] = @ + 1]
         \/ session = "ok" /\ session' = "ok" /\ refused /\ iRet' = "ERROR" /\ pending' = pending
         \/ session = "ok" /\ session' = "ok" /\ iRet' = "WARING" /\ pending' = pending
         \/ session # "ok" /\ session' = "lost" /\ iRet' \in {"ERROR", "WARING"} /\ pending' = pending
      /\ stored' = stored
  <2>1. session \in {"ok", "broken", "lost"} /\ refused \in BOOLEAN /\ Fault("tablespace") \in BOOLEAN
    BY <1>2 DEF TypeOK, Fault
  <2> HIDE DEF e0, refused
  <2> QED
    BY <1>1, <2>1, InsertOutcome
<1>6. /\ \A e \in Entries : e # e0 => pending'[e] = pending[e]
      /\ pending[e0] \in Nat
      /\ pending'[e0] = IF session = "ok" /\ iRet' = "SUCESS" THEN pending[e0] + 1 ELSE pending[e0]
  BY <1>2, <1>4, <1>5 DEF TypeOK
<1>7. TypeOK'
  BY <1>1, <1>2, <1>3, <1>4, <1>5 DEF TypeOK
<1>8. OwnClaim' /\ HandledComplete'
  BY <1>1, <1>2, <1>3, <1>5 DEF OwnClaim, HandledComplete
<1>9. LostIsEmpty'
  BY <1>2, <1>5 DEF LostIsEmpty
<1>10. OwnRows'
  BY <1>1, <1>2, <1>6 DEF OwnRows, Loading
<1>11. PendingOnce'
  <2> SUFFICES ASSUME file \in Transactional, NEW e \in DataOf(file)
               PROVE  /\ pending'[e] <= 1
                      /\ e[2] > row => pending'[e] = 0
    BY <1>1 DEF PendingOnce, DataOf
  <2>1. e \in Entries /\ e[2] \in Nat /\ pending[e] \in Nat
    BY <1>2, <1>3, EntryFacts, RowFacts DEF TypeOK, DataOf
  <2>2. pending[e] <= 1 /\ (e[2] >= row => pending[e] = 0)
    BY <1>1, <1>2 DEF PendingOnce, Loading
  <2>3. e0[2] = row
    OBVIOUS
  <2> QED
    BY <1>4, <1>6, <2>1, <2>2, <2>3
<1>12. LoadsCounted'
  BY <1>1, <1>2, <1>5 DEF LoadsCounted, Loading
<1>13. Complete'
  <2> SUFFICES ASSUME NEW e \in Accepted(file), session' = "ok", iRet' # "WARING", e[2] <= row
               PROVE  pending'[e] > 0
    BY <1>1 DEF Complete
  <2>1. e \in Entries /\ e[2] \in Nat /\ e = <<file, e[2], "data">> /\ <<file, e[2]>> \notin Rejected
    BY <1>3, EntryFacts, RowFacts DEF Accepted
  <2>2. pending[e] \in Nat /\ session = "ok"
    BY <1>2, <1>5, <2>1 DEF TypeOK
  <2>3. CASE e = e0
    BY <1>5, <1>6, <2>1, <2>2, <2>3
  <2>4. CASE e # e0
    <3>1. e[2] < row
      BY <2>1, <2>4, <1>4
    <3>2. pending[e] > 0
      BY <1>1, <1>2, <1>3, <2>2, <3>1, SessionAssumption DEF Complete
    <3> QED
      BY <1>6, <2>1, <2>4, <3>2
  <2> QED
    BY <2>3, <2>4
<1> QED
  BY <1>7, <1>8, <1>9, <1>10, <1>11, <1>12, <1>13 DEF Inv

(* Where a row is at, it is a row of the file in hand.                     *)
LEMMA AtRowFacts ==
  ASSUME Inv, pc \in {"rows", "doubt", "judge", "rollback"}
  PROVE  file \in Files /\ file # None /\ place[file] = "claimed"
BY DEF Inv, TypeOK, OwnClaim

(* A load that leaves its rows behind is none of a transactional file.     *)
LEMMA NotRolledBack ==
  ASSUME NEW f \in Files, NEW i \in DOMAIN Rows[f], Rows[f][i] \notin RolledBack
  PROVE  f \notin Transactional
BY DEF Transactional

-----------------------------------------------------------------------------
(* One lemma for each other action.                                        *)
LEMMA TakeInv == ASSUME Inv, NEW f \in Files, Take(f) PROVE Inv'
<1> USE DEF Inv, Take, dbVars
<1>1. file = None /\ f # None /\ place' = [place EXCEPT ![f] = "claimed"] /\ place[f] = "in"
  BY SessionAssumption DEF TypeOK
<1>2. TypeOK'
  BY <1>1 DEF TypeOK
<1>3. OwnClaim'
  BY <1>1 DEF OwnClaim, TypeOK
<1>4. LostIsEmpty'
  BY DEF LostIsEmpty
<1>5. OwnRows'
  BY DEF OwnRows, Loading
<1>6. PendingOnce' /\ Complete'
  BY DEF PendingOnce, Complete, Loading
<1>7. LoadsCounted'
  <2>1. \A g \in Files : place'[g] = "in" => place[g] = "in"
    BY <1>1 DEF TypeOK
  <2>2. f \in Transactional => \A e \in DataOf(f) : stored[e] <= kills
    BY <1>1 DEF LoadsCounted
  <2> QED
    BY <2>1, <2>2 DEF LoadsCounted, Transactional
<1>8. HandledComplete'
  BY <1>1 DEF HandledComplete, TypeOK
<1> QED
  BY <1>2, <1>3, <1>4, <1>5, <1>6, <1>7, <1>8

(* A file that cannot be read is given up before its first row.            *)
LEMMA OpenKeeps ==
  ASSUME Inv, NEW kind, NEW failures \in SUBSET {"ERROR", "WARING"}, Open(kind, failures)
  PROVE  Inv'
<1> USE DEF Inv, Open, dbVars
<1>1. file \in Files /\ place[file] = "claimed"
  BY DEF TypeOK, OwnClaim
<1>2. TypeOK'
  BY <1>1 DEF TypeOK
<1>3. OwnClaim'
  BY <1>1 DEF OwnClaim
<1>4. LostIsEmpty' /\ HandledComplete'
  BY DEF LostIsEmpty, HandledComplete
<1>5. \A e \in Entries : e[1] \in Transactional => pending[e] = 0
  BY DEF OwnRows, Loading, TypeOK
<1>6. OwnRows' /\ PendingOnce'
  BY <1>5 DEF OwnRows, PendingOnce, DataOf
<1>7. LoadsCounted'
  BY DEF LoadsCounted, Loading
<1>8. Complete'
  <2>1. \A e \in Accepted(file) : e[2] \in Nat \ {0}
    BY <1>1, EntryFacts, RowFacts DEF Accepted
  <2> QED
    BY <2>1 DEF Complete
<1> QED
  BY <1>2, <1>3, <1>4, <1>6, <1>7, <1>8

(* The second row of a doubtful note is no data, and its result is         *)
(* dropped.                                                                *)
LEMMA CheckDoubtMonInv == ASSUME Inv, CheckDoubtMon PROVE Inv'
<1> DEFINE e0 == <<file, row, "doubt">>
<1> USE DEF Inv
<1>1. /\ pc = "doubt" /\ pc' = "judge" /\ UNCHANGED <<place, stored, file, row, iRet, budget, kills>>
      /\ session' = IF session = "ok" THEN "ok" ELSE "lost"
  BY DEF CheckDoubtMon, Notice
<1>2. file \in Files /\ place[file] = "claimed" /\ row \in DOMAIN Rows[file]
  BY <1>1, AtRowFacts DEF OwnClaim
<1>3. e0 \in Entries /\ e0[1] = file /\ \A e \in Entries : e[3] = "data" => e # e0
  BY <1>2, EntryFacts
<1>4. \/ session = "ok" /\ pending' = [pending EXCEPT ![e0] = @ + 1]
      \/ pending' = pending
  <2>1. PICK code \in Codes({0} \cup (IF Fault("doubtspace") THEN {1688} ELSE {})) :
          pending' = IF code = 0 THEN [pending EXCEPT ![e0] = @ + 1] ELSE pending
    BY DEF CheckDoubtMon
  <2>2. session # "ok" => code \in {3113, 3114}
    BY <2>1, CodesOf DEF TypeOK
  <2> QED
    BY <2>1, <2>2
<1>5. pending' \in [Entries -> Nat] /\ \A e \in Entries : e # e0 => pending'[e] = pending[e]
  BY <1>3, <1>4 DEF TypeOK
<1> HIDE DEF e0
<1>6. TypeOK'
  BY <1>1, <1>5 DEF TypeOK
<1>7. OwnClaim' /\ HandledComplete'
  BY <1>1 DEF OwnClaim, HandledComplete
<1>8. LostIsEmpty'
  BY <1>1, <1>4 DEF LostIsEmpty
<1>9. OwnRows'
  BY <1>1, <1>3, <1>5 DEF OwnRows, Loading
<1>10. PendingOnce'
  BY <1>1, <1>3, <1>5 DEF PendingOnce, DataOf, Loading
<1>11. LoadsCounted'
  BY <1>1 DEF LoadsCounted, Loading
<1>12. Complete'
  BY <1>1, <1>3, <1>5 DEF Complete, Accepted
<1> QED
  BY <1>6, <1>7, <1>8, <1>9, <1>10, <1>11, <1>12

(* A note without a number ends the load where it is.                      *)
LEMMA NoteWithoutNumberInv == ASSUME Inv, NoteWithoutNumber PROVE Inv'
<1> USE DEF Inv, NoteWithoutNumber, AtRow, dbVars
<1>1. file \in Files /\ place[file] = "claimed" /\ file \notin Transactional
  <2>1. file \in Files /\ place[file] = "claimed"
    BY AtRowFacts
  <2> QED
    BY <2>1, NotRolledBack DEF RolledBack
<1>2. TypeOK' /\ OwnClaim'
  BY <1>1 DEF TypeOK, OwnClaim
<1>3. LostIsEmpty' /\ HandledComplete' /\ Complete'
  BY DEF LostIsEmpty, HandledComplete, Complete
<1>4. OwnRows' /\ PendingOnce'
  BY <1>1 DEF OwnRows, PendingOnce
<1>5. LoadsCounted'
  BY <1>1 DEF LoadsCounted
<1> QED
  BY <1>2, <1>3, <1>4, <1>5

(* On with the next row, or to the rollback, or away without one.          *)
LEMMA JudgeRowInv == ASSUME Inv, JudgeRow PROVE Inv'
<1> USE DEF Inv, dbVars
<1>1. pc = "judge" /\ UNCHANGED <<place, stored, pending, session, file, iRet, budget, kills>>
  BY DEF JudgeRow
<1>2. file \in Files /\ place[file] = "claimed" /\ row \in DOMAIN Rows[file] /\ row \in Nat \ {0}
  BY <1>1, AtRowFacts, RowFacts DEF OwnClaim
<1>3. \/ iRet = "WARING" /\ pc' = "rollback" /\ row' = row
      \/ iRet = "WARING" /\ pc' = "check" /\ row' = row /\ file \notin Transactional
      \/ iRet # "WARING" /\ pc' = "rows" /\ row' = row + 1
  BY <1>2, NotRolledBack DEF JudgeRow
<1>4. TypeOK' /\ OwnClaim'
  BY <1>1, <1>2, <1>3 DEF TypeOK, OwnClaim
<1>5. LostIsEmpty' /\ HandledComplete'
  BY <1>1 DEF LostIsEmpty, HandledComplete
<1>6. OwnRows'
  BY <1>1, <1>3 DEF OwnRows, Loading
<1>7. PendingOnce' /\ Complete'
  <2>1. \A e \in DataOf(file) : e[2] \in Nat
    BY <1>2, EntryFacts, RowFacts DEF DataOf
  <2>2. PendingOnce'
    BY <1>1, <1>2, <1>3, <2>1 DEF PendingOnce, DataOf, Loading
  <2>3. Accepted(file) \subseteq DataOf(file)
    BY DEF Accepted, DataOf
  <2>4. Complete'
    BY <1>1, <1>2, <1>3, <2>1, <2>3 DEF Complete, Accepted
  <2> QED
    BY <2>2, <2>4
<1>8. LoadsCounted'
  BY <1>1, <1>3 DEF LoadsCounted, Loading
<1> QED
  BY <1>4, <1>5, <1>6, <1>7, <1>8

(* A rollback leaves nothing pending; a session that is lost has nothing.  *)
LEMMA DbsRollbackInv == ASSUME Inv, DbsRollback PROVE Inv'
<1> USE DEF Inv, DbsRollback, Notice
<1>1. file \in Files /\ place[file] = "claimed" /\ iRet = "WARING"
  BY AtRowFacts DEF OwnClaim
<1>2. TypeOK' /\ OwnClaim'
  BY <1>1 DEF TypeOK, OwnClaim
<1>3. LostIsEmpty' /\ HandledComplete' /\ OwnRows'
  BY DEF LostIsEmpty, HandledComplete, OwnRows
<1>4. PendingOnce' /\ LoadsCounted' /\ Complete'
  BY DEF PendingOnce, LoadsCounted, Complete, DataOf, Loading
<1> QED
  BY <1>2, <1>3, <1>4

(* What a commit does: everything pending is stored, or nothing is.        *)
LEMMA CommitOutcome ==
  ASSUME TypeOK, LostIsEmpty, DbsCommit
  PROVE  /\ pc = "rows" /\ row > Len(Rows[file]) /\ UNCHANGED <<place, file, row, budget, kills>>
         /\ pending' = [e \in Entries |-> 0]
         /\ pc' = IF iRet' = "WARING" THEN "check" ELSE "move"
         /\ session' \in {"ok", "lost"}
         /\ iRet' \in {"SUCESS", "WARING", "ERROR"}
         /\ \/ session = "ok" /\ stored' = [e \in Entries |-> stored[e] + pending[e]] /\ iRet' # "WARING"
            \/ stored' = stored /\ iRet' # "SUCESS"
<1>1. /\ pc = "rows" /\ row > Len(Rows[file]) /\ UNCHANGED <<place, file, row, budget, kills>>
      /\ pending' = [e \in Entries |-> 0]
      /\ pc' = IF iRet' = "WARING" THEN "check" ELSE "move"
  BY DEF DbsCommit
<1>2. CASE \E code \in Codes({0}) :
             iRet' = JudgeSqlExecResultLocal(code) /\ StorePending /\ Notice
  <2>1. PICK code \in Codes({0}) : iRet' = JudgeSqlExecResultLocal(code) /\ StorePending /\ Notice
    BY <1>2
  <2>2. CASE session = "ok"
    <3>1. code = 0
      BY <2>1, <2>2, CodesOf
    <3> QED
      BY <1>1, <2>1, <2>2, <3>1, Judged DEF StorePending, Notice
  <2>3. CASE session # "ok"
    <3>1. code \in {3113, 3114}
      BY <2>1, <2>3, CodesOf DEF TypeOK
    <3>2. stored' = stored
      BY <2>1, <2>3 DEF StorePending, LostIsEmpty, TypeOK
    <3> QED
      BY <1>1, <2>1, <2>3, <3>1, <3>2, Judged DEF Notice
  <2> QED
    BY <2>2, <2>3
<1>3. CASE /\ session = "ok" /\ session' = "lost"
           /\ iRet' = JudgeSqlExecResultLocal(3113)
           /\ StorePending \/ UNCHANGED stored
  BY <1>1, <1>3, Judged DEF StorePending
<1> QED
  BY <1>2, <1>3 DEF DbsCommit

(* The rows before the end of the file are the accepted ones, pending      *)
(* once.                                                                   *)
LEMMA DbsCommitInv == ASSUME Inv, DbsCommit PROVE Inv'
<1> USE DEF Inv
<1>1. /\ pc = "rows" /\ row > Len(Rows[file]) /\ UNCHANGED <<place, file, row, budget, kills>>
      /\ pending' = [e \in Entries |-> 0]
      /\ pc' = IF iRet' = "WARING" THEN "check" ELSE "move"
      /\ session' \in {"ok", "lost"}
      /\ iRet' \in {"SUCESS", "WARING", "ERROR"}
      /\ \/ session = "ok" /\ stored' = [e \in Entries |-> stored[e] + pending[e]] /\ iRet' # "WARING"
         \/ stored' = stored /\ iRet' # "SUCESS"
  BY CommitOutcome
<1>2. file \in Files /\ place[file] = "claimed"
  BY <1>1, AtRowFacts
<1>3. \A e \in Entries : stored[e] \in Nat /\ pending[e] \in Nat /\ stored'[e] \in Nat
                         /\ stored'[e] >= stored[e]
  BY <1>1 DEF TypeOK
<1>4. TypeOK'
  <2>1. stored' \in [Entries -> Nat]
    BY <1>1 DEF TypeOK
  <2> QED
    BY <1>1, <1>2, <2>1 DEF TypeOK
<1>5. OwnClaim' /\ LostIsEmpty' /\ OwnRows' /\ PendingOnce'
  BY <1>1, <1>2 DEF OwnClaim, LostIsEmpty, OwnRows, PendingOnce, DataOf, Loading
<1>6. HandledComplete'
  BY <1>1, <1>3 DEF HandledComplete, Accepted
<1>7. LoadsCounted'
  <2> SUFFICES ASSUME NEW f \in Transactional, NEW e \in DataOf(f)
               PROVE  /\ stored'[e] <= 1 + kills
                      /\ place[f] = "in" => stored'[e] <= kills
                      /\ f = file /\ iRet' = "WARING" => stored'[e] <= kills
    BY <1>1 DEF LoadsCounted, Loading
  <2>1. e \in Entries /\ e[1] = f /\ kills \in Nat
    BY DEF DataOf, TypeOK
  <2>2. /\ stored[e] <= 1 + kills
        /\ place[f] = "in" => stored[e] <= kills
        /\ f = file => stored[e] <= kills
    BY <1>1 DEF LoadsCounted, Loading
  <2>3. CASE f = file
    <3>1. pending[e] <= 1
      BY <1>1, <2>3 DEF PendingOnce, Loading
    <3> QED
      BY <1>1, <1>2, <1>3, <2>1, <2>2, <2>3, <3>1
  <2>4. CASE f # file
    <3>1. pending[e] = 0
      BY <1>3, <2>1, <2>4 DEF OwnRows
    <3>2. stored'[e] = stored[e]
      BY <1>1, <1>3, <2>1, <3>1
    <3> QED
      BY <1>1, <2>2, <2>4, <3>2
  <2> QED
    BY <2>3, <2>4
<1>8. Complete'
  <2> SUFFICES ASSUME NEW e \in Accepted(file), iRet' = "SUCESS"
               PROVE  stored'[e] > 0
    BY <1>1 DEF Complete
  <2>1. e \in Entries /\ e[2] \in DOMAIN Rows[file]
    BY EntryFacts DEF Accepted
  <2>2. e[2] < row
    BY <1>1, <1>2, <2>1, RowFacts DEF TypeOK
  <2>3. pending[e] > 0
    BY <1>1, <1>2, <2>2, SessionAssumption DEF Complete
  <2> QED
    BY <1>1, <1>3, <2>1, <2>3
<1> QED
  BY <1>4, <1>5, <1>6, <1>7, <1>8

(* The file is handled only after SUCESS, and then all of it is stored.    *)
LEMMA MoveFileInv == ASSUME Inv, MoveFile PROVE Inv'
<1> USE DEF Inv, MoveFile, dbVars
<1>1. file \in Files /\ place[file] = "claimed" /\ iRet # "WARING"
  BY DEF TypeOK, OwnClaim
<1>2. TypeOK' /\ OwnClaim'
  BY <1>1 DEF TypeOK, OwnClaim
<1>3. LostIsEmpty' /\ OwnRows' /\ PendingOnce'
  BY DEF LostIsEmpty, OwnRows, PendingOnce, Loading
<1>4. LoadsCounted'
  <2>1. \A f \in Files : place'[f] = "in" => place[f] = "in"
    BY <1>1 DEF TypeOK
  <2> QED
    BY <1>1, <2>1 DEF LoadsCounted, Loading, Transactional
<1>5. Complete'
  BY DEF Complete
<1>6. HandledComplete'
  <2>1. \A f \in Files : place'[f] = "handled" => place[f] = "handled" \/ (f = file /\ iRet = "SUCESS")
    BY <1>1 DEF TypeOK
  <2>2. iRet = "SUCESS" => \A e \in Accepted(file) : stored[e] > 0
    BY <1>1, SessionAssumption DEF Complete
  <2> QED
    BY <2>1, <2>2 DEF HandledComplete, Accepted
<1> QED
  BY <1>2, <1>3, <1>4, <1>5, <1>6

(* A WARING gives the file back; other results leave it where it is.       *)
LEMMA CheckResultInv == ASSUME Inv, CheckResult PROVE Inv'
<1> USE DEF Inv, CheckResult, dbVars
<1>1. file \in Files
  BY DEF TypeOK
<1>2. TypeOK' /\ OwnClaim'
  BY <1>1, SessionAssumption DEF TypeOK, OwnClaim
<1>3. LostIsEmpty' /\ OwnRows' /\ PendingOnce' /\ Complete'
  BY SessionAssumption DEF LostIsEmpty, OwnRows, PendingOnce, Complete, Loading, Transactional
<1>4. \/ place' = place
      \/ iRet = "WARING" /\ place' = [place EXCEPT ![file] = "in"]
  OBVIOUS
<1>5. LoadsCounted'
  <2>1. \A f \in Files : place'[f] = "in" => place[f] = "in" \/ (f = file /\ iRet = "WARING")
    BY <1>1, <1>4 DEF TypeOK
  <2> QED
    BY <2>1, SessionAssumption DEF LoadsCounted, Transactional
<1>6. HandledComplete'
  BY <1>1, <1>4 DEF HandledComplete, Accepted, TypeOK
<1> QED
  BY <1>2, <1>3, <1>5, <1>6

(* A reconnect starts with nothing pending.                                *)
LEMMA TestConnectionDBInv == ASSUME Inv, TestConnectionDB PROVE Inv'
<1> USE DEF Inv
<1>1. /\ pc = "test" /\ pc' = "idle" /\ UNCHANGED <<place, stored, pending, file, row, iRet, budget, kills>>
      /\ session' \in {"ok", "lost"} /\ file = None
      /\ session' = "ok" => session = "ok" \/ \A e \in Entries : pending[e] = 0
      /\ session' # "ok" => session # "ok"
  BY DEF TestConnectionDB, Notice, LostIsEmpty, TypeOK
<1>2. TypeOK' /\ OwnClaim'
  BY <1>1 DEF TypeOK, OwnClaim
<1>3. LostIsEmpty' /\ OwnRows' /\ PendingOnce' /\ Complete'
  BY <1>1 DEF LostIsEmpty, OwnRows, PendingOnce, Complete, Loading
<1>4. LoadsCounted' /\ HandledComplete'
  BY <1>1 DEF LoadsCounted, HandledComplete, Loading
<1> QED
  BY <1>2, <1>3, <1>4

(* The database rolls back what a broken session had pending.              *)
LEMMA SessionBreaksInv == ASSUME Inv, SessionBreaks PROVE Inv'
<1> USE DEF Inv, SessionBreaks
<1>1. TypeOK' /\ OwnClaim'
  BY DEF TypeOK, OwnClaim
<1>2. LostIsEmpty' /\ OwnRows' /\ HandledComplete'
  BY DEF LostIsEmpty, OwnRows, HandledComplete
<1>3. PendingOnce' /\ LoadsCounted' /\ Complete'
  BY DEF PendingOnce, LoadsCounted, Complete, DataOf
<1> QED
  BY <1>1, <1>2, <1>3

(* A kill raises what each count may be by one.                            *)
LEMMA KillAndRestartInv == ASSUME Inv, KillAndRestart PROVE Inv'
<1> USE DEF Inv, KillAndRestart
<1>1. TypeOK' /\ OwnClaim'
  BY SessionAssumption DEF TypeOK, OwnClaim
<1>2. LostIsEmpty' /\ OwnRows' /\ PendingOnce' /\ Complete'
  BY SessionAssumption DEF LostIsEmpty, OwnRows, PendingOnce, Complete, Transactional
<1>3. LoadsCounted'
  <2>1. \A f \in Transactional : f \in Files /\ f # None /\ \A e \in DataOf(f) : stored[e] \in Nat
    BY SessionAssumption DEF Transactional, TypeOK, DataOf
  <2>2. kills \in Nat /\ kills' = kills + 1 /\ stored' = stored /\ file' = None
    BY DEF TypeOK
  <2> QED
    BY <2>1, <2>2 DEF LoadsCounted
<1>4. HandledComplete'
  BY DEF HandledComplete, Accepted, TypeOK
<1> QED
  BY <1>1, <1>2, <1>3, <1>4

-----------------------------------------------------------------------------
(* One lemma per action.                                                   *)
LEMMA NextInv == ASSUME Inv, [Next]_vars PROVE Inv'
<1>1. CASE \E f \in Files : Take(f)
  BY <1>1, TakeInv
<1>2. CASE WriteToSnoTable \/ ReadBFFile \/ ReadSkContents \/ ReadBkContents \/ ReadDkContents
  BY <1>2, OpenKeeps DEF WriteToSnoTable, ReadBFFile, ReadSkContents, ReadBkContents,
     ReadDkContents
<1>3. CASE InsertNote \/ InsertDoubtful \/ InsertBundle \/ InsertMonbox \/ InsertPackage
           \/ InsertBag \/ InsertAccount
  BY <1>3, InsertKeeps
  DEF InsertNote, InsertDoubtful, InsertBundle, InsertMonbox, InsertPackage, InsertBag,
  InsertAccount
<1>4. CASE CheckDoubtMon
  BY <1>4, CheckDoubtMonInv
<1>5. CASE NoteWithoutNumber
  BY <1>5, NoteWithoutNumberInv
<1>6. CASE JudgeRow
  BY <1>6, JudgeRowInv
<1>7. CASE DbsRollback
  BY <1>7, DbsRollbackInv
<1>8. CASE DbsCommit
  BY <1>8, DbsCommitInv
<1>9. CASE MoveFile
  BY <1>9, MoveFileInv
<1>10. CASE CheckResult
  BY <1>10, CheckResultInv
<1>11. CASE TestConnectionDB
  BY <1>11, TestConnectionDBInv
<1>12. CASE SessionBreaks
  BY <1>12, SessionBreaksInv
<1>13. CASE KillAndRestart
  BY <1>13, KillAndRestartInv
<1>14. CASE UNCHANGED vars
  BY <1>14 DEF vars, dbVars, Inv, TypeOK, OwnClaim, LostIsEmpty, OwnRows, PendingOnce,
     LoadsCounted,
               Complete, HandledComplete, Loading
<1> QED
  BY <1>1, <1>2, <1>3, <1>4, <1>5, <1>6, <1>7, <1>8, <1>9, <1>10, <1>11, <1>12, <1>13,
     <1>14 DEF Next

(* The inductive invariant holds of every behaviour of a handler.          *)
LEMMA Invariance == Spec => []Inv
<1>1. Init => Inv
  BY InitInv
<1>2. Inv /\ [Next]_vars => Inv'
  BY NextInv
<1> QED
  BY <1>1, <1>2, PTL DEF Spec

-----------------------------------------------------------------------------
(* The state keeps its type, and the program counter and the file in hand  *)
(* belong together (DbSession.TypeOK).                                     *)
THEOREM TypeCorrect == Spec => []TypeOK
<1>1. Inv => TypeOK
  BY DEF Inv
<1> QED
  BY <1>1, Invariance, PTL

(* A file moved to the handled directory has every row the database accepts*)
(* committed, whatever faults the reads, inserts, sessions and renames had *)
(* (the five ReadXxx and MoveXxx functions of DbSession).                  *)
THEOREM HandledCompleteAlways == Spec => []HandledComplete
<1>1. Inv => HandledComplete
  BY DEF Inv
<1> QED
  BY <1>1, Invariance, PTL

(* A thread turns to its next file with no row of a transactional kind left*)
(* in its session: every WARING of such a file went through DbsRollback.   *)
THEOREM NothingLeftPendingAlways == Spec => []NothingLeftPending
<1>1. Inv => NothingLeftPending
  BY DEF Inv, OwnRows, NothingLeftPending, Loading
<1> QED
  BY <1>1, Invariance, PTL

(* The rows of a transactional file are committed at most once, and once   *)
(* more for each kill of the process between the commit and the move.      *)
THEOREM RowsOnceAlways == Spec => []RowsOnce
<1>1. Inv => RowsOnce
  BY DEF Inv, LoadsCounted, RowsOnce, Accepted, DataOf
<1> QED
  BY <1>1, Invariance, PTL

-----------------------------------------------------------------------------
(* Of a doubtful note's two rows the first is pending alone only between   *)
(* the two inserts.                                                        *)
DoubtPaired ==
  \A f \in Files : \A i \in DOMAIN Rows[f] : Rows[f][i] = "doubtful" =>
    /\ pending[<<f, i, "data">>] <=
         pending[<<f, i, "doubt">>] + (IF pc = "doubt" /\ file = f /\ row = i THEN 1 ELSE 0)
    /\ stored[<<f, i, "data">>] <= stored[<<f, i, "doubt">>]

(* The first row of a doubtful note leads on to the second insert.         *)
LEMMA InsertPairs ==
  ASSUME Inv, DoubtPaired, NEW what, NEW next \in {"judge", "doubt"},
         next = "doubt" \/ "doubtful" \notin what, InsertRow(what, next)
  PROVE  DoubtPaired'
<1> DEFINE e0 == <<file, row, "data">>
<1>1. /\ pc = "rows" /\ pc' = next /\ row \in DOMAIN Rows[file] /\ Rows[file][row] \in what
      /\ Insert(e0, <<file, row>> \in Rejected, Fault("tablespace"))
      /\ UNCHANGED <<place, file, row, budget, kills>>
  BY DEF InsertRow, AtRow
<1>2. TypeOK /\ file \in Files
  BY <1>1, AtRowFacts DEF Inv
<1>3. e0 \in Entries
  BY <1>1, <1>2, EntryFacts
<1>4. stored' = stored /\ (pending' = [pending EXCEPT ![e0] = @ + 1] \/ pending' = pending)
  BY <1>1 DEF Insert
<1> SUFFICES ASSUME NEW f \in Files, NEW i \in DOMAIN Rows[f], Rows[f][i] = "doubtful"
             PROVE  /\ pending'[<<f, i, "data">>] <= pending'[<<f, i, "doubt">>] +
                         (IF pc' = "doubt" /\ file = f /\ row = i THEN 1 ELSE 0)
                    /\ stored[<<f, i, "data">>] <= stored[<<f, i, "doubt">>]
  BY <1>1, <1>4 DEF DoubtPaired
<1>5. <<f, i, "data">> \in Entries /\ <<f, i, "doubt">> \in Entries
  BY EntryFacts
<1>6. pending[<<f, i, "data">>] \in Nat /\ pending[<<f, i, "doubt">>] \in Nat
  BY <1>2, <1>5 DEF TypeOK
<1>7. /\ pending[<<f, i, "data">>] <= pending[<<f, i, "doubt">>]
      /\ stored[<<f, i, "data">>] <= stored[<<f, i, "doubt">>]
  BY <1>1, <1>6 DEF DoubtPaired
<1>8. pending'[<<f, i, "doubt">>] = pending[<<f, i, "doubt">>]
  BY <1>2, <1>3, <1>4, <1>5 DEF TypeOK
<1>9. CASE file = f /\ row = i
  <2>1. pc' = "doubt"
    BY <1>1, <1>9
  <2>2. pending'[<<f, i, "data">>] \in {pending[<<f, i, "data">>], pending[<<f, i, "data">>] + 1}
    BY <1>2, <1>4, <1>5, <1>9 DEF TypeOK
  <2> QED
    BY <1>6, <1>7, <1>8, <1>9, <2>1, <2>2
<1>10. CASE ~(file = f /\ row = i)
  <2>1. pending'[<<f, i, "data">>] = pending[<<f, i, "data">>]
    BY <1>2, <1>3, <1>4, <1>5, <1>10 DEF TypeOK
  <2> QED
    BY <1>6, <1>7, <1>8, <1>10, <2>1
<1> QED
  BY <1>9, <1>10

(* The second row follows where the first one was stored.                  *)
LEMMA CheckDoubtMonPairs ==
  ASSUME Inv, DoubtPaired, "doubtspace" \notin Faults, CheckDoubtMon
  PROVE  DoubtPaired'
<1> DEFINE e0 == <<file, row, "doubt">>
<1>1. pc = "doubt" /\ pc' = "judge" /\ UNCHANGED <<place, stored, file, row, iRet, budget, kills>>
  BY DEF CheckDoubtMon
<1>2. TypeOK /\ LostIsEmpty /\ file \in Files /\ row \in DOMAIN Rows[file]
  BY <1>1, AtRowFacts DEF Inv, OwnClaim
<1>3. e0 \in Entries
  BY <1>2, EntryFacts
<1>4. IF session = "ok" THEN pending' = [pending EXCEPT ![e0] = @ + 1] ELSE pending' = pending
  <2>1. PICK code \in Codes({0} \cup (IF Fault("doubtspace") THEN {1688} ELSE {})) :
          pending' = IF code = 0 THEN [pending EXCEPT ![e0] = @ + 1] ELSE pending
    BY DEF CheckDoubtMon
  <2>2. IF session = "ok" THEN code = 0 ELSE code \in {3113, 3114}
    BY <1>2, <2>1, CodesOf DEF TypeOK, Fault
  <2> QED
    BY <2>1, <2>2
<1> SUFFICES ASSUME NEW f \in Files, NEW i \in DOMAIN Rows[f], Rows[f][i] = "doubtful"
             PROVE  pending'[<<f, i, "data">>] <= pending'[<<f, i, "doubt">>]
  <2>1. pending' \in [Entries -> Nat]
    BY <1>2, <1>3, <1>4 DEF TypeOK
  <2>2. \A d \in {"data", "doubt"} : \A g \in Files : \A j \in DOMAIN Rows[g] :
          pending'[<<g, j, d>>] \in Nat
    BY <2>1, EntryFacts
  <2> QED
    BY <1>1, <2>2 DEF DoubtPaired
<1>5. <<f, i, "data">> \in Entries /\ <<f, i, "doubt">> \in Entries
  BY EntryFacts
<1>6. pending[<<f, i, "data">>] \in Nat /\ pending[<<f, i, "doubt">>] \in Nat
  BY <1>2, <1>5 DEF TypeOK
<1>7. pending[<<f, i, "data">>] <=
        pending[<<f, i, "doubt">>] + (IF file = f /\ row = i THEN 1 ELSE 0)
  BY <1>1 DEF DoubtPaired
<1>8. pending'[<<f, i, "data">>] = pending[<<f, i, "data">>]
  BY <1>2, <1>3, <1>4, <1>5 DEF TypeOK
<1>9. CASE session = "ok"
  <2>1. pending'[<<f, i, "doubt">>] =
          pending[<<f, i, "doubt">>] + (IF file = f /\ row = i THEN 1 ELSE 0)
    BY <1>2, <1>3, <1>4, <1>5, <1>6, <1>9 DEF TypeOK
  <2> QED
    BY <1>6, <1>7, <1>8, <2>1
<1>10. CASE session # "ok"
  BY <1>2, <1>4, <1>5, <1>10 DEF LostIsEmpty
<1> QED
  BY <1>9, <1>10

(* Every other step leaves the rows alone, drops all that is pending, or   *)
(* stores it.                                                              *)
LEMMA OtherStepsPair ==
  ASSUME Inv, DoubtPaired, pc' # "doubt",
         \/ stored' = stored /\ pending' = pending /\ pc # "doubt"
         \/ stored' = stored /\ pending' = [e \in Entries |-> 0]
         \/ /\ stored' = [e \in Entries |-> stored[e] + pending[e]]
            /\ pending' = [e \in Entries |-> 0] /\ pc # "doubt"
  PROVE  DoubtPaired'
<1> SUFFICES ASSUME NEW f \in Files, NEW i \in DOMAIN Rows[f], Rows[f][i] = "doubtful"
             PROVE  /\ pending'[<<f, i, "data">>] <= pending'[<<f, i, "doubt">>] + 0
                    /\ stored'[<<f, i, "data">>] <= stored'[<<f, i, "doubt">>]
  BY DEF DoubtPaired
<1>1. <<f, i, "data">> \in Entries /\ <<f, i, "doubt">> \in Entries
  BY EntryFacts
<1>2. \A d \in {"data", "doubt"} : pending[<<f, i, d>>] \in Nat /\ stored[<<f, i, d>>] \in Nat
  BY <1>1 DEF Inv, TypeOK
<1>3. /\ stored[<<f, i, "data">>] <= stored[<<f, i, "doubt">>]
      /\ pc # "doubt" => pending[<<f, i, "data">>] <= pending[<<f, i, "doubt">>]
  BY <1>2 DEF DoubtPaired
<1> QED
  BY <1>1, <1>2, <1>3

(* No other step separates the two rows of a doubtful note.                *)
LEMMA NextPairs ==
  ASSUME Inv, DoubtPaired, "doubtspace" \notin Faults, [Next]_vars
  PROVE  DoubtPaired'
<1> USE OtherStepsPair
<1>1. ASSUME NEW f \in Files, Take(f) PROVE DoubtPaired'
  BY <1>1 DEF Take, dbVars
<1>2. ASSUME NEW kind, NEW failures \in SUBSET {"ERROR", "WARING"}, Open(kind, failures)
      PROVE  DoubtPaired'
  BY <1>2 DEF Open, dbVars
<1>3. CASE WriteToSnoTable \/ ReadBFFile \/ ReadSkContents \/ ReadBkContents \/ ReadDkContents
  BY <1>2, <1>3 DEF WriteToSnoTable, ReadBFFile, ReadSkContents, ReadBkContents, ReadDkContents
<1>4. CASE InsertNote \/ InsertDoubtful \/ InsertBundle \/ InsertMonbox \/ InsertPackage
           \/ InsertBag \/ InsertAccount
  BY <1>4, InsertPairs
  DEF InsertNote, InsertDoubtful, InsertBundle, InsertMonbox, InsertPackage, InsertBag,
  InsertAccount
<1>5. CASE CheckDoubtMon
  BY <1>5, CheckDoubtMonPairs
<1>6. CASE NoteWithoutNumber
  BY <1>6 DEF NoteWithoutNumber, AtRow, dbVars
<1>7. CASE JudgeRow
  BY <1>7 DEF JudgeRow, dbVars
<1>8. CASE DbsRollback
  BY <1>8 DEF DbsRollback
<1>9. CASE DbsCommit
  BY <1>9, CommitOutcome DEF Inv
<1>10. CASE MoveFile
  BY <1>10 DEF MoveFile, dbVars
<1>11. CASE CheckResult
  BY <1>11 DEF CheckResult, dbVars
<1>12. CASE TestConnectionDB
  BY <1>12 DEF TestConnectionDB
<1>13. CASE SessionBreaks
  <2>1. stored' = stored /\ \A e \in Entries : pending'[e] = 0
    BY <1>13 DEF SessionBreaks
  <2>2. 0 <= 0 + (IF pc' = "doubt" THEN 1 ELSE 0) /\ 0 <= 0 + 0
    OBVIOUS
  <2> QED
    BY <2>1, <2>2, EntryFacts DEF DoubtPaired
<1>14. CASE KillAndRestart
  BY <1>14 DEF KillAndRestart
<1>15. CASE UNCHANGED vars
  BY <1>15 DEF vars, dbVars, DoubtPaired
<1> QED
  BY <1>1, <1>3, <1>4, <1>5, <1>6, <1>7, <1>8, <1>9, <1>10, <1>11, <1>12, <1>13, <1>14,
     <1>15 DEF Next

(* Unless the table of doubtful notes may be full while the table of notes *)
(* is not, a note on the black list is committed only with its entry there *)
(* (CheckDoubtMon, whose result its caller drops).                         *)
THEOREM DoubtNotedAlways ==
  ASSUME "doubtspace" \notin Faults
  PROVE  Spec => []DoubtNoted
<1>1. Init => DoubtPaired
  BY EntryFacts DEF Init, DoubtPaired
<1>2. Inv /\ DoubtPaired /\ [Next]_vars => DoubtPaired'
  BY NextPairs
<1>3. DoubtPaired => DoubtNoted
  BY DEF DoubtPaired, DoubtNoted
<1> QED
  BY <1>1, <1>2, <1>3, Invariance, PTL DEF Spec

-----------------------------------------------------------------------------
(* The refinement.  Only the commit of a transactional file changes the    *)
(* abstract table, and by all its accepted rows.                           *)
AbsPlace == [f \in Transactional |-> place[f]]
AbsTable == [e \in AcceptedRows |-> stored[e]]
AbsStep  == [Abstract!Next]_<<AbsPlace, AbsTable>>

(* The abstract rows are the accepted entries of transactional files.      *)
LEMMA AcceptedFacts ==
  /\ Transactional \subseteq Files
  /\ \A f \in Transactional : Accepted(f) \subseteq AcceptedRows /\ Accepted(f) \subseteq DataOf(f)
  /\ \A e \in AcceptedRows : e \in Entries /\ e[1] \in Transactional
  /\ \A e \in AcceptedRows : \A f \in Transactional : e \in Accepted(f) <=> e[1] = f
  /\ Abstract!AllRows = AcceptedRows
BY DEF Transactional, AcceptedRows, Accepted, DataOf, Abstract!AllRows

(* A step that moves no file and stores nothing is none for AtomicLoad.    *)
LEMMA Stutters == ASSUME place' = place, stored' = stored PROVE AbsStep
BY DEF AbsStep, AbsPlace, AbsTable

(* A step of one file is a step of AtomicLoad.                             *)
LEMMA FileSteps ==
  ASSUME NEW f \in Transactional,
         Abstract!Claim(f) \/ Abstract!Store(f) \/ Abstract!Handle(f) \/ Abstract!PutAside(f)
  PROVE  AbsStep
<1>1. Abstract!Next
  BY DEF Abstract!Next
<1> QED
  BY <1>1 DEF AbsStep

(* Taking a transactional file is Claim.                                   *)
LEMMA TakeClaims == ASSUME Inv, NEW f \in Files, Take(f) PROVE AbsStep
<1>1. place[f] = "in" /\ place' = [place EXCEPT ![f] = "claimed"] /\ stored' = stored
      /\ place \in [Files -> {"in", "claimed", "handled", "errored"}]
  BY DEF Take, dbVars, Inv, TypeOK
<1>2. UNCHANGED AbsTable
  BY <1>1 DEF AbsTable
<1>3. CASE f \in Transactional
  <2>1. AbsPlace[f] = "in" /\ AbsPlace' = [AbsPlace EXCEPT ![f] = "claimed"]
    BY <1>1, <1>3, AcceptedFacts DEF AbsPlace
  <2>2. Abstract!Claim(f)
    BY <1>2, <2>1 DEF Abstract!Claim, AbsPlace, AbsTable
  <2> QED
    BY <1>3, <2>2, FileSteps
<1>4. CASE f \notin Transactional
  <2>1. UNCHANGED AbsPlace
    BY <1>1, <1>4, AcceptedFacts DEF AbsPlace
  <2> QED
    BY <1>2, <2>1 DEF AbsStep
<1> QED
  BY <1>3, <1>4

(* The commit of a transactional file is Store: each accepted row once.    *)
LEMMA CommitStores == ASSUME Inv, DbsCommit PROVE AbsStep
<1>1. /\ pc = "rows" /\ row > Len(Rows[file]) /\ place' = place
      /\ \/ session = "ok" /\ stored' = [e \in Entries |-> stored[e] + pending[e]]
         \/ stored' = stored
  BY CommitOutcome DEF Inv
<1>2. file \in Files /\ place[file] = "claimed"
  BY <1>1, AtRowFacts
<1>3. UNCHANGED AbsPlace
  BY <1>1 DEF AbsPlace
<1>4. CASE stored' = stored
  BY <1>1, <1>4, Stutters
<1>5. CASE session = "ok" /\ stored' = [e \in Entries |-> stored[e] + pending[e]]
  <2>1. \A e \in AcceptedRows : stored'[e] = stored[e] + pending[e] /\ stored[e] \in Nat /\ pending[e] \in Nat
    BY <1>5, AcceptedFacts DEF Inv, TypeOK
  <2>2. \A e \in AcceptedRows : e[1] # file => pending[e] = 0
    BY <2>1, AcceptedFacts DEF Inv, OwnRows
  <2>3. CASE file \in Transactional
    <3>1. \A e \in Accepted(file) : pending[e] = 1
      <4> SUFFICES ASSUME NEW e \in Accepted(file) PROVE pending[e] = 1
        OBVIOUS
      <4>1. e \in AcceptedRows /\ e \in DataOf(file) /\ e \in Entries
        BY <2>3, AcceptedFacts
      <4>2. pending[e] <= 1
        BY <1>1, <2>3, <4>1 DEF Inv, PendingOnce, Loading
      <4>3. e[2] < row
        BY <1>1, <1>2, <4>1, EntryFacts, RowFacts DEF Inv, TypeOK, DataOf
      <4>4. pending[e] > 0
        BY <1>1, <1>2, <1>5, <4>3, SessionAssumption DEF Inv, Complete
      <4> QED
        BY <2>1, <4>1, <4>2, <4>4
    <3>2. AbsTable' = [e \in AcceptedRows |-> IF e \in Accepted(file) THEN AbsTable[e] + 1 ELSE AbsTable[e]]
      BY <2>1, <2>2, <2>3, <3>1, AcceptedFacts DEF AbsTable
    <3>3. AbsPlace[file] = "claimed"
      BY <1>2, <2>3 DEF AbsPlace
    <3>4. PICK f \in Transactional : f = file
      BY <2>3
    <3>5. Abstract!Store(f)
      BY <1>3, <3>2, <3>3, <3>4, AcceptedFacts DEF Abstract!Store, AbsPlace, AbsTable
    <3> QED
      BY <3>5, FileSteps
  <2>4. CASE file \notin Transactional
    <3>1. UNCHANGED AbsTable
      BY <2>1, <2>2, <2>4, AcceptedFacts DEF AbsTable
    <3> QED
      BY <1>3, <3>1 DEF AbsStep
  <2> QED
    BY <2>3, <2>4
<1> QED
  BY <1>1, <1>4, <1>5

(* The move of a transactional file is Handle or PutAside.                 *)
LEMMA MoveHandles == ASSUME Inv, MoveFile PROVE AbsStep
<1>1. file \in Files /\ place[file] = "claimed" /\ stored' = stored
      /\ place \in [Files -> {"in", "claimed", "handled", "errored"}]
  BY DEF MoveFile, dbVars, Inv, TypeOK, OwnClaim
<1>2. UNCHANGED AbsTable
  BY <1>1 DEF AbsTable
<1>3. CASE place' = place
  BY <1>1, <1>3, Stutters
<1>4. CASE place' = [place EXCEPT ![file] = IF iRet = "SUCESS" THEN "handled" ELSE "errored"]
  <2>1. CASE file \in Transactional
    <3>1. AbsPlace[file] = "claimed"
          /\ AbsPlace' = [AbsPlace EXCEPT ![file] = IF iRet = "SUCESS" THEN "handled" ELSE "errored"]
      BY <1>1, <1>4, <2>1, AcceptedFacts DEF AbsPlace
    <3>2. PICK f \in Transactional : f = file
      BY <2>1
    <3>3. CASE iRet = "SUCESS"
      <4>1. \A e \in Accepted(file) : AbsTable[e] > 0
        BY <1>1, <2>1, <3>3, AcceptedFacts, SessionAssumption DEF AbsTable, Inv, Complete,
           MoveFile
      <4>2. Abstract!Handle(f)
        BY <1>2, <3>1, <3>2, <3>3, <4>1 DEF Abstract!Handle, AbsPlace, AbsTable
      <4> QED
        BY <4>2, FileSteps
    <3>4. CASE iRet # "SUCESS"
      <4>1. Abstract!PutAside(f)
        BY <1>2, <3>1, <3>2, <3>4 DEF Abstract!PutAside, AbsPlace, AbsTable
      <4> QED
        BY <4>1, FileSteps
    <3> QED
      BY <3>3, <3>4
  <2>2. CASE file \notin Transactional
    <3>1. UNCHANGED AbsPlace
      BY <1>1, <1>4, <2>2, AcceptedFacts DEF AbsPlace
    <3> QED
      BY <1>2, <3>1 DEF AbsStep
  <2> QED
    BY <2>1, <2>2
<1> QED
  BY <1>3, <1>4 DEF MoveFile

(* StopFile gives back the file in hand, a restart every claimed file.     *)
LEMMA GivesBack ==
  ASSUME Inv, NEW S \in SUBSET {f \in Files : place[f] = "claimed"}, stored' = stored,
         place' = [f \in Files |-> IF f \in S THEN "in" ELSE place[f]]
  PROVE  AbsStep
<1> DEFINE T == S \cap Transactional
<1>1. UNCHANGED AbsTable
  BY DEF AbsTable
<1>2. T \in SUBSET {f \in Transactional : AbsPlace[f] = "claimed"}
  BY DEF AbsPlace
<1>3. AbsPlace' = [f \in Transactional |-> IF f \in T THEN "in" ELSE AbsPlace[f]]
  BY AcceptedFacts DEF AbsPlace
<1> HIDE DEF T
<1>4. Abstract!GiveBack
  BY <1>1, <1>2, <1>3 DEF Abstract!GiveBack, AbsPlace, AbsTable
<1> QED
  BY <1>4 DEF AbsStep, Abstract!Next

(* Giving a file back is GiveBack of this file alone.                      *)
LEMMA CheckGivesBack == ASSUME Inv, CheckResult PROVE AbsStep
<1>1. stored' = stored /\ file \in Files /\ (iRet = "WARING" => place[file] = "claimed")
      /\ place \in [Files -> {"in", "claimed", "handled", "errored"}]
  BY DEF CheckResult, dbVars, Inv, TypeOK, OwnClaim
<1>2. CASE place' = place
  BY <1>1, <1>2, Stutters
<1>3. CASE iRet = "WARING" /\ place' = [place EXCEPT ![file] = "in"]
  <2>1. place' = [f \in Files |-> IF f \in {file} THEN "in" ELSE place[f]]
    BY <1>1, <1>3
  <2> QED
    BY <1>1, <1>3, <2>1, GivesBack
<1> QED
  BY <1>2, <1>3 DEF CheckResult

(* CoverFiles gives every claimed file back at once.                       *)
LEMMA RestartGivesBack == ASSUME Inv, KillAndRestart PROVE AbsStep
<1> DEFINE S == {f \in Files : place[f] = "claimed"}
<1>1. place' = [f \in Files |-> IF f \in S THEN "in" ELSE place[f]] /\ stored' = stored
  BY DEF KillAndRestart
<1> QED
  BY <1>1, GivesBack

(* One case per action.                                                    *)
LEMMA StepRefines == ASSUME Inv, [Next]_vars PROVE AbsStep
<1> USE Stutters
<1>1. CASE \E f \in Files : Take(f)
  BY <1>1, TakeClaims
<1>2. CASE WriteToSnoTable \/ ReadBFFile \/ ReadSkContents \/ ReadBkContents \/ ReadDkContents
  BY <1>2 DEF Open, dbVars, WriteToSnoTable, ReadBFFile, ReadSkContents, ReadBkContents,
     ReadDkContents
<1>3. CASE InsertNote \/ InsertDoubtful \/ InsertBundle \/ InsertMonbox \/ InsertPackage
           \/ InsertBag \/ InsertAccount
  <2>1. ASSUME NEW what, NEW next, InsertRow(what, next) PROVE AbsStep
    BY <2>1 DEF InsertRow, Insert
  <2> QED
    BY <1>3, <2>1
    DEF InsertNote, InsertDoubtful, InsertBundle, InsertMonbox, InsertPackage, InsertBag,
    InsertAccount
<1>4. CASE CheckDoubtMon \/ NoteWithoutNumber \/ JudgeRow
  BY <1>4 DEF CheckDoubtMon, NoteWithoutNumber, JudgeRow, dbVars
<1>5. CASE DbsRollback \/ TestConnectionDB \/ SessionBreaks
  BY <1>5 DEF DbsRollback, TestConnectionDB, SessionBreaks
<1>6. CASE DbsCommit
  BY <1>6, CommitStores
<1>7. CASE MoveFile
  BY <1>7, MoveHandles
<1>8. CASE CheckResult
  BY <1>8, CheckGivesBack
<1>9. CASE KillAndRestart
  BY <1>9, RestartGivesBack
<1>10. CASE UNCHANGED vars
  BY <1>10 DEF vars, dbVars
<1> QED
  BY <1>1, <1>2, <1>3, <1>4, <1>5, <1>6, <1>7, <1>8, <1>9, <1>10 DEF Next

(* The loads of transactional files are AtomicLoad: their accepted rows    *)
(* enter the database all at once, while the file is claimed, and before   *)
(* it is handled; a WARING or a restart only gives files back.             *)
THEOREM LoadIsAtomic == Spec => LoadsAtomically
<1>1. Init => Abstract!Init
  <2> SUFFICES ASSUME Init PROVE Abstract!Init
    OBVIOUS
  <2>1. AbsPlace = [f \in Transactional |-> "in"]
    BY AcceptedFacts DEF Init, AbsPlace
  <2>2. AbsTable = [e \in AcceptedRows |-> 0]
    BY AcceptedFacts DEF Init, AbsTable
  <2> QED
    BY <2>1, <2>2, AcceptedFacts DEF Abstract!Init, AbsPlace, AbsTable
<1>2. Inv /\ [Next]_vars => AbsStep
  BY StepRefines
<1> QED
  BY <1>1, <1>2, Invariance, PTL DEF Spec, LoadsAtomically, Abstract!AtomicSpec, AbsStep,
     AbsPlace, AbsTable
=============================================================================
