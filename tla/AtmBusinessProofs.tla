------------------------- MODULE AtmBusinessProofs --------------------------
(***************************************************************************)
(* Theorems about AtmBusiness for any number of files, businesses, handlers*)
(* and kills, and every set of faults.                                     *)
(***************************************************************************)
EXTENDS AtmBusiness, TLAPS

(* Where a handler knows the key of its file; where it has not yet, or not *)
(* for good, stored its notes; where its session may have written anything.*)
Keyed   == {"dup", "load", "insert", "select", "copy", "commit", "delete", "commit2", "truncate"}
Unsaved == {"create", "name", "dup", "load", "insert", "select", "copy", "commit", "delete",
            "commit2"}
Written == {"insert", "select", "copy", "commit", "delete", "commit2", "truncate"}

(* A file in a handler's hands is claimed, until it is moved, and in       *)
(* nobody else's.                                                          *)
OwnClaim ==
  \A h \in Handlers :
    file[h] # None =>
      /\ place[file[h]] \notin {"in", "none"}
      /\ pc[h] # "check" \/ iRet[h] = "WARING" => place[file[h]] = "claimed"
      /\ pc[h] \in {"move", "move2"} => iRet[h] # "WARING"
      /\ \A g \in Handlers \ {h} : file[g] # file[h]

(* A session writes only within the load of a file, only for this file, and*)
(* nothing it has written outlives the connection.                         *)
OwnSession ==
  \A h \in Handlers :
    /\ pc[h] \in Keyed => key[h] # None
    /\ session[h] # "ok" => tmp[h] = {} /\ tx[h] = NoTx
    /\ pc[h] \notin Written => tmp[h] = {} /\ tx[h] = NoTx
    /\ tmp[h] \subseteq {file[h]}
    /\ IF pc[h] = "commit" /\ session[h] = "ok"
       THEN tx[h].copied = {file[h]} ELSE tx[h].copied = {}

(* Rows that a session has deleted are still there when it commits.        *)
DeletedRows ==
  \A h \in Handlers :
    tx[h].gone # 0 =>
      /\ pc[h] = "commit2" /\ tx[h].gone <= listed[key[h]]
      /\ \A g \in Handlers \ {h} : key[g] = key[h] => tx[g].gone = 0

(* A file that may be loaded again has its notes once less than it may.    *)
NotesCounted ==
  /\ \A f \in Files : place[f] \in {"in", "none"} => notes[f] <= kills
  /\ \A h \in Handlers :
       file[h] # None /\ (pc[h] \in Unsaved \/ iRet[h] = "WARING") => notes[file[h]] <= kills

(* A load that says SUCESS has stored the notes.                           *)
SucessStored ==
  \A h \in Handlers :
    iRet[h] = "SUCESS" =>
      /\ pc[h] \notin {"delete", "commit2"}
      /\ pc[h] \in {"truncate", "move", "move2"} => notes[file[h]] > 0

Inv ==
  /\ TypeOK /\ OwnClaim /\ OwnSession /\ DeletedRows
  /\ NotesCounted /\ NotesOnce /\ SucessStored /\ HandledStored

-----------------------------------------------------------------------------
(* A result is one of four, and only one code of a statement is a success. *)
LEMMA Judged ==
  /\ \A code \in Int : JudgeSqlExecResultLocal(code) \in {"SUCESS", "WARING", "ERROR", "NODATA"}
  /\ JudgeSqlExecResultLocal(0) = "SUCESS"
  /\ \A code \in {1688, 3114} : JudgeSqlExecResultLocal(code) = "WARING"
  /\ \A code \in {2112, 3113, 12899} : JudgeSqlExecResultLocal(code) = "ERROR"
  /\ JudgeSqlExecResultLocal(1403) = "NODATA"
  BY DEF JudgeSqlExecResultLocal

(* A row of the type of tx, changed in one field, keeps it.                *)
Places  == {"idle", "create", "name", "dup", "load", "insert", "select", "copy",
            "commit", "delete", "commit2", "truncate", "move", "move2", "check", "test"}
Results == {"SUCESS", "WARING", "ERROR", "NODATA"}

Tx == [row : {0, 1}, gone : 0 .. MaxNotes, copied : SUBSET Files]

(* What a transaction is made of.                                          *)
LEMMA TxFacts ==
  /\ NoTx \in Tx /\ NoTx.gone = 0 /\ NoTx.copied = {} /\ NoTx.row = 0
  /\ \A t \in Tx : [t EXCEPT !.row = 1] \in Tx
  /\ \A t \in Tx, S \in SUBSET Files : [t EXCEPT !.copied = S] \in Tx
  /\ \A n \in 0 .. MaxNotes : [NoTx EXCEPT !.gone = n] \in Tx
  BY AtmAssumption DEF Tx, NoTx

(* A file that can be claimed has a name, and so have its keys.            *)
LEMMA KeyFacts ==
  \A f \in Files : /\ f # None /\ f \in Keys
                  /\ Business[f] # None /\ Business[f] \in Keys
  BY AtmAssumption DEF Keys

(* The initial state satisfies the invariant.                              *)
LEMMA InitInv == Init => Inv
  <1> SUFFICES ASSUME Init
               PROVE  Inv
    OBVIOUS
  <1> USE AtmAssumption DEF Init
  <1>1. TypeOK
    BY TxFacts DEF TypeOK, Tx
  <1>2. OwnClaim /\ OwnSession /\ DeletedRows
    BY TxFacts DEF OwnClaim, OwnSession, DeletedRows, Keyed, Written
  <1>3. NotesCounted /\ NotesOnce /\ SucessStored /\ HandledStored
    BY DEF NotesCounted, NotesOnce, SucessStored, HandledStored, Unsaved
  <1>4. QED
    BY <1>1, <1>2, <1>3 DEF Inv

(* A commit adds a copy of the notes it covers, and leaves enough rows in  *)
(* the list for the others that have deleted some.                         *)
LEMMA Published ==
  ASSUME Inv, NEW h \in Handlers, key[h] # None, Publish(h)
  PROVE  /\ listed' \in [Keys -> 0 .. MaxNotes] /\ notes' \in [Files -> 0 .. MaxNotes]
         /\ tx' \in [Handlers -> Tx] /\ tx' = [tx EXCEPT ![h] = NoTx]
         /\ \A f \in Files : f \notin tx[h].copied => notes'[f] = notes[f]
         /\ \A f \in tx[h].copied : notes'[f] <= notes[f] + 1
         /\ \A f \in Files : notes'[f] >= notes[f]
         /\ \A f \in tx[h].copied : notes'[f] > 0
         /\ \A g \in Handlers \ {h} : tx[g].gone # 0 => tx[g].gone <= listed'[key[g]]
  <1> USE AtmAssumption DEF Inv, Publish
  <1>1. tx[h] \in Tx /\ tx[h].gone \in 0 .. MaxNotes /\ tx[h].row \in {0, 1}
        /\ tx[h].copied \subseteq Files
    BY DEF TypeOK, Tx
  <1>2. key[h] \in Keys /\ listed[key[h]] \in 0 .. MaxNotes
    BY DEF TypeOK
  <1>3. tx[h].gone <= listed[key[h]]
    BY <1>1, <1>2 DEF DeletedRows
  <1> DEFINE left == listed[key[h]] - tx[h].gone + tx[h].row
  <1>4. left \in Nat /\ (tx[h].gone = 0 => left >= listed[key[h]])
    BY <1>1, <1>2, <1>3
  <1>5. listed' = [listed EXCEPT ![key[h]] = Capped(left)]
    BY <1>1 DEF TypeOK
  <1> HIDE DEF left
  <1>6. Capped(left) \in 0 .. MaxNotes /\ (tx[h].gone = 0 => Capped(left) >= listed[key[h]])
    BY <1>2, <1>4 DEF Capped
  <1>7. listed' \in [Keys -> 0 .. MaxNotes]
    BY <1>5, <1>6 DEF TypeOK
  <1>8. \A f \in Files : /\ notes[f] \in 0 .. MaxNotes
                        /\ Capped(notes[f] + 1) \in 0 .. MaxNotes
                        /\ Capped(notes[f] + 1) > 0
                        /\ Capped(notes[f] + 1) >= notes[f]
                        /\ Capped(notes[f] + 1) <= notes[f] + 1
    BY DEF TypeOK, Capped
  <1>9. tx' \in [Handlers -> Tx] /\ tx' = [tx EXCEPT ![h] = NoTx]
    BY TxFacts DEF TypeOK, Tx
  <1>10. ASSUME NEW g \in Handlers \ {h}, tx[g].gone # 0
         PROVE  tx[g].gone <= listed'[key[g]]
    <2>1. tx[g].gone <= listed[key[g]]
      BY <1>10 DEF DeletedRows
    <2>2. key[h] = key[g] => tx[h].gone = 0
      BY <1>10 DEF DeletedRows
    <2>3. CASE key[g] = key[h]
      BY <1>2, <1>5, <1>6, <2>1, <2>2, <2>3 DEF TypeOK
    <2>4. CASE key[g] # key[h]
      <3>1. listed'[key[g]] = listed[key[g]]
        BY <1>5, <2>4, <1>2 DEF TypeOK
      <3>2. QED
        BY <2>1, <3>1
    <2>5. QED
      BY <2>3, <2>4
  <1>11. \A f \in Files :
           notes'[f] = IF f \in tx[h].copied THEN Capped(notes[f] + 1) ELSE notes[f]
    OBVIOUS
  <1>12. notes' \in [Files -> 0 .. MaxNotes]
    BY <1>8, <1>11
  <1>13. \A f \in Files : notes'[f] >= notes[f]
    BY <1>8, <1>11
  <1>14. QED
    BY <1>1, <1>7, <1>8, <1>9, <1>10, <1>11, <1>12, <1>13
-----------------------------------------------------------------------------
(* A connection that breaks takes everything with it that was not committed.   *)
LEMMA BreakInv ==
  ASSUME Inv, NEW h \in Handlers, SessionBreaks(h)
  PROVE  Inv'
  <1> USE AtmAssumption, TxFacts, KeyFacts
      DEF Inv, TypeOK, Tx, dbVars, At, Goto, Result, Notice, SessionBreaks
  <1>1. TypeOK'
    OBVIOUS
  <1>2. OwnClaim'
    BY DEF OwnClaim
  <1>3. OwnSession'
    BY DEF OwnSession, Keyed, Written
  <1>4. DeletedRows'
    BY DEF DeletedRows
  <1>5. NotesCounted'
    BY DEF NotesCounted, Unsaved, Written
  <1>6. NotesOnce'
    BY DEF NotesOnce
  <1>7. SucessStored'
    BY DEF SucessStored
  <1>8. HandledStored'
    BY DEF HandledStored
  <1>9. QED
    BY <1>1, <1>2, <1>3, <1>4, <1>5, <1>6, <1>7, <1>8

(* Only a file that nobody has is taken.                                   *)
LEMMA TakeInv ==
  ASSUME Inv, NEW h \in Handlers, NEW f \in Files, Take(h, f)
  PROVE  Inv'
  <1> USE AtmAssumption, TxFacts, KeyFacts
      DEF Inv, TypeOK, Tx, dbVars, At, Goto, Result, Notice, Take
  <1>1. TypeOK'
    OBVIOUS
  <1>2. OwnClaim'
    BY DEF OwnClaim
  <1>3. OwnSession'
    BY DEF OwnSession, Keyed, Written
  <1>4. DeletedRows'
    BY DEF DeletedRows
  <1>5. NotesCounted'
    BY DEF NotesCounted, Unsaved, Written
  <1>6. NotesOnce'
    BY DEF NotesOnce
  <1>7. SucessStored'
    BY DEF SucessStored
  <1>8. HandledStored'
    BY DEF HandledStored
  <1>9. QED
    BY <1>1, <1>2, <1>3, <1>4, <1>5, <1>6, <1>7, <1>8

(* The look for the temporary table writes nothing.                        *)
LEMMA CreateInv ==
  ASSUME Inv, NEW h \in Handlers, CreateTemp(h)
  PROVE  Inv'
  <1> USE AtmAssumption, TxFacts, KeyFacts
      DEF Inv, TypeOK, Tx, dbVars, At, Goto, Result, Notice, CreateTemp
  <1>1. TypeOK'
    <2>1. \A g \in Handlers : pc'[g] \in {"idle", "test"} <=> file'[g] = None
      OBVIOUS
    <2>2. session' \in [Handlers -> {"ok", "broken", "lost"}]
      OBVIOUS
    <2>3. pc' \in [Handlers -> Places] /\ iRet' \in [Handlers -> Results]
      BY DEF Places, Results
    <2>4. tmp' \in [Handlers -> SUBSET Files] /\ key' \in [Handlers -> Keys \cup {None}]
      OBVIOUS
    <2>5. QED
      BY <2>1, <2>2, <2>3, <2>4 DEF Places, Results
  <1>2. OwnClaim'
    BY DEF OwnClaim
  <1>3. OwnSession'
    BY DEF OwnSession, Keyed, Written
  <1>4. DeletedRows'
    BY DEF DeletedRows
  <1>5. NotesCounted'
    BY DEF NotesCounted, Unsaved, Written
  <1>6. NotesOnce'
    BY DEF NotesOnce
  <1>7. SucessStored'
    BY DEF SucessStored
  <1>8. HandledStored'
    BY DEF HandledStored
  <1>9. QED
    BY <1>1, <1>2, <1>3, <1>4, <1>5, <1>6, <1>7, <1>8

(* A name gives a key, its own or one that is nobody's.                    *)
LEMMA NameInv ==
  ASSUME Inv, NEW h \in Handlers, ReadAtmFileName(h)
  PROVE  Inv'
  <1> USE AtmAssumption, TxFacts, KeyFacts
      DEF Inv, TypeOK, Tx, dbVars, At, Goto, Result, Notice, ReadAtmFileName
  <1>1. file[h] \in Files
    OBVIOUS
  <1>2. TypeOK'
    <2>1. \A g \in Handlers : pc'[g] \in {"idle", "test"} <=> file'[g] = None
      OBVIOUS
    <2>2. session' \in [Handlers -> {"ok", "broken", "lost"}]
      OBVIOUS
    <2>3. pc' \in [Handlers -> Places] /\ iRet' \in [Handlers -> Results]
      BY DEF Places, Results
    <2>4. tmp' \in [Handlers -> SUBSET Files] /\ key' \in [Handlers -> Keys \cup {None}]
      BY <1>1
    <2>5. QED
      BY <2>1, <2>2, <2>3, <2>4 DEF Places, Results
  <1>3. OwnClaim'
    BY <1>1 DEF OwnClaim
  <1>4. OwnSession'
    BY <1>1 DEF OwnSession, Keyed, Written
  <1>5. DeletedRows'
    <2>1. tx' = tx /\ tx[h].gone = 0 /\ UNCHANGED listed
      BY DEF OwnSession, Written
    <2>2. \A g \in Handlers \ {h} : key'[g] = key[g] /\ pc'[g] = pc[g]
      OBVIOUS
    <2>3. QED
      BY <2>1, <2>2 DEF DeletedRows
  <1>6. NotesCounted'
    BY <1>1 DEF NotesCounted, Unsaved, Written
  <1>7. NotesOnce'
    BY <1>1 DEF NotesOnce
  <1>8. SucessStored'
    BY <1>1 DEF SucessStored
  <1>9. HandledStored'
    BY <1>1 DEF HandledStored
  <1>10. QED
    BY <1>2, <1>3, <1>4, <1>5, <1>6, <1>7, <1>8, <1>9

(* The look for a duplicate writes nothing.                                *)
LEMMA CheckInv ==
  ASSUME Inv, NEW h \in Handlers, CheckDuplicate(h)
  PROVE  Inv'
  <1> USE AtmAssumption, TxFacts, KeyFacts
      DEF Inv, TypeOK, Tx, dbVars, At, Goto, Result, Notice, CheckDuplicate
  <1>1. TypeOK'
    <2>1. \A g \in Handlers : pc'[g] \in {"idle", "test"} <=> file'[g] = None
      OBVIOUS
    <2>2. session' \in [Handlers -> {"ok", "broken", "lost"}]
      OBVIOUS
    <2>3. pc' \in [Handlers -> Places] /\ iRet' \in [Handlers -> Results]
      BY DEF Places, Results
    <2>4. tmp' \in [Handlers -> SUBSET Files] /\ key' \in [Handlers -> Keys \cup {None}]
      OBVIOUS
    <2>5. QED
      BY <2>1, <2>2, <2>3, <2>4 DEF Places, Results
  <1>2. OwnClaim'
    BY DEF OwnClaim
  <1>3. OwnSession'
    BY DEF OwnSession, Keyed, Written
  <1>4. DeletedRows'
    BY DEF DeletedRows
  <1>5. NotesCounted'
    BY DEF NotesCounted, Unsaved, Written
  <1>6. NotesOnce'
    BY DEF NotesOnce
  <1>7. SucessStored'
    BY DEF SucessStored
  <1>8. HandledStored'
    BY DEF HandledStored
  <1>9. QED
    BY <1>1, <1>2, <1>3, <1>4, <1>5, <1>6, <1>7, <1>8

(* The temporary table was empty, and gets the notes of this file or none. *)
LEMMA LoadInv ==
  ASSUME Inv, NEW h \in Handlers, LoadTemp(h)
  PROVE  Inv'
  <1> USE AtmAssumption, TxFacts, KeyFacts
      DEF Inv, TypeOK, Tx, dbVars, At, Goto, Result, Notice, LoadTemp, InsertTemp
  <1>1. file[h] \in Files
    OBVIOUS
  <1>2. TypeOK'
    <2>1. \A g \in Handlers : pc'[g] \in {"idle", "test"} <=> file'[g] = None
      OBVIOUS
    <2>2. session' \in [Handlers -> {"ok", "broken", "lost"}]
      <3>1. /\ pc[h] = "load" /\ file' = file
            /\ \E p \in {"insert", "truncate"} : pc' = [pc EXCEPT ![h] = p]
        OBVIOUS
      <3>2. QED
        BY <3>1
    <2>3. pc' \in [Handlers -> Places] /\ iRet' \in [Handlers -> Results]
      BY DEF Places, Results
    <2>4. tmp' \in [Handlers -> SUBSET Files] /\ key' \in [Handlers -> Keys \cup {None}]
      <3>1. \A S \in SUBSET Files : [tmp EXCEPT ![h] = S] \in [Handlers -> SUBSET Files]
        OBVIOUS
      <3>2. tmp[h] \cup {file[h]} \in SUBSET Files /\ {} \in SUBSET Files
        BY <1>1
      <3>3. \/ UNCHANGED tmp \/ tmp' = [tmp EXCEPT ![h] = {}]
            \/ tmp' = [tmp EXCEPT ![h] = tmp[h] \cup {file[h]}]
        OBVIOUS
      <3>4. QED
        BY <3>1, <3>2, <3>3
    <2>5. QED
      BY <2>1, <2>2, <2>3, <2>4 DEF Places, Results
  <1>3. OwnClaim'
    BY <1>1 DEF OwnClaim
  <1>4. OwnSession'
    BY <1>1 DEF OwnSession, Keyed, Written
  <1>5. DeletedRows'
    BY <1>1 DEF DeletedRows
  <1>6. NotesCounted'
    BY <1>1 DEF NotesCounted, Unsaved, Written
  <1>7. NotesOnce'
    BY <1>1 DEF NotesOnce
  <1>8. SucessStored'
    <2>1. pc'[h] \in {"insert", "truncate"} /\ (pc'[h] = "truncate" => iRet'[h] # "SUCESS")
      OBVIOUS
    <2>2. \A g \in Handlers \ {h} : iRet'[g] = iRet[g] /\ pc'[g] = pc[g]
      OBVIOUS
    <2>3. QED
      BY <2>1, <2>2 DEF SucessStored
  <1>9. HandledStored'
    BY <1>1 DEF HandledStored
  <1>10. QED
    BY <1>2, <1>3, <1>4, <1>5, <1>6, <1>7, <1>8, <1>9

-----------------------------------------------------------------------------
(* The codes of the statements: one of them is a success.               *)
LEMMA CodeFacts ==
  \A code \in {0, 1403, 1688, 2112, 12899, 3113, 3114} :
    /\ JudgeSqlExecResultLocal(code) \in Results
    /\ code = 0 <=> JudgeSqlExecResultLocal(code) = "SUCESS"
  BY DEF JudgeSqlExecResultLocal, Results

(* A statement does not make or break a connection, it may notice a loss.  *)
LEMMA NoticeFacts ==
  ASSUME Inv, NEW h \in Handlers, Notice(h)
  PROVE  /\ session' \in [Handlers -> {"ok", "broken", "lost"}]
         /\ \A g \in Handlers : session'[g] = "ok" <=> session[g] = "ok"
  BY DEF Inv, TypeOK, Notice

(* The row of the business is the session's own.                           *)
LEMMA InsertInv ==
  ASSUME Inv, NEW h \in Handlers, InsertBusiness(h)
  PROVE  Inv'
  <1> USE AtmAssumption, TxFacts, KeyFacts DEF Inv, TypeOK, Tx
  <1> DEFINE row  == [tx[h] EXCEPT !.row = 1]
             well == {0} \cup Space
  <1>0. Statement(h, "insert", well, [tx |-> row, pc |-> "select", else |-> "truncate"])
    BY DEF InsertBusiness
  <1> HIDE DEF row, well
  <1>1. PICK code \in Codes(h, well) :
          /\ iRet' = [iRet EXCEPT ![h] = JudgeSqlExecResultLocal(code)]
          /\ tx' = [tx EXCEPT ![h] = IF code = 0 THEN row ELSE @]
          /\ pc' = [pc EXCEPT ![h] = IF code = 0 THEN "select" ELSE "truncate"]
    BY <1>0 DEF Statement, Result, Goto
  <1>2. /\ code \in {0, 1403, 1688, 2112, 12899, 3113, 3114}
        /\ code = 0 => session[h] = "ok"
    BY DEF well, Codes, Space
  <1>3. /\ JudgeSqlExecResultLocal(code) \in Results
        /\ code = 0 <=> JudgeSqlExecResultLocal(code) = "SUCESS"
    BY <1>2, CodeFacts
  <1>4. pc[h] = "insert" /\ Notice(h) /\ UNCHANGED <<place, listed, notes, tmp, file, key, kills>>
    BY <1>0 DEF Statement, At
  <1>5. /\ session' \in [Handlers -> {"ok", "broken", "lost"}]
        /\ \A g \in Handlers : session'[g] = "ok" <=> session[g] = "ok"
    BY <1>4, NoticeFacts
  <1>6. row \in Tx /\ row.gone = 0 /\ row.copied = {}
    <2>1. tx[h] \in Tx /\ tx[h].gone = 0 /\ tx[h].copied = {} /\ tmp[h] \in SUBSET Files
      BY <1>4 DEF OwnSession, DeletedRows
    <2>2. QED
      BY <2>1 DEF row
  <1>7. TypeOK'
    <2>1. tx' \in [Handlers -> Tx]
      BY <1>1, <1>6
    <2>2. iRet' \in [Handlers -> Results] /\ pc' \in [Handlers -> Places]
      BY <1>1, <1>3 DEF Results, Places
    <2>3. QED
      BY <1>1, <1>4, <1>5, <2>1, <2>2 DEF Results, Places
  <1>8. OwnClaim'
    BY <1>1, <1>4 DEF OwnClaim
  <1>9. OwnSession'
    BY <1>1, <1>2, <1>4, <1>5, <1>6 DEF OwnSession, Keyed, Written
  <1>10. DeletedRows'
    <2>1. \A g \in Handlers : tx'[g].gone # 0 => g # h /\ tx'[g] = tx[g] /\ pc'[g] = pc[g]
      BY <1>1, <1>4, <1>6 DEF DeletedRows
    <2>2. \A g \in Handlers : tx[g].gone = 0 => tx'[g].gone = 0
      BY <1>1, <1>6
    <2>3. QED
      BY <1>4, <2>1, <2>2 DEF DeletedRows
  <1>11. NotesCounted' /\ NotesOnce' /\ HandledStored'
    BY <1>1, <1>4 DEF NotesCounted, NotesOnce, HandledStored, Unsaved
  <1>12. SucessStored'
    <2>1. iRet'[h] = "SUCESS" => pc'[h] = "select"
      BY <1>1, <1>3
    <2>2. \A g \in Handlers \ {h} : iRet'[g] = iRet[g] /\ pc'[g] = pc[g]
      BY <1>1
    <2>3. \A g \in Handlers : iRet'[g] = "SUCESS" =>
            \/ g = h /\ pc'[g] = "select"
            \/ g # h /\ iRet[g] = "SUCESS" /\ pc'[g] = pc[g]
      BY <2>1, <2>2
    <2>4. UNCHANGED <<notes, file>>
      BY <1>4
    <2>5. QED
      BY <2>3, <2>4 DEF SucessStored
  <1>13. QED
    BY <1>7, <1>8, <1>9, <1>10, <1>11, <1>12

(* The select of the id writes nothing.                                    *)
LEMMA SelectInv ==
  ASSUME Inv, NEW h \in Handlers, SelectBusiness(h)
  PROVE  Inv'
  <1> USE AtmAssumption, TxFacts, KeyFacts DEF Inv, TypeOK, Tx
  <1> DEFINE row  == tx[h]
             well == {IF Visible(h) > 1 THEN 2112 ELSE 0}
  <1>0. Statement(h, "select", well, [tx |-> row, pc |-> "copy", else |-> "truncate"])
    BY DEF SelectBusiness
  <1> HIDE DEF row, well
  <1>1. PICK code \in Codes(h, well) :
          /\ iRet' = [iRet EXCEPT ![h] = JudgeSqlExecResultLocal(code)]
          /\ tx' = [tx EXCEPT ![h] = IF code = 0 THEN row ELSE @]
          /\ pc' = [pc EXCEPT ![h] = IF code = 0 THEN "copy" ELSE "truncate"]
    BY <1>0 DEF Statement, Result, Goto
  <1>2. /\ code \in {0, 1403, 1688, 2112, 12899, 3113, 3114}
        /\ code = 0 => session[h] = "ok"
    BY DEF well, Codes, Space
  <1>3. /\ JudgeSqlExecResultLocal(code) \in Results
        /\ code = 0 <=> JudgeSqlExecResultLocal(code) = "SUCESS"
    BY <1>2, CodeFacts
  <1>4. pc[h] = "select" /\ Notice(h) /\ UNCHANGED <<place, listed, notes, tmp, file, key, kills>>
    BY <1>0 DEF Statement, At
  <1>5. /\ session' \in [Handlers -> {"ok", "broken", "lost"}]
        /\ \A g \in Handlers : session'[g] = "ok" <=> session[g] = "ok"
    BY <1>4, NoticeFacts
  <1>6. row \in Tx /\ row.gone = 0 /\ row.copied = {}
    <2>1. tx[h] \in Tx /\ tx[h].gone = 0 /\ tx[h].copied = {} /\ tmp[h] \in SUBSET Files
      BY <1>4 DEF OwnSession, DeletedRows
    <2>2. QED
      BY <2>1 DEF row
  <1>7. TypeOK'
    <2>1. tx' \in [Handlers -> Tx]
      BY <1>1, <1>6
    <2>2. iRet' \in [Handlers -> Results] /\ pc' \in [Handlers -> Places]
      BY <1>1, <1>3 DEF Results, Places
    <2>3. QED
      BY <1>1, <1>4, <1>5, <2>1, <2>2 DEF Results, Places
  <1>8. OwnClaim'
    BY <1>1, <1>4 DEF OwnClaim
  <1>9. OwnSession'
    BY <1>1, <1>2, <1>4, <1>5, <1>6 DEF OwnSession, Keyed, Written
  <1>10. DeletedRows'
    <2>1. \A g \in Handlers : tx'[g].gone # 0 => g # h /\ tx'[g] = tx[g] /\ pc'[g] = pc[g]
      BY <1>1, <1>4, <1>6 DEF DeletedRows
    <2>2. \A g \in Handlers : tx[g].gone = 0 => tx'[g].gone = 0
      BY <1>1, <1>6
    <2>3. QED
      BY <1>4, <2>1, <2>2 DEF DeletedRows
  <1>11. NotesCounted' /\ NotesOnce' /\ HandledStored'
    BY <1>1, <1>4 DEF NotesCounted, NotesOnce, HandledStored, Unsaved
  <1>12. SucessStored'
    <2>1. iRet'[h] = "SUCESS" => pc'[h] = "copy"
      BY <1>1, <1>3
    <2>2. \A g \in Handlers \ {h} : iRet'[g] = iRet[g] /\ pc'[g] = pc[g]
      BY <1>1
    <2>3. \A g \in Handlers : iRet'[g] = "SUCESS" =>
            \/ g = h /\ pc'[g] = "copy"
            \/ g # h /\ iRet[g] = "SUCESS" /\ pc'[g] = pc[g]
      BY <2>1, <2>2
    <2>4. UNCHANGED <<notes, file>>
      BY <1>4
    <2>5. QED
      BY <2>3, <2>4 DEF SucessStored
  <1>13. QED
    BY <1>7, <1>8, <1>9, <1>10, <1>11, <1>12

(* What is copied is what is in the temporary table: notes of this file.   *)
LEMMA CopyInv ==
  ASSUME Inv, NEW h \in Handlers, FromTmpToAtm(h)
  PROVE  Inv'
  <1> USE AtmAssumption, TxFacts, KeyFacts DEF Inv, TypeOK, Tx
  <1> DEFINE row  == [tx[h] EXCEPT !.copied = tmp[h]]
             well == {IF tmp[h] = {} THEN 1403 ELSE 0, 12899} \cup Space
  <1>0. Statement(h, "copy", well, [tx |-> row, pc |-> "commit", else |-> "delete"])
    BY DEF FromTmpToAtm
  <1> HIDE DEF row, well
  <1>1. PICK code \in Codes(h, well) :
          /\ iRet' = [iRet EXCEPT ![h] = JudgeSqlExecResultLocal(code)]
          /\ tx' = [tx EXCEPT ![h] = IF code = 0 THEN row ELSE @]
          /\ pc' = [pc EXCEPT ![h] = IF code = 0 THEN "commit" ELSE "delete"]
    BY <1>0 DEF Statement, Result, Goto
  <1>2. /\ code \in {0, 1403, 1688, 2112, 12899, 3113, 3114}
        /\ code = 0 => session[h] = "ok" /\ tmp[h] # {}
    BY DEF well, Codes, Space
  <1>3. /\ JudgeSqlExecResultLocal(code) \in Results
        /\ code = 0 <=> JudgeSqlExecResultLocal(code) = "SUCESS"
    BY <1>2, CodeFacts
  <1>4. pc[h] = "copy" /\ Notice(h) /\ UNCHANGED <<place, listed, notes, tmp, file, key, kills>>
    BY <1>0 DEF Statement, At
  <1>5. /\ session' \in [Handlers -> {"ok", "broken", "lost"}]
        /\ \A g \in Handlers : session'[g] = "ok" <=> session[g] = "ok"
    BY <1>4, NoticeFacts
  <1>6. row \in Tx /\ row.gone = 0 /\ row.copied = tmp[h]
    <2>1. tx[h] \in Tx /\ tx[h].gone = 0 /\ tx[h].copied = {} /\ tmp[h] \in SUBSET Files
      BY <1>4 DEF OwnSession, DeletedRows
    <2>2. QED
      BY <2>1 DEF row
  <1>7. TypeOK'
    <2>1. tx' \in [Handlers -> Tx]
      BY <1>1, <1>6
    <2>2. iRet' \in [Handlers -> Results] /\ pc' \in [Handlers -> Places]
      BY <1>1, <1>3 DEF Results, Places
    <2>3. QED
      BY <1>1, <1>4, <1>5, <2>1, <2>2 DEF Results, Places
  <1>8. OwnClaim'
    BY <1>1, <1>4 DEF OwnClaim
  <1>9. OwnSession'
    BY <1>1, <1>2, <1>4, <1>5, <1>6 DEF OwnSession, Keyed, Written
  <1>10. DeletedRows'
    <2>1. \A g \in Handlers : tx'[g].gone # 0 => g # h /\ tx'[g] = tx[g] /\ pc'[g] = pc[g]
      BY <1>1, <1>4, <1>6 DEF DeletedRows
    <2>2. \A g \in Handlers : tx[g].gone = 0 => tx'[g].gone = 0
      BY <1>1, <1>6
    <2>3. QED
      BY <1>4, <2>1, <2>2 DEF DeletedRows
  <1>11. NotesCounted' /\ NotesOnce' /\ HandledStored'
    BY <1>1, <1>4 DEF NotesCounted, NotesOnce, HandledStored, Unsaved
  <1>12. SucessStored'
    <2>1. iRet'[h] = "SUCESS" => pc'[h] = "commit"
      BY <1>1, <1>3
    <2>2. \A g \in Handlers \ {h} : iRet'[g] = iRet[g] /\ pc'[g] = pc[g]
      BY <1>1
    <2>3. \A g \in Handlers : iRet'[g] = "SUCESS" =>
            \/ g = h /\ pc'[g] = "commit"
            \/ g # h /\ iRet[g] = "SUCESS" /\ pc'[g] = pc[g]
      BY <2>1, <2>2
    <2>4. UNCHANGED <<notes, file>>
      BY <1>4
    <2>5. QED
      BY <2>3, <2>4 DEF SucessStored
  <1>13. QED
    BY <1>7, <1>8, <1>9, <1>10, <1>11, <1>12

-----------------------------------------------------------------------------
(* What the invariant says of one handler.                                 *)
LEMMA HandlerFacts ==
  ASSUME Inv, NEW h \in Handlers
  PROVE  /\ pc[h] \notin {"idle", "test"} => file[h] \in Files
         /\ pc[h] \in Keyed => key[h] # None /\ key[h] \in Keys /\ listed[key[h]] \in 0 .. MaxNotes
         /\ tx[h] \in Tx /\ tx[h].copied \subseteq {file[h]}
         /\ pc[h] # "commit" => tx[h].copied = {}
         /\ pc[h] # "commit2" => tx[h].gone = 0
         /\ session[h] # "ok" => tx[h] = NoTx /\ tmp[h] = {}
  <1> USE DEF Inv
  <1>1. pc[h] \notin {"idle", "test"} => file[h] \in Files
    BY DEF TypeOK
  <1>2. pc[h] \in Keyed => key[h] # None /\ key[h] \in Keys /\ listed[key[h]] \in 0 .. MaxNotes
    BY DEF TypeOK, OwnSession
  <1>3. tx[h] \in Tx
    BY DEF TypeOK, Tx
  <1>4. /\ session[h] # "ok" => tx[h] = NoTx /\ tmp[h] = {}
        /\ tx[h].copied \subseteq {file[h]}
        /\ pc[h] # "commit" => tx[h].copied = {}
    BY DEF OwnSession
  <1>5. pc[h] # "commit2" => tx[h].gone = 0
    BY DEF DeletedRows
  <1>6. QED
    BY <1>1, <1>2, <1>3, <1>4, <1>5

(* The commit stores what the session has copied, and nothing else does.    *)
LEMMA CommitInv ==
  ASSUME Inv, NEW h \in Handlers, DbsCommit(h)
  PROVE  Inv'
  <1> USE AtmAssumption, TxFacts, KeyFacts
      DEF Inv, TypeOK, Tx, At, Goto, Result
  <1>1. /\ pc[h] = "commit" /\ key[h] # None /\ file[h] \in Files
        /\ tx[h].copied \subseteq {file[h]} /\ tx[h].gone = 0
    <2>1. pc[h] = "commit"
      BY DEF DbsCommit
    <2>2. QED
      BY <2>1, HandlerFacts DEF Keyed
  <1>2. Publish(h) =>
          /\ listed' \in [Keys -> 0 .. MaxNotes] /\ notes' \in [Files -> 0 .. MaxNotes]
          /\ tx' \in [Handlers -> Tx] /\ tx' = [tx EXCEPT ![h] = NoTx]
          /\ \A f \in Files : f \notin tx[h].copied => notes'[f] = notes[f]
          /\ \A f \in tx[h].copied : notes'[f] <= notes[f] + 1 /\ notes'[f] > 0
          /\ \A f \in Files : notes'[f] >= notes[f]
          /\ \A g \in Handlers \ {h} : tx[g].gone # 0 => tx[g].gone <= listed'[key[g]]
    BY <1>1, Published
  <1>3. /\ pc' = [pc EXCEPT ![h] = "truncate"] /\ UNCHANGED <<place, file, key, kills>>
        /\ tmp' = tmp \/ tmp' = [tmp EXCEPT ![h] = {}]
        /\ \E r \in Results : iRet' = [iRet EXCEPT ![h] = r]
        /\ \E st \in {"ok", "broken", "lost"} : session' = [session EXCEPT ![h] = st]
        /\ session'[h] # "ok" => tmp'[h] = {}
    <2>1. JudgeSqlExecResultLocal(3113) \in Results /\ JudgeSqlExecResultLocal(3114) \in Results
      BY CodeFacts
    <2>2. session[h] # "ok" => tmp[h] = {}
      BY DEF OwnSession
    <2>3. QED
      BY <2>1, <2>2 DEF DbsCommit, Codes, Notice, Results
  <1>4. \/ session[h] = "ok" /\ Publish(h) /\ iRet'[h] # "WARING"
        \/ UNCHANGED <<listed, notes>> /\ tx' = [tx EXCEPT ![h] = NoTx] /\ iRet'[h] # "SUCESS"
    <2>1. session[h] # "ok" => tx[h] = NoTx
      BY DEF OwnSession
    <2>2. JudgeSqlExecResultLocal(3113) = "ERROR" /\ JudgeSqlExecResultLocal(3114) = "WARING"
      BY Judged
    <2>3. QED
      BY <2>1, <2>2 DEF DbsCommit, Codes
  <1>5. /\ tx' \in [Handlers -> Tx] /\ tx' = [tx EXCEPT ![h] = NoTx]
        /\ listed' \in [Keys -> 0 .. MaxNotes] /\ notes' \in [Files -> 0 .. MaxNotes]
        /\ \A f \in Files : f # file[h] => notes'[f] = notes[f]
        /\ notes'[file[h]] <= notes[file[h]] + 1 /\ notes'[file[h]] >= notes[file[h]]
        /\ \A g \in Handlers \ {h} : tx[g].gone # 0 => tx[g].gone <= listed'[key[g]]
    <2>1. notes[file[h]] <= notes[file[h]] + 1 /\ notes[file[h]] >= notes[file[h]]
      BY <1>1
    <2>2. \A g \in Handlers : tx[g].gone # 0 => tx[g].gone <= listed[key[g]]
      BY DEF DeletedRows
    <2>3. CASE UNCHANGED <<listed, notes>> /\ tx' = [tx EXCEPT ![h] = NoTx]
      BY <2>1, <2>2, <2>3
    <2>4. CASE Publish(h)
      <3>1. \A f \in Files : f # file[h] => f \notin tx[h].copied
        BY <1>1
      <3>2. notes'[file[h]] <= notes[file[h]] + 1
        <4>1. file[h] \notin tx[h].copied => notes'[file[h]] = notes[file[h]]
          BY <1>1, <1>2, <2>4
        <4>2. file[h] \in tx[h].copied => notes'[file[h]] <= notes[file[h]] + 1
          BY <1>1, <1>2, <2>4
        <4>3. QED
          BY <2>1, <4>1, <4>2
      <3>3. QED
        BY <1>1, <1>2, <2>4, <3>1, <3>2
    <2>5. QED
      BY <1>4, <2>3, <2>4
  <1>6. /\ iRet'[h] = "SUCESS" => notes'[file[h]] > 0
        /\ iRet'[h] = "WARING" => notes' = notes
    <2>1. session[h] = "ok" => tx[h].copied = {file[h]}
      BY <1>1 DEF OwnSession
    <2>2. QED
      BY <1>2, <1>4, <2>1
  <1>7. /\ notes[file[h]] <= kills /\ place[file[h]] = "claimed"
        /\ \A g \in Handlers \ {h} : file[g] # file[h]
    BY <1>1 DEF NotesCounted, OwnClaim, Unsaved
  <1>8. TypeOK'
    <2>1. iRet' \in [Handlers -> Results] /\ pc' \in [Handlers -> Places]
          /\ session' \in [Handlers -> {"ok", "broken", "lost"}] /\ tmp' \in [Handlers -> SUBSET Files]
      BY <1>3, SMTT(30) DEF Results, Places
    <2>2. \A g \in Handlers : pc'[g] \in {"idle", "test"} <=> file'[g] = None
      BY <1>1, <1>3
    <2>3. QED
      BY <1>3, <1>5, <2>1, <2>2 DEF Results, Places
  <1>9. OwnClaim'
    BY <1>1, <1>3, <1>5, <1>6, <1>7 DEF OwnClaim
  <1>10. OwnSession'
    BY <1>1, <1>3, <1>5, <1>6, <1>7 DEF OwnSession, Keyed, Written
  <1>11. DeletedRows'
    <2>1. \A g \in Handlers : tx'[g].gone # 0 => g # h /\ tx'[g] = tx[g] /\ pc'[g] = pc[g]
      BY <1>1, <1>3, <1>5 DEF DeletedRows
    <2>2. \A g \in Handlers : tx[g].gone = 0 => tx'[g].gone = 0
      BY <1>5
    <2>3. QED
      BY <2>1, <2>2, <1>3, <1>5 DEF DeletedRows
  <1>12. NotesCounted'
    <2>1. \A f \in Files : place'[f] \in {"in", "none"} => f # file[h] /\ place[f] \in {"in", "none"}
      BY <1>3, <1>7
    <2>2. \A g \in Handlers \ {h} : /\ file'[g] # None => file'[g] \in Files /\ file'[g] # file[h]
                                   /\ file'[g] = file[g] /\ pc'[g] = pc[g] /\ iRet'[g] = iRet[g]
      BY <1>3, <1>7
    <2>3. iRet'[h] = "WARING" => notes'[file'[h]] <= kills'
      BY <1>3, <1>6, <1>7
    <2>4. pc'[h] \notin Unsaved
      BY <1>3 DEF Unsaved
    <2>5. kills' = kills
      BY <1>3
    <2>6. QED
      BY <1>5, <2>1, <2>2, <2>3, <2>4, <2>5 DEF NotesCounted
  <1>13. NotesOnce'
    <2>1. kills \in Nat /\ notes[file[h]] \in Nat /\ notes'[file[h]] \in Nat
      BY <1>1, <1>5
    <2>2. notes'[file[h]] <= 1 + kills
      BY <1>5, <1>7, <2>1
    <2>3. QED
      BY <1>3, <1>5, <2>2 DEF NotesOnce
  <1>14. SucessStored'
    BY <1>1, <1>3, <1>5, <1>6, <1>7 DEF SucessStored
  <1>15. HandledStored'
    <2>1. \A f \in Files : place'[f] = "handled" => f # file[h] /\ place[f] = "handled"
      BY <1>3, <1>7
    <2>2. QED
      BY <1>5, <2>1 DEF HandledStored
  <1>16. QED
    BY <1>8, <1>9, <1>10, <1>11, <1>12, <1>13, <1>14, <1>15

(* Rows of the business are deleted by one session at a time.              *)
LEMMA DeleteInv ==
  ASSUME Inv, NEW h \in Handlers, DeleteBusiness(h)
  PROVE  Inv'
  <1> USE AtmAssumption, TxFacts, KeyFacts
      DEF Inv, TypeOK, Tx, At, Goto, Result
  <1>1. /\ pc[h] = "delete" /\ key[h] # None /\ listed[key[h]] \in 0 .. MaxNotes
        /\ tx[h].copied = {} /\ tx[h].gone = 0
        /\ \A g \in Handlers \ {h} : key[g] = key[h] => tx[g].gone = 0
    <2>1. /\ pc[h] = "delete"
          /\ \A g \in Handlers \ {h} : key[g] = key[h] => tx[g].gone = 0
      BY DEF DeleteBusiness
    <2>2. QED
      BY <2>1, HandlerFacts DEF Keyed
  <1>2. PICK row \in Tx : /\ tx' = [tx EXCEPT ![h] = row]
                          /\ row.gone <= listed[key[h]] /\ row.copied = {}
                          /\ session[h] # "ok" => row = NoTx
    <2>1. [NoTx EXCEPT !.gone = listed[key[h]]] \in Tx /\ tx[h] \in Tx
      BY <1>1
    <2>2. /\ [NoTx EXCEPT !.gone = listed[key[h]]].gone = listed[key[h]]
          /\ [NoTx EXCEPT !.gone = listed[key[h]]].copied = {}
      BY DEF NoTx
    <2>3. session[h] # "ok" => tx[h] = NoTx
      BY DEF OwnSession
    <2>4. CASE session[h] = "ok"
      <3> DEFINE row == [NoTx EXCEPT !.gone = listed[key[h]]]
      <3>1. tx' = [tx EXCEPT ![h] = row]
        BY <2>4 DEF DeleteBusiness
      <3>2. row \in Tx /\ row.gone <= listed[key[h]] /\ row.copied = {}
        <4>1. listed[key[h]] <= listed[key[h]]
          BY <1>1
        <4>2. QED
          BY <2>1, <2>2, <4>1
      <3> HIDE DEF row
      <3>3. QED
        BY <2>4, <3>1, <3>2
    <2>5. CASE session[h] # "ok"
      <3>1. tx' = [tx EXCEPT ![h] = tx[h]]
        BY <2>5 DEF DeleteBusiness
      <3>2. tx[h].gone <= listed[key[h]]
        BY <1>1
      <3>3. QED
        BY <1>1, <2>1, <2>3, <2>5, <3>1, <3>2
    <2>6. QED
      BY <2>4, <2>5
  <1>3. /\ pc' = [pc EXCEPT ![h] = "commit2"] /\ Notice(h)
        /\ UNCHANGED <<place, listed, notes, tmp, file, key, iRet, kills>>
    BY DEF DeleteBusiness
  <1>4. /\ session' \in [Handlers -> {"ok", "broken", "lost"}]
        /\ \A g \in Handlers : session'[g] = "ok" <=> session[g] = "ok"
    BY <1>3, NoticeFacts
  <1>5. TypeOK'
    <2>1. tx' \in [Handlers -> Tx] /\ pc' \in [Handlers -> Places]
      BY <1>2, <1>3 DEF Places
    <2>2. \A g \in Handlers : pc'[g] \in {"idle", "test"} <=> file'[g] = None
      BY <1>1, <1>3
    <2>3. QED
      BY <1>3, <1>4, <2>1, <2>2 DEF Places
  <1>6. OwnClaim'
    BY <1>1, <1>2, <1>3, <1>4 DEF OwnClaim
  <1>7. OwnSession'
    BY <1>1, <1>2, <1>3, <1>4 DEF OwnSession, Keyed, Written
  <1>8. DeletedRows'
    BY <1>1, <1>2, <1>3, <1>4 DEF DeletedRows
  <1>9. NotesCounted'
    BY <1>1, <1>2, <1>3, <1>4 DEF NotesCounted, Unsaved
  <1>10. NotesOnce'
    BY <1>1, <1>2, <1>3, <1>4 DEF NotesOnce
  <1>11. SucessStored'
    BY <1>1, <1>2, <1>3, <1>4 DEF SucessStored
  <1>12. HandledStored'
    BY <1>1, <1>2, <1>3, <1>4 DEF HandledStored
  <1>13. QED
    BY <1>5, <1>6, <1>7, <1>8, <1>9, <1>10, <1>11, <1>12

(* Nothing is copied when the deletion is committed.                       *)
LEMMA CommitDeleteInv ==
  ASSUME Inv, NEW h \in Handlers, CommitDelete(h)
  PROVE  Inv'
  <1> USE AtmAssumption, TxFacts, KeyFacts
      DEF Inv, TypeOK, Tx, At, Goto, Result
  <1>1. /\ pc[h] = "commit2" /\ key[h] # None /\ file[h] \in Files /\ tx[h].copied = {}
    <2>1. pc[h] = "commit2"
      BY DEF CommitDelete
    <2>2. QED
      BY <2>1, HandlerFacts DEF Keyed
  <1>2. Publish(h) =>
          /\ listed' \in [Keys -> 0 .. MaxNotes] /\ notes' \in [Files -> 0 .. MaxNotes]
          /\ tx' \in [Handlers -> Tx] /\ tx' = [tx EXCEPT ![h] = NoTx]
          /\ \A f \in Files : f \notin tx[h].copied => notes'[f] = notes[f]
          /\ \A f \in tx[h].copied : notes'[f] <= notes[f] + 1 /\ notes'[f] > 0
          /\ \A f \in Files : notes'[f] >= notes[f]
          /\ \A g \in Handlers \ {h} : tx[g].gone # 0 => tx[g].gone <= listed'[key[g]]
    BY <1>1, Published
  <1>3. /\ pc' = [pc EXCEPT ![h] = "truncate"] /\ Notice(h)
        /\ UNCHANGED <<place, file, key, iRet, kills>> /\ tmp' = tmp
    <2>1. session[h] # "ok" => tmp[h] = {}
      BY DEF OwnSession
    <2>2. QED
      BY <2>1 DEF CommitDelete
  <1>4. /\ session' \in [Handlers -> {"ok", "broken", "lost"}]
        /\ \A g \in Handlers : session'[g] = "ok" <=> session[g] = "ok"
    BY <1>3, NoticeFacts
  <1>5. /\ tx' \in [Handlers -> Tx] /\ tx' = [tx EXCEPT ![h] = NoTx]
        /\ listed' \in [Keys -> 0 .. MaxNotes] /\ notes' \in [Files -> 0 .. MaxNotes]
        /\ \A f \in Files : notes'[f] = notes[f]
        /\ \A g \in Handlers \ {h} : tx[g].gone # 0 => tx[g].gone <= listed'[key[g]]
    <2>1. session[h] # "ok" => tx[h] = NoTx
      BY DEF OwnSession
    <2>2. \A g \in Handlers : tx[g].gone # 0 => tx[g].gone <= listed[key[g]]
      BY DEF DeletedRows
    <2>3. CASE session[h] = "ok"
      BY <1>1, <1>2, <2>3 DEF CommitDelete
    <2>4. CASE session[h] # "ok"
      BY <2>1, <2>2, <2>4 DEF CommitDelete
    <2>5. QED
      BY <2>3, <2>4
  <1>6. TypeOK'
    BY <1>1, <1>3, <1>4, <1>5
  <1>7. OwnClaim'
    BY <1>1, <1>3, <1>4, <1>5 DEF OwnClaim
  <1>8. OwnSession'
    BY <1>1, <1>3, <1>4, <1>5 DEF OwnSession, Keyed, Written
  <1>9. DeletedRows'
    <2>1. \A g \in Handlers : tx'[g].gone # 0 => g # h /\ tx'[g] = tx[g] /\ pc'[g] = pc[g]
      BY <1>1, <1>3, <1>5 DEF DeletedRows
    <2>2. \A g \in Handlers : tx[g].gone = 0 => tx'[g].gone = 0
      BY <1>5
    <2>3. QED
      BY <2>1, <2>2, <1>3, <1>5 DEF DeletedRows
  <1>10. NotesCounted'
    BY <1>1, <1>3, <1>4, <1>5 DEF NotesCounted, Unsaved
  <1>11. NotesOnce'
    BY <1>1, <1>3, <1>4, <1>5 DEF NotesOnce
  <1>12. SucessStored'
    <2>1. iRet[h] # "SUCESS"
      BY <1>1 DEF SucessStored
    <2>2. UNCHANGED <<file, iRet>> /\ \A g \in Handlers \ {h} : pc'[g] = pc[g]
      BY <1>3
    <2>3. \A g \in Handlers : file[g] # None => notes'[file[g]] = notes[file[g]]
      BY <1>5
    <2>4. \A g \in Handlers : pc[g] \in {"truncate", "move", "move2"} => file[g] # None
      OBVIOUS
    <2>5. QED
      BY <2>1, <2>2, <2>3, <2>4 DEF SucessStored
  <1>13. HandledStored'
    BY <1>1, <1>3, <1>4, <1>5 DEF HandledStored
  <1>14. QED
    BY <1>6, <1>7, <1>8, <1>9, <1>10, <1>11, <1>12, <1>13

(* The truncate commits what there is, which is nothing copied.            *)
LEMMA TruncateInv ==
  ASSUME Inv, NEW h \in Handlers, TruncateTemp(h)
  PROVE  Inv'
  <1> USE AtmAssumption, TxFacts, KeyFacts
      DEF Inv, TypeOK, Tx, At, Goto, Result
  <1>1. /\ pc[h] = "truncate" /\ key[h] # None /\ file[h] \in Files /\ tx[h].copied = {}
    <2>1. pc[h] = "truncate"
      BY DEF TruncateTemp
    <2>2. QED
      BY <2>1, HandlerFacts DEF Keyed
  <1>2. Publish(h) =>
          /\ listed' \in [Keys -> 0 .. MaxNotes] /\ notes' \in [Files -> 0 .. MaxNotes]
          /\ tx' \in [Handlers -> Tx] /\ tx' = [tx EXCEPT ![h] = NoTx]
          /\ \A f \in Files : f \notin tx[h].copied => notes'[f] = notes[f]
          /\ \A f \in tx[h].copied : notes'[f] <= notes[f] + 1 /\ notes'[f] > 0
          /\ \A f \in Files : notes'[f] >= notes[f]
          /\ \A g \in Handlers \ {h} : tx[g].gone # 0 => tx[g].gone <= listed'[key[g]]
    BY <1>1, Published
  <1>3. /\ pc' = [pc EXCEPT ![h] = IF iRet[h] = "WARING" THEN "check" ELSE "move"] /\ Notice(h)
        /\ UNCHANGED <<place, file, key, iRet, kills>> /\ tmp' = [tmp EXCEPT ![h] = {}]
    <2>1. session[h] # "ok" => tmp[h] = {}
      BY DEF OwnSession
    <2>2. QED
      BY <2>1 DEF TruncateTemp
  <1>4. /\ session' \in [Handlers -> {"ok", "broken", "lost"}]
        /\ \A g \in Handlers : session'[g] = "ok" <=> session[g] = "ok"
    BY <1>3, NoticeFacts
  <1>5. /\ tx' \in [Handlers -> Tx] /\ tx' = [tx EXCEPT ![h] = NoTx]
        /\ listed' \in [Keys -> 0 .. MaxNotes] /\ notes' \in [Files -> 0 .. MaxNotes]
        /\ \A f \in Files : notes'[f] = notes[f]
        /\ \A g \in Handlers \ {h} : tx[g].gone # 0 => tx[g].gone <= listed'[key[g]]
    <2>1. session[h] # "ok" => tx[h] = NoTx
      BY DEF OwnSession
    <2>2. \A g \in Handlers : tx[g].gone # 0 => tx[g].gone <= listed[key[g]]
      BY DEF DeletedRows
    <2>3. CASE session[h] = "ok"
      BY <1>1, <1>2, <2>3 DEF TruncateTemp
    <2>4. CASE session[h] # "ok"
      BY <2>1, <2>2, <2>4 DEF TruncateTemp
    <2>5. QED
      BY <2>3, <2>4
  <1>6. TypeOK'
    BY <1>1, <1>3, <1>4, <1>5
  <1>7. OwnClaim'
    BY <1>1, <1>3, <1>4, <1>5 DEF OwnClaim
  <1>8. OwnSession'
    BY <1>1, <1>3, <1>4, <1>5 DEF OwnSession, Keyed, Written
  <1>9. DeletedRows'
    <2>1. \A g \in Handlers : tx'[g].gone # 0 => g # h /\ tx'[g] = tx[g] /\ pc'[g] = pc[g]
      BY <1>1, <1>3, <1>5 DEF DeletedRows
    <2>2. \A g \in Handlers : tx[g].gone = 0 => tx'[g].gone = 0
      BY <1>5
    <2>3. QED
      BY <2>1, <2>2, <1>3, <1>5 DEF DeletedRows
  <1>10. NotesCounted'
    BY <1>1, <1>3, <1>4, <1>5 DEF NotesCounted, Unsaved
  <1>11. NotesOnce'
    BY <1>1, <1>3, <1>4, <1>5 DEF NotesOnce
  <1>12. SucessStored'
    BY <1>1, <1>3, <1>4, <1>5 DEF SucessStored
  <1>13. HandledStored'
    BY <1>1, <1>3, <1>4, <1>5 DEF HandledStored
  <1>14. QED
    BY <1>6, <1>7, <1>8, <1>9, <1>10, <1>11, <1>12, <1>13

-----------------------------------------------------------------------------
(* Moving a file ends its claim; only one that is loaded becomes handled.  *)
LEMMA MoveInv ==
  ASSUME Inv, NEW h \in Handlers, MoveFSNFile(h)
  PROVE  Inv'
  <1> USE AtmAssumption, KeyFacts DEF Inv, TypeOK
  <1>1. /\ pc[h] \in {"move", "move2"} /\ file[h] \in Files /\ iRet[h] # "WARING"
        /\ iRet[h] = "SUCESS" => notes[file[h]] > 0
        /\ place[file[h]] = "claimed" /\ \A g \in Handlers \ {h} : file[g] # file[h]
    <2>1. pc[h] \in {"move", "move2"} /\ file[h] \in Files
      BY DEF MoveFSNFile
    <2>2. QED
      BY <2>1 DEF OwnClaim, SucessStored
  <1>2. /\ UNCHANGED <<dbVars, file, key, iRet, kills>>
        /\ pc' = [pc EXCEPT ![h] = "move2"] \/ pc' = [pc EXCEPT ![h] = "check"]
    BY DEF MoveFSNFile, Goto
  <1>3. \/ UNCHANGED place
        \/ /\ pc'[h] = "check"
           /\ \E to \in {"handled", "errored"} :
                /\ place' = [place EXCEPT ![file[h]] = to]
                /\ to = "handled" => iRet[h] = "SUCESS"
    <2>1. pc' = [pc EXCEPT ![h] = "check"] => pc'[h] = "check"
      OBVIOUS
    <2>2. QED
      BY <2>1 DEF MoveFSNFile, Goto
  <1>4. TypeOK'
    <2>1. place' \in [Files -> {"in", "claimed", "handled", "errored", "none"}]
      BY <1>1, <1>3
    <2>2. pc' \in [Handlers -> Places]
      BY <1>2 DEF Places
    <2>3. \A g \in Handlers : pc'[g] \in {"idle", "test"} <=> file'[g] = None
      BY <1>1, <1>2
    <2>4. QED
      BY <1>2, <2>1, <2>2, <2>3 DEF Places, dbVars
  <1>5. OwnClaim'
    BY <1>1, <1>2, <1>3 DEF dbVars, OwnClaim
  <1>6. OwnSession'
    BY <1>1, <1>2, <1>3 DEF dbVars, OwnSession, Keyed, Written
  <1>7. DeletedRows'
    BY <1>1, <1>2, <1>3 DEF dbVars, DeletedRows
  <1>8. NotesCounted'
    BY <1>1, <1>2, <1>3 DEF dbVars, NotesCounted, Unsaved
  <1>9. NotesOnce'
    BY <1>1, <1>2, <1>3 DEF dbVars, NotesOnce
  <1>10. SucessStored'
    BY <1>1, <1>2, <1>3 DEF dbVars, SucessStored
  <1>11. HandledStored'
    BY <1>1, <1>2, <1>3 DEF dbVars, HandledStored
  <1>12. QED
    BY <1>4, <1>5, <1>6, <1>7, <1>8, <1>9, <1>10, <1>11

(* A file is given back only if none of its notes were stored this time.   *)
LEMMA ResultInv ==
  ASSUME Inv, NEW h \in Handlers, CheckResult(h)
  PROVE  Inv'
  <1> USE AtmAssumption, KeyFacts DEF Inv, TypeOK
  <1>1. /\ pc[h] = "check" /\ file[h] \in Files
        /\ iRet[h] = "WARING" => place[file[h]] = "claimed" /\ notes[file[h]] <= kills
        /\ \A g \in Handlers \ {h} : file[g] # file[h]
    <2>1. pc[h] = "check" /\ file[h] \in Files
      BY DEF CheckResult, At
    <2>2. QED
      BY <2>1 DEF OwnClaim, NotesCounted
  <1>2. /\ UNCHANGED <<listed, notes, tmp, tx, session, kills>>
        /\ file' = [file EXCEPT ![h] = None] /\ key' = [key EXCEPT ![h] = None]
        /\ iRet' = [iRet EXCEPT ![h] = "SUCESS"]
        /\ pc' = [pc EXCEPT ![h] = "test"] \/ pc' = [pc EXCEPT ![h] = "idle"]
    BY DEF CheckResult, Goto, Result, dbVars
  <1>3. UNCHANGED place \/ (iRet[h] = "WARING" /\ place' = [place EXCEPT ![file[h]] = "in"])
    BY DEF CheckResult
  <1>4. TypeOK'
    <2>1. place' \in [Files -> {"in", "claimed", "handled", "errored", "none"}]
      BY <1>1, <1>3
    <2>2. pc' \in [Handlers -> Places] /\ iRet' \in [Handlers -> Results]
      BY <1>2 DEF Places, Results
    <2>3. \A g \in Handlers : pc'[g] \in {"idle", "test"} <=> file'[g] = None
      BY <1>1, <1>2
    <2>4. QED
      BY <1>2, <2>1, <2>2, <2>3 DEF Places, Results
  <1>5. OwnClaim'
    BY <1>1, <1>2, <1>3 DEF OwnClaim
  <1>6. OwnSession'
    BY <1>1, <1>2, <1>3 DEF OwnSession, Keyed, Written
  <1>7. DeletedRows'
    BY <1>1, <1>2, <1>3 DEF DeletedRows
  <1>8. NotesCounted'
    BY <1>1, <1>2, <1>3 DEF NotesCounted, Unsaved
  <1>9. NotesOnce'
    BY <1>1, <1>2, <1>3 DEF NotesOnce
  <1>10. SucessStored'
    BY <1>1, <1>2, <1>3 DEF SucessStored
  <1>11. HandledStored'
    BY <1>1, <1>2, <1>3 DEF HandledStored
  <1>12. QED
    BY <1>4, <1>5, <1>6, <1>7, <1>8, <1>9, <1>10, <1>11

(* A connection that is renewed has nothing uncommitted.                   *)
LEMMA TestInv ==
  ASSUME Inv, NEW h \in Handlers, TestConnectionDB(h)
  PROVE  Inv'
  <1> USE AtmAssumption, KeyFacts DEF Inv, TypeOK
  <1>1. /\ pc[h] = "test" /\ pc' = [pc EXCEPT ![h] = "idle"]
        /\ UNCHANGED <<place, listed, notes, tmp, tx, file, key, iRet, kills>>
    BY DEF TestConnectionDB, At, Goto
  <1>2. /\ session' \in [Handlers -> {"ok", "broken", "lost"}]
        /\ \A g \in Handlers \ {h} : session'[g] = session[g]
    <2>1. session' = [session EXCEPT ![h] = "ok"] \/ Notice(h)
      BY DEF TestConnectionDB
    <2>2. QED
      BY <2>1 DEF Notice
  <1>3. TypeOK'
    BY <1>1, <1>2
  <1>4. OwnClaim'
    BY <1>1, <1>2 DEF OwnClaim
  <1>5. OwnSession'
    <2>1. tmp[h] = {} /\ tx[h] = NoTx
      BY <1>1 DEF OwnSession, Written
    <2>2. QED
      BY <1>1, <1>2, <2>1 DEF OwnSession, Keyed, Written
  <1>6. DeletedRows'
    BY <1>1, <1>2 DEF DeletedRows
  <1>7. NotesCounted'
    BY <1>1, <1>2 DEF NotesCounted, Unsaved
  <1>8. NotesOnce'
    BY <1>1, <1>2 DEF NotesOnce
  <1>9. SucessStored'
    BY <1>1, <1>2 DEF SucessStored
  <1>10. HandledStored'
    BY <1>1, <1>2 DEF HandledStored
  <1>11. QED
    BY <1>3, <1>4, <1>5, <1>6, <1>7, <1>8, <1>9, <1>10

(* A kill allows each file one load more.                                  *)
LEMMA KillInv ==
  ASSUME Inv, KillAndRestart
  PROVE  Inv'
  <1> USE AtmAssumption, TxFacts DEF Inv, KillAndRestart
  <1>1. TypeOK'
    BY DEF TypeOK, Tx
  <1>2. OwnClaim' /\ OwnSession' /\ DeletedRows'
    BY DEF OwnClaim, OwnSession, DeletedRows, Keyed, Written
  <1>3. \A f \in Files : notes'[f] <= kills' /\ notes'[f] <= 1 + kills'
    BY DEF NotesOnce, TypeOK
  <1>4. NotesCounted' /\ NotesOnce'
    BY <1>3 DEF NotesCounted, NotesOnce
  <1>5. SucessStored' /\ HandledStored'
    BY DEF SucessStored, HandledStored
  <1>6. QED
    BY <1>1, <1>2, <1>4, <1>5

(* Every reachable state satisfies the invariant.                          *)
THEOREM InvCorrect == Spec => []Inv
  <1>1. Inv /\ [Next]_vars => Inv'
    <2> SUFFICES ASSUME Inv, [Next]_vars
                 PROVE  Inv'
      OBVIOUS
    <2>1. CASE UNCHANGED vars
      BY <2>1 DEF vars, dbVars, Inv, TypeOK, OwnClaim, OwnSession, DeletedRows, NotesCounted,
                  NotesOnce, SucessStored, HandledStored
    <2>2. ASSUME NEW h \in Handlers, Handler(h)
          PROVE  Inv'
      BY <2>2, TakeInv, CreateInv, NameInv, CheckInv, LoadInv, InsertInv, SelectInv, CopyInv,
         CommitInv, DeleteInv, CommitDeleteInv, TruncateInv, MoveInv, ResultInv, TestInv
         DEF Handler
    <2>3. QED
      BY <2>1, <2>2, BreakInv, KillInv DEF Next
  <1>2. QED
    BY <1>1, InitInv, PTL DEF Spec

(* Files, tables, sessions and handlers keep their types.                  *)
THEOREM TypeCorrect == Spec => []TypeOK
  BY InvCorrect, PTL DEF Inv

(* What outlives a file in a session's temporary table is nothing: it never*)
(* holds notes of another file, to be copied under its business.           *)
THEOREM TempCorrect == Spec => []TempIsOwn
  <1>1. Inv => TempIsOwn
    BY DEF Inv, OwnSession, TempIsOwn
  <1>2. QED
    BY <1>1, InvCorrect, PTL

(* The notes of a file are stored once, and once more for each kill.       *)
THEOREM NotesStoredOnce == Spec => []NotesOnce
  BY InvCorrect, PTL DEF Inv

(* A file that MoveFSNFile has put with the handled ones has its notes in  *)
(* MONEYDATA_ATM.                                                          *)
THEOREM HandledCorrect == Spec => []HandledStored
  BY InvCorrect, PTL DEF Inv

-----------------------------------------------------------------------------
(* A handler's key is one of the two that its file can have.                *)
KeyFits ==
  \A h \in Handlers :
    key[h] # None => file[h] # None /\ key[h] \in {Business[file[h]], file[h]}

(* While the business of a file is not on the list, what its session has   *)
(* not committed is the row of this business, and the notes only with it.   *)
NewOnList == {"load", "insert", "select", "copy", "commit", "delete"}
RowKept   == {"select", "copy", "commit"}

RowFits(h) ==
  /\ tx[h].gone = 0
  /\ session[h] = "ok" /\ pc[h] \in NewOnList => listed[key[h]] = 0
  /\ pc[h] \notin RowKept \cup {"delete"} => tx[h].row = 0
  /\ session[h] = "ok" /\ pc[h] \in RowKept => tx[h].row = 1

Lonely(h) == file[h] # None /\ Alone(file[h])
OwnRow    == \A h \in Handlers : Lonely(h) => RowFits(h)

ListInv == KeyFits /\ OwnRow /\ ListedWithNotes

(* No other file has a key of a file that has its business to itself.      *)
LEMMA AloneKeys ==
  ASSUME NEW f \in Files, NEW g \in Files, f # g, Alone(f) \/ Alone(g)
  PROVE  {Business[f], f} \cap {Business[g], g} = {}
  BY AtmAssumption DEF Alone

(* What a handler has at hand between taking a file and giving it back.    *)
LEMMA ListFacts ==
  ASSUME Inv, KeyFits, NEW h \in Handlers
  PROVE  /\ file[h] # None => file[h] \in Files
         /\ pc[h] \in Keyed => /\ file[h] # None /\ key[h] # None /\ key[h] \in Keys
                               /\ key[h] \in {Business[file[h]], file[h]}
                               /\ listed[key[h]] \in 0 .. MaxNotes
         /\ \A g \in Handlers \ {h} : file[h] # None => file[g] # file[h]
  BY HandlerFacts DEF Inv, TypeOK, OwnClaim, OwnSession, KeyFits

(* A step of one handler leaves the others and their sessions alone, and it*)
(* changes the tables by a commit only.                                    *)
LEMMA OneHandler ==
  ASSUME Inv, NEW h \in Handlers, SessionBreaks(h) \/ Handler(h)
  PROVE  /\ \A g \in Handlers \ {h} :
              /\ pc'[g] = pc[g] /\ file'[g] = file[g] /\ key'[g] = key[g]
              /\ tx'[g] = tx[g] /\ session'[g] = session[g]
         /\ \/ UNCHANGED <<listed, notes>>
            \/ /\ pc[h] \in {"commit", "commit2", "truncate"} /\ session[h] = "ok"
               /\ Publish(h)
         /\ kills' = kills
  <1> USE DEF Inv, TypeOK, At, Goto, Result, Notice, dbVars
  <1>1. CASE SessionBreaks(h)
    BY <1>1 DEF SessionBreaks
  <1>2. ASSUME NEW f \in Files, Take(h, f)
        PROVE  /\ \A g \in Handlers \ {h} : pc'[g] = pc[g] /\ file'[g] = file[g]
               /\ UNCHANGED <<dbVars, key, kills>>
    BY <1>2 DEF Take
  <1>3. CASE CreateTemp(h) \/ ReadAtmFileName(h) \/ CheckDuplicate(h)
    BY <1>3 DEF CreateTemp, ReadAtmFileName, CheckDuplicate
  <1>4. CASE LoadTemp(h)
    BY <1>4 DEF LoadTemp
  <1>5. ASSUME NEW here, NEW well, NEW next, Statement(h, here, well, next)
        PROVE  /\ \A g \in Handlers \ {h} :
                    pc'[g] = pc[g] /\ tx'[g] = tx[g] /\ session'[g] = session[g]
               /\ UNCHANGED <<listed, notes, file, key, kills>>
    BY <1>5 DEF Statement
  <1>6. CASE DbsCommit(h)
    BY <1>6 DEF DbsCommit, Publish
  <1>7. CASE DeleteBusiness(h)
    BY <1>7 DEF DeleteBusiness
  <1>8. CASE CommitDelete(h) \/ TruncateTemp(h)
    BY <1>8 DEF CommitDelete, TruncateTemp, Publish
  <1>9. CASE MoveFSNFile(h) \/ CheckResult(h)
    BY <1>9 DEF MoveFSNFile, CheckResult
  <1>10. CASE TestConnectionDB(h)
    BY <1>10 DEF TestConnectionDB
  <1>11. QED
    BY <1>1, <1>2, <1>3, <1>4, <1>5, <1>6, <1>7, <1>8, <1>9, <1>10
       DEF Handler, InsertBusiness, SelectBusiness, FromTmpToAtm

(* A key is chosen when the name of the file has been read, and forgotten   *)
(* with the file.                                                          *)
LEMMA KeyFitsStep ==
  ASSUME Inv, KeyFits, NEW h \in Handlers, SessionBreaks(h) \/ Handler(h)
  PROVE  KeyFits'
  <1> USE DEF Inv, TypeOK, At, Goto, Result, Notice, dbVars
  <1>1. \A g \in Handlers \ {h} : file'[g] = file[g] /\ key'[g] = key[g]
    BY OneHandler
  <1>2. key'[h] # None => file'[h] # None /\ key'[h] \in {Business[file'[h]], file'[h]}
    <2>1. CASE UNCHANGED <<file, key>>
      BY <2>1 DEF KeyFits
    <2>2. ASSUME NEW f \in Files, Take(h, f)
          PROVE  key'[h] = None
      BY <2>2 DEF Take, KeyFits
    <2>3. CASE ReadAtmFileName(h)
      BY <2>3 DEF ReadAtmFileName, KeyFits
    <2>4. CASE CheckResult(h)
      BY <2>4 DEF CheckResult
    <2>5. QED
      BY <2>1, <2>2, <2>3, <2>4 DEF Handler, SessionBreaks, CreateTemp, CheckDuplicate, LoadTemp,
         InsertBusiness, SelectBusiness, FromTmpToAtm, Statement, DbsCommit, DeleteBusiness,
         CommitDelete, TruncateTemp, MoveFSNFile, TestConnectionDB
  <1>3. QED
    BY <1>1, <1>2 DEF KeyFits

(* A commit changes the rows of its own key only.                          *)
LEMMA ListedElsewhere ==
  ASSUME Inv, KeyFits, NEW h \in Handlers, SessionBreaks(h) \/ Handler(h),
         NEW k \in Keys, k # key[h]
  PROVE  listed'[k] = listed[k]
  BY OneHandler DEF Inv, TypeOK, Publish

(* The row of another handler is nobody's business.                        *)
LEMMA OthersRows ==
  ASSUME Inv, ListInv, NEW h \in Handlers, SessionBreaks(h) \/ Handler(h),
         NEW g \in Handlers \ {h}, Lonely(g)'
  PROVE  RowFits(g)'
  <1>1. /\ pc'[g] = pc[g] /\ file'[g] = file[g] /\ key'[g] = key[g]
        /\ tx'[g] = tx[g] /\ session'[g] = session[g]
    BY OneHandler
  <1>2. Lonely(g) /\ RowFits(g)
    BY <1>1 DEF Lonely, ListInv, OwnRow
  <1>3. ASSUME pc[g] \in Keyed
        PROVE  listed'[key[g]] = listed[key[g]]
    <2>1. /\ file[g] \in Files /\ key[g] \in {Business[file[g]], file[g]} /\ key[g] \in Keys
          /\ file[h] # file[g]
      BY <1>3, ListFacts DEF ListInv
    <2>2. key[h] # key[g]
      <3>1. CASE key[h] = None
        BY <3>1, <2>1, KeyFacts, AtmAssumption
      <3>2. CASE key[h] # None
        <4>1. file[h] # None /\ key[h] \in {Business[file[h]], file[h]}
          BY <3>2 DEF ListInv, KeyFits
        <4>2. file[h] \in Files
          BY <4>1, ListFacts DEF ListInv
        <4>3. QED
          BY <1>2, <2>1, <4>1, <4>2, AloneKeys DEF Lonely
      <3>3. QED
        BY <3>1, <3>2
    <2>3. QED
      BY <2>1, <2>2, ListedElsewhere DEF ListInv
  <1>4. NewOnList \subseteq Keyed
    BY DEF NewOnList, Keyed
  <1>5. QED
    BY <1>1, <1>2, <1>3, <1>4 DEF RowFits

(* The handler's own row: it is inserted for a business that is not listed,*)
(* and it is the only one a failure can take away or leave behind.         *)
LEMMA OwnRowStep ==
  ASSUME Inv, ListInv, NEW h \in Handlers, SessionBreaks(h) \/ Handler(h), Lonely(h)'
  PROVE  RowFits(h)'
  <1> USE TxFacts DEF Inv, TypeOK, At, Goto, Result
  <1>0. /\ tx[h] \in Tx /\ tx[h].gone \in Nat /\ tx[h].row \in {0, 1}
        /\ session[h] # "ok" => tx[h] = NoTx
        /\ pc[h] \notin Written => tx[h] = NoTx
    BY HandlerFacts DEF Tx, OwnSession
  <1>1. ASSUME file[h] # None, file'[h] = file[h]
        PROVE  RowFits(h)
    BY <1>1 DEF Lonely, ListInv, OwnRow
  <1>2. CASE SessionBreaks(h)
    BY <1>2 DEF SessionBreaks, RowFits
  <1>3. ASSUME tx'[h] = NoTx, pc'[h] \notin NewOnList
        PROVE  RowFits(h)'
    BY <1>3 DEF RowFits, NewOnList, RowKept
  <1>4. CASE \/ \E f \in Files : Take(h, f)
             \/ CreateTemp(h) \/ ReadAtmFileName(h) \/ MoveFSNFile(h) \/ CheckResult(h)
             \/ TestConnectionDB(h)
    <2>1. pc[h] \notin Written /\ tx' = tx /\ pc'[h] \notin NewOnList
      BY <1>4 DEF Take, CreateTemp, ReadAtmFileName, MoveFSNFile, CheckResult, TestConnectionDB,
         Written, NewOnList, dbVars
    <2>2. QED
      BY <1>0, <1>3, <2>1
  <1>5. CASE CheckDuplicate(h)
    <2>1. /\ pc[h] = "dup" /\ UNCHANGED <<tx, listed, key>> /\ Notice(h)
          /\ \/ pc' = [pc EXCEPT ![h] = "load"] /\ (session[h] = "ok" => Visible(h) = 0)
             \/ pc' = [pc EXCEPT ![h] = "move2"]
      BY <1>5 DEF CheckDuplicate
    <2>2. tx[h] = NoTx /\ listed[key[h]] \in Nat
      BY <1>0, <2>1, HandlerFacts DEF Keyed, Written
    <2>3. session'[h] = "ok" => session[h] = "ok"
      BY <2>1, NoticeFacts
    <2>4. QED
      BY <2>1, <2>2, <2>3 DEF RowFits, Visible, NewOnList, RowKept
  <1>6. CASE LoadTemp(h)
    <2>1. /\ pc[h] = "load" /\ UNCHANGED <<tx, listed, key, file>>
          /\ pc'[h] \in {"insert", "truncate"}
          /\ session'[h] = "ok" => session[h] = "ok"
      BY <1>6 DEF LoadTemp
    <2>2. tx[h] = NoTx /\ file[h] # None
      BY <1>0, <2>1 DEF Written
    <2>3. RowFits(h)
      BY <1>1, <2>1, <2>2
    <2>4. QED
      BY <2>1, <2>2, <2>3 DEF RowFits, NewOnList, RowKept
  <1>7. ASSUME NEW here, NEW well, NEW next, here \in {"insert", "select", "copy"},
               Statement(h, here, well, next)
        PROVE  /\ pc[h] = here /\ UNCHANGED <<listed, key, file>> /\ file[h] # None
               /\ session'[h] = "ok" => session[h] = "ok"
               /\ \/ session[h] = "ok" /\ 0 \in well /\ tx'[h] = next.tx /\ pc'[h] = next.pc
                  \/ /\ tx'[h] = tx[h] /\ pc'[h] = next.else
                     /\ session[h] = "ok" => \E code \in well : code # 0
    <2>1. pc[h] = here /\ UNCHANGED <<listed, key, file>> /\ Notice(h) /\ file[h] # None
      BY <1>7 DEF Statement
    <2>2. session'[h] = "ok" => session[h] = "ok"
      BY <2>1, NoticeFacts
    <2>3. PICK code \in Codes(h, well) :
             /\ tx' = [tx EXCEPT ![h] = IF code = 0 THEN next.tx ELSE @]
             /\ pc' = [pc EXCEPT ![h] = IF code = 0 THEN next.pc ELSE next.else]
      BY <1>7 DEF Statement
    <2>4. /\ session[h] = "ok" => code \in well
          /\ session[h] # "ok" => code # 0
      BY <2>3 DEF Codes
    <2>5. CASE code = 0
      BY <2>1, <2>2, <2>3, <2>4, <2>5
    <2>6. CASE code # 0
      BY <2>1, <2>2, <2>3, <2>4, <2>6
    <2>7. QED
      BY <2>5, <2>6
  <1>8. CASE InsertBusiness(h)
    <2> DEFINE row == [tx[h] EXCEPT !.row = 1]
    <2>1. row.row = 1 /\ row.gone = tx[h].gone
      BY <1>0 DEF Tx
    <2> DEFINE next == [tx |-> row, pc |-> "select", else |-> "truncate"]
    <2>2. /\ Statement(h, "insert", {0} \cup Space, next)
          /\ next.tx = row /\ next.pc = "select" /\ next.else = "truncate"
      BY <1>8 DEF InsertBusiness
    <2> HIDE DEF row, next
    <2>3. /\ pc[h] = "insert" /\ UNCHANGED <<listed, key, file>> /\ file[h] # None
          /\ session'[h] = "ok" => session[h] = "ok"
          /\ \/ session[h] = "ok" /\ tx'[h] = row /\ pc'[h] = "select"
             \/ tx'[h] = tx[h] /\ pc'[h] = "truncate"
      BY <1>7, <2>2
    <2>4. RowFits(h)
      BY <1>1, <2>3
    <2>5. QED
      BY <2>1, <2>3, <2>4 DEF RowFits, NewOnList, RowKept
  <1>9. CASE SelectBusiness(h)
    <2>1. /\ pc[h] = "select" /\ UNCHANGED <<listed, key, file>> /\ file[h] # None
          /\ session'[h] = "ok" => session[h] = "ok"
          /\ tx'[h] = tx[h]
          /\ \/ pc'[h] = "copy"
             \/ pc'[h] = "truncate" /\ (session[h] = "ok" => Visible(h) > 1)
      BY <1>7, <1>9 DEF SelectBusiness
    <2>2. RowFits(h)
      BY <1>1, <2>1
    <2>3. session[h] = "ok" => Visible(h) = 1
      BY <2>1, <2>2 DEF RowFits, Visible, NewOnList, RowKept
    <2>4. pc'[h] = "truncate" => tx[h] = NoTx
      BY <1>0, <2>1, <2>3
    <2>5. QED
      BY <2>1, <2>2, <2>4 DEF RowFits, NewOnList, RowKept
  <1>10. CASE FromTmpToAtm(h)
    <2> DEFINE row == [tx[h] EXCEPT !.copied = tmp[h]]
    <2>1. row.row = tx[h].row /\ row.gone = tx[h].gone
      BY <1>0 DEF Tx
    <2> DEFINE well == {IF tmp[h] = {} THEN 1403 ELSE 0, 12899} \cup Space
               next == [tx |-> row, pc |-> "commit", else |-> "delete"]
    <2>2. /\ Statement(h, "copy", well, next)
          /\ next.tx = row /\ next.pc = "commit" /\ next.else = "delete"
      BY <1>10 DEF FromTmpToAtm
    <2> HIDE DEF row, well, next
    <2>3. /\ pc[h] = "copy" /\ UNCHANGED <<listed, key, file>> /\ file[h] # None
          /\ session'[h] = "ok" => session[h] = "ok"
          /\ \/ tx'[h] = row /\ pc'[h] = "commit"
             \/ tx'[h] = tx[h] /\ pc'[h] = "delete"
      BY <1>7, <2>2
    <2>4. RowFits(h)
      BY <1>1, <2>3
    <2>5. QED
      BY <2>1, <2>3, <2>4 DEF RowFits, NewOnList, RowKept
  <1>11. CASE DbsCommit(h)
    <2>1. tx'[h] = NoTx /\ pc'[h] = "truncate"
      BY <1>0, <1>11 DEF DbsCommit, Publish
    <2>2. QED
      BY <1>3, <2>1 DEF NewOnList
  <1>12. CASE DeleteBusiness(h)
    <2>1. pc[h] = "delete" /\ file' = file /\ file[h] # None /\ pc'[h] = "commit2"
      BY <1>12 DEF DeleteBusiness
    <2>2. RowFits(h)
      BY <1>1, <2>1
    <2>3. session[h] = "ok" => tx'[h].gone = 0 /\ tx'[h].row = 0
      BY <1>12, <2>1, <2>2 DEF DeleteBusiness, RowFits, NewOnList, NoTx
    <2>4. session[h] # "ok" => tx'[h] = NoTx
      BY <1>0, <1>12 DEF DeleteBusiness
    <2>5. QED
      BY <2>1, <2>3, <2>4 DEF RowFits, NewOnList, RowKept
  <1>13. CASE CommitDelete(h) \/ TruncateTemp(h)
    <2>1. tx'[h] = NoTx /\ pc'[h] \in {"truncate", "check", "move"}
      BY <1>0, <1>13 DEF CommitDelete, TruncateTemp, Publish
    <2>2. QED
      BY <1>3, <2>1 DEF NewOnList
  <1>14. QED
    BY <1>2, <1>4, <1>5, <1>6, <1>8, <1>9, <1>10, <1>11, <1>12, <1>13 DEF Handler

(* What is committed for a file alone with its business is the row and the *)
(* notes together, or neither.                                             *)
LEMMA ListedStep ==
  ASSUME Inv, ListInv, NEW h \in Handlers, SessionBreaks(h) \/ Handler(h),
         MaxKills < MaxNotes
  PROVE  ListedWithNotes'
  <1>1. CASE UNCHANGED <<listed, notes>>
    BY <1>1 DEF ListInv, ListedWithNotes
  <1>2. CASE /\ pc[h] \in {"commit", "commit2", "truncate"} /\ session[h] = "ok"
             /\ Publish(h)
    <2> DEFINE f == file[h]
               k == key[h]
    <2>1. /\ f \in Files /\ k \in Keys /\ k # None /\ k \in {Business[f], f}
          /\ listed[k] \in 0 .. MaxNotes /\ f # None
      BY <1>2, ListFacts DEF ListInv, Keyed
    <2>2. /\ tx[h].row \in {0, 1} /\ tx[h].gone \in Nat
          /\ tx[h].copied = IF pc[h] = "commit" THEN {f} ELSE {}
      <3>1. tx[h].row \in {0, 1} /\ tx[h].gone \in Nat
        BY HandlerFacts DEF Tx
      <3>2. tx[h].copied = IF pc[h] = "commit" THEN {f} ELSE {}
        BY <1>2 DEF Inv, OwnSession
      <3>3. QED
        BY <3>1, <3>2
    <2>3. /\ \A g \in Files : notes[g] \in 0 .. MaxNotes
          /\ \A j \in Keys : listed[j] \in 0 .. MaxNotes
          /\ MaxNotes \in Nat /\ kills \in 0 .. MaxKills /\ MaxKills \in Nat
      BY AtmAssumption DEF Inv, TypeOK
    <2>4. /\ \A g \in Files : g # f => notes'[g] = notes[g]
          /\ notes'[f] = IF pc[h] = "commit" THEN Capped(notes[f] + 1) ELSE notes[f]
          /\ \A j \in Keys : j # k => listed'[j] = listed[j]
          /\ listed'[k] = Capped(listed[k] - tx[h].gone + tx[h].row)
      BY <1>2, <2>1, <2>2 DEF Publish, Inv, TypeOK
    <2>5. \A g \in Files : g \in Keys /\ Business[g] \in Keys /\ Business[g] # g
      BY KeyFacts, AtmAssumption
    <2> HIDE DEF f, k
    <2>6. ASSUME NEW g \in Files, Alone(g), g # f
          PROVE  listed'[Business[g]] + listed'[g] = notes'[g]
      <3>1. k # g /\ k # Business[g]
        BY <2>1, <2>6, AloneKeys
      <3>2. QED
        BY <2>4, <2>5, <2>6, <3>1 DEF ListInv, ListedWithNotes
    <2>7. ASSUME Alone(f)
          PROVE  listed'[Business[f]] + listed'[f] = notes'[f]
      <3>1. RowFits(h)
        BY <2>1, <2>7 DEF f, ListInv, OwnRow, Lonely
      <3>2. listed[Business[f]] + listed[f] = notes[f]
        BY <2>1, <2>7 DEF ListInv, ListedWithNotes
      <3>3. CASE pc[h] = "commit"
        <4>1. listed[k] = 0 /\ tx[h].gone = 0 /\ tx[h].row = 1
          BY <1>2, <3>1, <3>3 DEF k, RowFits, NewOnList, RowKept
        <4>2. notes[f] <= kills
          BY <2>1, <3>3 DEF f, Inv, NotesCounted, Unsaved
        <4>3. notes'[f] = notes[f] + 1 /\ listed'[k] = listed[k] + 1
          BY <2>1, <2>3, <2>4, <3>3, <4>1, <4>2 DEF Capped
        <4>4. QED
          BY <2>1, <2>3, <2>4, <2>5, <3>2, <4>3
      <3>4. CASE pc[h] # "commit"
        <4>1. tx[h].gone = 0 /\ tx[h].row = 0
          BY <1>2, <3>1, <3>4 DEF RowFits, RowKept
        <4>2. listed'[k] = listed[k]
          BY <2>1, <2>3, <2>4, <4>1 DEF Capped
        <4>3. QED
          BY <2>1, <2>3, <2>4, <2>5, <3>2, <3>4, <4>2
      <3>5. QED
        BY <3>3, <3>4
    <2>8. QED
      BY <2>6, <2>7 DEF ListedWithNotes, Alone
  <1>3. QED
    BY <1>1, <1>2, OneHandler

(* Every step keeps the list in agreement with the notes.                  *)
LEMMA ListInvStep ==
  ASSUME Inv, ListInv, [Next]_vars, MaxKills < MaxNotes
  PROVE  ListInv'
  <1>1. CASE UNCHANGED vars
    BY <1>1 DEF vars, dbVars, ListInv, KeyFits, OwnRow, Lonely, RowFits, ListedWithNotes, Alone
  <1>2. CASE KillAndRestart
    BY <1>2, TxFacts DEF KillAndRestart, ListInv, KeyFits, OwnRow, Lonely, ListedWithNotes, Alone
  <1>3. ASSUME NEW h \in Handlers, SessionBreaks(h) \/ Handler(h)
        PROVE  ListInv'
    <2>1. KeyFits'
      BY <1>3, KeyFitsStep DEF ListInv
    <2>2. OwnRow'
      BY <1>3, OwnRowStep, OthersRows DEF OwnRow
    <2>3. ListedWithNotes'
      BY <1>3, ListedStep
    <2>4. QED
      BY <2>1, <2>2, <2>3 DEF ListInv
  <1>4. QED
    BY <1>1, <1>2, <1>3 DEF Next

(* The list of businesses and the notes agree for every file that has its  *)
(* business to itself, whatever fails and whatever DDL commits on the way, *)
(* as long as the notes of a file are counted beyond the kills.            *)
THEOREM ListedCorrect ==
  ASSUME MaxKills < MaxNotes
  PROVE  Spec => []ListedWithNotes
  <1>1. Init => ListInv
    BY KeyFacts DEF Init, ListInv, KeyFits, OwnRow, Lonely, ListedWithNotes
  <1>2. Inv /\ ListInv /\ [Next]_vars => ListInv'
    BY ListInvStep
  <1>3. ListInv => ListedWithNotes
    BY DEF ListInv
  <1>4. QED
    BY <1>1, <1>2, <1>3, InvCorrect, PTL DEF Spec
=============================================================================
