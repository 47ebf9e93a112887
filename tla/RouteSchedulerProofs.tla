------------------------ MODULE RouteSchedulerProofs ------------------------
(***************************************************************************)
(* Theorems about RouteScheduler for every table of routes, every length of*)
(* the day, and any number of waiting tasks, kills and failures.           *)
(***************************************************************************)
EXTENDS RouteScheduler, SequenceTheorems, TLAPS

Day == Hours * Minutes

(* The length of the day is positive, and a remainder by it a time of day. *)
LEMMA TimeOfDay ==
  /\ Day \in Nat \ {0}
  /\ \A n \in Nat : n % Day \in 0 .. Day - 1
  <1>1. Hours \in Nat \ {0} /\ Minutes \in Nat \ {0}
    BY RouteAssumption
  <1>2. \A x, y \in Nat \ {0} : x * y \in Nat \ {0}
    OBVIOUS
  <1>3. Day \in Nat \ {0}
    BY <1>1, <1>2 DEF Day
  <1>4. QED
    BY <1>3

(* GetTimeInterval answers a number, if not always a time.                 *)
LEMMA IntervalType ==
  ASSUME NEW min \in Nat, now \in 0 .. Day - 1
  PROVE  GetTimeInterval(min) \in Nat
  <1>1. (now + min) % Day \in Nat
    BY TimeOfDay
  <1>2. \A t \in Nat : t \div Minutes \in Nat /\ t % Minutes \in Nat
    BY RouteAssumption
  <1>3. QED
    BY <1>1, <1>2 DEF GetTimeInterval, Day

(* A task that leaves the waiting ones leaves the others as they were.     *)
LEMMA WithoutProperties ==
  ASSUME NEW S, NEW seq \in Seq(S), NEW i \in DOMAIN seq
  PROVE  Without(seq, i) \in Seq(S) /\ Len(Without(seq, i)) = Len(seq) - 1
  <1> DEFINE before == SubSeq(seq, 1, i - 1)
             after  == SubSeq(seq, i + 1, Len(seq))
  <1>1. i \in 1 .. Len(seq) /\ Len(seq) \in Nat
    BY LenProperties
  <1>2. before \in Seq(S) /\ Len(before) = i - 1
    <2>1. \A j \in 1 .. i - 1 : seq[j] \in S
      BY <1>1
    <2>2. QED
      BY <1>1, <2>1, SubSeqProperties
  <1>3. after \in Seq(S) /\ Len(after) = Len(seq) - i
    <2>1. \A j \in i + 1 .. Len(seq) : seq[j] \in S
      BY <1>1
    <2>2. QED
      BY <1>1, <2>1, SubSeqProperties
  <1>4. Without(seq, i) = before \o after
    BY DEF Without
  <1> HIDE DEF before, after
  <1>5. before \o after \in Seq(S) /\ Len(before \o after) = Len(before) + Len(after)
    BY <1>2, <1>3, ConcatProperties
  <1>6. QED
    BY <1>1, <1>2, <1>3, <1>4, <1>5

(* Midnight ages every row of a sequence and keeps its length.             *)
LEMMA AgeAllProperties ==
  ASSUME NEW S, NEW seq \in Seq(S), \A row \in S : Older(row) \in S
  PROVE  AgeAll(seq) \in Seq(S) /\ Len(AgeAll(seq)) = Len(seq)
  <1>1. DOMAIN seq = 1 .. Len(seq) /\ Len(seq) \in Nat
    BY LenProperties
  <1>2. \A i \in 1 .. Len(seq) : Older(seq[i]) \in S
    BY ElementOfSeq
  <1>3. QED
    BY <1>1, <1>2 DEF AgeAll

-----------------------------------------------------------------------------
(* A row as a task may hold it: fetched before the transfer of the day.    *)
OldRow == {row \in Row : row.lastdate = "before"}

FetchedOld ==
  /\ waiting \in [Routes -> Seq(OldRow)]
  /\ running \in [Routes -> Seq(OldRow)]

(* A task is at work on a route just while a task has the lock of its row. *)
RowLocks ==
  \A r \in Routes : Len(running[r]) = IF held[r] = "task" THEN 1 ELSE 0

(* The mark of a running route is never committed.                         *)
NeverCommitted == \A r \in Routes : db[r].status # "0"

(* The reset takes the locks of its rows before there is a task.           *)
ResetFirst ==
  phase = "reset" => \A r \in Routes : waiting[r] = <<>> /\ running[r] = <<>>

Inv == TypeOK /\ FetchedOld /\ RowLocks /\ NeverCommitted /\ ResetFirst /\ DoneToday

(* Midnight, and the mark of a running route, leave an old row old.        *)
LEMMA RowFacts ==
  /\ OldRow \subseteq Row
  /\ \A row \in Row : Older(row) \in OldRow /\ Older(row).status = row.status
  /\ \A row \in OldRow : Older(row) \in OldRow
  /\ \A row \in OldRow : [row EXCEPT !.status = "0"] \in OldRow
  BY DEF OldRow, Row, Older

(* The initial state satisfies the invariant.                              *)
LEMMA InitInv == Init => Inv
  <1> SUFFICES ASSUME Init
               PROVE  Inv
    OBVIOUS
  <1> USE RouteAssumption DEF Init
  <1>1. db \in [Routes -> Row] /\ NeverCommitted /\ DoneToday
    BY DEF Row, NeverCommitted, DoneToday
  <1>2. FetchedOld /\ RowLocks /\ ResetFirst
    <2>1. <<>> \in Seq(OldRow) /\ Len(<<>>) = 0
      BY EmptySeq
    <2>2. QED
      BY <2>1 DEF FetchedOld, RowLocks, ResetFirst
  <1>3. now \in 0 .. Hours * Minutes - 1
    BY TimeOfDay DEF Day
  <1>4. \A r \in Routes : waiting[r] \in Seq(Row) /\ running[r] \in Seq(Row)
                         /\ Len(waiting[r]) <= MaxWaiting
    <2>1. <<>> \in Seq(Row) /\ Len(<<>>) = 0
      BY EmptySeq
    <2>2. \A r \in Routes : waiting[r] = <<>> /\ running[r] = <<>>
      OBVIOUS
    <2>3. 0 <= MaxWaiting
      OBVIOUS
    <2>4. QED
      BY <2>1, <2>2, <2>3, Zenon
  <1>5. QED
    BY <1>1, <1>2, <1>3, <1>4 DEF Inv, TypeOK

(* What every step needs of the sequences: old rows are rows.              *)
LEMMA OldSeqs == Seq(OldRow) \subseteq Seq(Row)
  BY RowFacts, SeqMonotonic

(* The clock: midnight ages the rows, and their dates with the count.      *)
LEMMA TickInv == ASSUME Inv, Tick PROVE Inv'
  <1> USE DEF Inv, Tick
  <1>1. now' \in 0 .. Hours * Minutes - 1
    BY TimeOfDay DEF TypeOK, Day
  <1>2. CASE now' # 0
    BY <1>1, <1>2 DEF taskVars, TypeOK, FetchedOld, RowLocks, NeverCommitted, ResetFirst,
       DoneToday
  <1>3. CASE now' = 0
    <2>1. \A r \in Routes :
            /\ AgeAll(waiting[r]) \in Seq(OldRow) /\ Len(AgeAll(waiting[r])) = Len(waiting[r])
            /\ AgeAll(running[r]) \in Seq(OldRow) /\ Len(AgeAll(running[r])) = Len(running[r])
      BY RowFacts, AgeAllProperties DEF FetchedOld
    <2>2. FetchedOld' /\ RowLocks' /\ ResetFirst'
      BY <1>3, <2>1 DEF FetchedOld, RowLocks, ResetFirst
    <2>3. db' \in [Routes -> Row] /\ dirty' \in [Routes -> Row]
      BY <1>3, RowFacts DEF TypeOK
    <2>4. NeverCommitted' /\ DoneToday'
      <3>1. \A r \in Routes : db'[r] = Older(db[r]) /\ db[r] \in Row
        BY <1>3 DEF TypeOK
      <3>2. \A r \in Routes : db'[r].status = db[r].status /\ db'[r].lastdate = "before"
        <4>1. \A row \in Row : Older(row).status = row.status /\ Older(row).lastdate = "before"
          BY RowFacts DEF OldRow
        <4>2. QED
          BY <3>1, <4>1
      <3>3. QED
        BY <3>2 DEF NeverCommitted, DoneToday
    <2>5. \A r \in Routes : waiting'[r] \in Seq(Row) /\ running'[r] \in Seq(Row)
                           /\ Len(waiting'[r]) <= MaxWaiting
      BY <1>3, <2>1, OldSeqs DEF TypeOK
    <2>6. waiting' \in [Routes -> Seq(Row)] /\ running' \in [Routes -> Seq(Row)]
      BY <2>2, OldSeqs DEF FetchedOld
    <2>7. done' \in [Routes -> 0 .. MaxDone]
      BY <1>3, RouteAssumption
    <2>8. QED
      BY <1>1, <2>2, <2>3, <2>4, <2>5, <2>6, <2>7 DEF TypeOK
  <1>4. QED
    BY <1>2, <1>3

(* The reset finds no task holding a lock that it could take away.         *)
LEMMA ResetInv == ASSUME Inv, Reset PROVE Inv'
  <1> USE DEF Inv, Reset
  <1>1. \A r \in Routes : held[r] # "task" /\ running[r] = <<>>
    BY DEF ResetFirst, RowLocks
  <1>2. held' \in [Routes -> {"free", "scheduler", "task"}]
    BY DEF TypeOK
  <1>3. dirty' \in [Routes -> Row]
    <2>1. \A row \in Row : [row EXCEPT !.status = "1"] \in Row
      BY DEF Row
    <2>2. db \in [Routes -> Row]
      BY DEF TypeOK
    <2>3. QED
      BY <2>1, <2>2
  <1>4. RowLocks'
    BY <1>1 DEF RowLocks, taskVars
  <1>5. QED
    BY <1>2, <1>3, <1>4 DEF taskVars, TypeOK, FetchedOld, NeverCommitted, ResetFirst, DoneToday

(* A row is fetched only if its date is not today's.                       *)
LEMMA PollInv == ASSUME Inv, Poll PROVE Inv'
  <1> USE DEF Inv, Poll
  <1>1. \A r \in Routes : Due(r) => Seen(r) \in OldRow
    BY DEF Due, Seen, TypeOK, Row, OldRow
  <1>2. \A r \in Routes : waiting'[r] \in Seq(OldRow) /\ Len(waiting'[r]) <= MaxWaiting
    <2> SUFFICES ASSUME NEW r \in Routes
                 PROVE  waiting'[r] \in Seq(OldRow) /\ Len(waiting'[r]) <= MaxWaiting
      OBVIOUS
    <2>1. CASE Due(r) /\ Len(waiting[r]) < MaxWaiting
      <3>1. /\ Append(waiting[r], Seen(r)) \in Seq(OldRow)
            /\ Len(Append(waiting[r], Seen(r))) = Len(waiting[r]) + 1
        BY <1>1, <2>1, AppendProperties DEF FetchedOld
      <3>2. waiting'[r] = Append(waiting[r], Seen(r))
        BY <2>1
      <3>3. Len(waiting[r]) \in Nat
        BY LenProperties DEF FetchedOld
      <3>4. QED
        BY <2>1, <3>1, <3>2, <3>3, RouteAssumption
    <2>2. CASE ~ (Due(r) /\ Len(waiting[r]) < MaxWaiting)
      BY <2>2 DEF TypeOK, FetchedOld
    <2>3. QED
      BY <2>1, <2>2
  <1>3. FetchedOld'
    BY <1>2 DEF FetchedOld
  <1>4. waiting' \in [Routes -> Seq(Row)]
    BY <1>3, OldSeqs DEF FetchedOld
  <1>5. QED
    BY <1>2, <1>3, <1>4 DEF rowVars, TypeOK, RowLocks, NeverCommitted, ResetFirst, DoneToday

-----------------------------------------------------------------------------
(* A task that leaves the waiting ones disturbs nothing about them.        *)
LEMMA LeavesWaiting ==
  ASSUME Inv, NEW r \in Routes, NEW i \in DOMAIN waiting[r],
         waiting' = [waiting EXCEPT ![r] = Without(@, i)]
  PROVE  /\ waiting' \in [Routes -> Seq(OldRow)] /\ waiting' \in [Routes -> Seq(Row)]
         /\ \A q \in Routes : Len(waiting'[q]) <= MaxWaiting
         /\ waiting[r] # <<>>
         /\ waiting[r][i] \in OldRow
  <1> USE DEF Inv
  <1>1. waiting[r] \in Seq(OldRow)
    BY DEF FetchedOld
  <1>2. /\ Without(waiting[r], i) \in Seq(OldRow)
        /\ Len(Without(waiting[r], i)) = Len(waiting[r]) - 1
    BY <1>1, WithoutProperties
  <1>3. waiting' \in [Routes -> Seq(OldRow)]
    BY <1>2 DEF FetchedOld
  <1>4. Len(waiting[r]) \in Nat /\ i \in 1 .. Len(waiting[r])
    BY <1>1, LenProperties
  <1>5. waiting[r][i] \in OldRow
    BY <1>1, <1>4, ElementOfSeq
  <1>6. \A q \in Routes : Len(waiting'[q]) <= MaxWaiting
    BY <1>2, <1>4, RouteAssumption DEF TypeOK
  <1>7. QED
    BY <1>3, <1>4, <1>5, <1>6, OldSeqs

(* A task without a session leaves the rows alone.                         *)
LEMMA ConnectInv == ASSUME Inv, NEW r \in Routes, ConnectFails(r) PROVE Inv'
  <1>1. PICK i \in DOMAIN waiting[r] : waiting' = [waiting EXCEPT ![r] = Without(@, i)]
    BY DEF ConnectFails
  <1>2. QED
    BY <1>1, LeavesWaiting
       DEF Inv, ConnectFails, TypeOK, FetchedOld, RowLocks, NeverCommitted, ResetFirst,
           DoneToday, rowVars

(* A task that begins takes the lock, so that nobody else was at work.     *)
LEMMA StartInv == ASSUME Inv, NEW r \in Routes, Start_service(r) PROVE Inv'
  <1> USE DEF Inv
  <1>1. PICK i \in DOMAIN waiting[r] :
          /\ waiting' = [waiting EXCEPT ![r] = Without(@, i)]
          /\ running' = [running EXCEPT ![r] = Append(@, [waiting[r][i] EXCEPT !.status = "0"])]
          /\ dirty' = [dirty EXCEPT ![r] = [waiting[r][i] EXCEPT !.status = "0"]]
    BY DEF Start_service
  <1> DEFINE row == [waiting[r][i] EXCEPT !.status = "0"]
  <1>2. row \in OldRow /\ row \in Row
    BY <1>1, LeavesWaiting, RowFacts
  <1>3. running[r] \in Seq(OldRow) /\ Len(running[r]) = 0
    BY DEF Start_service, FetchedOld, RowLocks
  <1> HIDE DEF row
  <1>4. /\ Append(running[r], row) \in Seq(OldRow)
        /\ Len(Append(running[r], row)) = 1
    BY <1>2, <1>3, AppendProperties
  <1>5. running' = [running EXCEPT ![r] = Append(running[r], row)]
        /\ dirty' = [dirty EXCEPT ![r] = row]
    BY <1>1 DEF row
  <1>6. running' \in [Routes -> Seq(OldRow)] /\ running' \in [Routes -> Seq(Row)]
    BY <1>4, <1>5, OldSeqs DEF FetchedOld
  <1>7. RowLocks'
    BY <1>4, <1>5 DEF Start_service, RowLocks, TypeOK
  <1>8. ResetFirst'
    BY <1>1, LeavesWaiting DEF Start_service, ResetFirst
  <1>9. dirty' \in [Routes -> Row] /\ held' \in [Routes -> {"free", "scheduler", "task"}]
    BY <1>2, <1>5 DEF Start_service, TypeOK
  <1>10. QED
    BY <1>1, <1>6, <1>7, <1>8, <1>9, LeavesWaiting
       DEF Start_service, TypeOK, FetchedOld, NeverCommitted, DoneToday

(* A task that ends gives the lock back, and commits a row not running.    *)
LEMMA TransferInv ==
  ASSUME Inv, NEW r \in Routes, NEW ok \in BOOLEAN, TransferEnds(r, ok)
  PROVE  Inv'
  <1> USE DEF Inv
  <1> DEFINE first == Head(running[r])
             row   == [NextTurn(r, first, ok) EXCEPT !.status = "1"]
  <1>1. /\ first \in OldRow /\ Tail(running[r]) \in Seq(OldRow)
        /\ Len(Tail(running[r])) = Len(running[r]) - 1
        /\ Len(running[r]) # 0
    BY HeadTailProperties, EmptySeq DEF TransferEnds, FetchedOld
  <1>2. held[r] = "task" /\ Len(running[r]) = 1
    BY <1>1 DEF RowLocks
  <1>3. Interval[r] \in Nat /\ GetTimeInterval(Interval[r]) \in Nat
    BY IntervalType, RouteAssumption DEF TypeOK, Day
  <1>4. row \in Row /\ row.status = "1" /\ (row.lastdate = "today" => ok)
    BY <1>1, <1>3 DEF NextTurn, OldRow, Row
  <1>5. /\ db' = [db EXCEPT ![r] = row] /\ dirty' = [dirty EXCEPT ![r] = row]
        /\ held' = [held EXCEPT ![r] = "free"]
        /\ running' = [running EXCEPT ![r] = Tail(running[r])]
    BY DEF TransferEnds, Stop_service, DisconnectDB, TypeOK
  <1> HIDE DEF row, first
  <1>6. running' \in [Routes -> Seq(OldRow)] /\ running' \in [Routes -> Seq(Row)]
    BY <1>1, <1>5, OldSeqs DEF FetchedOld
  <1>7. RowLocks'
    BY <1>1, <1>2, <1>5 DEF RowLocks, TypeOK
  <1>8. NeverCommitted'
    BY <1>4, <1>5 DEF NeverCommitted, TypeOK
  <1>9. done' \in [Routes -> 0 .. MaxDone] /\ (ok => done'[r] > 0)
    BY RouteAssumption DEF TransferEnds, TypeOK
  <1>10. DoneToday'
    BY <1>4, <1>5, <1>9 DEF TransferEnds, DoneToday, TypeOK
  <1>11. phase # "reset"
    BY DEF TransferEnds, ResetFirst
  <1>12. QED
    BY <1>4, <1>5, <1>6, <1>7, <1>8, <1>9, <1>10, <1>11
       DEF TransferEnds, TypeOK, FetchedOld, ResetFirst

(* A kill takes locks and tasks together.                                  *)
LEMMA KillInv == ASSUME Inv, KillAndRestart PROVE Inv'
  <1>1. <<>> \in Seq(OldRow) /\ <<>> \in Seq(Row) /\ Len(<<>>) = 0
    BY EmptySeq
  <1>2. QED
    BY <1>1, RouteAssumption
       DEF Inv, KillAndRestart, TypeOK, FetchedOld, RowLocks, NeverCommitted, ResetFirst,
       DoneToday

(* Every reachable state satisfies the invariant.                          *)
THEOREM InvCorrect == Spec => []Inv
  <1>1. Inv /\ [Next]_vars => Inv'
    <2> SUFFICES ASSUME Inv, [Next]_vars
                 PROVE  Inv'
      OBVIOUS
    <2>1. CASE UNCHANGED vars
      BY <2>1 DEF vars, rowVars, taskVars, Inv, TypeOK, FetchedOld, RowLocks, NeverCommitted,
                  ResetFirst, DoneToday
    <2>2. QED
      BY <2>1, TickInv, ResetInv, PollInv, ConnectInv, StartInv, TransferInv, KillInv
         DEF Next, SendTask
  <1>2. QED
    BY <1>1, InitInv, PTL DEF Spec

(* Rows, locks, clock and tasks keep their types.                          *)
THEOREM TypeCorrect == Spec => []TypeOK
  BY InvCorrect, PTL DEF Inv

(* The row lock keeps a second task of a route out of SendTask's transfer. *)
THEOREM OneTransfer == Spec => []OneTransferAtATime
  <1>1. Inv => OneTransferAtATime
    <2> SUFFICES ASSUME Inv, NEW r \in Routes
                 PROVE  Len(running[r]) <= 1
      BY DEF OneTransferAtATime
    <2>1. Len(running[r]) = 0 \/ Len(running[r]) = 1
      BY DEF Inv, RowLocks
    <2>2. 0 <= 1 /\ 1 <= 1
      OBVIOUS
    <2>3. QED
      BY <2>1, <2>2, Zenon
  <1>2. QED
    BY <1>1, InvCorrect, PTL

(* Status "0" is only ever written under a lock and replaced before the    *)
(* commit: whatever is killed, no route is left as running.                *)
THEOREM NoRouteLeftRunning == Spec => []NoneLeftRunning
  <1>1. Inv => NoneLeftRunning
    <2> SUFFICES ASSUME Inv, NEW r \in Routes, running[r] = <<>>
                 PROVE  db[r].status # "0" /\ held[r] # "task"
      BY DEF NoneLeftRunning
    <2>1. Len(running[r]) = 0
      OBVIOUS
    <2>2. QED
      BY <2>1 DEF Inv, RowLocks, NeverCommitted
  <1>2. QED
    BY <1>1, InvCorrect, PTL

(* LASTDATE says today only of a route that was transferred today.         *)
THEOREM LastDateCorrect == Spec => []DoneToday
  BY InvCorrect, PTL DEF Inv
=============================================================================
