--------------------------- MODULE RouteScheduler ---------------------------
(***************************************************************************)
(* SendFileThread, which looks every minute for routes that are due, and   *)
(* the SendTask threads it starts, each with a database session of its own.*)
(* Oracle build: nothing is committed before a task disconnects, so what a *)
(* task writes at its start is a row lock to the other tasks and invisible *)
(* to the scheduler.  The clock counts minutes; a date is today's or older.*)
(***************************************************************************)
EXTENDS Integers, Sequences

CONSTANTS Routes,          (* rows of ROUTE                                 *)
          Interval,        (* INTER_VAL in minutes, 0: once a day           *)
          FirstTime,       (* STARTTIME as configured                       *)
          FirstStatus,     (* STATUS_ as configured: "1" or "NULL"          *)
          Hours, Minutes,  (* of a day, of an hour                          *)
          Faults,          (* what may go wrong                             *)
          MaxWaiting,      (* bound: tasks of a route before Start_service  *)
          MaxDone,         (* bound: done[r] counts no further              *)
          MaxKills         (* bound: kills of the process                   *)

FaultKinds == {"connect",  (* a task gets no database session               *)
               "transfer"} (* UploadFile or DownFile returns ERROR, or the  *)
                           (* route's directory, bank or type is unusable   *)

ASSUME RouteAssumption ==
  /\ Interval \in [Routes -> Nat] /\ FirstTime \in [Routes -> Nat]
  /\ FirstStatus \in [Routes -> {"1", "NULL"}]
  /\ Hours \in Nat \ {0} /\ Minutes \in 1 .. 60
  /\ Faults \subseteq FaultKinds
  /\ MaxWaiting \in Nat \ {0} /\ MaxDone \in Nat \ {0} /\ MaxKills \in Nat

VARIABLES
  db,        (* committed rows: status, starttime, lastdate                 *)
  dirty,     (* the row as the session that holds its lock wrote it         *)
  held,      (* who holds the lock of a row: "free", "scheduler" or "task"  *)
  now,       (* minutes since midnight                                      *)
  phase,     (* SendFileThread: "reset", "poll" or "sleep"                  *)
  waiting,   (* tasks before Start_service: the rows they fetched           *)
  running,   (* tasks between Start_service and Stop_service                *)
  done,      (* transfers that succeeded today (only properties read it)    *)
  kills

rowVars  == <<db, dirty, held>>
taskVars == <<waiting, running, done>>
vars     == <<rowVars, now, phase, taskVars, kills>>

Fault(k) == k \in Faults

Init ==
  /\ db = [r \in Routes |-> [status |-> FirstStatus[r], starttime |-> FirstTime[r],
                             lastdate |-> "before"]]
  /\ dirty = db
  /\ held = [r \in Routes |-> "free"]
  /\ now = 0 /\ phase = "reset"
  /\ waiting = [r \in Routes |-> <<>>]
  /\ running = [r \in Routes |-> <<>>]
  /\ done = [r \in Routes |-> 0]
  /\ kills = 0

-----------------------------------------------------------------------------
(* A time of day is written as the number hhmm.                            *)
GetTimeInt == ((now \div Minutes) * 100) + (now % Minutes)

\* Slip: one minute early instead of one minute late.
GetTimeIntervalEarly(min) ==
  LET t == (now + min) % (Hours * Minutes)
  IN  ((t \div Minutes) * 100) + (t % Minutes) - 1

(* One is added to the minutes of the sum, after the hours are taken.      *)
GetTimeInterval(min) ==
  LET t == (now + min) % (Hours * Minutes)
  IN  ((t \div Minutes) * 100) + (t % Minutes) + 1

(* Midnight makes every date, wherever it is kept, an earlier one.         *)
Older(row)  == [row EXCEPT !.lastdate = "before"]
AgeAll(seq) == [i \in DOMAIN seq |-> Older(seq[i])]

Tick ==
  /\ phase = "sleep" /\ phase' = "poll"
  /\ now' = (now + 1) % (Hours * Minutes)
  /\ IF now' = 0
     THEN /\ db' = [r \in Routes |-> Older(db[r])]
          /\ dirty' = [r \in Routes |-> Older(dirty[r])]
          /\ waiting' = [r \in Routes |-> AgeAll(waiting[r])]
          /\ running' = [r \in Routes |-> AgeAll(running[r])]
          /\ done' = [r \in Routes |-> 0]
     ELSE UNCHANGED <<db, dirty, taskVars>>
  /\ UNCHANGED <<held, kills>>

-----------------------------------------------------------------------------
(* DBS_UPDATE1, once at the start, in the session the thread keeps for     *)
(* good and never commits.                                                 *)
Reset ==
  /\ phase = "reset" /\ phase' = "poll"
  /\ LET S == {r \in Routes : db[r].status \in {"0", "NULL"}}
     IN  /\ held' = [r \in Routes |-> IF r \in S THEN "scheduler" ELSE held[r]]
         /\ dirty' = [r \in Routes |-> IF r \in S THEN [db[r] EXCEPT !.status = "1"] ELSE db[r]]
  /\ UNCHANGED <<db, now, taskVars, kills>>

(* The cursor sees the rows as committed, and the thread's own updates.    *)
(* STARTTIME < now is in seconds: here the poll of its minute comes after. *)
Seen(r) == IF held[r] = "scheduler" THEN dirty[r] ELSE db[r]

Due(r) ==
  /\ Seen(r).status \in {"1", "NULL"}
  /\ Seen(r).starttime <= GetTimeInt
  /\ Seen(r).lastdate # "today"

(* A task for every due route.                                             *)
Poll ==
  /\ phase = "poll" /\ phase' = "sleep"
  /\ waiting' = [r \in Routes |->
                   IF Due(r) /\ Len(waiting[r]) < MaxWaiting THEN Append(waiting[r], Seen(r))
                   ELSE waiting[r]]
  /\ UNCHANGED <<rowVars, now, running, done, kills>>

-----------------------------------------------------------------------------
(* SendTask.                                                               *)
Without(seq, i) == SubSeq(seq, 1, i - 1) \o SubSeq(seq, i + 1, Len(seq))

ConnectFails(r) ==
  /\ Fault("connect")
  /\ \E i \in DOMAIN waiting[r] : waiting' = [waiting EXCEPT ![r] = Without(@, i)]
  /\ UNCHANGED <<rowVars, now, phase, running, done, kills>>

\* Slips: the update is committed by itself, or does not wait for the row.
StartCommits(r) ==
  /\ held[r] = "free"
  /\ \E i \in DOMAIN waiting[r] :
       LET row == [waiting[r][i] EXCEPT !.status = "0"]
       IN  /\ waiting' = [waiting EXCEPT ![r] = Without(@, i)]
           /\ running' = [running EXCEPT ![r] = Append(@, row)]
           /\ dirty' = [dirty EXCEPT ![r] = row]
           /\ db' = [db EXCEPT ![r] = row]
  /\ held' = [held EXCEPT ![r] = "task"]
  /\ UNCHANGED <<now, phase, done, kills>>

StartDoesNotWait(r) ==
  /\ \E i \in DOMAIN waiting[r] :
       LET row == [waiting[r][i] EXCEPT !.status = "0"]
       IN  /\ waiting' = [waiting EXCEPT ![r] = Without(@, i)]
           /\ running' = [running EXCEPT ![r] = Append(@, row)]
           /\ dirty' = [dirty EXCEPT ![r] = row]
  /\ held' = [held EXCEPT ![r] = "task"]
  /\ UNCHANGED <<db, now, phase, done, kills>>

(* The update of the row waits for its lock, and writes what the task      *)
(* fetched, which another task may have changed meanwhile.                 *)
Start_service(r) ==
  /\ held[r] = "free"
  /\ \E i \in DOMAIN waiting[r] :
       LET row == [waiting[r][i] EXCEPT !.status = "0"]
       IN  /\ waiting' = [waiting EXCEPT ![r] = Without(@, i)]
           /\ running' = [running EXCEPT ![r] = Append(@, row)]
           /\ dirty' = [dirty EXCEPT ![r] = row]
  /\ held' = [held EXCEPT ![r] = "task"]
  /\ UNCHANGED <<db, now, phase, done, kills>>

\* Slip: a transfer is a transfer, whatever its result.
NextTurnAnyway(r, row, ok) ==
  IF Interval[r] # 0 THEN [row EXCEPT !.starttime = GetTimeInterval(Interval[r])]
  ELSE [row EXCEPT !.lastdate = "today"]

(* When the route is next due: only a success moves it on.                 *)
NextTurn(r, row, ok) ==
  IF ~ ok THEN row
  ELSE IF Interval[r] # 0 THEN [row EXCEPT !.starttime = GetTimeInterval(Interval[r])]
  ELSE [row EXCEPT !.lastdate = "today"]

Stop_service(r, row) == dirty' = [dirty EXCEPT ![r] = [row EXCEPT !.status = "1"]]

\* Slip: an error path that returns without DisconnectDB.
DisconnectOnSuccess(r, ok) ==
  IF ok THEN /\ db' = [db EXCEPT ![r] = dirty'[r]]
             /\ held' = [held EXCEPT ![r] = "free"]
  ELSE UNCHANGED <<db, held>>

(* commit work release.                                                    *)
DisconnectDB(r, ok) ==
  /\ db' = [db EXCEPT ![r] = dirty'[r]]
  /\ held' = [held EXCEPT ![r] = "free"]

TransferEnds(r, ok) ==
  /\ running[r] # <<>>
  /\ ok \/ Fault("transfer")
  /\ Stop_service(r, NextTurn(r, Head(running[r]), ok))
  /\ DisconnectDB(r, ok)
  /\ running' = [running EXCEPT ![r] = Tail(@)]
  /\ done' = [done EXCEPT ![r] = IF ok /\ @ < MaxDone THEN @ + 1 ELSE @]
  /\ UNCHANGED <<now, phase, waiting, kills>>

(* The sessions end with the process, and Oracle rolls their work back.    *)
KillAndRestart ==
  /\ kills < MaxKills
  /\ kills' = kills + 1
  /\ dirty' = db
  /\ held' = [r \in Routes |-> "free"]
  /\ phase' = "reset"
  /\ waiting' = [r \in Routes |-> <<>>]
  /\ running' = [r \in Routes |-> <<>>]
  /\ UNCHANGED <<db, now, done>>

SendTask(r) == Start_service(r) \/ \E ok \in BOOLEAN : TransferEnds(r, ok)

Next ==
  \/ Tick \/ Reset \/ Poll \/ KillAndRestart
  \/ \E r \in Routes : ConnectFails(r) \/ SendTask(r)

(* The clock runs, the thread comes round once a minute, transfers end, and*)
(* a route that is due again and again does not fail to connect each time. *)
Fairness ==
  /\ WF_vars(Tick) /\ WF_vars(Reset) /\ WF_vars(Poll)
  /\ \A r \in Routes : /\ SF_vars(Start_service(r))
                       /\ WF_vars(\E ok \in BOOLEAN : TransferEnds(r, ok))

Spec == Init /\ [][Next]_vars /\ Fairness

-----------------------------------------------------------------------------
Row == [status : {"0", "1", "NULL"}, starttime : Nat, lastdate : {"today", "before"}]

(* Type invariant.                                                         *)
TypeOK ==
  /\ db \in [Routes -> Row] /\ dirty \in [Routes -> Row]
  /\ held \in [Routes -> {"free", "scheduler", "task"}]
  /\ now \in 0 .. Hours * Minutes - 1
  /\ phase \in {"reset", "poll", "sleep"}
  /\ waiting \in [Routes -> Seq(Row)] /\ running \in [Routes -> Seq(Row)]
  /\ \A r \in Routes : Len(waiting[r]) <= MaxWaiting
  /\ done \in [Routes -> 0 .. MaxDone]
  /\ kills \in 0 .. MaxKills

(* Although the scheduler starts a task for a route whose transfer is under*)
(* way, no two tasks pack and send the same directory at the same time.    *)
OneTransferAtATime == \A r \in Routes : Len(running[r]) <= 1

(* No kill leaves a route marked as running: with no task at work its      *)
(* committed status lets the scheduler take it.                            *)
NoneLeftRunning ==
  \A r \in Routes : running[r] = <<>> => db[r].status # "0" /\ held[r] # "task"

(* Today's date in LASTDATE means that today's transfer is done.           *)
DoneToday == \A r \in Routes : db[r].lastdate = "today" => done[r] > 0

(* A route that is due is transferred, though tasks fail to connect, fail  *)
(* to transfer, wait for one another and are killed.                       *)
DueStarts ==
  \A r \in Routes : (phase = "poll" /\ Due(r)) ~> running[r] # <<>>

(* INTER_VAL 0: once a day.                                                *)
OncePerDay == \A r \in Routes : Interval[r] = 0 => done[r] <= 1

(* INTER_VAL n: again n later, and again.                                  *)
RunsAgain == \A r \in Routes : Interval[r] # 0 => []<>(running[r] # <<>>)
=============================================================================
