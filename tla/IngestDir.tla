----------------------------- MODULE IngestDir -----------------------------
(***************************************************************************)
(* The insert directory of src/pokafile/file.c: the thread that lists it   *)
(* and queues its files, the handler threads that load them into the       *)
(* database, CheckResult, which gives a file back, and CoverFiles, which   *)
(* runs at every start.  A file waits under its plain name, is claimed by  *)
(* a rename to <name>.START, and ends in the handled or the error          *)
(* directory.  The process may be killed between any two steps; the        *)
(* directories and the database stay, the queue and the threads do not.    *)
(***************************************************************************)
EXTENDS Integers, Sequences, FiniteSets

CONSTANTS Files,       (* file names                                        *)
          Kind,        (* Kind[f]: "record" (FSN, BF, BK, SK, DK), "zip", "ct" *)
          Inside,      (* Inside[z]: the names a zip unpacks to             *)
          Handlers,    (* HandleFileThread instances                        *)
          Capacity,    (* entries the queue holds, QUE_SIZE - 1             *)
          Batches,     (* which files come, and what may go wrong with them *)
          MaxCrashes,  (* bound: kills of the process                       *)
          MaxLoads,    (* bound: loaded[f] counts no further                *)
          None

FaultKinds == {"rename",      (* a rename or mv fails                       *)
               "unzip",       (* unzip fails, or writes only part           *)
               "waring",      (* a WARING on a session that is well: no     *)
                              (* tablespace (ORA-1688), no memory, a note   *)
                              (* without a serial number                    *)
               "nodata",      (* an ATM file without notes: NODATA          *)
               "session"}     (* a database session is lost                 *)

Inner == UNION {Inside[z] : z \in {f \in Files : Kind[f] = "zip"}}

ASSUME IngestAssumption ==
  /\ Kind \in [Files -> {"record", "zip", "ct"}]
  /\ Inside \in [Files -> SUBSET Files]
  /\ \A f \in Inner : Kind[f] # "zip"
  /\ IsFiniteSet(Handlers) /\ Capacity \in Nat \ {0}
  /\ Batches \subseteq [files : SUBSET Files, faults : SUBSET FaultKinds]
  /\ MaxCrashes \in Nat /\ MaxLoads \in Nat \ {0}
  /\ None \notin Files

VARIABLES
  plain, start,      (* names in the insert directory, as f and as f.START  *)
  unz,               (* files inside the directory a zip is unpacked into   *)
  handled, errored,  (* names in the handled and the error directory        *)
  loaded,            (* how often the rows of a file have been committed    *)
  delivered,         (* names that ever arrived (only properties read it)   *)
  queue,             (* gQue                                                *)
  lpc, ltodo, lfile, (* ListDirThread: place, rest of its scan, df          *)
  hpc, hfile, hres,  (* HandleFileThread: place, df, iRet                   *)
  session,           (* its database connection                             *)
  cut,               (* is_date_cut() == SUCESS                             *)
  startsInCut,       (* files popped since the date cut began (properties)  *)
  phase, crashes,
  batch              (* the member of Batches that comes                    *)

fileVars    == <<plain, start, unz, handled, errored, loaded, delivered>>
listerVars  == <<lpc, ltodo, lfile>>
handlerVars == <<hpc, hfile, hres, session, startsInCut>>
envVars     == <<cut, phase, crashes, batch>>
vars        == <<fileVars, queue, listerVars, handlerVars, envVars>>

Fault(k) == k \in batch.faults

Init ==
  /\ plain = {} /\ start = {} /\ handled = {} /\ errored = {} /\ delivered = {}
  /\ unz = [f \in Files |-> {}]
  /\ loaded = [f \in Files |-> 0]
  /\ queue = <<>>
  /\ lpc = "check" /\ ltodo = {} /\ lfile = None
  /\ hpc = [h \in Handlers |-> "connect"]
  /\ hfile = [h \in Handlers |-> None]
  /\ hres = [h \in Handlers |-> "SUCESS"]
  /\ session = [h \in Handlers |-> "none"]
  /\ startsInCut = [h \in Handlers |-> 0]
  /\ cut = FALSE
  /\ phase = "cover"
  /\ crashes = 0
  /\ batch \in Batches

-----------------------------------------------------------------------------
(* The environment.  Every name is delivered once, by a sender's route or  *)
(* by SwitchFileThread; the names inside a zip arrive when it is unpacked. *)
Deliver(f) ==
  /\ f \in batch.files \ (delivered \cup Inner)
  /\ plain' = plain \cup {f}
  /\ delivered' = delivered \cup {f}
  /\ UNCHANGED <<start, unz, handled, errored, loaded, queue, listerVars,
                 handlerVars, envVars>>

(* update_date_cup.                                                        *)
CutBegins ==
  /\ phase = "up" /\ ~ cut
  /\ cut' = TRUE
  /\ startsInCut' = [h \in Handlers |-> 0]
  /\ UNCHANGED <<fileVars, queue, listerVars, hpc, hfile, hres, session, phase, crashes, batch>>

CutEnds ==
  /\ phase = "up" /\ cut
  /\ cut' = FALSE
  /\ UNCHANGED <<fileVars, queue, listerVars, handlerVars, phase, crashes, batch>>

(* The connection of a thread breaks; the next statement is the first to   *)
(* notice.                                                                 *)
SessionBreaks(h) ==
  /\ Fault("session") /\ session[h] = "ok"
  /\ session' = [session EXCEPT ![h] = "broken"]
  /\ UNCHANGED <<fileVars, queue, listerVars, hpc, hfile, hres, startsInCut, envVars>>

-----------------------------------------------------------------------------
(* ListDirThread.                                                          *)
OpenDir ==
  /\ phase = "up" /\ lpc = "check" /\ ~ cut
  /\ lpc' = "scan"
  /\ ltodo' = plain
  /\ UNCHANGED <<fileVars, queue, lfile, handlerVars, envVars>>

(* readdir returns every name there was at opendir, and perhaps others.    *)
(* A rename that fails makes the thread free a pointer to its own stack,   *)
(* which aborts the process: Crash.                                        *)
StartFile(f) ==
  /\ lpc = "scan" /\ f \in plain
  /\ plain' = plain \ {f}
  /\ start' = start \cup {f}
  /\ ltodo' = ltodo \ {f}
  /\ lfile' = f
  /\ lpc' = "push"
  /\ UNCHANGED <<unz, handled, errored, loaded, delivered, queue, handlerVars, envVars>>

\* Slips: a push that does not wait for room overruns the queue, or drops the entry.
PushOverruns ==
  /\ lpc = "push"
  /\ queue' = Append(queue, lfile)
  /\ lfile' = None
  /\ lpc' = "scan"
  /\ UNCHANGED <<fileVars, ltodo, handlerVars, envVars>>

PushOrDrop ==
  /\ lpc = "push"
  /\ queue' = IF Len(queue) < Capacity THEN Append(queue, lfile) ELSE queue
  /\ lfile' = None
  /\ lpc' = "scan"
  /\ UNCHANGED <<fileVars, ltodo, handlerVars, envVars>>

PushQueue ==
  /\ lpc = "push" /\ Len(queue) < Capacity
  /\ queue' = Append(queue, lfile)
  /\ lfile' = None
  /\ lpc' = "scan"
  /\ UNCHANGED <<fileVars, ltodo, handlerVars, envVars>>

CloseDir ==
  /\ lpc = "scan" /\ ltodo = {}
  /\ lpc' = "check"
  /\ UNCHANGED <<fileVars, queue, ltodo, lfile, handlerVars, envVars>>

-----------------------------------------------------------------------------
(* HandleFileThread.                                                       *)
Results == {"SUCESS", "WARING", "ERROR", "NODATA"}

At(h, place)  == phase = "up" /\ hpc[h] = place
Goto(h, to)   == hpc' = [hpc EXCEPT ![h] = to]
Result(h, r)  == hres' = [hres EXCEPT ![h] = r]

ConnectDb(h) ==
  /\ At(h, "connect") /\ Goto(h, "top")
  /\ session' = [session EXCEPT ![h] = "ok"]
  /\ UNCHANGED <<fileVars, queue, listerVars, hfile, hres, startsInCut, envVars>>

\* Slip: only the thread that lists the directory minds the date cut.
CheckNothing(h) ==
  /\ At(h, "top") /\ Goto(h, "pop")
  /\ UNCHANGED <<fileVars, queue, listerVars, hfile, hres, session, startsInCut, envVars>>

(* The date cut is tested before the thread blocks in pop_cir_queue.       *)
CheckDateCut(h) ==
  /\ At(h, "top") /\ ~ cut /\ Goto(h, "pop")
  /\ UNCHANGED <<fileVars, queue, listerVars, hfile, hres, session, startsInCut, envVars>>

PopQueue(h) ==
  /\ At(h, "pop") /\ queue # <<>> /\ Goto(h, "work")
  /\ hfile' = [hfile EXCEPT ![h] = Head(queue)]
  /\ queue' = Tail(queue)
  /\ startsInCut' = [startsInCut EXCEPT ![h] = IF cut THEN @ + 1 ELSE 0]
  /\ UNCHANGED <<fileVars, listerVars, hres, session, envVars>>

Count(f) == loaded' = [loaded EXCEPT ![f] = IF @ < MaxLoads THEN @ + 1 ELSE @]

(* The sqlcode of a statement: a session that breaks answers ORA-3113 once *)
(* and ORA-3114 from then on.                                              *)
SqlCode(s) == CASE s = "broken" -> 3113 [] s = "lost" -> 3114 [] OTHER -> 0
Noticed(s) == IF s = "broken" THEN "lost" ELSE s

\* Slips: a lost connection is worth another try; what is not known is well.
JudgeRetriesLoss(code) ==
  IF code \in {3113, 3114, 1688, 12514} THEN "WARING"
  ELSE IF code \in {0, 1405} THEN "SUCESS" ELSE IF code = 1403 THEN "NODATA" ELSE "ERROR"
JudgeTrusts(code) ==
  IF code \in {3114, 1688, 12514} THEN "WARING" ELSE IF code = 1403 THEN "NODATA" ELSE "SUCESS"

JudgeSqlExecResultLocal(code) ==
  CASE code \in {3114, 1688, 12514} -> "WARING"
    [] code \in {0, 1405}           -> "SUCESS"
    [] code = 1403                  -> "NODATA"
    [] OTHER                        -> "ERROR"

(* FSNFile, BFFile, BKFile, SKFile and DKFile up to the result of the load.*)
(* A WARING skips the move.  The ERROR of a single insert only counts a bad*)
(* record, so a session that broke before shows as ORA-3114; one that      *)
(* breaks in the commit shows as ORA-3113, with the rows stored or not.    *)
LoadRecords(h) ==
  LET f == hfile[h]
      Ends(r, s) == /\ Result(h, r)
                    /\ session' = [session EXCEPT ![h] = s]
                    /\ Goto(h, IF r = "WARING" THEN "check" ELSE "move")
      EndsWith(code, s) == Ends(JudgeSqlExecResultLocal(code), s)
  IN  /\ At(h, "work") /\ Kind[f] = "record"
      /\ \/ /\ Ends("ERROR", session[h])             (* no such file, bad format *)
            /\ UNCHANGED loaded
         \/ /\ f \in start /\ session[h] = "ok"
            /\ \/ EndsWith(0, "ok") /\ Count(f)
               \/ Fault("waring") /\ EndsWith(1688, "ok") /\ UNCHANGED loaded
               \/ Fault("nodata") /\ EndsWith(1403, "ok") /\ UNCHANGED loaded
               \/ Fault("session") /\ EndsWith(3113, "lost") /\ (Count(f) \/ UNCHANGED loaded)
         \/ /\ f \in start /\ session[h] \in {"broken", "lost"}
            /\ EndsWith(3114, "lost") /\ UNCHANGED loaded
         \/ /\ f \in start /\ session[h] = "broken"     (* without a row to insert *)
            /\ EndsWith(3113, "lost") /\ UNCHANGED loaded
      /\ UNCHANGED <<plain, start, unz, handled, errored, delivered, queue,
                     listerVars, hfile, startsInCut, envVars>>

(* case CT_FILE_TYPE: break leaves iRet unset, so it holds any value.      *)
SkipCT(h) ==
  /\ At(h, "work") /\ Kind[hfile[h]] = "ct" /\ Goto(h, "check")
  /\ \E r \in Results : Result(h, r)
  /\ UNCHANGED <<fileVars, queue, listerVars, hfile, session, startsInCut, envVars>>

(* The rename of MoveFSNFile, MoveBFFile, ...: tried again once, then left.*)
(* NODATA has no case of its own: the rename is to "/" and always fails.   *)
MoveFile(h) ==
  LET f == hfile[h]
  IN  /\ phase = "up" /\ hpc[h] \in {"move", "move2"}
      /\ \/ /\ f \in start /\ hres[h] # "NODATA"
            /\ start' = start \ {f}
            /\ handled' = IF hres[h] = "SUCESS" THEN handled \cup {f} ELSE handled
            /\ errored' = IF hres[h] = "ERROR" THEN errored \cup {f} ELSE errored
            /\ Goto(h, "check")
         \/ /\ f \notin start \/ Fault("rename") \/ hres[h] = "NODATA"
            /\ Goto(h, IF hpc[h] = "move" THEN "move2" ELSE "check")
            /\ UNCHANGED <<start, handled, errored>>
      /\ UNCHANGED <<plain, unz, loaded, delivered, queue, listerVars, hfile, hres,
                     session, startsInCut, envVars>>

(* ZIPFile: unzip -o into f_START, mv each file out, look for files left   *)
(* behind, remove the directory, and the zip if nothing was left.          *)
Unzip(h) ==
  LET z == hfile[h]
  IN  /\ At(h, "work") /\ Kind[z] = "zip"
      /\ \/ /\ \E S \in IF Fault("unzip") THEN SUBSET Inside[z] ELSE {Inside[z]} :
                 unz' = [unz EXCEPT ![z] = @ \cup S]
            /\ Goto(h, "unpack") /\ UNCHANGED hres
         \/ /\ Fault("unzip")                        (* no directory was made *)
            /\ Goto(h, "check") /\ Result(h, "ERROR")
            /\ UNCHANGED unz
      /\ UNCHANGED <<plain, start, handled, errored, loaded, delivered, queue,
                     listerVars, hfile, session, startsInCut, envVars>>

MoveOut(h, f) ==
  LET z == hfile[h]
  IN  /\ At(h, "unpack") /\ f \in unz[z]
      /\ unz' = [unz EXCEPT ![z] = @ \ {f}]
      /\ plain' = plain \cup {f}
      /\ delivered' = delivered \cup {f}
      /\ UNCHANGED <<start, handled, errored, loaded, queue, listerVars, handlerVars,
                     envVars>>

\* Slip: files that mv left behind go unnoticed.
CheckDirNever(h) ==
  /\ At(h, "unpack") /\ Goto(h, "rmdir")
  /\ unz[hfile[h]] = {} \/ Fault("rename")
  /\ Result(h, "SUCESS")
  /\ UNCHANGED <<fileVars, queue, listerVars, hfile, session, startsInCut, envVars>>

CheckDirEmpty(h) ==
  /\ At(h, "unpack") /\ Goto(h, "rmdir")
  /\ unz[hfile[h]] = {} \/ Fault("rename")
  /\ Result(h, IF unz[hfile[h]] = {} THEN "SUCESS" ELSE "ERROR")
  /\ UNCHANGED <<fileVars, queue, listerVars, hfile, session, startsInCut, envVars>>

RemoveUnzipDir(h) ==
  /\ At(h, "rmdir") /\ Goto(h, IF hres[h] = "SUCESS" THEN "rmzip" ELSE "check")
  /\ unz' = [unz EXCEPT ![hfile[h]] = {}]
  /\ UNCHANGED <<plain, start, handled, errored, loaded, delivered, queue, listerVars,
                 hfile, hres, session, startsInCut, envVars>>

RemoveZip(h) ==
  /\ At(h, "rmzip") /\ Goto(h, "check")
  /\ start' = start \ {hfile[h]}
  /\ UNCHANGED <<plain, unz, handled, errored, loaded, delivered, queue, listerVars,
                 hfile, hres, session, startsInCut, envVars>>

(* CheckResult: a WARING, and the ERROR of a zip, give the file back.      *)
CheckResult(h) ==
  LET f == hfile[h]
      givesBack == hres[h] = "WARING" \/ (hres[h] = "ERROR" /\ Kind[f] = "zip")
  IN  /\ At(h, "check") /\ Goto(h, IF hres[h] = "WARING" THEN "test" ELSE "top")
      /\ \/ /\ givesBack /\ f \in start                  \* StopFile
            /\ start' = start \ {f}
            /\ plain' = plain \cup {f}
         \/ /\ givesBack => (f \notin start \/ Fault("rename"))
            /\ UNCHANGED <<start, plain>>
      /\ hfile' = [hfile EXCEPT ![h] = None]
      /\ UNCHANGED <<unz, handled, errored, loaded, delivered, queue, listerVars, hres,
                     session, startsInCut, envVars>>

(* The rest of its WARING case: TestConnectionDB, and a new connection if  *)
(* that returns ERROR.                                                     *)
TestConnection(h) ==
  /\ At(h, "test") /\ Goto(h, "top")
  /\ session' = [session EXCEPT ![h] =
                   IF JudgeSqlExecResultLocal(SqlCode(@)) = "ERROR" THEN "ok" ELSE Noticed(@)]
  /\ UNCHANGED <<fileVars, queue, listerVars, hfile, hres, startsInCut, envVars>>

HandlerStep(h) ==
  \/ ConnectDb(h) \/ PopQueue(h) \/ LoadRecords(h) \/ SkipCT(h) \/ MoveFile(h)
  \/ Unzip(h) \/ (\E f \in Files : MoveOut(h, f)) \/ CheckDirEmpty(h)
  \/ RemoveUnzipDir(h) \/ RemoveZip(h) \/ CheckResult(h) \/ TestConnection(h)

-----------------------------------------------------------------------------
(* The process is killed, or aborts, and is started again.                 *)
Crash ==
  /\ phase # "down" /\ crashes < MaxCrashes
  /\ phase' = "down"
  /\ crashes' = crashes + 1
  /\ queue' = <<>>
  /\ lpc' = "check" /\ ltodo' = {} /\ lfile' = None
  /\ hpc' = [h \in Handlers |-> "connect"]
  /\ hfile' = [h \in Handlers |-> None]
  /\ hres' = [h \in Handlers |-> "SUCESS"]
  /\ session' = [h \in Handlers |-> "none"]
  /\ startsInCut' = [h \in Handlers |-> 0]
  /\ cut' = FALSE
  /\ UNCHANGED <<fileVars, batch>>

Restart ==
  /\ phase = "down" /\ phase' = "cover"
  /\ UNCHANGED <<fileVars, queue, listerVars, handlerVars, cut, crashes, batch>>

\* Slips: CoverFiles runs beside the threads, or the threads start without it.
CoverAnyTime(f) ==
  /\ phase # "down" /\ f \in start
  /\ start' = start \ {f}
  /\ plain' = plain \cup {f}
  /\ UNCHANGED <<unz, handled, errored, loaded, delivered, queue, listerVars,
                 handlerVars, envVars>>

CoverSkipped ==
  /\ phase = "cover" /\ phase' = "up"
  /\ UNCHANGED <<fileVars, queue, listerVars, handlerVars, cut, crashes, batch>>

(* CoverFiles gives every .START file its plain name back, before any      *)
(* thread is created.                                                      *)
CoverFile(f) ==
  /\ phase = "cover" /\ f \in start
  /\ start' = start \ {f}
  /\ plain' = plain \cup {f}
  /\ UNCHANGED <<unz, handled, errored, loaded, delivered, queue, listerVars,
                 handlerVars, envVars>>

CoverDone ==
  /\ phase = "cover" /\ (start = {} \/ Fault("rename"))
  /\ phase' = "up"
  /\ UNCHANGED <<fileVars, queue, listerVars, handlerVars, cut, crashes, batch>>

Lister == OpenDir \/ (\E f \in Files : StartFile(f)) \/ PushQueue \/ CloseDir
Cover  == Restart \/ (\E f \in Files : CoverFile(f)) \/ CoverDone

Next ==
  \/ \E f \in Files : Deliver(f)
  \/ CutBegins \/ CutEnds \/ Crash \/ Cover \/ Lister
  \/ \E h \in Handlers : SessionBreaks(h) \/ CheckDateCut(h) \/ HandlerStep(h)

(* Every thread runs, a killed process is started again by pokadaemon, and *)
(* a thread that sleeps through the date cuts sees the clock outside one   *)
(* again and again, for the window is a few hours of the day.  StartFile   *)
(* is strong because each scan returns the names that were there at opendir*)
(* whatever comes back to the directory meanwhile.                         *)
Fairness ==
  /\ WF_vars(Cover) /\ WF_vars(CutEnds)
  /\ SF_vars(OpenDir) /\ WF_vars(PushQueue) /\ WF_vars(CloseDir)
  /\ \A f \in Files : SF_vars(StartFile(f))
  /\ \A h \in Handlers : SF_vars(CheckDateCut(h)) /\ WF_vars(HandlerStep(h))

Spec     == Init /\ [][Next]_vars
FairSpec == Spec /\ Fairness

-----------------------------------------------------------------------------
(* Type invariant.                                                         *)
TypeOK ==
  /\ plain \subseteq Files /\ start \subseteq Files /\ delivered \subseteq Files
  /\ handled \subseteq Files /\ errored \subseteq Files
  /\ unz \in [Files -> SUBSET Files]
  /\ loaded \in [Files -> 0 .. MaxLoads]
  /\ queue \in Seq(Files) /\ Len(queue) <= Capacity
  /\ lpc \in {"check", "scan", "push"}
  /\ ltodo \subseteq Files /\ lfile \in Files \cup {None}
  /\ hpc \in [Handlers -> {"connect", "top", "pop", "work", "move", "move2", "unpack",
                           "rmdir", "rmzip", "check", "test"}]
  /\ hfile \in [Handlers -> Files \cup {None}]
  /\ hres \in [Handlers -> Results]
  /\ session \in [Handlers -> {"none", "ok", "broken", "lost"}]
  /\ startsInCut \in [Handlers -> Nat]
  /\ cut \in BOOLEAN
  /\ phase \in {"down", "cover", "up"}
  /\ crashes \in 0 .. MaxCrashes
  /\ batch \in Batches

Entries(f) == {i \in DOMAIN queue : queue[i] = f}
Holders(f) == {h \in Handlers : hfile[h] = f}
Claims(f)  == Cardinality(Entries(f)) + Cardinality(Holders(f))
              + (IF lfile = f THEN 1 ELSE 0)

InDirs(f)  == f \in plain \cup start \cup handled \cup errored

(* Whatever threads, kills and failed renames do, a file that arrived is   *)
(* under one of its names, or is a zip all of whose files have come out.   *)
NoFileLost ==
  \A f \in delivered :
    InDirs(f) \/ (Kind[f] = "zip" /\ \A g \in Inside[f] : InDirs(g))

(* While the process runs, a claimed file is in somebody's hands: nothing  *)
(* stays behind as .START to wait for a restart.                           *)
StartIsOwned == phase = "up" => \A f \in start : Claims(f) > 0

(* A file that came from outside is claimed at most once, so no two        *)
(* handlers load it at the same time.                                      *)
ClaimedOnce == \A f \in Files \ Inner : Claims(f) <= 1

(* Its rows are committed once, plus at most once per kill of the process. *)
LoadedOnce == \A f \in Files \ Inner : loaded[f] <= 1 + crashes

(* A file reaches the handled directory only with its rows committed.      *)
HandledIsLoaded == \A f \in handled : loaded[f] > 0

(* Once a date cut has begun, each handler starts one more file at most,   *)
(* the one it was already blocked for in pop_cir_queue.                    *)
CutQuiesces == \A h \in Handlers : startsInCut[h] <= 1

(* Every record file that arrives is loaded or put aside in the end.       *)
Settled == \A f \in Files :
  (f \in delivered /\ Kind[f] = "record") ~> (f \in handled \cup errored)

(* After CheckResult logs "Reconnect db ok!" the thread has a session that *)
(* answers.                                                                *)
ReconnectWorks ==
  [][\A h \in Handlers : TestConnection(h) => session'[h] = "ok"]_vars
=============================================================================
