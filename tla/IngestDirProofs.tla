-------------------------- MODULE IngestDirProofs --------------------------
(***************************************************************************)
(* For any files, zips, handler threads, faults and kills: who has a file  *)
(* of the insert directory, what is loaded how often, and what the date cut*)
(* still lets in.                                                          *)
(***************************************************************************)
EXTENDS IngestDir, SequenceTheorems, FiniteSetTheorems, TLAPS

Outside == Files \ Inner
Busy    == {"work", "move", "move2", "unpack", "rmdir", "rmzip", "check"}
Moving  == {"move", "move2"}
Zipping == {"unpack", "rmdir", "rmzip"}

(* What a handler has in hand, and with what result it got where it is.    *)
HandlerShape ==
  \A h \in Handlers :
    /\ hfile[h] # None <=> hpc[h] \in Busy
    /\ hpc[h] \in Moving => Kind[hfile[h]] = "record" /\ hres[h] # "WARING"
    /\ hpc[h] \in Moving /\ hres[h] = "SUCESS" => loaded[hfile[h]] > 0
    /\ hpc[h] \in Moving /\ hres[h] = "NODATA" => Fault("nodata")
    /\ hpc[h] \in Zipping => Kind[hfile[h]] = "zip"
    /\ hpc[h] = "rmdir" => hres[h] \in {"SUCESS", "ERROR"}

(* Nothing is queued or in hand before CoverFiles is through.              *)
Idle ==
  /\ lpc = "push" <=> lfile # None
  /\ phase # "up" => queue = <<>> /\ lpc = "check" /\ \A h \in Handlers : hpc[h] = "connect"

(* Only zips are unpacked, into what they hold.                            *)
UnzipShape == \A z \in Files : unz[z] \subseteq (IF Kind[z] = "zip" THEN Inside[z] ELSE {})

(* What is in a directory, in the queue or in hand has arrived.            *)
Arrived ==
  /\ plain \cup start \cup handled \cup errored \subseteq delivered
  /\ \A i \in DOMAIN queue : queue[i] \in delivered
  /\ \A h \in Handlers : hfile[h] # None => hfile[h] \in delivered
  /\ lfile # None => lfile \in delivered
  /\ \A f \in Files : loaded[f] > 0 => f \in delivered

(* A file that came from outside waits under its plain name, or one entry  *)
(* of the queue, one handler or the lister has it.                         *)
Unique ==
  \A f \in Outside :
    /\ \A i, j \in DOMAIN queue : queue[i] = f /\ queue[j] = f => i = j
    /\ \A h, k \in Handlers : hfile[h] = f /\ hfile[k] = f => h = k
    /\ \A i \in DOMAIN queue : \A h \in Handlers : ~(queue[i] = f /\ hfile[h] = f)
    /\ lfile = f \/ f \in plain =>
         /\ \A i \in DOMAIN queue : queue[i] # f
         /\ \A h \in Handlers : hfile[h] # f
    /\ ~(lfile = f /\ f \in plain)

(* A file that may still be loaded, or loaded again, has been loaded once  *)
(* less than it may.                                                       *)
LoadsCounted ==
  /\ \A f \in Files : Kind[f] # "record" => loaded[f] = 0
  /\ \A f \in Outside :
       /\ loaded[f] <= 1 + crashes
       /\ phase # "up" \/ f \in plain \/ lfile = f => loaded[f] <= crashes
       /\ \A i \in DOMAIN queue : queue[i] = f => loaded[f] <= crashes
       /\ \A h \in Handlers :
            hfile[h] = f /\ (hpc[h] = "work" \/ (hpc[h] = "check" /\ hres[h] = "WARING")) =>
              loaded[f] <= crashes

(* A handler that started a file in the date cut is not back in the pop.   *)
CutShape ==
  \A h \in Handlers : startsInCut[h] <= 1 /\ (cut /\ startsInCut[h] > 0 => hpc[h] # "pop")

Inv ==
  /\ TypeOK /\ HandlerShape /\ Idle /\ UnzipShape /\ Arrived /\ Unique
  /\ LoadsCounted /\ CutShape /\ HandledIsLoaded

-----------------------------------------------------------------------------
(* What a zip holds are files, and files from inside.                      *)
LEMMA InnerFacts ==
  /\ Inner \subseteq Files
  /\ \A z \in Files : Kind[z] = "zip" => Inside[z] \subseteq Inner /\ Inside[z] \subseteq Files
BY IngestAssumption DEF Inner

(* An entry of the queue is a file.                                        *)
LEMMA QueueFacts ==
  ASSUME TypeOK
  PROVE  /\ Len(queue) \in Nat /\ DOMAIN queue = 1 .. Len(queue)
         /\ \A i \in DOMAIN queue : queue[i] \in Files
BY LenProperties, ElementOfSeq DEF TypeOK

(* What JudgeSqlExecResultLocal makes of the codes that occur.             *)
LEMMA Judged ==
  /\ JudgeSqlExecResultLocal(0) = "SUCESS" /\ JudgeSqlExecResultLocal(1403) = "NODATA"
  /\ JudgeSqlExecResultLocal(3113) = "ERROR"
  /\ JudgeSqlExecResultLocal(1688) = "WARING" /\ JudgeSqlExecResultLocal(3114) = "WARING"
BY DEF JudgeSqlExecResultLocal

(* Nothing has arrived at the start.                                       *)
LEMMA InitInv == Init => Inv
<1> SUFFICES ASSUME Init PROVE Inv
  OBVIOUS
<1> USE DEF Init
<1>1. TypeOK
  <2>1. queue \in Seq(Files) /\ Len(queue) = 0
    BY EmptySeq
  <2>2. 0 \in 0 .. MaxLoads /\ 0 \in 0 .. MaxCrashes /\ 0 <= Capacity
    BY IngestAssumption
  <2> QED
    BY <2>1, <2>2 DEF TypeOK, Results
<1>2. HandlerShape /\ Idle /\ UnzipShape /\ Arrived
  BY DEF HandlerShape, Idle, UnzipShape, Arrived, Busy, Moving, Zipping
<1>3. Unique
  BY IngestAssumption DEF Unique, Outside
<1>4. LoadsCounted /\ CutShape /\ HandledIsLoaded
  BY DEF LoadsCounted, CutShape, HandledIsLoaded, Outside
<1> QED
  BY <1>1, <1>2, <1>3, <1>4 DEF Inv

-----------------------------------------------------------------------------
(* A name is delivered once, so nobody has it when it comes.               *)
LEMMA DeliverInv == ASSUME Inv, NEW f \in Files, Deliver(f) PROVE Inv'
<1> USE DEF Inv, Deliver, fileVars, listerVars, handlerVars, envVars
<1>1. f \in Outside /\ f \notin delivered /\ f # None
  BY IngestAssumption DEF Outside
<1>2. (\A i \in DOMAIN queue : queue[i] # f) /\ (\A h \in Handlers : hfile[h] # f) /\ lfile # f
  BY <1>1 DEF Arrived
<1>3. Unique'
  BY <1>1, <1>2 DEF Unique, Outside
<1>4. LoadsCounted'
  <2>1. loaded[f] = 0 /\ crashes \in Nat
    BY <1>1 DEF Arrived, TypeOK
  <2> QED
    BY <1>2, <2>1 DEF LoadsCounted, Outside
<1>5. TypeOK'
  BY DEF TypeOK, Results
<1>6. HandlerShape' /\ Idle' /\ UnzipShape'
  BY DEF HandlerShape, Idle, UnzipShape, Moving, Zipping, Fault
<1>7. Arrived' /\ CutShape' /\ HandledIsLoaded'
  BY DEF Arrived, CutShape, HandledIsLoaded
<1> QED
  BY <1>3, <1>4, <1>5, <1>6, <1>7

(* The counts of starts in a cut begin at zero.                            *)
LEMMA CutBeginsInv == ASSUME Inv, CutBegins PROVE Inv'
<1> USE DEF Inv, CutBegins, fileVars, listerVars
<1>1. TypeOK'
  BY DEF TypeOK, Results
<1>2. HandlerShape' /\ Idle' /\ UnzipShape'
  BY DEF HandlerShape, Idle, UnzipShape, Moving, Zipping, Fault
<1>3. Arrived' /\ Unique' /\ LoadsCounted'
  BY DEF Arrived, Unique, LoadsCounted, Outside
<1>4. CutShape' /\ HandledIsLoaded'
  BY DEF CutShape, HandledIsLoaded
<1> QED
  BY <1>1, <1>2, <1>3, <1>4

(* The end of a cut takes nothing back.                                    *)
LEMMA CutEndsInv == ASSUME Inv, CutEnds PROVE Inv'
<1> USE DEF Inv, CutEnds, fileVars, listerVars, handlerVars
<1>1. TypeOK'
  BY DEF TypeOK, Results
<1>2. HandlerShape' /\ Idle' /\ UnzipShape'
  BY DEF HandlerShape, Idle, UnzipShape, Moving, Zipping, Fault
<1>3. Arrived' /\ Unique' /\ LoadsCounted'
  BY DEF Arrived, Unique, LoadsCounted, Outside
<1>4. CutShape' /\ HandledIsLoaded'
  BY DEF CutShape, HandledIsLoaded
<1> QED
  BY <1>1, <1>2, <1>3, <1>4

(* A session breaks; the files do not notice.                              *)
LEMMA SessionBreaksInv == ASSUME Inv, NEW h \in Handlers, SessionBreaks(h) PROVE Inv'
<1> USE DEF Inv, SessionBreaks, fileVars, listerVars, envVars
<1>1. TypeOK'
  BY DEF TypeOK, Results
<1>2. HandlerShape' /\ Idle' /\ UnzipShape'
  BY DEF HandlerShape, Idle, UnzipShape, Moving, Zipping, Fault
<1>3. Arrived' /\ Unique' /\ LoadsCounted'
  BY DEF Arrived, Unique, LoadsCounted, Outside
<1>4. CutShape' /\ HandledIsLoaded'
  BY DEF CutShape, HandledIsLoaded
<1> QED
  BY <1>1, <1>2, <1>3, <1>4

(* The scan owes the names there are.                                      *)
LEMMA OpenDirInv == ASSUME Inv, OpenDir PROVE Inv'
<1> USE DEF Inv, OpenDir, fileVars, handlerVars, envVars
<1>1. TypeOK'
  BY DEF TypeOK, Results
<1>2. HandlerShape' /\ Idle' /\ UnzipShape'
  BY DEF HandlerShape, Idle, UnzipShape, Moving, Zipping, Fault
<1>3. Arrived' /\ Unique' /\ LoadsCounted'
  BY DEF Arrived, Unique, LoadsCounted, Outside
<1>4. CutShape' /\ HandledIsLoaded'
  BY DEF CutShape, HandledIsLoaded
<1> QED
  BY <1>1, <1>2, <1>3, <1>4

(* A claim takes the plain name away; a rename that fails leaves it.       *)
LEMMA StartFileInv == ASSUME Inv, NEW f \in Files, StartFile(f) PROVE Inv'
<1> USE DEF Inv, StartFile, handlerVars, envVars
<1>1. Idle'
  BY IngestAssumption DEF Idle
<1>2. TypeOK'
  BY DEF TypeOK, Results
<1>3. HandlerShape' /\ UnzipShape' /\ Arrived'
  BY DEF HandlerShape, UnzipShape, Arrived, Moving, Zipping, Fault
<1>4. Unique' /\ LoadsCounted' /\ CutShape'
  BY DEF Unique, LoadsCounted, CutShape, Outside
<1>5. HandledIsLoaded'
  BY DEF HandledIsLoaded
<1> QED
  BY <1>1, <1>2, <1>3, <1>4, <1>5

(* The claim goes from the lister to the end of the queue.                 *)
LEMMA PushQueueInv == ASSUME Inv, PushQueue PROVE Inv'
<1> USE DEF Inv, PushQueue, fileVars, handlerVars, envVars
<1>1. lfile \in Files
  BY DEF Idle, TypeOK
<1>2. /\ queue' \in Seq(Files) /\ Len(queue') = Len(queue) + 1
      /\ \A i \in DOMAIN queue : i \in DOMAIN queue' /\ queue'[i] = queue[i]
      /\ \A i \in DOMAIN queue' : i \in DOMAIN queue \/ (i = Len(queue) + 1 /\ queue'[i] = lfile)
      /\ Len(queue) + 1 \notin DOMAIN queue
  BY <1>1, QueueFacts DEF TypeOK
<1>3. TypeOK'
  BY <1>1, <1>2, QueueFacts, IngestAssumption DEF TypeOK, Idle
<1>4. Arrived'
  BY <1>1, <1>2 DEF Arrived, Idle
<1>5. Unique'
  <2> SUFFICES ASSUME NEW f \in Outside, lfile = f PROVE
         /\ \A i \in DOMAIN queue : queue[i] # f
         /\ \A h \in Handlers : hfile[h] # f
         /\ f \notin plain
    BY <1>2, IngestAssumption DEF Unique, Outside
  <2> QED
    BY DEF Unique
<1>6. LoadsCounted'
  BY <1>2, IngestAssumption DEF LoadsCounted, Outside
<1>7. HandlerShape' /\ Idle' /\ UnzipShape'
  BY DEF HandlerShape, Idle, UnzipShape, Moving, Zipping, Fault
<1>8. CutShape' /\ HandledIsLoaded'
  BY DEF CutShape, HandledIsLoaded
<1> QED
  BY <1>3, <1>4, <1>5, <1>6, <1>7, <1>8

(* The scan ends with nothing in hand.                                     *)
LEMMA CloseDirInv == ASSUME Inv, CloseDir PROVE Inv'
<1> USE DEF Inv, CloseDir, fileVars, handlerVars, envVars
<1>1. TypeOK'
  BY DEF TypeOK, Results
<1>2. HandlerShape' /\ Idle' /\ UnzipShape'
  BY DEF HandlerShape, Idle, UnzipShape, Moving, Zipping, Fault
<1>3. Arrived' /\ Unique' /\ LoadsCounted'
  BY DEF Arrived, Unique, LoadsCounted, Outside
<1>4. CutShape' /\ HandledIsLoaded'
  BY DEF CutShape, HandledIsLoaded
<1> QED
  BY <1>1, <1>2, <1>3, <1>4

(* A handler connects before it has a file.                                *)
LEMMA ConnectDbInv == ASSUME Inv, NEW h \in Handlers, ConnectDb(h) PROVE Inv'
<1> USE DEF Inv, ConnectDb, fileVars, listerVars, envVars, At, Goto
<1>1. TypeOK'
  BY DEF TypeOK, Results
<1>2. HandlerShape' /\ Idle' /\ UnzipShape'
  BY DEF HandlerShape, Idle, UnzipShape, Busy, Moving, Zipping, Fault
<1>3. Arrived' /\ Unique' /\ LoadsCounted'
  BY DEF Arrived, Unique, LoadsCounted, Outside
<1>4. CutShape' /\ HandledIsLoaded'
  BY DEF CutShape, HandledIsLoaded
<1> QED
  BY <1>1, <1>2, <1>3, <1>4

(* A handler that passes has not started a file in this cut.               *)
LEMMA CheckDateCutInv == ASSUME Inv, NEW h \in Handlers, CheckDateCut(h) PROVE Inv'
<1> USE DEF Inv, CheckDateCut, fileVars, listerVars, handlerVars, envVars, At, Goto
<1>1. TypeOK'
  BY DEF TypeOK, Results
<1>2. HandlerShape' /\ Idle' /\ UnzipShape'
  BY DEF HandlerShape, Idle, UnzipShape, Busy, Moving, Zipping, Fault
<1>3. Arrived' /\ Unique' /\ LoadsCounted'
  BY DEF Arrived, Unique, LoadsCounted, Outside
<1>4. CutShape' /\ HandledIsLoaded'
  BY DEF CutShape, HandledIsLoaded
<1> QED
  BY <1>1, <1>2, <1>3, <1>4

(* The claim goes from the head of the queue to the handler.               *)
LEMMA PopQueueInv == ASSUME Inv, NEW h \in Handlers, PopQueue(h) PROVE Inv'
<1> USE DEF Inv, PopQueue, fileVars, listerVars, handlerVars, envVars, At, Goto
<1>1. /\ queue # <<>> /\ phase = "up" /\ hpc[h] = "pop" /\ hpc' = [hpc EXCEPT ![h] = "work"]
      /\ startsInCut' = [startsInCut EXCEPT ![h] = IF cut THEN @ + 1 ELSE 0]
  OBVIOUS
<1>2. /\ Head(queue) = queue[1] /\ 1 \in DOMAIN queue /\ queue[1] \in Files
      /\ queue' \in Seq(Files) /\ Len(queue') = Len(queue) - 1
      /\ \A i \in DOMAIN queue' : i + 1 \in DOMAIN queue /\ queue'[i] = queue[i + 1]
                                 /\ i + 1 # 1 /\ i \in Nat
  <2>1. Len(queue) \in Nat /\ DOMAIN queue = 1 .. Len(queue) /\ queue \in Seq(Files)
    BY QueueFacts DEF TypeOK
  <2>2. Len(queue) # 0
    BY <1>1, <2>1, EmptySeq
  <2>3. 1 \in DOMAIN queue /\ queue[1] \in Files
    BY <2>1, <2>2, QueueFacts
  <2>4. queue' \in Seq(Files) /\ Len(queue') = Len(queue) - 1
        /\ \A i \in 1 .. Len(queue') : queue'[i] = queue[i + 1]
    BY <1>1, <2>1, HeadTailProperties
  <2>5. DOMAIN queue' = 1 .. Len(queue')
    BY <2>4, LenProperties
  <2>6. Head(queue) = queue[1]
    BY <2>1
  <2>7. \A i \in 1 .. Len(queue') : i + 1 \in 1 .. Len(queue) /\ i + 1 # 1 /\ i \in Nat
    BY <2>1, <2>4
  <2> QED
    BY <2>1, <2>3, <2>4, <2>5, <2>6, <2>7
<1>3. hfile' = [hfile EXCEPT ![h] = queue[1]] /\ hfile[h] = None /\ queue[1] # None
  BY <1>1, <1>2, IngestAssumption DEF HandlerShape, Busy
<1>4. \A k \in Handlers : hfile'[k] = IF k = h THEN queue[1] ELSE hfile[k]
  BY <1>3 DEF TypeOK
<1>5. TypeOK'
  <2>1. Len(queue') <= Capacity
    BY <1>2, QueueFacts, IngestAssumption DEF TypeOK
  <2>2. startsInCut' \in [Handlers -> Nat]
    BY <1>1 DEF TypeOK
  <2>3. /\ hfile' \in [Handlers -> Files \cup {None}]
        /\ hpc \in [Handlers -> {"connect", "top", "pop", "work", "move", "move2", "unpack",
                                 "rmdir", "rmzip", "check", "test"}]
    BY <1>2, <1>3 DEF TypeOK
  <2> QED
    BY <1>1, <1>2, <2>1, <2>2, <2>3 DEF TypeOK, Results
<1>6. HandlerShape'
  BY <1>1, <1>2, <1>3, <1>4 DEF HandlerShape, Busy, Moving, Zipping, Fault, TypeOK
<1>7. Arrived'
  BY <1>2, <1>3, <1>4 DEF Arrived
<1>8. Unique'
  <2> SUFFICES ASSUME NEW f \in Outside
       PROVE
    /\ \A i, j \in DOMAIN queue' : queue'[i] = f /\ queue'[j] = f => i = j
    /\ \A k, l \in Handlers : hfile'[k] = f /\ hfile'[l] = f => k = l
    /\ \A i \in DOMAIN queue' : \A k \in Handlers : ~(queue'[i] = f /\ hfile'[k] = f)
    /\ lfile = f \/ f \in plain =>
         /\ \A i \in DOMAIN queue' : queue'[i] # f
         /\ \A k \in Handlers : hfile'[k] # f
    BY DEF Unique, Outside
  <2> USE DEF Unique
  <2>1. \A i, j \in DOMAIN queue' : queue'[i] = f /\ queue'[j] = f => i = j
    BY <1>2
  <2>2. \A k, l \in Handlers : hfile'[k] = f /\ hfile'[l] = f => k = l
    BY <1>2, <1>4
  <2>3. \A i \in DOMAIN queue' : \A k \in Handlers : ~(queue'[i] = f /\ hfile'[k] = f)
    BY <1>2, <1>4
  <2> QED
    BY <1>2, <1>4, <2>1, <2>2, <2>3
<1>9. LoadsCounted'
  <2>1. \A k \in Handlers : hpc'[k] = IF k = h THEN "work" ELSE hpc[k]
    BY <1>1 DEF TypeOK
  <2> QED
    BY <1>2, <1>4, <2>1 DEF LoadsCounted, Outside
<1>10. CutShape'
  <2>1. startsInCut[h] \in Nat /\ (cut => startsInCut[h] = 0)
    BY <1>1 DEF CutShape, TypeOK
  <2>2. \A k \in Handlers : hpc'[k] = (IF k = h THEN "work" ELSE hpc[k])
           /\ startsInCut'[k] = IF k = h THEN (IF cut THEN 1 ELSE 0) ELSE startsInCut[k]
    BY <1>1, <2>1 DEF TypeOK
  <2> QED
    BY <2>2 DEF CutShape
<1>11. Idle' /\ UnzipShape' /\ HandledIsLoaded'
  BY DEF Idle, UnzipShape, HandledIsLoaded
<1> QED
  BY <1>5, <1>6, <1>7, <1>8, <1>9, <1>10, <1>11

(* The count of loads stops at its bound.                                  *)
LEMMA CountProperties ==
  ASSUME TypeOK, NEW f \in Files, Count(f) \/ loaded' = loaded
  PROVE  /\ loaded' \in [Files -> 0 .. MaxLoads]
         /\ \A g \in Files : g # f => loaded'[g] = loaded[g]
         /\ loaded'[f] \in {loaded[f], loaded[f] + 1}
         /\ Count(f) => loaded'[f] > 0
<1>1. loaded[f] \in 0 .. MaxLoads /\ MaxLoads \in Nat \ {0} /\ loaded \in [Files -> 0 .. MaxLoads]
  BY IngestAssumption DEF TypeOK
<1>2. CASE loaded' = loaded /\ ~Count(f)
  BY <1>1, <1>2
<1>3. CASE Count(f)
  <2> DEFINE n == IF loaded[f] < MaxLoads THEN loaded[f] + 1 ELSE loaded[f]
  <2>1. loaded' = [loaded EXCEPT ![f] = n]
    BY <1>3 DEF Count
  <2>2. n \in 0 .. MaxLoads /\ n > 0 /\ n \in {loaded[f], loaded[f] + 1}
    BY <1>1
  <2> HIDE DEF n
  <2> QED
    BY <1>1, <2>1, <2>2
<1> QED
  BY <1>2, <1>3

(* The results of a load: only SUCESS is sure to have counted it, and a    *)
(* WARING never does.                                                      *)
LEMMA LoadOutcome ==
  ASSUME TypeOK, NEW h \in Handlers, LoadRecords(h)
  PROVE  /\ hpc[h] = "work" /\ phase = "up" /\ Kind[hfile[h]] = "record"
         /\ UNCHANGED <<plain, start, unz, handled, errored, delivered, queue,
                        listerVars, hfile, startsInCut, envVars>>
         /\ \E r \in Results : \E s \in {"none", "ok", "broken", "lost"} :
              /\ hres' = [hres EXCEPT ![h] = r]
              /\ session' = [session EXCEPT ![h] = s]
              /\ hpc' = [hpc EXCEPT ![h] = IF r = "WARING" THEN "check" ELSE "move"]
              /\ Count(hfile[h]) \/ loaded' = loaded
              /\ r = "SUCESS" => Count(hfile[h])
              /\ r = "WARING" => loaded' = loaded
              /\ r = "NODATA" => Fault("nodata")
<1> DEFINE Ends(r, s) == /\ hres' = [hres EXCEPT ![h] = r]
                         /\ session' = [session EXCEPT ![h] = s]
                         /\ hpc' = [hpc EXCEPT ![h] = IF r = "WARING" THEN "check" ELSE "move"]
<1>1. /\ hpc[h] = "work" /\ phase = "up" /\ Kind[hfile[h]] = "record"
      /\ UNCHANGED <<plain, start, unz, handled, errored, delivered, queue,
                     listerVars, hfile, startsInCut, envVars>>
  BY DEF LoadRecords, At
<1>2. session[h] \in {"none", "ok", "broken", "lost"}
  BY DEF TypeOK
<1>3. \/ Ends("ERROR", session[h]) /\ loaded' = loaded
      \/ Ends("SUCESS", "ok") /\ Count(hfile[h])
      \/ Ends("WARING", "ok") /\ loaded' = loaded
      \/ Fault("nodata") /\ Ends("NODATA", "ok") /\ loaded' = loaded
      \/ Ends("ERROR", "lost") /\ (Count(hfile[h]) \/ loaded' = loaded)
      \/ Ends("WARING", "lost") /\ loaded' = loaded
  BY Judged DEF LoadRecords, Goto, Result
<1>4. {"SUCESS", "WARING", "ERROR", "NODATA"} = Results
  BY DEF Results
<1> QED
  BY <1>1, <1>2, <1>3, <1>4

(* A load commits a file at most once, and gives it up otherwise.          *)
LEMMA LoadRecordsInv == ASSUME Inv, NEW h \in Handlers, LoadRecords(h) PROVE Inv'
<1> USE DEF Inv
<1>1. /\ hpc[h] = "work" /\ phase = "up" /\ Kind[hfile[h]] = "record"
      /\ UNCHANGED <<plain, start, unz, handled, errored, delivered, queue,
                     lpc, ltodo, lfile, hfile, startsInCut, cut, phase, crashes, batch>>
  BY LoadOutcome DEF listerVars, envVars
<1>2. PICK r \in Results : \E s \in {"none", "ok", "broken", "lost"} :
        /\ hres' = [hres EXCEPT ![h] = r]
        /\ session' = [session EXCEPT ![h] = s]
        /\ hpc' = [hpc EXCEPT ![h] = IF r = "WARING" THEN "check" ELSE "move"]
        /\ Count(hfile[h]) \/ loaded' = loaded
        /\ r = "SUCESS" => Count(hfile[h])
        /\ r = "WARING" => loaded' = loaded
        /\ r = "NODATA" => Fault("nodata")
  BY LoadOutcome
<1>3. hfile[h] \in Files /\ hfile[h] \in delivered
  BY <1>1 DEF HandlerShape, Arrived, Busy, TypeOK
<1>4. /\ loaded' \in [Files -> 0 .. MaxLoads]
      /\ \A g \in Files : g # hfile[h] => loaded'[g] = loaded[g]
      /\ loaded'[hfile[h]] \in {loaded[hfile[h]], loaded[hfile[h]] + 1}
      /\ r = "SUCESS" => loaded'[hfile[h]] > 0
      /\ r = "WARING" => loaded'[hfile[h]] = loaded[hfile[h]]
  BY <1>2, <1>3, CountProperties
<1>5. \A f \in Files : loaded[f] \in Nat /\ (loaded[f] > 0 => loaded'[f] > 0)
  <2>1. \A f \in Files : loaded[f] \in 0 .. MaxLoads
    BY DEF TypeOK
  <2>2. \A n \in 0 .. MaxLoads : n \in Nat /\ (n > 0 => n + 1 > 0)
    BY IngestAssumption
  <2> QED
    BY <1>3, <1>4, <2>1, <2>2
<1>6. /\ \A k \in Handlers : hpc'[k] = (IF k = h THEN (IF r = "WARING" THEN "check" ELSE "move") ELSE hpc[k])
      /\ \A k \in Handlers : hres'[k] = (IF k = h THEN r ELSE hres[k])
  BY <1>2 DEF TypeOK
<1>7. TypeOK'
  BY <1>1, <1>2, <1>4 DEF TypeOK
<1>8. HandlerShape'
  BY <1>1, <1>2, <1>3, <1>4, <1>5, <1>6 DEF HandlerShape, Busy, Moving, Zipping, Fault, TypeOK
<1>9. Arrived'
  BY <1>1, <1>3, <1>4 DEF Arrived
<1>10. LoadsCounted'
  <2>1. crashes \in Nat
    BY DEF TypeOK
  <2>2. \A f \in Outside : f = hfile[h] =>
          /\ loaded[f] <= crashes /\ f \notin plain /\ lfile # f
          /\ \A i \in DOMAIN queue : queue[i] # f
          /\ \A k \in Handlers : hfile[k] = f => k = h
    BY <1>1 DEF LoadsCounted, Unique
  <2> QED
    BY <1>1, <1>3, <1>4, <1>5, <1>6, <2>1, <2>2 DEF LoadsCounted, Outside
<1>11. CutShape'
  BY <1>1, <1>6 DEF CutShape
<1>12. HandledIsLoaded'
  BY <1>1, <1>5 DEF HandledIsLoaded, TypeOK
<1>13. Idle' /\ UnzipShape' /\ Unique'
  BY <1>1, <1>2 DEF Idle, UnzipShape, Unique, Outside
<1> QED
  BY <1>7, <1>8, <1>9, <1>10, <1>11, <1>12, <1>13

(* A CT file gets a result without being touched.                          *)
LEMMA SkipCTInv == ASSUME Inv, NEW h \in Handlers, SkipCT(h) PROVE Inv'
<1> USE DEF Inv, SkipCT, fileVars, listerVars, envVars, At, Goto, Result
<1>1. TypeOK'
  BY DEF TypeOK, Results
<1>2. HandlerShape' /\ Idle' /\ UnzipShape'
  BY DEF HandlerShape, Idle, UnzipShape, Busy, Moving, Zipping, Fault
<1>3. Arrived' /\ Unique' /\ LoadsCounted'
  BY DEF Arrived, Unique, LoadsCounted, Outside
<1>4. CutShape' /\ HandledIsLoaded'
  BY DEF CutShape, HandledIsLoaded
<1> QED
  BY <1>1, <1>2, <1>3, <1>4

(* Moved to handled after SUCESS; a rename that fails leaves the claim.    *)
LEMMA MoveFileInv == ASSUME Inv, NEW h \in Handlers, MoveFile(h) PROVE Inv'
<1> USE DEF Inv
<1>1. /\ phase = "up" /\ hpc[h] \in Moving /\ Kind[hfile[h]] = "record" /\ hfile[h] \in Files
      /\ UNCHANGED <<plain, unz, loaded, delivered, queue, lpc, ltodo, lfile, hfile, hres,
                     session, startsInCut, cut, phase, crashes, batch>>
  BY DEF MoveFile, listerVars, envVars, HandlerShape, Moving, Busy, TypeOK
<1>2. PICK to \in {"move2", "check"} : hpc' = [hpc EXCEPT ![h] = to]
  BY DEF MoveFile, Goto
<1>3. \/ /\ hfile[h] \in start /\ start' = start \ {hfile[h]}
         /\ handled' = IF hres[h] = "SUCESS" THEN handled \cup {hfile[h]} ELSE handled
         /\ errored' = IF hres[h] = "ERROR" THEN errored \cup {hfile[h]} ELSE errored
      \/ UNCHANGED <<start, handled, errored>>
  BY DEF MoveFile
<1>4. \A k \in Handlers : hpc'[k] = IF k = h THEN to ELSE hpc[k]
  BY <1>2 DEF TypeOK
<1>5. TypeOK'
  BY <1>1, <1>2, <1>3 DEF TypeOK
<1>6. HandlerShape'
  BY <1>1, <1>4 DEF HandlerShape, Busy, Moving, Zipping, Fault
<1>7. Arrived'
  BY <1>1, <1>3 DEF Arrived
<1>8. LoadsCounted'
  BY <1>1, <1>4 DEF LoadsCounted, HandlerShape, Outside
<1>9. CutShape'
  BY <1>1, <1>4 DEF CutShape
<1>10. HandledIsLoaded'
  BY <1>1, <1>3 DEF HandledIsLoaded, HandlerShape
<1>11. Idle' /\ UnzipShape' /\ Unique'
  BY <1>1, <1>4 DEF Idle, UnzipShape, Unique, Outside
<1> QED
  BY <1>5, <1>6, <1>7, <1>8, <1>9, <1>10, <1>11

(* What unzip writes lies in the directory of the zip.                     *)
LEMMA UnzipInv == ASSUME Inv, NEW h \in Handlers, Unzip(h) PROVE Inv'
<1> USE DEF Inv
<1>1. /\ phase = "up" /\ hpc[h] = "work" /\ Kind[hfile[h]] = "zip" /\ hfile[h] \in Files
      /\ UNCHANGED <<plain, start, handled, errored, loaded, delivered, queue, lpc, ltodo, lfile,
                     hfile, session, startsInCut, cut, phase, crashes, batch>>
  BY DEF Unzip, At, listerVars, envVars, HandlerShape, Busy, TypeOK
<1>2. \/ /\ hpc' = [hpc EXCEPT ![h] = "unpack"] /\ hres' = hres
         /\ \E S \in SUBSET Inside[hfile[h]] : unz' = [unz EXCEPT ![hfile[h]] = @ \cup S]
      \/ hpc' = [hpc EXCEPT ![h] = "check"] /\ hres' = [hres EXCEPT ![h] = "ERROR"] /\ unz' = unz
  BY DEF Unzip, Goto, Result
<1>3. \/ /\ \A k \in Handlers : hpc'[k] = (IF k = h THEN "unpack" ELSE hpc[k]) /\ hres'[k] = hres[k]
      \/ /\ \A k \in Handlers : hpc'[k] = (IF k = h THEN "check" ELSE hpc[k])
         /\ \A k \in Handlers : hres'[k] = (IF k = h THEN "ERROR" ELSE hres[k])
  BY <1>2 DEF TypeOK
<1>4. UnzipShape'
  <2>1. \A z \in Files : z # hfile[h] => unz'[z] = unz[z]
    BY <1>1, <1>2 DEF TypeOK
  <2>2. unz'[hfile[h]] \subseteq Inside[hfile[h]]
    BY <1>1, <1>2 DEF TypeOK, UnzipShape
  <2> QED
    BY <1>1, <2>1, <2>2 DEF UnzipShape
<1>5. TypeOK'
  <2>1. unz' \in [Files -> SUBSET Files]
    <3>1. Inside[hfile[h]] \subseteq Files /\ unz[hfile[h]] \subseteq Files
      BY <1>1, InnerFacts DEF TypeOK
    <3>2. CASE unz' = unz
      BY <3>2 DEF TypeOK
    <3>3. CASE \E S \in SUBSET Inside[hfile[h]] : unz' = [unz EXCEPT ![hfile[h]] = @ \cup S]
      <4> PICK S \in SUBSET Inside[hfile[h]] : unz' = [unz EXCEPT ![hfile[h]] = @ \cup S]
        BY <3>3
      <4>1. unz[hfile[h]] \cup S \subseteq Files
        BY <3>1
      <4> QED
        BY <1>1, <4>1 DEF TypeOK
    <3> QED
      BY <1>2, <3>2, <3>3
  <2>2. hpc' \in [Handlers -> {"connect", "top", "pop", "work", "move", "move2", "unpack",
                           "rmdir", "rmzip", "check", "test"}] /\ hres' \in [Handlers -> Results]
    BY <1>2 DEF TypeOK, Results
  <2> QED
    BY <1>1, <2>1, <2>2 DEF TypeOK
<1>6. HandlerShape'
  BY <1>1, <1>3 DEF HandlerShape, Busy, Moving, Zipping, Fault
<1>7. LoadsCounted'
  BY <1>1, <1>3 DEF LoadsCounted, Outside
<1>8. CutShape'
  BY <1>1, <1>3 DEF CutShape
<1>9. Idle' /\ Arrived' /\ Unique'
  BY <1>1, <1>3 DEF Idle, Arrived, Unique, Outside
<1>10. HandledIsLoaded'
  BY <1>1, <1>3 DEF HandledIsLoaded
<1> QED
  BY <1>4, <1>5, <1>6, <1>7, <1>8, <1>9, <1>10

(* What is moved out of this directory is from inside the zip.             *)
LEMMA MoveOutInv == ASSUME Inv, NEW h \in Handlers, NEW f \in Files, MoveOut(h, f) PROVE Inv'
<1> USE DEF Inv, MoveOut, listerVars, handlerVars, envVars, At
<1>1. f \in Inner
  <2>1. hfile[h] \in Files /\ Kind[hfile[h]] = "zip"
    BY DEF HandlerShape, Zipping, Busy, TypeOK
  <2> QED
    BY <2>1, InnerFacts DEF UnzipShape
<1>2. Unique' /\ LoadsCounted'
  BY <1>1 DEF Unique, LoadsCounted, Outside
<1>3. TypeOK'
  BY DEF TypeOK, Results
<1>4. HandlerShape' /\ Idle' /\ UnzipShape'
  BY DEF HandlerShape, Idle, UnzipShape, Moving, Zipping, Fault
<1>5. Arrived' /\ CutShape' /\ HandledIsLoaded'
  BY DEF Arrived, CutShape, HandledIsLoaded
<1> QED
  BY <1>2, <1>3, <1>4, <1>5

(* Whether anything is left decides the result.                            *)
LEMMA CheckDirEmptyInv == ASSUME Inv, NEW h \in Handlers, CheckDirEmpty(h) PROVE Inv'
<1> USE DEF Inv, CheckDirEmpty, fileVars, listerVars, envVars, At, Goto, Result
<1>1. /\ hpc' = [hpc EXCEPT ![h] = "rmdir"]
      /\ hres' \in {[hres EXCEPT ![h] = "SUCESS"], [hres EXCEPT ![h] = "ERROR"]}
      /\ hpc[h] = "unpack" /\ loaded' = loaded /\ hfile' = hfile /\ batch' = batch
  OBVIOUS
<1>2. HandlerShape'
  <2>1. \A k \in Handlers : hpc'[k] = (IF k = h THEN "rmdir" ELSE hpc[k]) /\ (k # h => hres'[k] = hres[k])
          /\ hres'[h] \in {"SUCESS", "ERROR"}
    BY <1>1 DEF TypeOK
  <2> QED
    BY <1>1, <2>1 DEF HandlerShape, Busy, Moving, Zipping, Fault
<1>3. TypeOK'
  BY DEF TypeOK, Results
<1>4. Idle' /\ UnzipShape' /\ Arrived'
  BY DEF Idle, UnzipShape, Arrived
<1>5. Unique' /\ LoadsCounted' /\ CutShape'
  BY DEF Unique, LoadsCounted, CutShape, Outside
<1>6. HandledIsLoaded'
  BY DEF HandledIsLoaded
<1> QED
  BY <1>2, <1>3, <1>4, <1>5, <1>6

(* What is left is given up together with the directory.                   *)
LEMMA RemoveUnzipDirInv == ASSUME Inv, NEW h \in Handlers, RemoveUnzipDir(h) PROVE Inv'
<1> USE DEF Inv, RemoveUnzipDir, listerVars, envVars, At, Goto
<1>1. /\ hpc[h] \in {"rmdir", "rmzip"} /\ Kind[hfile[h]] = "zip" /\ hfile[h] \in Files
      /\ \E to \in {"rmzip", "check"} : hpc' = [hpc EXCEPT ![h] = to]
  BY DEF HandlerShape, Zipping, Busy, TypeOK
<1>2. LoadsCounted'
  <2>1. loaded[hfile[h]] = 0 /\ crashes \in Nat
    BY <1>1 DEF LoadsCounted, TypeOK
  <2>2. \A k \in Handlers : k # h => hpc'[k] = hpc[k]
    BY <1>1 DEF TypeOK
  <2> QED
    BY <2>1, <2>2 DEF LoadsCounted, Outside
<1>3. TypeOK'
  BY DEF TypeOK, Results
<1>4. HandlerShape' /\ Idle' /\ UnzipShape'
  BY DEF HandlerShape, Idle, UnzipShape, Busy, Moving, Zipping, Fault
<1>5. Arrived' /\ Unique' /\ CutShape'
  BY DEF Arrived, Unique, CutShape, Outside
<1>6. HandledIsLoaded'
  BY DEF HandledIsLoaded
<1> QED
  BY <1>2, <1>3, <1>4, <1>5, <1>6

(* The zip itself goes last.                                               *)
LEMMA RemoveZipInv == ASSUME Inv, NEW h \in Handlers, RemoveZip(h) PROVE Inv'
<1> USE DEF Inv, RemoveZip, listerVars, envVars, At, Goto
<1>1. /\ hpc[h] \in {"rmdir", "rmzip"} /\ Kind[hfile[h]] = "zip" /\ hfile[h] \in Files
      /\ \E to \in {"rmzip", "check"} : hpc' = [hpc EXCEPT ![h] = to]
  BY DEF HandlerShape, Zipping, Busy, TypeOK
<1>2. LoadsCounted'
  <2>1. loaded[hfile[h]] = 0 /\ crashes \in Nat
    BY <1>1 DEF LoadsCounted, TypeOK
  <2>2. \A k \in Handlers : k # h => hpc'[k] = hpc[k]
    BY <1>1 DEF TypeOK
  <2> QED
    BY <2>1, <2>2 DEF LoadsCounted, Outside
<1>3. TypeOK'
  BY DEF TypeOK, Results
<1>4. HandlerShape' /\ Idle' /\ UnzipShape'
  BY DEF HandlerShape, Idle, UnzipShape, Busy, Moving, Zipping, Fault
<1>5. Arrived' /\ Unique' /\ CutShape'
  BY DEF Arrived, Unique, CutShape, Outside
<1>6. HandledIsLoaded'
  BY DEF HandledIsLoaded
<1> QED
  BY <1>2, <1>3, <1>4, <1>5, <1>6

(* A file given back has its plain name again, and one owner less.         *)
LEMMA CheckResultInv == ASSUME Inv, NEW h \in Handlers, CheckResult(h) PROVE Inv'
<1> USE DEF Inv
<1>1. /\ hpc[h] = "check" /\ phase = "up" /\ hfile[h] \in Files
      /\ hfile' = [hfile EXCEPT ![h] = None]
      /\ \E to \in {"test", "top"} : hpc' = [hpc EXCEPT ![h] = to]
      /\ UNCHANGED <<unz, handled, errored, loaded, delivered, queue, lpc, ltodo, lfile, hres,
                     session, startsInCut, cut, phase, crashes, batch>>
  BY DEF CheckResult, At, Goto, listerVars, envVars, HandlerShape, Busy, TypeOK
<1>2. \/ plain' = plain /\ start' = start
      \/ /\ start' = start \ {hfile[h]} /\ plain' = plain \cup {hfile[h]} /\ hfile[h] \in start
         /\ hres[h] = "WARING" \/ Kind[hfile[h]] = "zip"
  BY DEF CheckResult
<1>3. \A k \in Handlers : hfile'[k] = (IF k = h THEN None ELSE hfile[k])
                         /\ (k = h => hpc'[k] \in {"test", "top"})
                         /\ (k # h => hpc'[k] = hpc[k])
  BY <1>1 DEF TypeOK
<1>4. hfile[h] # None
  BY <1>1, IngestAssumption
<1>5. TypeOK'
  BY <1>1, <1>2 DEF TypeOK
<1>6. HandlerShape'
  BY <1>1, <1>3 DEF HandlerShape, Busy, Moving, Zipping, Fault
<1>7. Arrived'
  BY <1>1, <1>2, <1>3 DEF Arrived
<1>8. Unique'
  <2> SUFFICES ASSUME NEW f \in Outside
       PROVE
    /\ \A k, l \in Handlers : hfile'[k] = f /\ hfile'[l] = f => k = l
    /\ \A i \in DOMAIN queue : \A k \in Handlers : ~(queue[i] = f /\ hfile'[k] = f)
    /\ lfile = f \/ f \in plain' =>
         /\ \A i \in DOMAIN queue : queue[i] # f
         /\ \A k \in Handlers : hfile'[k] # f
    /\ ~(lfile = f /\ f \in plain')
    BY <1>1 DEF Unique, Outside
  <2>1. f # None
    BY IngestAssumption DEF Outside
  <2>2. CASE f = hfile[h]
    BY <1>2, <1>3, <2>1, <2>2 DEF Unique
  <2>3. CASE f # hfile[h]
    <3>1. f \in plain' => f \in plain
      BY <1>2, <2>3
    <3> QED
      BY <1>3, <2>1, <2>3, <3>1 DEF Unique
  <2> QED
    BY <2>2, <2>3
<1>9. LoadsCounted'
  <2>1. crashes \in Nat
    BY DEF TypeOK
  <2>2. hfile[h] \in Outside /\ (hres[h] = "WARING" \/ Kind[hfile[h]] = "zip") =>
          loaded[hfile[h]] <= crashes
    BY <1>1, <2>1 DEF LoadsCounted
  <2> QED
    BY <1>1, <1>2, <1>3, <2>1, <2>2, IngestAssumption DEF LoadsCounted, Outside
<1>10. Idle' /\ UnzipShape' /\ CutShape'
  BY <1>1, <1>2, <1>3, <1>4 DEF Idle, UnzipShape, CutShape
<1>11. HandledIsLoaded'
  BY <1>1, <1>2, <1>3, <1>4 DEF HandledIsLoaded
<1> QED
  BY <1>5, <1>6, <1>7, <1>8, <1>9, <1>10, <1>11

(* The test of the connection is after the file was put down.              *)
LEMMA TestConnectionInv == ASSUME Inv, NEW h \in Handlers, TestConnection(h) PROVE Inv'
<1> USE DEF Inv, TestConnection, fileVars, listerVars, envVars, At, Goto, Noticed
<1>1. TypeOK'
  BY DEF TypeOK, Results
<1>2. HandlerShape' /\ Idle' /\ UnzipShape'
  BY DEF HandlerShape, Idle, UnzipShape, Busy, Moving, Zipping, Fault
<1>3. Arrived' /\ Unique' /\ LoadsCounted'
  BY DEF Arrived, Unique, LoadsCounted, Outside
<1>4. CutShape' /\ HandledIsLoaded'
  BY DEF CutShape, HandledIsLoaded
<1> QED
  BY <1>1, <1>2, <1>3, <1>4

(* A kill empties queue and hands, and raises what each count may be by    *)
(* one.                                                                    *)
LEMMA CrashInv == ASSUME Inv, Crash PROVE Inv'
<1> USE DEF Inv, Crash, fileVars
<1>1. /\ queue' \in Seq(Files) /\ Len(queue') = 0 /\ DOMAIN queue' = {}
      /\ crashes \in Nat /\ crashes' \in 0 .. MaxCrashes
  BY EmptySeq, IngestAssumption DEF TypeOK
<1>2. TypeOK'
  <2>1. /\ hpc' \in [Handlers -> {"connect"}] /\ hfile' \in [Handlers -> {None}]
        /\ hres' \in [Handlers -> {"SUCESS"}] /\ session' \in [Handlers -> {"none"}]
        /\ startsInCut' \in [Handlers -> {0}]
    OBVIOUS
  <2>2. 0 <= Capacity
    BY IngestAssumption
  <2> QED
    BY <1>1, <2>1, <2>2 DEF TypeOK, Results
<1>3. Unique'
  BY <1>1, IngestAssumption DEF Unique, Outside
<1>4. LoadsCounted'
  <2>1. crashes' = crashes + 1 /\ \A f \in Files : loaded[f] \in Nat
    BY IngestAssumption DEF TypeOK
  <2> QED
    BY <1>1, <2>1, IngestAssumption DEF LoadsCounted, Outside
<1>5. HandlerShape' /\ Idle' /\ UnzipShape'
  BY DEF HandlerShape, Idle, UnzipShape, Busy, Moving, Zipping, Fault
<1>6. Arrived' /\ CutShape' /\ HandledIsLoaded'
  BY DEF Arrived, CutShape, HandledIsLoaded
<1> QED
  BY <1>2, <1>3, <1>4, <1>5, <1>6

(* A restart only begins CoverFiles.                                       *)
LEMMA RestartInv == ASSUME Inv, Restart PROVE Inv'
<1> USE DEF Inv, Restart, fileVars, listerVars, handlerVars
<1>1. TypeOK'
  BY DEF TypeOK, Results
<1>2. HandlerShape' /\ Idle' /\ UnzipShape'
  BY DEF HandlerShape, Idle, UnzipShape, Moving, Zipping, Fault
<1>3. Arrived' /\ Unique' /\ LoadsCounted'
  BY DEF Arrived, Unique, LoadsCounted, Outside
<1>4. CutShape' /\ HandledIsLoaded'
  BY DEF CutShape, HandledIsLoaded
<1> QED
  BY <1>1, <1>2, <1>3, <1>4

(* CoverFiles gives back what nobody has any more.                         *)
LEMMA CoverFileInv == ASSUME Inv, NEW f \in Files, CoverFile(f) PROVE Inv'
<1> USE DEF Inv, CoverFile, listerVars, handlerVars, envVars
<1>1. /\ queue = <<>> /\ lfile = None /\ f # None /\ \A h \in Handlers : hfile[h] = None
  BY IngestAssumption DEF Idle, HandlerShape, Busy
<1>2. Unique'
  BY <1>1 DEF Unique, Outside
<1>3. TypeOK'
  BY DEF TypeOK, Results
<1>4. HandlerShape' /\ Idle' /\ UnzipShape'
  BY DEF HandlerShape, Idle, UnzipShape, Moving, Zipping, Fault
<1>5. Arrived' /\ LoadsCounted' /\ CutShape'
  BY DEF Arrived, LoadsCounted, CutShape, Outside
<1>6. HandledIsLoaded'
  BY DEF HandledIsLoaded
<1> QED
  BY <1>2, <1>3, <1>4, <1>5, <1>6

(* The threads start after CoverFiles.                                     *)
LEMMA CoverDoneInv == ASSUME Inv, CoverDone PROVE Inv'
<1> USE DEF Inv, CoverDone, fileVars, listerVars, handlerVars
<1>1. TypeOK'
  BY DEF TypeOK, Results
<1>2. HandlerShape' /\ Idle' /\ UnzipShape'
  BY DEF HandlerShape, Idle, UnzipShape, Moving, Zipping, Fault
<1>3. Arrived' /\ Unique' /\ LoadsCounted'
  BY DEF Arrived, Unique, LoadsCounted, Outside
<1>4. CutShape' /\ HandledIsLoaded'
  BY DEF CutShape, HandledIsLoaded
<1> QED
  BY <1>1, <1>2, <1>3, <1>4

-----------------------------------------------------------------------------
(* One lemma per action.                                                   *)
LEMMA NextInv == ASSUME Inv, [Next]_vars PROVE Inv'
<1>1. CASE \E f \in Files : Deliver(f)
  BY <1>1, DeliverInv
<1>2. CASE CutBegins \/ CutEnds \/ Crash
  BY <1>2, CutBeginsInv, CutEndsInv, CrashInv
<1>3. CASE Cover
  BY <1>3, RestartInv, CoverFileInv, CoverDoneInv DEF Cover
<1>4. CASE Lister
  BY <1>4, OpenDirInv, StartFileInv, PushQueueInv, CloseDirInv DEF Lister
<1>5. CASE \E h \in Handlers : SessionBreaks(h) \/ CheckDateCut(h)
  BY <1>5, SessionBreaksInv, CheckDateCutInv
<1>6. ASSUME NEW h \in Handlers, HandlerStep(h) PROVE Inv'
  <2>1. CASE ConnectDb(h) \/ PopQueue(h) \/ LoadRecords(h) \/ SkipCT(h) \/ MoveFile(h)
    BY <2>1, ConnectDbInv, PopQueueInv, LoadRecordsInv, SkipCTInv, MoveFileInv
  <2>2. CASE Unzip(h) \/ (\E f \in Files : MoveOut(h, f)) \/ CheckDirEmpty(h) \/ RemoveUnzipDir(h)
    BY <2>2, UnzipInv, MoveOutInv, CheckDirEmptyInv, RemoveUnzipDirInv
  <2>3. CASE RemoveZip(h) \/ CheckResult(h) \/ TestConnection(h)
    BY <2>3, RemoveZipInv, CheckResultInv, TestConnectionInv
  <2> QED
    BY <1>6, <2>1, <2>2, <2>3 DEF HandlerStep
<1>7. CASE UNCHANGED vars
  BY <1>7 DEF vars, fileVars, listerVars, handlerVars, envVars, Inv, TypeOK, HandlerShape, Idle,
              UnzipShape, Arrived, Unique, LoadsCounted, CutShape, HandledIsLoaded, Fault
<1> QED
  BY <1>1, <1>2, <1>3, <1>4, <1>5, <1>6, <1>7 DEF Next

(* The inductive invariant holds of every behaviour of the insert          *)
(* directory.                                                              *)
LEMMA Invariance == Spec => []Inv
<1>1. Init => Inv
  BY InitInv
<1>2. Inv /\ [Next]_vars => Inv'
  BY NextInv
<1> QED
  BY <1>1, <1>2, PTL DEF Spec

(* The directories, the queue, the threads and their sessions keep their   *)
(* types, and the queue its capacity (IngestDir.TypeOK).                   *)
THEOREM TypeCorrect == Spec => []TypeOK
<1>1. Inv => TypeOK
  BY DEF Inv
<1> QED
  BY <1>1, Invariance, PTL

(* A file is moved to the handled directory only after a commit of its rows*)
(* (the SUCESS cases of MoveFSNFile and its like), whatever failed before. *)
THEOREM HandledIsLoadedAlways == Spec => []HandledIsLoaded
<1>1. Inv => HandledIsLoaded
  BY DEF Inv
<1> QED
  BY <1>1, Invariance, PTL

(* In a date cut each handler starts at most the one file it was already   *)
(* waiting for when is_date_cut last let it through.                       *)
THEOREM CutQuiescesAlways == Spec => []CutQuiesces
<1>1. Inv => CutQuiesces
  BY DEF Inv, CutShape, CutQuiesces
<1> QED
  BY <1>1, Invariance, PTL

(* However many handlers, retries and failed renames there are, the rows of*)
(* a file from outside are committed once, and once more per kill.         *)
THEOREM LoadedOnceAlways == Spec => []LoadedOnce
<1>1. Inv => LoadedOnce
  BY DEF Inv, LoadsCounted, LoadedOnce, Outside
<1> QED
  BY <1>1, Invariance, PTL

-----------------------------------------------------------------------------
(* Entries and holders of a file can be counted.                           *)
LEMMA ClaimsFinite ==
  ASSUME TypeOK, NEW f
  PROVE  IsFiniteSet(Entries(f)) /\ IsFiniteSet(Holders(f))
<1>1. IsFiniteSet(1 .. Len(queue))
  BY QueueFacts, FS_Interval
<1>2. Entries(f) \subseteq 1 .. Len(queue) /\ Holders(f) \subseteq Handlers
  BY QueueFacts DEF Entries, Holders
<1> QED
  BY <1>1, <1>2, IngestAssumption, FS_Subset

(* A set whose members are all equal has at most one.                      *)
LEMMA AtMostOne ==
  ASSUME NEW S, IsFiniteSet(S), \A x, y \in S : x = y
  PROVE  Cardinality(S) \in {0, 1} /\ (Cardinality(S) = 0 <=> S = {})
<1>1. CASE S = {}
  BY <1>1, FS_EmptySet
<1>2. CASE S # {}
  <2>1. PICK x \in S : S = {x}
    BY <1>2
  <2> QED
    BY <1>2, <2>1, FS_Singleton
<1> QED
  BY <1>1, <1>2

(* A file from outside is claimed at most once: no two handlers, and no    *)
(* handler and the queue, ever have it, though CheckResult gives files back*)
(* while the lister reads the directory.                                   *)
THEOREM ClaimedOnceAlways == Spec => []ClaimedOnce
<1>1. Inv => ClaimedOnce
  <2> SUFFICES ASSUME Inv, NEW f \in Outside PROVE Claims(f) <= 1
    BY DEF ClaimedOnce, Outside
  <2>1. IsFiniteSet(Entries(f)) /\ IsFiniteSet(Holders(f))
    BY ClaimsFinite DEF Inv
  <2>2. (\A i, j \in Entries(f) : i = j) /\ (\A h, k \in Holders(f) : h = k)
    BY DEF Inv, Unique, Entries, Holders
  <2>3. /\ Entries(f) = {} \/ Holders(f) = {}
        /\ lfile = f => Entries(f) = {} /\ Holders(f) = {}
    BY DEF Inv, Unique, Entries, Holders
  <2>4. /\ Cardinality(Entries(f)) \in {0, 1} /\ (Entries(f) = {} => Cardinality(Entries(f)) = 0)
        /\ Cardinality(Holders(f)) \in {0, 1} /\ (Holders(f) = {} => Cardinality(Holders(f)) = 0)
    BY <2>1, <2>2, AtMostOne
  <2> QED
    BY <2>3, <2>4 DEF Claims
<1> QED
  BY <1>1, Invariance, PTL

-----------------------------------------------------------------------------
(* What a handler unpacks is in the directory of the zip until it is in the*)
(* insert directory, and all there before the zip is removed.              *)
CoveredBy(h) ==
  /\ hpc[h] = "unpack" => \A g \in Inside[hfile[h]] : g \in unz[hfile[h]] \/ InDirs(g)
  /\ hpc[h] = "rmzip" \/ (hpc[h] = "rmdir" /\ hres[h] = "SUCESS") =>
       \A g \in Inside[hfile[h]] : InDirs(g)

Covered == \A h \in Handlers : CoveredBy(h)

(* No step but the removal of a zip takes a name from the directories.     *)
LEMMA NamesStay ==
  ASSUME Inv, [Next]_vars, NEW f, InDirs(f), \A h \in Handlers : RemoveZip(h) => f # hfile[h]
  PROVE  InDirs(f)'
<1> USE DEF InDirs, fileVars
<1>1. CASE \E g \in Files : Deliver(g)
  BY <1>1 DEF Deliver
<1>2. CASE CutBegins \/ CutEnds \/ Crash \/ Restart \/ CoverDone \/ OpenDir \/ PushQueue \/ CloseDir
  BY <1>2 DEF CutBegins, CutEnds, Crash, Restart, CoverDone, OpenDir, PushQueue, CloseDir
<1>3. CASE \E g \in Files : CoverFile(g) \/ StartFile(g)
  BY <1>3 DEF CoverFile, StartFile
<1>4. ASSUME NEW h \in Handlers, SessionBreaks(h) \/ CheckDateCut(h) \/ ConnectDb(h) \/ PopQueue(h)
                                 \/ LoadRecords(h) \/ SkipCT(h) \/ TestConnection(h)
      PROVE  InDirs(f)'
  BY <1>4 DEF SessionBreaks, CheckDateCut, ConnectDb, PopQueue, LoadRecords, SkipCT,
     TestConnection
<1>5. ASSUME NEW h \in Handlers, MoveFile(h) PROVE InDirs(f)'
  <2>1. hres[h] \in {"SUCESS", "ERROR", "NODATA"}
    BY <1>5 DEF MoveFile, Inv, HandlerShape, TypeOK, Moving, Results
  <2> QED
    BY <1>5, <2>1 DEF MoveFile
<1>6. ASSUME NEW h \in Handlers, Unzip(h) \/ (\E g \in Files : MoveOut(h, g)) \/ CheckDirEmpty(h)
                                 \/ RemoveUnzipDir(h) \/ RemoveZip(h) \/ CheckResult(h)
      PROVE  InDirs(f)'
  BY <1>6 DEF Unzip, MoveOut, CheckDirEmpty, RemoveUnzipDir, RemoveZip, CheckResult
<1>7. CASE UNCHANGED vars
  BY <1>7 DEF vars
<1> QED
  BY <1>1, <1>2, <1>3, <1>4, <1>5, <1>6, <1>7 DEF Next, Cover, Lister, HandlerStep

(* A handler that is not at work on its zip just now.                      *)
LEMMA StillCovered ==
  ASSUME NEW h \in Handlers, CoveredBy(h), \A g \in Inner : InDirs(g) => InDirs(g)',
         hpc'[h] \in Zipping =>
           /\ hpc'[h] = hpc[h] /\ hres'[h] = hres[h] /\ hfile'[h] = hfile[h]
           /\ Inside[hfile[h]] \subseteq Inner
           /\ \A g \in unz[hfile[h]] : g \in unz'[hfile[h]] \/ InDirs(g)'
  PROVE  CoveredBy(h)'
BY DEF CoveredBy, Zipping

(* Every step keeps what is being unpacked where it can be found.          *)
LEMMA NextCovered ==
  ASSUME Inv, Inv', Covered, "unzip" \notin batch.faults, [Next]_vars
  PROVE  Covered'
<1>1. \A z \in Files : Kind[z] = "zip" => z \notin Inner
  BY IngestAssumption
<1>2. \A h \in Handlers : hpc[h] \in Zipping => /\ hfile[h] \in Outside /\ Kind[hfile[h]] = "zip"
                                               /\ Inside[hfile[h]] \subseteq Inner
  <2>1. \A h \in Handlers : hpc[h] \in Zipping => hfile[h] \in Files /\ Kind[hfile[h]] = "zip"
    BY DEF Inv, HandlerShape, TypeOK, Busy, Zipping
  <2> QED
    BY <1>1, <2>1, InnerFacts DEF Outside
<1>3. \A g \in Inner : InDirs(g) => InDirs(g)'
  <2>1. \A h \in Handlers : RemoveZip(h) => hfile[h] \notin Inner
    BY <1>2 DEF RemoveZip, At, Zipping, Outside
  <2> QED
    BY <2>1, NamesStay
<1>4. ASSUME \A h \in Handlers : hpc'[h] \in Zipping =>
               /\ hpc'[h] = hpc[h] /\ hres'[h] = hres[h] /\ hfile'[h] = hfile[h]
               /\ \A g \in unz[hfile[h]] : g \in unz'[hfile[h]] \/ InDirs(g)'
      PROVE  Covered'
  <2> SUFFICES ASSUME NEW h \in Handlers PROVE CoveredBy(h)'
    BY DEF Covered
  <2> QED
    BY <1>2, <1>3, <1>4, StillCovered DEF Covered
<1>5. CASE (\E f \in Files : Deliver(f) \/ CoverFile(f) \/ StartFile(f)) \/ CutBegins \/ CutEnds
           \/ Restart \/ CoverDone \/ OpenDir \/ PushQueue \/ CloseDir \/ UNCHANGED vars
  <2>1. UNCHANGED <<hpc, hres, hfile, unz>>
    BY <1>5 DEF Deliver, CoverFile, StartFile, CutBegins, CutEnds, Restart, CoverDone, OpenDir,
                PushQueue, CloseDir, vars, fileVars, handlerVars
  <2> QED
    BY <1>4, <2>1
<1>6. CASE Crash
  BY <1>4, <1>6 DEF Crash, Zipping
<1>7. ASSUME NEW h \in Handlers, SessionBreaks(h) \/ CheckDateCut(h) \/ ConnectDb(h) \/ PopQueue(h)
                                 \/ LoadRecords(h) \/ SkipCT(h) \/ TestConnection(h)
                                 \/ MoveFile(h) \/ CheckResult(h) \/ RemoveZip(h)
      PROVE  Covered'
  <2>1. unz' = unz
    BY <1>7 DEF SessionBreaks, CheckDateCut, ConnectDb, PopQueue, LoadRecords, SkipCT,
                TestConnection, MoveFile, CheckResult, RemoveZip, fileVars
  <2>2. \A k \in Handlers \ {h} : hpc'[k] = hpc[k] /\ hres'[k] = hres[k] /\ hfile'[k] = hfile[k]
    BY <1>7 DEF SessionBreaks, CheckDateCut, ConnectDb, PopQueue, LoadRecords, SkipCT,
                TestConnection, MoveFile, CheckResult, RemoveZip, Goto, Result, Inv, TypeOK
  <2>3. \/ hpc'[h] \notin Zipping
        \/ SessionBreaks(h)
    BY <1>7 DEF CheckDateCut, ConnectDb, PopQueue, LoadRecords, SkipCT,
                TestConnection, MoveFile, CheckResult, RemoveZip, Goto, Inv, TypeOK, Zipping
  <2>4. SessionBreaks(h) => UNCHANGED <<hpc, hres, hfile>>
    BY DEF SessionBreaks
  <2> QED
    BY <1>4, <2>1, <2>2, <2>3, <2>4
<1>8. ASSUME NEW h \in Handlers, Unzip(h) PROVE Covered'
  <2>1. /\ \A k \in Handlers \ {h} : hpc'[k] = hpc[k] /\ hres'[k] = hres[k]
        /\ hfile' = hfile /\ hfile[h] \in Files
    BY <1>8 DEF Unzip, Goto, Result, Inv, TypeOK, HandlerShape, Busy
  <2>2. /\ hpc'[h] # "unpack" => unz' = unz
        /\ hpc'[h] = "unpack" => unz' = [unz EXCEPT ![hfile[h]] = @ \cup Inside[hfile[h]]]
        /\ hpc'[h] \in {"unpack", "check"}
    BY <1>8 DEF Unzip, Goto, Fault, Inv, TypeOK
  <2>3. \A z \in Files : unz[z] \subseteq unz'[z]
    BY <2>1, <2>2 DEF Inv, TypeOK
  <2>4. CoveredBy(h)'
    BY <2>1, <2>2 DEF CoveredBy, Inv, TypeOK
  <2>5. ASSUME NEW k \in Handlers \ {h} PROVE CoveredBy(k)'
    <3>1. hpc[k] \in Zipping => hfile[k] \in Files
      BY <1>2 DEF Outside
    <3> QED
      BY <1>2, <1>3, <2>1, <2>3, <3>1, StillCovered DEF Covered
  <2> QED
    BY <2>4, <2>5 DEF Covered
<1>9. ASSUME NEW h \in Handlers, NEW f \in Files, MoveOut(h, f) PROVE Covered'
  <2>1. UNCHANGED <<hpc, hres, hfile>> /\ InDirs(f)'
    BY <1>9 DEF MoveOut, handlerVars, InDirs
  <2>2. \A z \in Files : \A g \in unz[z] : g \in unz'[z] \/ g = f
    BY <1>9 DEF MoveOut, Inv, TypeOK
  <2>3. \A k \in Handlers : hpc[k] \in Zipping => hfile[k] \in Files
    BY <1>2 DEF Outside
  <2> QED
    BY <1>4, <2>1, <2>2, <2>3
<1>10. ASSUME NEW h \in Handlers, CheckDirEmpty(h) PROVE Covered'
  <2>1. /\ \A k \in Handlers \ {h} : hpc'[k] = hpc[k] /\ hres'[k] = hres[k]
        /\ hfile' = hfile /\ unz' = unz /\ hpc[h] = "unpack" /\ hpc'[h] = "rmdir"
        /\ hres'[h] = "SUCESS" => unz[hfile[h]] = {}
    BY <1>10 DEF CheckDirEmpty, At, Goto, Result, fileVars, Inv, TypeOK
  <2>2. CoveredBy(h)'
    BY <1>2, <1>3, <2>1 DEF CoveredBy, Covered, Zipping
  <2>3. ASSUME NEW k \in Handlers \ {h} PROVE CoveredBy(k)'
    BY <1>2, <1>3, <2>1, StillCovered DEF Covered
  <2> QED
    BY <2>2, <2>3 DEF Covered
<1>11. ASSUME NEW h \in Handlers, RemoveUnzipDir(h) PROVE Covered'
  <2>1. /\ \A k \in Handlers \ {h} : hpc'[k] = hpc[k]
        /\ hfile' = hfile /\ hres' = hres /\ hpc[h] = "rmdir"
        /\ hpc'[h] = IF hres[h] = "SUCESS" THEN "rmzip" ELSE "check"
        /\ unz' = [unz EXCEPT ![hfile[h]] = {}]
    BY <1>11 DEF RemoveUnzipDir, At, Goto, Inv, TypeOK
  <2>2. CoveredBy(h)'
    BY <1>2, <1>3, <2>1 DEF CoveredBy, Covered, Zipping
  <2>3. ASSUME NEW k \in Handlers \ {h} PROVE CoveredBy(k)'
    <3>1. hpc[k] \in Zipping => hfile[k] # hfile[h] /\ hfile[k] \in Files
      BY <1>2, <2>1 DEF Inv, Unique, Outside, Zipping
    <3>2. hpc[k] \in Zipping => unz'[hfile[k]] = unz[hfile[k]]
      BY <2>1, <3>1 DEF Inv, TypeOK
    <3> QED
      BY <1>2, <1>3, <2>1, <3>2, StillCovered DEF Covered
  <2> QED
    BY <2>2, <2>3 DEF Covered
<1> QED
  BY <1>5, <1>6, <1>7, <1>8, <1>9, <1>10, <1>11 DEF Next, Cover, Lister, HandlerStep

(* Every step leaves each file a name, or its contents theirs.             *)
LEMMA NextKeeps ==
  ASSUME Inv, Covered, NoFileLost, [Next]_vars
  PROVE  NoFileLost'
<1>1. \A f \in Files : InDirs(f) => InDirs(f)' \/ (Kind[f] = "zip" /\ \A g \in Inside[f] : InDirs(g))
  <2> SUFFICES ASSUME NEW f \in Files, InDirs(f), ~InDirs(f)'
               PROVE  Kind[f] = "zip" /\ \A g \in Inside[f] : InDirs(g)
    OBVIOUS
  <2>1. PICK h \in Handlers : RemoveZip(h) /\ f = hfile[h]
    BY NamesStay
  <2>2. hpc[h] = "rmzip"
    BY <2>1 DEF RemoveZip, At
  <2> QED
    BY <2>1, <2>2 DEF Covered, CoveredBy, Inv, HandlerShape, Zipping
<1>2. \A f \in Files : Kind[f] = "zip" /\ (\A g \in Inside[f] : InDirs(g)) =>
        \A g \in Inside[f] : InDirs(g)'
  <2> SUFFICES ASSUME NEW f \in Files, Kind[f] = "zip", NEW g \in Inside[f], InDirs(g)
               PROVE  InDirs(g)'
    OBVIOUS
  <2>1. g \in Files /\ Kind[g] # "zip"
    BY InnerFacts, IngestAssumption
  <2>2. \A h \in Handlers : RemoveZip(h) => g # hfile[h]
    BY <2>1 DEF RemoveZip, At, Inv, HandlerShape, Zipping
  <2> QED
    BY <2>2, NamesStay
<1>3. delivered \subseteq Files
  BY DEF Inv, TypeOK
<1>4. \A f \in delivered' : f \in delivered \/ InDirs(f)'
  <2>1. CASE \E f \in Files : Deliver(f)
    BY <2>1 DEF Deliver, InDirs
  <2>2. CASE \E h \in Handlers, f \in Files : MoveOut(h, f)
    BY <2>2 DEF MoveOut, InDirs
  <2>3. CASE delivered' = delivered
    BY <2>3
  <2>4. \/ \E f \in Files : Deliver(f)
        \/ \E h \in Handlers, f \in Files : MoveOut(h, f)
        \/ delivered' = delivered
    BY DEF Next, Cover, Lister, HandlerStep, CoverFile, StartFile, CutBegins, CutEnds, Crash,
       Restart,
           CoverDone, OpenDir, PushQueue, CloseDir, SessionBreaks, CheckDateCut, ConnectDb,
           PopQueue,
           LoadRecords, SkipCT, TestConnection, MoveFile, CheckResult, RemoveZip, Unzip,
           CheckDirEmpty, RemoveUnzipDir, vars, fileVars
  <2> QED
    BY <2>1, <2>2, <2>3, <2>4
<1> QED
  BY <1>1, <1>2, <1>3, <1>4 DEF NoFileLost

(* As long as unzip does not fail, a file that arrived is under one of its *)
(* names or, a zip, has all its files under theirs: CheckDirEmpty keeps    *)
(* the zip when a move failed, and its directory is no other handler's.    *)
THEOREM NoFileLostAlways ==
  ASSUME \A b \in Batches : "unzip" \notin b.faults
  PROVE  Spec => []NoFileLost
<1>1. Init => Covered /\ NoFileLost
  BY DEF Init, Covered, CoveredBy, NoFileLost
<1>2. Inv /\ Inv' /\ Covered /\ NoFileLost /\ [Next]_vars => Covered' /\ NoFileLost'
  <2>1. Inv => "unzip" \notin batch.faults
    BY DEF Inv, TypeOK
  <2> QED
    BY <2>1, NextCovered, NextKeeps
<1> QED
  BY <1>1, <1>2, Invariance, PTL DEF Spec

-----------------------------------------------------------------------------
(* Somebody has the file and will move it, remove it or give it back.      *)
GivesBack(h) == hres[h] = "WARING" \/ (hres[h] = "ERROR" /\ Kind[hfile[h]] = "zip")
WillEnd(h)   == hpc[h] = "check" => GivesBack(h)

Live(f) ==
  \/ \E i \in DOMAIN queue : queue[i] = f
  \/ lfile = f
  \/ \E h \in Handlers : hfile[h] = f /\ WillEnd(h)

StartIsLive == phase = "up" => \A f \in start : Live(f)

(* What StartIsOwned takes: renames do not fail, no file is empty and none *)
(* is a CT file.                                                           *)
Orderly ==
  /\ \A b \in Batches : b.faults \cap {"rename", "nodata"} = {}
  /\ \A f \in Files : Kind[f] # "ct"

(* A claim whose owner goes on with it is still one.                       *)
LEMMA StillLive ==
  ASSUME NEW f, Live(f), queue' = queue, lfile' = lfile,
         \A h \in Handlers : hfile[h] = f /\ WillEnd(h) => hfile'[h] = f /\ WillEnd(h)'
  PROVE  Live(f)'
BY DEF Live

(* Every step that lets go of a file leaves no claimed name behind.        *)
LEMMA NextLive ==
  ASSUME Inv, Inv', Orderly, StartIsLive, [Next]_vars
  PROVE  StartIsLive'
<1>1. ~Fault("rename") /\ ~Fault("nodata")
  BY DEF Orderly, Fault, Inv, TypeOK
<1>2. CASE \/ (\E f \in Files : Deliver(f)) \/ CutBegins \/ CutEnds \/ OpenDir \/ CloseDir
           \/ (\E h \in Handlers : SessionBreaks(h)) \/ UNCHANGED vars
  <2>1. UNCHANGED <<start, queue, lfile, hpc, hfile, hres, phase>>
    BY <1>2 DEF Deliver, CutBegins, CutEnds, OpenDir, CloseDir, SessionBreaks, vars, fileVars,
                listerVars, handlerVars, envVars
  <2> QED
    BY <2>1 DEF StartIsLive, Live, WillEnd, GivesBack
<1>3. CASE Crash \/ Restart \/ \E f \in Files : CoverFile(f)
  BY <1>3 DEF Crash, Restart, CoverFile, envVars, StartIsLive
<1>4. CASE CoverDone
  BY <1>1, <1>4 DEF CoverDone, fileVars, StartIsLive
<1>5. ASSUME NEW f \in Files, StartFile(f) PROVE StartIsLive'
  <2>1. /\ lfile = None /\ lfile' = f /\ start' = start \cup {f}
        /\ UNCHANGED <<queue, hpc, hfile, hres, phase>>
    BY <1>5 DEF StartFile, handlerVars, Inv, Idle
  <2>2. \A g \in start : g # None
    BY IngestAssumption DEF Inv, TypeOK
  <2> QED
    BY <2>1, <2>2 DEF StartIsLive, Live, WillEnd, GivesBack
<1>6. CASE PushQueue
  <2>1. /\ queue' = Append(queue, lfile) /\ lfile' = None /\ lfile \in Files
        /\ UNCHANGED <<start, hpc, hfile, hres, phase>>
    BY <1>6 DEF PushQueue, fileVars, handlerVars, Inv, Idle, TypeOK
  <2>2. /\ \A i \in DOMAIN queue : i \in DOMAIN queue' /\ queue'[i] = queue[i]
        /\ Len(queue) + 1 \in DOMAIN queue' /\ queue'[Len(queue) + 1] = lfile
    BY <2>1, QueueFacts DEF Inv, TypeOK
  <2>3. \A g \in start : Live(g) => Live(g)'
    BY <2>1, <2>2 DEF Live, WillEnd, GivesBack
  <2> QED
    BY <2>1, <2>3 DEF StartIsLive
<1>7. ASSUME NEW h \in Handlers, PopQueue(h) PROVE StartIsLive'
  <2>1. /\ queue # <<>> /\ hpc[h] = "pop" /\ hpc'[h] = "work" /\ hfile'[h] = Head(queue)
        /\ queue' = Tail(queue)
        /\ \A k \in Handlers \ {h} : hpc'[k] = hpc[k] /\ hfile'[k] = hfile[k]
        /\ UNCHANGED <<start, lfile, hres, phase>>
    BY <1>7 DEF PopQueue, At, Goto, fileVars, listerVars, envVars, Inv, TypeOK
  <2>2. queue \in Seq(Files) /\ Len(queue) \in Nat /\ DOMAIN queue = 1 .. Len(queue)
    BY QueueFacts DEF Inv, TypeOK
  <2>3. /\ queue' \in Seq(Files) /\ Len(queue') = Len(queue) - 1 /\ DOMAIN queue' = 1 .. Len(queue')
        /\ \A i \in 1 .. Len(queue') : queue'[i] = queue[i + 1]
    BY <2>1, <2>2, HeadTailProperties, LenProperties
  <2>4. \A i \in DOMAIN queue : i = 1 \/ (i - 1 \in DOMAIN queue' /\ queue'[i - 1] = queue[i])
    BY <2>2, <2>3
  <2>5. Head(queue) = queue[1] /\ hfile[h] = None
    BY <2>1, <2>2 DEF Inv, HandlerShape, Busy
  <2>6. \A g \in start : g # None
    BY IngestAssumption DEF Inv, TypeOK
  <2>7. ASSUME NEW g \in start, Live(g) PROVE Live(g)'
    <3>1. CASE \E i \in DOMAIN queue : queue[i] = g
      BY <2>1, <2>4, <2>5, <3>1 DEF Live, WillEnd
    <3>2. CASE lfile = g \/ \E k \in Handlers : hfile[k] = g /\ WillEnd(k)
      BY <2>1, <2>5, <2>6, <3>2 DEF Live, WillEnd, GivesBack
    <3> QED
      BY <2>7, <3>1, <3>2 DEF Live
  <2> QED
    BY <2>1, <2>7 DEF StartIsLive
<1>8. ASSUME NEW h \in Handlers, UNCHANGED <<queue, lfile, phase>>, start' \subseteq start,
             \A k \in Handlers \ {h} : hpc'[k] = hpc[k] /\ hres'[k] = hres[k] /\ hfile'[k] = hfile[k],
             hfile[h] \in start' => (WillEnd(h) => hfile'[h] = hfile[h] /\ WillEnd(h)')
      PROVE  StartIsLive'
  <2> SUFFICES ASSUME phase = "up", NEW f \in start' PROVE Live(f)'
    BY <1>8 DEF StartIsLive
  <2>1. Live(f)
    BY <1>8 DEF StartIsLive
  <2>2. \A k \in Handlers : hfile[k] = f /\ WillEnd(k) => hfile'[k] = f /\ WillEnd(k)'
    BY <1>8 DEF WillEnd, GivesBack
  <2> QED
    BY <1>8, <2>1, <2>2, StillLive
<1>9. ASSUME NEW h \in Handlers, HandlerStep(h) \/ CheckDateCut(h), ~PopQueue(h) PROVE StartIsLive'
  <2>1. CASE ConnectDb(h) \/ CheckDateCut(h) \/ TestConnection(h) \/ (\E f \in Files : MoveOut(h, f))
             \/ CheckDirEmpty(h)
    <3>1. /\ UNCHANGED <<queue, lfile, phase, start, hfile>> /\ hpc'[h] # "check"
          /\ \A k \in Handlers \ {h} : hpc'[k] = hpc[k] /\ hres'[k] = hres[k]
      BY <2>1 DEF ConnectDb, CheckDateCut, TestConnection, MoveOut, CheckDirEmpty, At, Goto,
         Result,
                  fileVars, listerVars, handlerVars, envVars, Inv, TypeOK
    <3> QED
      BY <1>8, <3>1 DEF WillEnd
  <2>2. CASE LoadRecords(h)
    <3>1. UNCHANGED <<queue, lfile, phase, start, hfile>>
      BY <2>2, LoadOutcome DEF listerVars, envVars, Inv
    <3>2. /\ \A k \in Handlers \ {h} : hpc'[k] = hpc[k] /\ hres'[k] = hres[k]
          /\ hpc'[h] = "check" => hres'[h] = "WARING"
      <4>1. PICK r \in Results :
              /\ hres' = [hres EXCEPT ![h] = r]
              /\ hpc' = [hpc EXCEPT ![h] = IF r = "WARING" THEN "check" ELSE "move"]
        BY <2>2, LoadOutcome DEF Inv
      <4> QED
        BY <4>1 DEF Inv, TypeOK
    <3> QED
      BY <1>8, <3>1, <3>2 DEF WillEnd, GivesBack
  <2>3. CASE SkipCT(h)
    BY <2>3 DEF SkipCT, At, Orderly, Inv, HandlerShape, TypeOK, Busy
  <2>4. CASE MoveFile(h)
    <3>1. UNCHANGED <<queue, lfile, phase, hfile, hres>> /\ \A k \in Handlers \ {h} : hpc'[k] = hpc[k]
      BY <2>4 DEF MoveFile, Goto, listerVars, envVars, Inv, TypeOK
    <3>2. hres[h] # "NODATA"
      BY <1>1, <2>4 DEF MoveFile, Inv, HandlerShape, Moving
    <3>3. start' \subseteq start /\ hfile[h] \notin start'
      BY <1>1, <2>4, <3>2 DEF MoveFile
    <3> QED
      BY <1>8, <3>1, <3>3
  <2>5. CASE Unzip(h)
    <3>1. UNCHANGED <<queue, lfile, phase, start, hfile>> /\ Kind[hfile[h]] = "zip"
      BY <2>5 DEF Unzip, listerVars, envVars
    <3>2. /\ \A k \in Handlers \ {h} : hpc'[k] = hpc[k] /\ hres'[k] = hres[k]
          /\ hpc'[h] = "check" => hres'[h] = "ERROR"
      BY <2>5 DEF Unzip, Goto, Result, Inv, TypeOK
    <3> QED
      BY <1>8, <3>1, <3>2 DEF WillEnd, GivesBack
  <2>6. CASE RemoveUnzipDir(h)
    <3>1. /\ UNCHANGED <<queue, lfile, phase, start, hfile, hres>> /\ Kind[hfile[h]] = "zip"
          /\ \A k \in Handlers \ {h} : hpc'[k] = hpc[k]
          /\ hpc'[h] = "check" => hres[h] = "ERROR"
      BY <2>6 DEF RemoveUnzipDir, At, Goto, listerVars, envVars, Inv, TypeOK, HandlerShape,
         Zipping
    <3> QED
      BY <1>8, <3>1 DEF WillEnd, GivesBack
  <2>7. CASE RemoveZip(h)
    <3>1. /\ UNCHANGED <<queue, lfile, phase, hfile, hres>> /\ start' = start \ {hfile[h]}
          /\ \A k \in Handlers \ {h} : hpc'[k] = hpc[k]
      BY <2>7 DEF RemoveZip, Goto, listerVars, envVars, Inv, TypeOK
    <3> QED
      BY <1>8, <3>1
  <2>8. CASE CheckResult(h)
    <3>1. /\ UNCHANGED <<queue, lfile, phase, hres>> /\ hpc[h] = "check"
          /\ \A k \in Handlers \ {h} : hpc'[k] = hpc[k] /\ hfile'[k] = hfile[k]
      BY <2>8 DEF CheckResult, At, Goto, listerVars, envVars, Inv, TypeOK
    <3>2. start' \subseteq start /\ (GivesBack(h) => hfile[h] \notin start')
      BY <1>1, <2>8 DEF CheckResult, GivesBack
    <3> QED
      BY <1>8, <3>1, <3>2 DEF WillEnd
  <2> QED
    BY <1>9, <2>1, <2>2, <2>3, <2>4, <2>5, <2>6, <2>7, <2>8 DEF HandlerStep
<1> QED
  BY <1>2, <1>3, <1>4, <1>5, <1>6, <1>7, <1>9 DEF Next, Cover, Lister, HandlerStep

(* As long as renames succeed, nothing stays claimed with nobody to end it:*)
(* every way through HandleFileThread moves, removes or gives back a file. *)
(* A CT file and a file without data are the exceptions: they stay.        *)
THEOREM StartIsOwnedAlways ==
  ASSUME Orderly
  PROVE  Spec => []StartIsOwned
<1>1. Init => StartIsLive
  BY DEF Init, StartIsLive
<1>2. Inv /\ Inv' /\ StartIsLive /\ [Next]_vars => StartIsLive'
  BY NextLive
<1>3. Inv /\ StartIsLive => StartIsOwned
  <2> SUFFICES ASSUME Inv, StartIsLive, phase = "up", NEW f \in start PROVE Claims(f) > 0
    BY DEF StartIsOwned
  <2>1. IsFiniteSet(Entries(f)) /\ IsFiniteSet(Holders(f))
    BY ClaimsFinite DEF Inv
  <2>2. Cardinality(Entries(f)) \in Nat /\ Cardinality(Holders(f)) \in Nat
    BY <2>1, FS_CardinalityType
  <2>3. Entries(f) # {} \/ Holders(f) # {} \/ lfile = f
    BY DEF StartIsLive, Live, Entries, Holders
  <2>4. /\ Entries(f) # {} => Cardinality(Entries(f)) # 0
        /\ Holders(f) # {} => Cardinality(Holders(f)) # 0
    BY <2>1, FS_EmptySet
  <2> QED
    BY <2>2, <2>3, <2>4 DEF Claims
<1> QED
  BY <1>1, <1>2, <1>3, Invariance, PTL DEF Spec
=============================================================================
