----------------------------- MODULE Supervisor ----------------------------
(***************************************************************************)
(* Which processes run, and which threads.  pokadaemon looks every minute  *)
(* whether a program called pokapbrmb is there and starts one when not;    *)
(* the administrator's script starts and stops both.  A pokapbrmb that     *)
(* starts counts the processes of its name in /proc, itself included, and  *)
(* leaves when there are two.  /proc is read entry by entry, while others  *)
(* start and leave.  The program that stays creates its threads.           *)
(***************************************************************************)
EXTENDS Integers, FiniteSets

CONSTANTS Programs,         (* process numbers a pokapbrmb may get            *)
          Daemons,          (* and a pokadaemon                               *)
          Roles,            (* threads there is one of: ListDirThread, ...    *)
          ThreadSize,       (* threadsize: HandleFileThreads wanted           *)
          MAX_THREAD_NUM,   (* entries of fileOpr                             *)
          MaxFds,           (* files a daemon can have open                   *)
          MaxTroubles,      (* bound: kills, inits and threads that fail      *)
          MaxStarts         (* bound: what the administrator does             *)

(* ThreadSize = 0 (no files are loaded, only sent) is not considered here.  *)
ASSUME SupervisorAssumption ==
  /\ ThreadSize \in Nat \ {0} /\ MAX_THREAD_NUM \in Nat /\ ThreadSize <= MAX_THREAD_NUM
  /\ MaxFds \in Nat \ {0} /\ MaxTroubles \in Nat /\ MaxStarts \in Nat
  /\ Roles \cap 0 .. MAX_THREAD_NUM = {}

VARIABLES
  pc,          (* a program: place, "none" if there is no such process        *)
  left,        (* entries of /proc it has still to look at                    *)
  found,       (* those of its name it saw: uicount                           *)
  index,       (* i of main                                                   *)
  threads,     (* its live threads: roles, and indices of fileOpr             *)
  dpc, fds,    (* a daemon: place, open directories                           *)
  troubles, starts

programVars == <<pc, left, found, index, threads>>
daemonVars  == <<dpc, fds>>
vars        == <<programVars, daemonVars, troubles, starts>>

Init ==
  /\ pc = [p \in Programs |-> "none"]
  /\ left = [p \in Programs |-> {}] /\ found = [p \in Programs |-> {}]
  /\ index = [p \in Programs |-> 0] /\ threads = [p \in Programs |-> {}]
  /\ dpc = [d \in Daemons |-> "none"] /\ fds = [d \in Daemons |-> 0]
  /\ troubles = 0 /\ starts = 0

(* The name in /proc/<number>/status.                                       *)
IsServer(p) == pc[p] # "none"
Running(p)  == pc[p] \in {"init", "loop", "sleep"}
Alive(d)    == dpc[d] \notin {"none", "exec"}

(* The program p is there from here on.                                     *)
Exec(p) ==
  /\ pc[p] = "none"
  /\ pc' = [pc EXCEPT ![p] = "scan"]
  /\ left' = [left EXCEPT ![p] = Programs]
  /\ found' = [found EXCEPT ![p] = {}]
  /\ index' = [index EXCEPT ![p] = 0]
  /\ UNCHANGED threads

Exit(p) ==
  /\ pc' = [pc EXCEPT ![p] = "none"]
  /\ threads' = [threads EXCEPT ![p] = {}]
  /\ UNCHANGED <<left, found, index>>

-----------------------------------------------------------------------------
(* CheckServer(1) counts the entries of its name, itself among them, up to  *)
(* the second; with two, JudgeProgramExist is an ERROR.                     *)
Two(S) == \E p, q \in S : p # q

\* Slip: two of the name are not too many.
AllowTwo(p) == Cardinality(found[p]) <= 2

JudgeProgramExist(p) == ~ Two(found[p])

LookAt(p, q) ==
  /\ pc[p] = "scan" /\ q \in left[p] /\ JudgeProgramExist(p)
  /\ left' = [left EXCEPT ![p] = @ \ {q}]
  /\ found' = [found EXCEPT ![p] = IF IsServer(q) THEN @ \cup {q} ELSE @]
  /\ UNCHANGED <<pc, index, threads, daemonVars, troubles, starts>>

Leave(p) ==
  /\ pc[p] = "scan" /\ ~ JudgeProgramExist(p)
  /\ Exit(p)
  /\ UNCHANGED <<daemonVars, troubles, starts>>

Stay(p) ==
  /\ pc[p] = "scan" /\ left[p] = {} /\ JudgeProgramExist(p)
  /\ pc' = [pc EXCEPT ![p] = "init"]
  /\ UNCHANGED <<left, found, index, threads, daemonVars, troubles, starts>>

(* init: configuration, directories, database, date cut thread, CoverFiles. *)
InitDone(p) ==
  /\ pc[p] = "init"
  /\ pc' = [pc EXCEPT ![p] = "loop"]
  /\ UNCHANGED <<left, found, index, threads, daemonVars, troubles, starts>>

(* One round of the inner loop: with i = 0 the threads there is one of, and *)
(* the HandleFileThread of fileOpr[i].  test_pthread is asked for each.     *)
StartThreads(p) ==
  /\ pc[p] = "loop"
  /\ threads' = [threads EXCEPT ![p] = @ \cup {index[p]} \cup IF index[p] = 0 THEN Roles ELSE {}]
  /\ index' = [index EXCEPT ![p] = @ + 1]
  /\ pc' = [pc EXCEPT ![p] = IF index[p] + 1 >= ThreadSize THEN "sleep" ELSE "loop"]
  /\ UNCHANGED <<left, found, daemonVars, troubles, starts>>

(* After SleepTime minutes the loop goes on where i stands, so each time    *)
(* there is a thread more, and none of those that ended is created again.   *)
(* Past MAX_THREAD_NUM the code writes beyond fileOpr, which is not         *)
(* modelled.                                                                *)
NextPass(p) ==
  /\ pc[p] = "sleep" /\ index[p] < MAX_THREAD_NUM
  /\ pc' = [pc EXCEPT ![p] = "loop"]
  /\ UNCHANGED <<left, found, index, threads, daemonVars, troubles, starts>>

Program(p) ==
  \/ \E q \in Programs : LookAt(p, q)
  \/ Leave(p) \/ Stay(p) \/ InitDone(p) \/ StartThreads(p) \/ NextPass(p)

-----------------------------------------------------------------------------
(* main of pokadaemon.                                                      *)
\* Slips: a directory too many is opened; what cannot be looked up runs.
OpenAnyway(d) ==
  /\ dpc[d] = "check"
  /\ \/ /\ \E p \in Programs : IsServer(p)
        /\ dpc' = [dpc EXCEPT ![d] = "sleep"]
        /\ fds' = [fds EXCEPT ![d] = @ + 1]
     \/ /\ \A p \in Programs : ~ IsServer(p)
        /\ dpc' = [dpc EXCEPT ![d] = "launch"]
        /\ UNCHANGED fds
  /\ UNCHANGED <<programVars, troubles, starts>>

ErrorMeansRuns(d) ==
  /\ dpc[d] = "check"
  /\ \/ /\ fds[d] = MaxFds \/ \E p \in Programs : IsServer(p)
        /\ dpc' = [dpc EXCEPT ![d] = "sleep"]
        /\ fds' = [fds EXCEPT ![d] = IF @ = MaxFds THEN @ ELSE @ + 1]
     \/ /\ fds[d] < MaxFds /\ \A p \in Programs : ~ IsServer(p)
        /\ dpc' = [dpc EXCEPT ![d] = "launch"]
        /\ UNCHANGED fds
  /\ UNCHANGED <<programVars, troubles, starts>>

(* CheckServer(0) returns at the first of the name without closedir.  When  *)
(* no more can be opened its -1 means that the program does not run.        *)
CheckServer(d) ==
  /\ dpc[d] = "check"
  /\ \/ /\ fds[d] < MaxFds /\ \E p \in Programs : IsServer(p)
        /\ dpc' = [dpc EXCEPT ![d] = "sleep"]
        /\ fds' = [fds EXCEPT ![d] = @ + 1]
     \/ /\ fds[d] = MaxFds \/ \A p \in Programs : ~ IsServer(p)
        /\ dpc' = [dpc EXCEPT ![d] = "launch"]
        /\ UNCHANGED fds
  /\ UNCHANGED <<programVars, troubles, starts>>

Launch(d) ==
  /\ dpc[d] = "launch" /\ \E p \in Programs : Exec(p)
  /\ dpc' = [dpc EXCEPT ![d] = "sleep"]
  /\ UNCHANGED <<fds, troubles, starts>>

(* The minute the daemon sleeps is longer than a program looks at /proc.    *)
Wake(d) ==
  /\ dpc[d] = "sleep" /\ \A p \in Programs : pc[p] # "scan"
  /\ dpc' = [dpc EXCEPT ![d] = "check"]
  /\ UNCHANGED <<programVars, fds, troubles, starts>>

Daemon(d) == CheckServer(d) \/ Launch(d) \/ Wake(d)

-----------------------------------------------------------------------------
(* sbin/pokapbrmb.sh start: a daemon, unless one runs.  Two calls may both  *)
(* count before either starts one.                                          *)
StartTested(d) ==
  /\ dpc[d] = "none" /\ Cardinality({e \in Daemons : Alive(e)}) # 1
  /\ starts < MaxStarts /\ starts' = starts + 1
  /\ dpc' = [dpc EXCEPT ![d] = "exec"]
  /\ UNCHANGED <<programVars, fds, troubles>>

StartDaemon(d) ==
  /\ dpc[d] = "exec"
  /\ dpc' = [dpc EXCEPT ![d] = "check"]
  /\ fds' = [fds EXCEPT ![d] = 0]
  /\ UNCHANGED <<programVars, troubles, starts>>

(* The program may be started without the script.                           *)
StartByHand(p) ==
  /\ starts < MaxStarts /\ starts' = starts + 1
  /\ Exec(p)
  /\ UNCHANGED <<daemonVars, troubles>>

(* sbin/pokapbrmb.sh stop kills the daemons; its kill of the programs, which *)
(* follows, is Dies.                                                        *)
StopDaemons ==
  /\ starts < MaxStarts /\ starts' = starts + 1
  /\ dpc' = [d \in Daemons |-> IF Alive(d) THEN "none" ELSE dpc[d]]
  /\ UNCHANGED <<programVars, fds, troubles>>

Trouble ==
  /\ troubles < MaxTroubles /\ troubles' = troubles + 1
  /\ UNCHANGED <<daemonVars, starts>>

(* A kill, or an init that fails.                                           *)
Dies(p) == Trouble /\ pc[p] # "none" /\ Exit(p)

(* A thread that cannot open its directory returns.                         *)
ThreadEnds(p, t) ==
  /\ Trouble /\ t \in threads[p]
  /\ threads' = [threads EXCEPT ![p] = @ \ {t}]
  /\ UNCHANGED <<pc, left, found, index>>

Next ==
  \/ \E p \in Programs : Program(p) \/ StartByHand(p) \/ Dies(p)
  \/ \E p \in Programs, t \in Roles : ThreadEnds(p, t)
  \/ \E d \in Daemons : Daemon(d) \/ StartTested(d) \/ StartDaemon(d)
  \/ StopDaemons

Fairness ==
  /\ \A p \in Programs : WF_vars(Program(p))
  /\ \A d \in Daemons : WF_vars(Daemon(d)) /\ WF_vars(StartDaemon(d))

SafeSpec == Init /\ [][Next]_vars
Spec     == SafeSpec /\ Fairness

-----------------------------------------------------------------------------
(* Type invariant.  A daemon has no more than MaxFds directories open.      *)
TypeOK ==
  /\ pc \in [Programs -> {"none", "scan", "init", "loop", "sleep"}]
  /\ left \in [Programs -> SUBSET Programs] /\ found \in [Programs -> SUBSET Programs]
  /\ index \in [Programs -> 0 .. MAX_THREAD_NUM]
  /\ threads \in [Programs -> SUBSET (Roles \cup 0 .. MAX_THREAD_NUM - 1)]
  /\ dpc \in [Daemons -> {"none", "exec", "check", "launch", "sleep"}]
  /\ fds \in [Daemons -> 0 .. MaxFds]
  /\ troubles \in 0 .. MaxTroubles /\ starts \in 0 .. MaxStarts

(* However many are started at once, by daemons or by hand, at most one     *)
(* program gets past its look at /proc: CoverFiles never takes claimed files*)
(* from another's threads, and no two threads list a directory or start the *)
(* tasks of the routes.                                                     *)
OneOfEach ==
  \A p, q \in Programs :
    p # q => /\ ~ (Running(p) /\ Running(q))
             /\ threads[p] \cap threads[q] = {}

(* With one daemon, a program comes to run for good and has its threads     *)
(* started, whoever starts what, though two programs that start together    *)
(* both leave, and though the daemon uses up what it can open.              *)
Serving(p) == Running(p) /\ index[p] >= ThreadSize

ServesAtLast ==
  <>[](Cardinality({d \in Daemons : Alive(d)}) = 1) => <>[](\E p \in Programs : Serving(p))
=============================================================================
