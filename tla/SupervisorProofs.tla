-------------------------- MODULE SupervisorProofs -------------------------
(***************************************************************************)
(* For any number of programs and daemons: the types, and that at most one *)
(* program gets past its look at /proc.  Two programs that have looked at  *)
(* each other's entry cannot both have found nothing: the one that looked  *)
(* later saw the other.                                                    *)
(***************************************************************************)
EXTENDS Supervisor, TLAPS

(* Of two programs that have looked at each other's entry, one has found   *)
(* the other; a program that has looked at its own has found itself.       *)
OneSawTheOther ==
  \A p, q \in Programs :
    /\ pc[p] # "none" /\ pc[q] # "none"
    /\ q \notin left[p] /\ p \notin left[q]
    => q \in found[p] \/ p \in found[q]

(* A program that runs has looked at every entry and not found two.        *)
RunnersLooked ==
  \A p \in Programs : Running(p) => left[p] = {} /\ ~ Two(found[p])

OnlyRunnersHaveThreads ==
  \A p \in Programs : ~ Running(p) => threads[p] = {}

(* fileOpr has an entry for the next thread.                               *)
RoomForNext ==
  \A p \in Programs :
    /\ pc[p] \in {"scan", "init"} => index[p] = 0
    /\ pc[p] = "loop" => index[p] < MAX_THREAD_NUM

Inv ==
  /\ TypeOK
  /\ OneSawTheOther
  /\ RunnersLooked
  /\ OnlyRunnersHaveThreads
  /\ RoomForNext

-----------------------------------------------------------------------------
(* Nothing runs at first.                                                  *)
LEMMA InitInv == Init => Inv
<1> SUFFICES ASSUME Init PROVE Inv
  OBVIOUS
<1> USE DEF Init
<1>1. TypeOK
  BY SupervisorAssumption DEF TypeOK
<1>2. OneSawTheOther
  BY DEF OneSawTheOther
<1>3. RunnersLooked /\ OnlyRunnersHaveThreads
  BY DEF RunnersLooked, OnlyRunnersHaveThreads, Running
<1>4. RoomForNext
  BY DEF RoomForNext
<1> QED
  BY <1>1, <1>2, <1>3, <1>4 DEF Inv

(* A program that comes to be looks at every entry again.                  *)
LEMMA ExecKeeps ==
  ASSUME Inv, NEW p \in Programs, Exec(p), fds' \in [Daemons -> 0 .. MaxFds],
         dpc' \in [Daemons -> {"none", "exec", "check", "launch", "sleep"}],
         troubles' \in 0 .. MaxTroubles, starts' \in 0 .. MaxStarts
  PROVE  Inv'
<1> USE DEF Exec, Inv
<1>1. TypeOK'
  BY SupervisorAssumption DEF TypeOK
<1>2. OneSawTheOther'
  BY DEF OneSawTheOther, TypeOK
<1>3. RunnersLooked'
  BY DEF RunnersLooked, Running, TypeOK
<1>4. OnlyRunnersHaveThreads'
  BY DEF OnlyRunnersHaveThreads, Running, TypeOK
<1>5. RoomForNext'
  BY DEF RoomForNext, TypeOK
<1> QED
  BY <1>1, <1>2, <1>3, <1>4, <1>5

(* What one that is gone has seen does not matter.                         *)
LEMMA ExitKeeps ==
  ASSUME Inv, NEW p \in Programs, Exit(p), UNCHANGED daemonVars,
         troubles' \in 0 .. MaxTroubles, starts' = starts
  PROVE  Inv'
<1> USE DEF Exit, Inv, daemonVars
<1>1. TypeOK'
  BY DEF TypeOK
<1>2. OneSawTheOther'
  BY DEF OneSawTheOther, TypeOK
<1>3. RunnersLooked'
  BY DEF RunnersLooked, Running, TypeOK
<1>4. OnlyRunnersHaveThreads'
  BY DEF OnlyRunnersHaveThreads, Running, TypeOK
<1>5. RoomForNext'
  BY DEF RoomForNext, TypeOK
<1> QED
  BY <1>1, <1>2, <1>3, <1>4, <1>5

(* The program that looks at another's entry after the other has looked at *)
(* its own finds it, for it is there.                                      *)
LEMMA LookAtKeeps ==
  ASSUME Inv, NEW p \in Programs, NEW q \in Programs, LookAt(p, q)
  PROVE  Inv'
<1> USE DEF LookAt, Inv, daemonVars
<1>1. TypeOK'
  BY DEF TypeOK
<1>2. OneSawTheOther'
  BY DEF OneSawTheOther, TypeOK, IsServer
<1>3. RunnersLooked'
  BY DEF RunnersLooked, Running, TypeOK
<1>4. OnlyRunnersHaveThreads'
  BY DEF OnlyRunnersHaveThreads, Running, TypeOK
<1>5. RoomForNext'
  BY DEF RoomForNext, TypeOK
<1> QED
  BY <1>1, <1>2, <1>3, <1>4, <1>5

(* A program that stays, comes out of init or sleeps changes its place.    *)
LEMMA PlaceKeeps ==
  ASSUME Inv, NEW p \in Programs, Stay(p) \/ InitDone(p) \/ NextPass(p)
  PROVE  Inv'
<1> USE DEF Stay, InitDone, NextPass, Inv, daemonVars
<1>1. TypeOK'
  BY DEF TypeOK
<1>2. OneSawTheOther'
  BY DEF OneSawTheOther, TypeOK
<1>3. RunnersLooked'
  BY DEF RunnersLooked, Running, TypeOK, JudgeProgramExist
<1>4. OnlyRunnersHaveThreads'
  BY DEF OnlyRunnersHaveThreads, Running, TypeOK
<1>5. RoomForNext'
  BY SupervisorAssumption DEF RoomForNext, TypeOK
<1> QED
  BY <1>1, <1>2, <1>3, <1>4, <1>5

(* A round of the start loop starts threads of a program that runs.        *)
LEMMA StartThreadsKeeps ==
  ASSUME Inv, NEW p \in Programs, StartThreads(p)
  PROVE  Inv'
<1> USE DEF StartThreads, Inv, daemonVars
<1>1. TypeOK'
  <2>1. index[p] \in 0 .. MAX_THREAD_NUM - 1
    BY SupervisorAssumption DEF RoomForNext, TypeOK
  <2>2. index' \in [Programs -> 0 .. MAX_THREAD_NUM]
    BY <2>1, SupervisorAssumption DEF TypeOK
  <2>3. threads' \in [Programs -> SUBSET (Roles \cup 0 .. MAX_THREAD_NUM - 1)]
    BY <2>1 DEF TypeOK
  <2> QED
    BY <2>2, <2>3 DEF TypeOK
<1>2. OneSawTheOther'
  BY DEF OneSawTheOther, TypeOK
<1>3. RunnersLooked'
  BY DEF RunnersLooked, Running, TypeOK
<1>4. OnlyRunnersHaveThreads'
  BY DEF OnlyRunnersHaveThreads, Running, TypeOK
<1>5. RoomForNext'
  BY SupervisorAssumption DEF RoomForNext, TypeOK
<1> QED
  BY <1>1, <1>2, <1>3, <1>4, <1>5

(* One lemma per action.                                                   *)
LEMMA NextInv == Inv /\ [Next]_vars => Inv'
<1> SUFFICES ASSUME Inv, [Next]_vars PROVE Inv'
  OBVIOUS
<1>1. ASSUME NEW p \in Programs, Program(p) PROVE Inv'
  <2>1. ASSUME NEW q \in Programs, LookAt(p, q) PROVE Inv'
    BY <2>1, LookAtKeeps
  <2>2. CASE Leave(p)
    <3>1. troubles' \in 0 .. MaxTroubles
      BY <2>2 DEF Leave, Inv, TypeOK
    <3> QED
      BY <2>2, <3>1, ExitKeeps DEF Leave
  <2>3. CASE Stay(p) \/ InitDone(p) \/ NextPass(p)
    BY <2>3, PlaceKeeps
  <2>4. CASE StartThreads(p)
    BY <2>4, StartThreadsKeeps
  <2> QED
    BY <1>1, <2>1, <2>2, <2>3, <2>4 DEF Program
<1>2. ASSUME NEW p \in Programs, StartByHand(p) PROVE Inv'
  <2>1. starts' \in 0 .. MaxStarts
    BY <1>2, SupervisorAssumption DEF StartByHand, Inv, TypeOK
  <2>2. /\ troubles' \in 0 .. MaxTroubles /\ fds' \in [Daemons -> 0 .. MaxFds]
        /\ dpc' \in [Daemons -> {"none", "exec", "check", "launch", "sleep"}]
    BY <1>2 DEF StartByHand, daemonVars, Inv, TypeOK
  <2> QED
    BY <1>2, <2>1, <2>2, ExecKeeps DEF StartByHand
<1>3. ASSUME NEW p \in Programs, Dies(p) PROVE Inv'
  <2>1. troubles' \in 0 .. MaxTroubles
    BY <1>3, SupervisorAssumption DEF Dies, Trouble, Inv, TypeOK
  <2> QED
    BY <1>3, <2>1, ExitKeeps DEF Dies, Trouble
<1>4. ASSUME NEW p \in Programs, NEW t \in Roles, ThreadEnds(p, t) PROVE Inv'
  <2> USE <1>4 DEF ThreadEnds, Trouble, Inv, daemonVars
  <2>1. TypeOK'
    BY SupervisorAssumption DEF TypeOK
  <2>2. OneSawTheOther' /\ RunnersLooked' /\ RoomForNext'
    BY DEF OneSawTheOther, RunnersLooked, Running, RoomForNext
  <2>3. OnlyRunnersHaveThreads'
    BY DEF OnlyRunnersHaveThreads, Running, TypeOK
  <2> QED
    BY <2>1, <2>2, <2>3
<1>5. ASSUME NEW d \in Daemons, Launch(d) PROVE Inv'
  <2>1. PICK p \in Programs : Exec(p)
    BY <1>5 DEF Launch
  <2>2. /\ troubles' \in 0 .. MaxTroubles /\ starts' \in 0 .. MaxStarts
        /\ fds' \in [Daemons -> 0 .. MaxFds]
        /\ dpc' \in [Daemons -> {"none", "exec", "check", "launch", "sleep"}]
    BY <1>5 DEF Launch, Inv, TypeOK
  <2> QED
    BY <2>1, <2>2, ExecKeeps
<1>6. ASSUME UNCHANGED programVars, fds' \in [Daemons -> 0 .. MaxFds],
             dpc' \in [Daemons -> {"none", "exec", "check", "launch", "sleep"}],
             troubles' = troubles, starts' \in 0 .. MaxStarts
      PROVE  Inv'
  <2> USE <1>6 DEF programVars, Inv
  <2>1. TypeOK'
    BY DEF TypeOK
  <2>2. OneSawTheOther' /\ RunnersLooked' /\ OnlyRunnersHaveThreads' /\ RoomForNext'
    BY DEF OneSawTheOther, RunnersLooked, OnlyRunnersHaveThreads, Running, RoomForNext
  <2> QED
    BY <2>1, <2>2
<1>7. ASSUME NEW d \in Daemons, CheckServer(d) \/ Wake(d) \/ StartDaemon(d) PROVE Inv'
  BY <1>6, <1>7, SupervisorAssumption DEF CheckServer, Wake, StartDaemon, Inv, TypeOK
<1>8. ASSUME NEW d \in Daemons, StartTested(d) PROVE Inv'
  BY <1>6, <1>8, SupervisorAssumption DEF StartTested, Inv, TypeOK
<1>9. CASE StopDaemons
  BY <1>6, <1>9, SupervisorAssumption DEF StopDaemons, Inv, TypeOK
<1>10. CASE UNCHANGED vars
  BY <1>6, <1>10 DEF vars, daemonVars, Inv, TypeOK
<1> QED
  BY <1>1, <1>2, <1>3, <1>4, <1>5, <1>7, <1>8, <1>9, <1>10 DEF Next, Daemon

(* The inductive invariant holds of every behaviour.                       *)
LEMMA Invariance == SafeSpec => []Inv
<1> QED
  BY InitInv, NextInv, PTL DEF SafeSpec

-----------------------------------------------------------------------------
(* However often daemons and programs are started, stopped or killed, a    *)
(* daemon opens no more than it may, and main uses only entries of fileOpr *)
(* that there are as long as it is not woken once too often.               *)
THEOREM TypeCorrect == SafeSpec => []TypeOK
<1>1. Inv => TypeOK
  BY DEF Inv
<1> QED
  BY <1>1, Invariance, PTL

(* At most one program gets past its look at /proc, and no two have a      *)
(* thread of the same role.                                                *)
THEOREM OneOfEachCorrect == SafeSpec => []OneOfEach
<1>1. ASSUME Inv, NEW p \in Programs, NEW q \in Programs, p # q
      PROVE  ~ (Running(p) /\ Running(q))
  <2>1. SUFFICES ASSUME Running(p), Running(q) PROVE FALSE
    OBVIOUS
  <2>2. /\ left[p] = {} /\ left[q] = {}
        /\ ~ Two(found[p]) /\ ~ Two(found[q])
    BY <1>1, <2>1 DEF Inv, RunnersLooked
  <2>3. pc[p] # "none" /\ pc[q] # "none"
    BY <2>1 DEF Running
  <2>4. p \in found[p] /\ q \in found[q]
    BY <1>1, <2>2, <2>3 DEF Inv, OneSawTheOther
  <2>5. q \in found[p] \/ p \in found[q]
    BY <1>1, <2>2, <2>3 DEF Inv, OneSawTheOther
  <2> QED
    BY <1>1, <2>2, <2>4, <2>5 DEF Two
<1>2. Inv => OneOfEach
  <2> SUFFICES ASSUME Inv, NEW p \in Programs, NEW q \in Programs, p # q
               PROVE  ~ (Running(p) /\ Running(q)) /\ threads[p] \cap threads[q] = {}
    BY DEF OneOfEach
  <2>1. ~ (Running(p) /\ Running(q))
    BY <1>1
  <2>2. threads[p] = {} \/ threads[q] = {}
    BY <2>1 DEF Inv, OnlyRunnersHaveThreads
  <2> QED
    BY <2>1, <2>2
<1> QED
  BY <1>2, Invariance, PTL
=============================================================================
