-------------------------- MODULE CirQueueProofs ---------------------------
(***************************************************************************)
(* Theorems about CirQueue for every ring size, every set of threads and   *)
(* every set of entries.                                                   *)
(***************************************************************************)
EXTENDS CirQueue, SequenceTheorems, FiniteSetTheorems, TLAPS

(* The remainder the code computes on an index is a conditional reset.     *)
LEMMA SuccIs ==
  ASSUME NEW i \in Slots
  PROVE  Succ(i) = IF i = QUE_SIZE - 1 THEN 0 ELSE i + 1
  BY QueueAssumption DEF Succ, Slots

(* The ring is full when rear is just behind front.                        *)
LEMMA FullIs ==
  ASSUME NEW f \in Slots
  PROVE  (QUE_SIZE - 1 + f) % QUE_SIZE = IF f = 0 THEN QUE_SIZE - 1 ELSE f - 1
  BY QueueAssumption DEF Slots

(* The index arithmetic behind RingConsistent: At enumerates the slots from *)
(* front without repetition, and the slot after the last entry is rear.     *)
LEMMA AtIs ==
  ASSUME front \in Slots, rear \in Slots
  PROVE  /\ Size \in 0 .. QUE_SIZE - 1
         /\ \A k \in 0 .. QUE_SIZE - 1 : At(k) \in Slots
         /\ \A j, k \in 0 .. QUE_SIZE - 1 : At(j) = At(k) => j = k
         /\ At(0) = front
         /\ At(Size) = rear
         /\ is_full_cir_queue <=> Size = QUE_SIZE - 1
         /\ is_empty_cir_queue <=> Size = 0
  <1>1. is_full_cir_queue <=> rear = IF front = 0 THEN QUE_SIZE - 1 ELSE front - 1
    BY FullIs DEF is_full_cir_queue
  <1>2. QED
    BY <1>1, QueueAssumption DEF Slots, Size, At, is_empty_cir_queue

-----------------------------------------------------------------------------
(* The fields of the queue and the places of its threads keep their types, *)
(* whatever the size of the ring and however many threads use it.          *)
THEOREM TypeCorrect == SafeSpec => []TypeOK
  <1>1. Init => TypeOK
    BY QueueAssumption DEF Init, TypeOK, Slots, PopOps
  <1>2. TypeOK /\ [Next]_vars => TypeOK'
    <2> SUFFICES ASSUME TypeOK, [Next]_vars
                 PROVE  TypeOK'
      OBVIOUS
    <2> USE DEF TypeOK, Goto
    <2>1. CASE UNCHANGED vars
      BY <2>1 DEF vars
    <2>2. ASSUME NEW t \in Threads, Call(t)
          PROVE  TypeOK'
      BY <2>2 DEF Call, ring, PopOps
    <2>3. ASSUME NEW t \in Threads, Acquire(t)
          PROVE  TypeOK'
      BY <2>3 DEF Acquire, ring
    <2>4. ASSUME NEW t \in Threads, PushWait(t) \/ PopWait(t)
          PROVE  TypeOK'
      BY <2>4 DEF PushWait, PopWait, CondWait, ring
    <2>5. ASSUME NEW t \in Threads, PushStore(t)
          PROVE  TypeOK'
      <3>1. Succ(rear) \in Slots
        BY SuccIs, QueueAssumption DEF Slots
      <3>2. QED
        BY <2>5, <3>1 DEF PushStore
    <2>6. ASSUME NEW t \in Threads, PopTake(t)
          PROVE  TypeOK'
      <3>1. Succ(front) \in Slots
        BY SuccIs, QueueAssumption DEF Slots
      <3>2. QED
        BY <2>6, <3>1 DEF PopTake
    <2>7. ASSUME NEW t \in Threads, TryPopEmpty(t) \/ LeaveLoop(t) \/ Unlock(t)
                                  \/ SpuriousWakeup(t)
          PROVE  TypeOK'
      BY <2>7 DEF TryPopEmpty, LeaveLoop, Unlock, SpuriousWakeup, ring
    <2>8. ASSUME NEW t \in Threads, Signal(t)
          PROVE  TypeOK'
      BY <2>8 DEF Signal, ring
    <2>9. QED
      BY <2>1, <2>2, <2>3, <2>4, <2>5, <2>6, <2>7, <2>8 DEF Next, Step
  <1>3. QED
    BY <1>1, <1>2, PTL DEF SafeSpec

-----------------------------------------------------------------------------
(* Only the owner of the mutex is between lock and unlock.                  *)
LEMMA MutexStep ==
  ASSUME TypeOK, MutexOwnership, [Next]_vars
  PROVE  MutexOwnership'
  <1> USE QueueAssumption DEF TypeOK, MutexOwnership, InCritical, Goto
  <1>1. CASE UNCHANGED vars
    BY <1>1 DEF vars
  <1>2. ASSUME NEW t \in Threads, Call(t)
        PROVE  MutexOwnership'
    BY <1>2 DEF Call
  <1>3. ASSUME NEW t \in Threads, Acquire(t)
        PROVE  MutexOwnership'
    BY <1>3 DEF Acquire
  <1>4. ASSUME NEW t \in Threads, PushWait(t) \/ PopWait(t)
        PROVE  MutexOwnership'
    BY <1>4 DEF PushWait, PopWait, CondWait
  <1>5. ASSUME NEW t \in Threads, TryPopEmpty(t) \/ LeaveLoop(t)
                                    \/ PushStore(t) \/ PopTake(t)
        PROVE  MutexOwnership'
    BY <1>5 DEF TryPopEmpty, LeaveLoop, PushStore, PopTake
  <1>6. ASSUME NEW t \in Threads, Signal(t)
        PROVE  MutexOwnership'
    BY <1>6 DEF Signal, NotEmptyWaiters, NotFullWaiters, Threads
  <1>7. ASSUME NEW t \in Threads, Unlock(t) \/ SpuriousWakeup(t)
        PROVE  MutexOwnership'
    BY <1>7 DEF Unlock, SpuriousWakeup
  <1>8. QED
    BY <1>1, <1>2, <1>3, <1>4, <1>5, <1>6, <1>7 DEF Next, Step

(* A push that has been called carries a pointer.                           *)
LEMMA PushesItemStep ==
  ASSUME TypeOK, PushesItem, [Next]_vars
  PROVE  PushesItem'
  <1> USE QueueAssumption DEF TypeOK, PushesItem, Goto, Threads
  <1>1. CASE UNCHANGED vars
    BY <1>1 DEF vars
  <1>2. ASSUME NEW t \in Threads, Call(t)
        PROVE  PushesItem'
    BY <1>2 DEF Call
  <1>3. ASSUME NEW t \in Threads, Acquire(t) \/ Step(t) \/ SpuriousWakeup(t)
        PROVE  PushesItem'
    BY <1>3 DEF Acquire, Step, PushWait, PopWait, CondWait, TryPopEmpty,
                LeaveLoop, PushStore, PopTake, Signal, Unlock, SpuriousWakeup,
                NotEmptyWaiters, NotFullWaiters
  <1>4. QED
    BY <1>1, <1>2, <1>3 DEF Next

(* The two steps that update the ring, as seen from Size and At.            *)
LEMMA PushGrows ==
  ASSUME Inv, NEW t \in Threads, PushStore(t)
  PROVE  /\ Size < QUE_SIZE - 1
         /\ Size' = Size + 1
         /\ \A k \in 0 .. QUE_SIZE - 1 : At(k)' = At(k)
         /\ RingConsistent'
  <1> USE QueueAssumption DEF Slots
  <1>1. /\ front \in Slots /\ rear \in Slots /\ data \in [Slots -> Items \cup {Nil}]
        /\ count = Size /\ front' = front /\ rear' = Succ(rear)
        /\ val[t] \in Items /\ ~ is_full_cir_queue
        /\ data' = [data EXCEPT ![rear] = val[t]] /\ count' = count + 1
    BY DEF Inv, TypeOK, RingConsistent, PushStore, Goto, TestStillHolds, PushesItem
  <1>2. Size \in 0 .. QUE_SIZE - 1 /\ Size # QUE_SIZE - 1 /\ At(Size) = rear
    BY <1>1, AtIs
  <1>3. \A k \in 0 .. QUE_SIZE - 1 : At(k)' = At(k)
    BY <1>1 DEF At
  <1>4. rear' = IF rear = QUE_SIZE - 1 THEN 0 ELSE rear + 1
    BY <1>1, SuccIs
  <1>5. Size' = Size + 1
    BY <1>1, <1>2, <1>4 DEF Size
  <1>6. ASSUME NEW k \in 0 .. QUE_SIZE - 1
        PROVE  (data'[At(k)] # Nil) <=> (k < Size + 1)
    <2>1. (data[At(k)] # Nil) <=> (k < Size)
      BY DEF Inv, RingConsistent
    <2>2. At(k) \in Slots /\ (At(k) = rear <=> k = Size)
      BY <1>1, <1>2, AtIs
    <2>3. QED
      BY <1>1, <1>2, <2>1, <2>2
  <1>7. QED
    BY <1>1, <1>2, <1>3, <1>5, <1>6 DEF RingConsistent

(* A pop takes one entry away at front and leaves the others in place.     *)
LEMMA PopShrinks ==
  ASSUME Inv, NEW t \in Threads, PopTake(t)
  PROVE  /\ Size > 0
         /\ Size' = Size - 1
         /\ \A k \in 0 .. QUE_SIZE - 2 : At(k)' = At(k + 1)
         /\ RingConsistent'
  <1> USE QueueAssumption DEF Slots
  <1>1. /\ front \in Slots /\ rear \in Slots /\ data \in [Slots -> Items \cup {Nil}]
        /\ count = Size /\ rear' = rear /\ front' = Succ(front)
        /\ ~ is_empty_cir_queue
        /\ data' = [data EXCEPT ![front] = Nil] /\ count' = count - 1
    BY DEF Inv, TypeOK, RingConsistent, PopTake, Goto, TestStillHolds, Threads
  <1>2. Size \in 0 .. QUE_SIZE - 1 /\ Size # 0 /\ At(0) = front
    BY <1>1, AtIs
  <1>3. front' = IF front = QUE_SIZE - 1 THEN 0 ELSE front + 1
    BY <1>1, SuccIs
  <1>4. \A k \in 0 .. QUE_SIZE - 2 : At(k)' = At(k + 1)
    BY <1>1, <1>3 DEF At
  <1>5. Size' = Size - 1
    BY <1>1, <1>2, <1>3 DEF Size, is_empty_cir_queue
  <1>6. At(QUE_SIZE - 1)' = front
    BY <1>1, <1>3 DEF At
  <1>7. ASSUME NEW k \in 0 .. QUE_SIZE - 1
        PROVE  (data'[At(k)'] # Nil) <=> (k < Size - 1)
    <2>1. CASE k = QUE_SIZE - 1
      BY <1>1, <1>2, <1>6, <2>1
    <2>2. CASE k # QUE_SIZE - 1
      <3>1. At(k)' = At(k + 1) /\ k + 1 \in 0 .. QUE_SIZE - 1
        BY <1>4, <2>2
      <3>2. (data[At(k + 1)] # Nil) <=> (k + 1 < Size)
        BY <3>1 DEF Inv, RingConsistent
      <3>3. At(k + 1) \in Slots /\ At(k + 1) # front
        BY <1>1, <1>2, <3>1, AtIs
      <3>4. QED
        BY <1>1, <1>2, <3>1, <3>2, <3>3
    <2>3. QED
      BY <2>1, <2>2
  <1>8. QED
    BY <1>1, <1>2, <1>4, <1>5, <1>7 DEF RingConsistent

(* The fields of the ring and the place of each thread are all that Size,   *)
(* At, Contents and the loop tests read.                                    *)
LEMMA RingKept ==
  ASSUME UNCHANGED ring
  PROVE  /\ Size' = Size
         /\ \A k : At(k)' = At(k)
         /\ RingConsistent' = RingConsistent
         /\ Contents' = Contents
         /\ is_full_cir_queue' = is_full_cir_queue
         /\ is_empty_cir_queue' = is_empty_cir_queue
  BY DEF ring, Size, At, Contents, RingConsistent, is_full_cir_queue, is_empty_cir_queue

(* What the loop of a push or a pop found still holds at the update, for   *)
(* nobody else updates the ring while its thread owns the mutex.           *)
LEMMA TestStillHoldsStep ==
  ASSUME Inv, [Next]_vars
  PROVE  TestStillHolds'
  <1> USE DEF TypeOK, Goto
  <1>1. CASE UNCHANGED vars
    BY <1>1, RingKept DEF vars, ring, Inv, TestStillHolds
  <1>2. ASSUME NEW t \in Threads, PushStore(t) \/ PopTake(t)
        PROVE  TestStillHolds'
    <2>1. \A u \in Threads : u # t => pc[u] # "update"
      BY <1>2 DEF PushStore, PopTake, Inv, MutexOwnership, InCritical
    <2>2. \A u \in Threads : pc'[u] # "update"
      BY <1>2, <2>1 DEF PushStore, PopTake, Inv
    <2>3. QED
      BY <2>2 DEF TestStillHolds
  <1>3. ASSUME NEW t \in Threads, LeaveLoop(t)
        PROVE  TestStillHolds'
    BY <1>3, RingKept DEF LeaveLoop, Inv, TestStillHolds
  <1>4. ASSUME NEW t \in Threads,
               \/ Call(t) \/ Acquire(t) \/ PushWait(t) \/ PopWait(t) \/ TryPopEmpty(t)
               \/ Signal(t) \/ Unlock(t) \/ SpuriousWakeup(t)
        PROVE  TestStillHolds'
    <2>1. UNCHANGED ring
      BY <1>4 DEF Call, Acquire, PushWait, PopWait, CondWait, TryPopEmpty, Signal,
                  Unlock, SpuriousWakeup
    <2>2. \A u \in Threads : pc'[u] = "update" => pc[u] = "update"
      BY <1>4 DEF Inv, Call, Acquire, PushWait, PopWait, CondWait, TryPopEmpty, Signal,
                  Unlock, SpuriousWakeup, NotEmptyWaiters, NotFullWaiters, Threads
    <2>3. QED
      BY <2>1, <2>2, RingKept DEF Inv, TestStillHolds
  <1>5. QED
    BY <1>1, <1>2, <1>3, <1>4 DEF Next, Step

(* Every step keeps the counter, the indices and the slots consistent.     *)
LEMMA RingStep ==
  ASSUME Inv, [Next]_vars
  PROVE  RingConsistent'
  <1>1. CASE UNCHANGED ring
    BY <1>1, RingKept DEF Inv
  <1>2. ASSUME NEW t \in Threads, PushStore(t)
        PROVE  RingConsistent'
    BY <1>2, PushGrows
  <1>3. ASSUME NEW t \in Threads, PopTake(t)
        PROVE  RingConsistent'
    BY <1>3, PopShrinks
  <1>4. QED
    BY <1>1, <1>2, <1>3 DEF Next, Step, vars, ring, Call, Acquire, PushWait, PopWait,
       CondWait, TryPopEmpty, LeaveLoop, Signal, Unlock, SpuriousWakeup

(* The conjunction is inductive: the ring is consistent because the mutex   *)
(* keeps what the loop tested true until the update, and conversely.        *)
THEOREM InvCorrect == SafeSpec => []Inv
  <1>1. Init => Inv
    <2> SUFFICES ASSUME Init
                 PROVE  Inv
      OBVIOUS
    <2>1. TypeOK
      BY QueueAssumption DEF Init, TypeOK, Slots, PopOps
    <2>2. MutexOwnership /\ TestStillHolds /\ PushesItem
      BY QueueAssumption DEF Init, MutexOwnership, InCritical, TestStillHolds,
                             PushesItem, Threads
    <2>3. RingConsistent
      BY QueueAssumption DEF Init, RingConsistent, Size, At, Slots
    <2>4. QED
      BY <2>1, <2>2, <2>3 DEF Inv
  <1>2. Inv /\ TypeOK' /\ [Next]_vars => Inv'
    <2> SUFFICES ASSUME Inv, TypeOK', [Next]_vars
                 PROVE  Inv'
      OBVIOUS
    <2>1. MutexOwnership'
      BY MutexStep DEF Inv
    <2>2. PushesItem'
      BY PushesItemStep DEF Inv
    <2>3. RingConsistent'
      BY RingStep
    <2>4. TestStillHolds'
      BY TestStillHoldsStep
    <2>5. QED
      BY <2>1, <2>2, <2>3, <2>4 DEF Inv
  <1>3. QED
    BY <1>1, <1>2, TypeCorrect, PTL DEF SafeSpec

(* No thread is inside a critical section of the queue without its mutex.   *)
THEOREM MutualExclusion == SafeSpec => []MutexOwnership
  BY InvCorrect, PTL DEF Inv

(* The counter, the indices and the occupied slots agree in every state.    *)
THEOREM RingCorrect == SafeSpec => []RingConsistent
  BY InvCorrect, PTL DEF Inv

(* What a thread found in its loop test still holds when it moves an index, *)
(* however many threads were woken or came in between.                      *)
THEOREM TestCorrect == SafeSpec => []TestStillHolds
  BY InvCorrect, PTL DEF Inv

-----------------------------------------------------------------------------
(* What the two updates do to the queue as its callers see it.              *)
LEMMA ContentsType ==
  ASSUME Inv
  PROVE  Contents \in Seq(Items) /\ Len(Contents) = Size /\ Size \in 0 .. QUE_SIZE - 1
  <1>1. Size \in 0 .. QUE_SIZE - 1 /\ \A k \in 0 .. QUE_SIZE - 1 : At(k) \in Slots
    BY AtIs DEF Inv, TypeOK
  <1>2. ASSUME NEW k \in 1 .. Size
        PROVE  data[At(k - 1)] \in Items
    <2>1. k - 1 \in 0 .. QUE_SIZE - 1 /\ k - 1 < Size
      BY <1>1, QueueAssumption
    <2>2. data[At(k - 1)] # Nil
      BY <2>1 DEF Inv, RingConsistent
    <2>3. QED
      BY <1>1, <2>1, <2>2 DEF Inv, TypeOK
  <1>3. QED
    BY <1>1, <1>2 DEF Contents

(* A push appends its item to the queue its callers see.                   *)
LEMMA PushAppends ==
  ASSUME Inv, NEW t \in Threads, PushStore(t)
  PROVE  Len(Contents) < QUE_SIZE - 1 /\ Contents' = Append(Contents, val[t])
  <1> USE QueueAssumption
  <1>1. /\ Size \in 0 .. QUE_SIZE - 2 /\ Len(Contents) = Size /\ Contents \in Seq(Items)
        /\ Size' = Size + 1
        /\ \A k \in 0 .. QUE_SIZE - 1 : At(k)' = At(k)
    BY PushGrows, ContentsType
  <1>2. /\ front \in Slots /\ rear \in Slots /\ data \in [Slots -> Items \cup {Nil}]
        /\ data' = [data EXCEPT ![rear] = val[t]]
        /\ At(Size) = rear
        /\ \A k \in 0 .. QUE_SIZE - 1 : At(k) \in Slots
        /\ \A j, k \in 0 .. QUE_SIZE - 1 : At(j) = At(k) => j = k
    BY AtIs DEF Inv, TypeOK, PushStore
  <1>3. ASSUME NEW k \in 1 .. Size
        PROVE  data'[At(k - 1)'] = data[At(k - 1)]
    <2>1. /\ k - 1 \in 0 .. QUE_SIZE - 1 /\ Size \in 0 .. QUE_SIZE - 1 /\ k - 1 # Size
      BY <1>1
    <2>2. At(k - 1) # rear /\ At(k - 1) \in Slots /\ At(k - 1)' = At(k - 1)
      BY <1>1, <1>2, <2>1
    <2>3. QED
      BY <1>2, <2>2
  <1>4. ASSUME NEW k \in 0 .. QUE_SIZE - 1, k = Size
        PROVE  data'[At(k)'] = val[t]
    <2>1. At(k)' = rear /\ rear \in Slots
      BY <1>1, <1>2, <1>4
    <2>2. QED
      BY <1>2, <2>1
  <1>5. /\ Contents' = [k \in 1 .. Size + 1 |-> data'[At(k - 1)']]
        /\ Contents = [k \in 1 .. Size |-> data[At(k - 1)]]
    BY <1>1 DEF Contents
  <1>6. \A k \in 1 .. Size + 1 :
           data'[At(k - 1)'] = IF k = Size + 1 THEN val[t] ELSE Contents[k]
    BY <1>1, <1>3, <1>4, <1>5
  <1>7. Contents' = [k \in 1 .. Size + 1 |-> IF k = Size + 1 THEN val[t] ELSE Contents[k]]
    BY <1>5, <1>6
  <1>8. QED
    BY <1>1, <1>7

(* A pop returns the oldest entry and leaves the rest in order.            *)
LEMMA PopTakesHead ==
  ASSUME Inv, NEW t \in Threads, PopTake(t)
  PROVE  /\ Contents # <<>>
         /\ val' = [val EXCEPT ![t] = Head(Contents)]
         /\ Contents' = Tail(Contents)
  <1> USE QueueAssumption
  <1>1. /\ Size \in 1 .. QUE_SIZE - 1 /\ Len(Contents) = Size /\ Contents \in Seq(Items)
        /\ Size' = Size - 1
        /\ \A k \in 0 .. QUE_SIZE - 2 : At(k)' = At(k + 1)
    BY PopShrinks, ContentsType
  <1>2. /\ front \in Slots /\ data \in [Slots -> Items \cup {Nil}]
        /\ data' = [data EXCEPT ![front] = Nil]
        /\ val' = [val EXCEPT ![t] = data[front]]
        /\ At(0) = front
        /\ \A k \in 0 .. QUE_SIZE - 1 : At(k) \in Slots
        /\ \A j, k \in 0 .. QUE_SIZE - 1 : At(j) = At(k) => j = k
    BY AtIs DEF Inv, TypeOK, PopTake
  <1>3. Head(Contents) = data[front]
    BY <1>1, <1>2 DEF Contents
  <1>4. ASSUME NEW k \in 1 .. Size - 1
        PROVE  data'[At(k - 1)'] = data[At(k)]
    <2>1. At(k - 1)' = At(k) /\ k \in 0 .. QUE_SIZE - 1 /\ k # 0
      BY <1>1
    <2>2. At(k) # front /\ At(k) \in Slots
      BY <1>2, <2>1
    <2>3. QED
      BY <1>2, <2>1, <2>2
  <1>5. Contents' = [k \in 1 .. Size - 1 |-> data[At(k)]]
    BY <1>1, <1>4 DEF Contents
  <1>6. ASSUME NEW k \in 1 .. Size - 1
        PROVE  Contents[k + 1] = data[At(k)]
    <2>1. k + 1 \in 1 .. Size /\ (k + 1) - 1 = k
      BY <1>1
    <2>2. QED
      BY <2>1 DEF Contents
  <1>7. Contents' = [k \in 1 .. Size - 1 |-> Contents[k + 1]]
    BY <1>5, <1>6
  <1>8. Contents # <<>>
    BY <1>1
  <1>9. Contents' = Tail(Contents)
    <2>1. \A k \in 1 .. Size - 1 : Contents[k + 1] \in Items
      BY <1>1
    <2>2. Contents' \in Seq(Items) /\ Len(Contents') = Size - 1
      BY <1>1, <1>7, <2>1
    <2>3. /\ Tail(Contents) \in Seq(Items) /\ Len(Tail(Contents)) = Size - 1
          /\ \A i \in 1 .. Size - 1 : Tail(Contents)[i] = Contents[i + 1]
      BY <1>1, <1>8, HeadTailProperties
    <2>4. \A i \in 1 .. Size - 1 : Contents'[i] = Contents[i + 1]
      BY <1>7
    <2>5. QED
      BY <2>2, <2>3, <2>4, SeqEqual
  <1>10. QED
    BY <1>2, <1>3, <1>8, <1>9

-----------------------------------------------------------------------------
(* A thread that moves changes its own stage of a call and nobody else's.   *)
LEMMA StageAfter ==
  ASSUME TypeOK, NEW t \in Threads, NEW p, pc' = [pc EXCEPT ![t] = p]
  PROVE  [u \in Threads |-> Stage(u)]' =
           [[u \in Threads |-> Stage(u)] EXCEPT ![t] =
              CASE p = "idle"               -> "idle"
                [] p \in {"signal", "unlock"} -> "done"
                [] OTHER                    -> "pending"]
  BY DEF TypeOK, Stage

(* Every step of the ring is a step of the FIFO or changes nothing a caller *)
(* can see: lock, wait and wakeup are invisible, the update of the ring is  *)
(* the instant at which the call takes effect.                              *)
LEMMA StepRefines ==
  ASSUME Inv, [Next]_vars
  PROVE  [Abstract!Next]_(Abstract!fifoVars)
  <1> DEFINE stages == [u \in Threads |-> Stage(u)]
  <1> USE DEF Abstract!Threads, Abstract!fifoVars
  <1>1. TypeOK
    BY DEF Inv
  <1>2. CASE UNCHANGED vars
    <2>1. UNCHANGED <<Contents, stages, op, val>>
      BY <1>2, RingKept DEF vars, ring, Stage
    <2>2. QED
      BY <2>1
  <1>3. ASSUME NEW t \in Threads, Call(t)
        PROVE  Abstract!Next
    <2>1. stages' = [stages EXCEPT ![t] = "pending"] /\ stages[t] = "idle"
      <3>1. pc[t] = "idle" /\ pc' = [pc EXCEPT ![t] = "lock"]
        BY <1>3 DEF Call, Goto
      <3>2. stages' = [stages EXCEPT ![t] = "pending"]
        BY <1>1, <3>1, StageAfter
      <3>3. QED
        BY <3>1, <3>2 DEF Stage
    <2>2. Contents' = Contents
      BY <1>3, RingKept DEF Call
    <2>3. Abstract!Call(t)
      BY <1>3, <2>1, <2>2 DEF Call, Abstract!Call, PopOps, Abstract!PopOps
    <2>4. QED
      BY <2>3 DEF Abstract!Next, Threads
  <1>4. ASSUME NEW t \in Threads,
               Acquire(t) \/ PushWait(t) \/ PopWait(t) \/ LeaveLoop(t) \/ SpuriousWakeup(t)
        PROVE  UNCHANGED Abstract!fifoVars
    <2>1. PICK p \in {"lock", "held", "blocked", "update"} :
             pc' = [pc EXCEPT ![t] = p] /\ pc[t] \in {"lock", "held", "blocked", "update"}
      BY <1>4 DEF Acquire, PushWait, PopWait, CondWait, LeaveLoop, SpuriousWakeup, Goto
    <2>2. UNCHANGED <<ring, op, val>>
      BY <1>4 DEF Acquire, PushWait, PopWait, CondWait, LeaveLoop, SpuriousWakeup
    <2>3. stages' = stages
      BY <1>1, <2>1, StageAfter DEF Stage
    <2>4. QED
      BY <2>2, <2>3, RingKept
  <1>5. ASSUME NEW t \in Threads, PushStore(t)
        PROVE  Abstract!Next
    <2>1. stages' = [stages EXCEPT ![t] = "done"] /\ stages[t] = "pending"
      BY <1>1, <1>5, StageAfter DEF PushStore, Goto, Stage
    <2>2. Abstract!Put(t)
      BY <1>5, <2>1, PushAppends DEF PushStore, Abstract!Put, Abstract!TakesEffect
    <2>3. QED
      BY <2>2 DEF Abstract!Next, Threads
  <1>6. ASSUME NEW t \in Threads, PopTake(t)
        PROVE  Abstract!Next
    <2>1. stages' = [stages EXCEPT ![t] = "done"] /\ stages[t] = "pending"
      BY <1>1, <1>6, StageAfter DEF PopTake, Goto, Stage
    <2>2. Abstract!Get(t)
      BY <1>6, <2>1, PopTakesHead DEF PopTake, Abstract!Get, Abstract!TakesEffect
    <2>3. QED
      BY <2>2 DEF Abstract!Next, Threads
  <1>7. ASSUME NEW t \in Threads, TryPopEmpty(t)
        PROVE  Abstract!Next
    <2>1. stages' = [stages EXCEPT ![t] = "done"] /\ stages[t] = "pending"
      BY <1>1, <1>7, StageAfter DEF TryPopEmpty, Goto, Stage
    <2>2. Contents' = Contents /\ Contents = <<>>
      BY <1>1, <1>7, RingKept, ContentsType, AtIs DEF TryPopEmpty, TypeOK
    <2>3. Abstract!GetNothing(t)
      BY <1>7, <2>1, <2>2 DEF TryPopEmpty, Abstract!GetNothing, Abstract!TakesEffect
    <2>4. QED
      BY <2>3 DEF Abstract!Next, Threads
  <1>8. ASSUME NEW t \in Threads, Signal(t)
        PROVE  UNCHANGED Abstract!fifoVars
    <2>1. UNCHANGED <<ring, op, val>>
      BY <1>8 DEF Signal
    <2>2. ASSUME NEW u \in Threads
          PROVE  Stage(u)' = Stage(u)
      BY <1>1, <1>8 DEF TypeOK, Signal, Stage, NotEmptyWaiters, NotFullWaiters, Threads
    <2>3. QED
      BY <2>1, <2>2, RingKept
  <1>9. ASSUME NEW t \in Threads, Unlock(t)
        PROVE  Abstract!Next
    <2>1. stages' = [stages EXCEPT ![t] = "idle"] /\ stages[t] = "done"
      BY <1>1, <1>9, StageAfter DEF Unlock, Goto, Stage
    <2>2. Contents' = Contents
      BY <1>9, RingKept DEF Unlock
    <2>3. Abstract!Return(t)
      BY <1>9, <2>1, <2>2 DEF Unlock, Abstract!Return
    <2>4. QED
      BY <2>3 DEF Abstract!Next, Threads
  <1>10. QED
    BY <1>2, <1>3, <1>4, <1>5, <1>6, <1>7, <1>8, <1>9 DEF Next, Step

(* The ring, its mutex and its two conditions implement a bounded FIFO of   *)
(* QUE_SIZE - 1 entries for any number of threads on either side.           *)
THEOREM RingImplementsFifo == SafeSpec => ImplementsFifo
  <1>1. Init => Abstract!Init
    <2> SUFFICES ASSUME Init
                 PROVE  Abstract!Init
      OBVIOUS
    <2>1. Size = 0
      BY DEF Init, Size
    <2>2. Contents = <<>>
      BY <2>1 DEF Contents
    <2>3. QED
      BY <2>2 DEF Init, Abstract!Init, Abstract!Threads, Threads, Stage
  <1>2. QED
    BY <1>1, StepRefines, InvCorrect, PTL DEF SafeSpec, ImplementsFifo, Abstract!SafeFifo

-----------------------------------------------------------------------------
(* The threads that will still look at the ring for the sake of a sleeping  *)
(* member of own: the awake ones of own, and those of other about to signal.*)
AwakeOf(places, own)         == {u \in own : places[u] \in Awake}
SignallersOf(places, other)  == {u \in other : places[u] = "signal"}
Promised(places, own, other) == AwakeOf(places, own) \cup SignallersOf(places, other)

(* The sum the two wakeup properties bound from below is the size of one set. *)
LEMMA PromisedCount ==
  ASSUME NEW places, NEW own, NEW other, IsFiniteSet(own), IsFiniteSet(other), own \cap other = {}
  PROVE  /\ IsFiniteSet(Promised(places, own, other))
         /\ Cardinality(Promised(places, own, other)) \in Nat
         /\ Cardinality(Promised(places, own, other)) =
              Cardinality(AwakeOf(places, own)) + Cardinality(SignallersOf(places, other))
  <1> DEFINE A == AwakeOf(places, own)
             S == SignallersOf(places, other)
  <1>1. IsFiniteSet(A) /\ IsFiniteSet(S)
    <2>1. A \in SUBSET own /\ S \in SUBSET other
      BY DEF AwakeOf, SignallersOf
    <2>2. QED
      BY <2>1, FS_Subset
  <1>2. A \cap S = {}
    BY DEF AwakeOf, SignallersOf
  <1>3. IsFiniteSet(A \cup S)
        /\ Cardinality(A \cup S) = Cardinality(A) + Cardinality(S) - Cardinality(A \cap S)
    BY <1>1, FS_Union
  <1>4. Cardinality(A) \in Nat /\ Cardinality(S) \in Nat /\ Cardinality(A \cup S) \in Nat
    BY <1>1, <1>3, FS_CardinalityType
  <1>5. Cardinality(A \cap S) = 0
    BY <1>2, FS_EmptySet
  <1>6. QED
    BY <1>3, <1>4, <1>5 DEF Promised

(* A set that gains or loses at most one member counts one more or one less.*)
LEMMA OneMoves ==
  ASSUME NEW S, NEW T, NEW t, IsFiniteSet(S), S \ {t} = T \ {t}
  PROVE  /\ IsFiniteSet(T)
         /\ Cardinality(S) \in Nat
         /\ Cardinality(T) \in Nat
         /\ (t \in S <=> t \in T) => Cardinality(T) = Cardinality(S)
         /\ t \notin S /\ t \in T => Cardinality(T) = Cardinality(S) + 1
         /\ t \in S /\ t \notin T => Cardinality(T) = Cardinality(S) - 1
  <1>1. IsFiniteSet(S \ {t})
        /\ Cardinality(S \ {t}) = IF t \in S THEN Cardinality(S) - 1 ELSE Cardinality(S)
    BY FS_RemoveElement
  <1>2. CASE t \in T
    <2>1. T = (S \ {t}) \cup {t} /\ t \notin S \ {t}
      BY <1>2
    <2>2. IsFiniteSet(T) /\ Cardinality(T) = Cardinality(S \ {t}) + 1
      BY <1>1, <2>1, FS_AddElement
    <2>3. Cardinality(S) \in Nat /\ Cardinality(T) \in Nat
      BY <2>2, FS_CardinalityType
    <2>4. QED
      BY <1>1, <1>2, <2>2, <2>3
  <1>3. CASE t \notin T
    <2>1. T = S \ {t}
      BY <1>3
    <2>2. Cardinality(S) \in Nat /\ Cardinality(T) \in Nat
      BY <1>1, <2>1, FS_CardinalityType
    <2>3. QED
      BY <1>1, <1>3, <2>1, <2>2
  <1>4. QED
    BY <1>2, <1>3

(* Producers and consumers are the two sides of either condition.           *)
SidesOf(own, other) == \/ own = Consumers /\ other = Producers
                       \/ own = Producers /\ other = Consumers

(* Producers and consumers are finite sets without a common thread.        *)
LEMMA Sides ==
  ASSUME NEW own, NEW other, SidesOf(own, other)
  PROVE  /\ IsFiniteSet(own) /\ IsFiniteSet(other) /\ own \cap other = {}
         /\ Threads = own \cup other
  BY QueueAssumption DEF SidesOf, Threads

(* Only the place of thread t changes, to p.                                *)
Moves(t, p) == pc' = [pc EXCEPT ![t] = p]

(* Where a thread answers for the entries, and where it does not.           *)
LEMMA AwakeIs ==
  /\ "lock" \in Awake /\ "held" \in Awake /\ "update" \in Awake
  /\ "idle" \notin Awake /\ "blocked" \notin Awake
  /\ "signal" \notin Awake /\ "unlock" \notin Awake
  BY DEF Awake

(* How a step of one thread changes the number of promised looks.           *)
LEMMA PromisedMoves ==
  ASSUME TypeOK, NEW own, NEW other, SidesOf(own, other),
         NEW t \in Threads, NEW p, Moves(t, p)
  PROVE  /\ Cardinality(Promised(pc, own, other)) \in Nat
         /\ Cardinality(Promised(pc', own, other)) \in Nat
         /\ (t \in Promised(pc, own, other) <=> t \in Promised(pc', own, other)) =>
              Cardinality(Promised(pc', own, other)) = Cardinality(Promised(pc, own, other))
         /\ t \notin Promised(pc, own, other) /\ t \in Promised(pc', own, other) =>
              Cardinality(Promised(pc', own, other)) = Cardinality(Promised(pc, own, other)) + 1
         /\ t \in Promised(pc, own, other) /\ t \notin Promised(pc', own, other) =>
              Cardinality(Promised(pc', own, other)) = Cardinality(Promised(pc, own, other)) - 1
  <1>1. IsFiniteSet(Promised(pc, own, other))
    BY Sides, PromisedCount
  <1>2. Promised(pc, own, other) \ {t} = Promised(pc', own, other) \ {t}
    BY Sides DEF TypeOK, Promised, AwakeOf, SignallersOf, Moves
  <1>3. QED
    BY <1>1, <1>2, OneMoves

(* Whether a thread answers for own is a matter of its place and its side.  *)
LEMMA PromisedIs ==
  ASSUME TypeOK, NEW own, NEW other, SidesOf(own, other),
         NEW t \in Threads, NEW p, Moves(t, p)
  PROVE  /\ t \in Promised(pc, own, other) <=>
              \/ t \in own /\ pc[t] \in Awake
              \/ t \in other /\ pc[t] = "signal"
         /\ t \in Promised(pc', own, other) <=>
              \/ t \in own /\ p \in Awake
              \/ t \in other /\ p = "signal"
  BY Sides DEF TypeOK, Promised, AwakeOf, SignallersOf, Moves

(* A signal to a sleeping thread passes the promise on: the signaller had   *)
(* one and the thread it wakes has it now.                                  *)
LEMMA SignalPasses ==
  ASSUME TypeOK, NEW own, NEW other, SidesOf(own, other),
         NEW t \in other, pc[t] = "signal",
         NEW w \in own, pc[w] = "blocked",
         pc' = [pc EXCEPT ![t] = "unlock", ![w] = "lock"]
  PROVE  Cardinality(Promised(pc', own, other)) = Cardinality(Promised(pc, own, other))
  <1> DEFINE P == Promised(pc, own, other)
             Q == P \ {t}
             R == Promised(pc', own, other)
  <1>1. IsFiniteSet(P) /\ t # w /\ t \in Threads /\ w \in Threads
    BY Sides, PromisedCount
  <1>2. t \in P /\ w \notin Q
    BY <1>1, Sides DEF Promised, AwakeOf, SignallersOf, Awake
  <1>3. R = Q \cup {w}
    BY <1>1, Sides DEF Promised, AwakeOf, SignallersOf, Awake, TypeOK
  <1>4. IsFiniteSet(Q) /\ Cardinality(Q) = Cardinality(P) - 1
    BY <1>1, <1>2, FS_RemoveElement
  <1>5. Cardinality(R) = Cardinality(Q) + 1
    BY <1>2, <1>3, <1>4, FS_AddElement
  <1>6. Cardinality(P) \in Nat
    BY <1>1, FS_CardinalityType
  <1>7. QED
    BY <1>4, <1>5, <1>6

(* A signal from the own side wakes a thread of the other: no promise moves.*)
LEMMA SignalOther ==
  ASSUME TypeOK, NEW own, NEW other, SidesOf(own, other),
         NEW t \in own, pc[t] = "signal",
         NEW w \in other, pc[w] = "blocked",
         pc' = [pc EXCEPT ![t] = "unlock", ![w] = "lock"]
  PROVE  Promised(pc', own, other) = Promised(pc, own, other)
  BY Sides DEF Promised, AwakeOf, SignallersOf, Awake, TypeOK

(* A level of the ring that the step of a thread leaves alone is matched as *)
(* before, for no step but an update or a signal takes a promise away.      *)
LEMMA PromiseKept ==
  ASSUME Inv, NEW own, NEW other, SidesOf(own, other), NEW t \in Threads,
         \/ Call(t) \/ Acquire(t) \/ LeaveLoop(t) \/ Unlock(t) \/ SpuriousWakeup(t)
  PROVE  /\ Cardinality(Promised(pc, own, other)) \in Nat
         /\ Cardinality(Promised(pc', own, other)) \in Nat
         /\ Cardinality(Promised(pc, own, other)) <= Cardinality(Promised(pc', own, other))
         /\ \A u \in Threads : pc'[u] = "blocked" => pc[u] = "blocked"
  <1> TypeOK
    BY DEF Inv
  <1>1. PICK p \in {"idle", "lock", "held", "update"} :
           /\ Moves(t, p)
           /\ pc[t] \in Awake => p \in Awake
           /\ pc[t] # "signal"
    BY DEF Call, Acquire, LeaveLoop, Unlock, SpuriousWakeup, Goto, Awake, Moves
  <1>2. t \in Promised(pc, own, other) => t \in Promised(pc', own, other)
    BY <1>1, PromisedIs
  <1>3. \A u \in Threads : pc'[u] = "blocked" => pc[u] = "blocked"
    BY <1>1 DEF TypeOK, Moves
  <1>4. CASE t \in Promised(pc, own, other)
    BY <1>1, <1>2, <1>3, <1>4, PromisedMoves
  <1>5. CASE t \notin Promised(pc, own, other)
    BY <1>1, <1>3, <1>5, PromisedMoves
  <1>6. QED
    BY <1>4, <1>5

(* An update by a thread of the other side makes one promise, one of the own*)
(* side uses one up.                                                        *)
LEMMA PromiseUpdated ==
  ASSUME Inv, NEW own, NEW other, SidesOf(own, other), NEW t \in Threads,
         PushStore(t) \/ PopTake(t)
  PROVE  LET n == Cardinality(Promised(pc, own, other))
         IN  /\ n \in Nat
             /\ t \in other => Cardinality(Promised(pc', own, other)) = n + 1
             /\ t \in own => Cardinality(Promised(pc', own, other)) = n - 1
             /\ \A u \in Threads : pc'[u] = "blocked" => pc[u] = "blocked"
  <1> TypeOK
    BY DEF Inv
  <1>1. pc[t] = "update" /\ Moves(t, "signal")
    BY DEF PushStore, PopTake, Goto, Moves
  <1>2. ASSUME t \in other
        PROVE  t \notin Promised(pc, own, other) /\ t \in Promised(pc', own, other)
    <2>1. t \notin own
      BY <1>2, Sides
    <2>2. QED
      BY <1>1, <1>2, <2>1, PromisedIs
  <1>3. ASSUME t \in own
        PROVE  t \in Promised(pc, own, other) /\ t \notin Promised(pc', own, other)
    <2>1. t \notin other
      BY <1>3, Sides
    <2>2. QED
      BY <1>1, <1>3, <2>1, PromisedIs, AwakeIs
  <1>4. \A u \in Threads : pc'[u] = "blocked" => pc[u] = "blocked"
    BY <1>1 DEF TypeOK, Moves
  <1>5. QED
    BY <1>1, <1>2, <1>3, <1>4, PromisedMoves

(* A signal keeps the number of promises unless nobody of own sleeps.       *)
LEMMA PromiseSignalled ==
  ASSUME Inv, NEW own, NEW other, SidesOf(own, other), NEW t \in Threads, Signal(t)
  PROVE  /\ \A u \in Threads : pc'[u] = "blocked" => pc[u] = "blocked"
         /\ \/ \A u \in own : pc'[u] # "blocked"
            \/ Cardinality(Promised(pc', own, other)) = Cardinality(Promised(pc, own, other))
  <1> TypeOK
    BY DEF Inv
  <1> DEFINE side == IF t \in Producers THEN NotEmptyWaiters ELSE NotFullWaiters
  <1>1. pc[t] = "signal"
    BY DEF Signal
  <1>2. CASE side = {} /\ Moves(t, "unlock")
    <2>1. \A u \in Threads : pc'[u] = "blocked" => pc[u] = "blocked"
      BY <1>2 DEF TypeOK, Moves
    <2>2. CASE t \in other
      BY <1>2, <2>1, <2>2, Sides DEF SidesOf, NotEmptyWaiters, NotFullWaiters
    <2>3. CASE t \in own
      <3>1. t \notin Promised(pc, own, other) /\ t \notin Promised(pc', own, other)
        <4>1. t \notin other
          BY <2>3, Sides
        <4>2. QED
          BY <1>1, <1>2, <2>3, <4>1, PromisedIs, AwakeIs
      <3>2. QED
        BY <1>2, <2>1, <3>1, PromisedMoves
    <2>4. QED
      BY <2>2, <2>3, Sides
  <1>3. ASSUME NEW w \in side, pc' = [pc EXCEPT ![t] = "unlock", ![w] = "lock"]
        PROVE  /\ \A u \in Threads : pc'[u] = "blocked" => pc[u] = "blocked"
               /\ Cardinality(Promised(pc', own, other)) = Cardinality(Promised(pc, own, other))
    <2>1. \A u \in Threads : pc'[u] = "blocked" => pc[u] = "blocked"
      BY <1>3 DEF TypeOK
    <2>2. pc[w] = "blocked"
      BY DEF NotEmptyWaiters, NotFullWaiters
    <2>3. CASE t \in other
      <3>1. w \in own
        BY <2>3, QueueAssumption DEF SidesOf, NotEmptyWaiters, NotFullWaiters
      <3>2. QED
        BY <1>1, <1>3, <2>1, <2>2, <2>3, <3>1, SignalPasses
    <2>4. CASE t \in own
      <3>1. w \in other
        BY <2>4, QueueAssumption DEF SidesOf, NotEmptyWaiters, NotFullWaiters
      <3>2. QED
        BY <1>1, <1>3, <2>1, <2>2, <2>4, <3>1, SignalOther
    <2>5. QED
      BY <2>3, <2>4, Sides
  <1>4. QED
    BY <1>2, <1>3 DEF Signal, Moves

(* No wakeup of a sleeping consumer is lost in a step.                      *)
LEMMA NotEmptyStep ==
  ASSUME Inv, NoLostNotEmpty, [Next]_vars
  PROVE  NoLostNotEmpty'
  <1> DEFINE n == Cardinality(Promised(pc, Consumers, Producers))
             m == Cardinality(Promised(pc', Consumers, Producers))
  <1> SidesOf(Consumers, Producers)
    BY DEF SidesOf
  <1>1. /\ n \in Nat /\ m \in Nat
        /\ NoLostNotEmpty <=> ((\E u \in Consumers : pc[u] = "blocked") => Size <= n)
        /\ NoLostNotEmpty' <=> ((\E u \in Consumers : pc'[u] = "blocked") => Size' <= m)
    <2>1. /\ n \in Nat /\ n = Cardinality(AwakeOf(pc, Consumers))
                              + Cardinality(SignallersOf(pc, Producers))
      BY Sides, PromisedCount
    <2>2. /\ m \in Nat /\ m = Cardinality(AwakeOf(pc', Consumers))
                              + Cardinality(SignallersOf(pc', Producers))
      BY Sides, PromisedCount
    <2>3. QED
      BY <2>1, <2>2 DEF NoLostNotEmpty, NotEmptyWaiters, AwakeOf, SignallersOf
  <1>2. Size \in 0 .. QUE_SIZE - 1 /\ (is_empty_cir_queue <=> Size = 0)
    BY AtIs DEF Inv, TypeOK
  <1>3. Consumers \subseteq Threads /\ Producers \subseteq Threads
    BY DEF Threads
  <1> HIDE DEF n, m
  <1>4. CASE UNCHANGED vars
    BY <1>4, RingKept DEF vars, ring, NoLostNotEmpty, NotEmptyWaiters
  <1>5. ASSUME NEW t \in Threads,
               \/ Call(t) \/ Acquire(t) \/ LeaveLoop(t) \/ Unlock(t) \/ SpuriousWakeup(t)
        PROVE  NoLostNotEmpty'
    <2>1. Size' = Size
      BY <1>5, RingKept DEF Call, Acquire, LeaveLoop, Unlock, SpuriousWakeup
    <2>2. n <= m /\ \A u \in Threads : pc'[u] = "blocked" => pc[u] = "blocked"
      BY <1>5, PromiseKept DEF n, m
    <2>3. QED
      BY <1>1, <1>2, <1>3, <2>1, <2>2
  <1>6. ASSUME NEW t \in Threads, PushWait(t)
        PROVE  NoLostNotEmpty'
    <2>1. Size' = Size /\ t \in Producers
      BY <1>6, RingKept DEF PushWait, CondWait
    <2>2. pc[t] = "held" /\ Moves(t, "blocked")
      BY <1>6 DEF PushWait, CondWait, Goto, Moves
    <2>3. t \notin Consumers
      BY <2>1, QueueAssumption
    <2>4. m = n
      <3>1. t \notin Promised(pc, Consumers, Producers) /\ t \notin Promised(pc', Consumers, Producers)
        BY <2>2, <2>3, PromisedIs, AwakeIs DEF Inv
      <3>2. QED
        BY <2>2, <3>1, PromisedMoves DEF n, m, Inv
    <2>5. \A u \in Consumers : pc'[u] = pc[u]
      BY <1>3, <2>2, <2>3 DEF Inv, TypeOK, Moves
    <2>6. QED
      BY <1>1, <2>1, <2>4, <2>5
  <1>7. ASSUME NEW t \in Threads, PopWait(t) \/ TryPopEmpty(t)
        PROVE  NoLostNotEmpty'
    <2>1. Size' = Size /\ Size = 0
      BY <1>2, <1>7, RingKept DEF PopWait, CondWait, TryPopEmpty
    <2>2. QED
      BY <1>1, <2>1
  <1>8. ASSUME NEW t \in Threads, PushStore(t)
        PROVE  NoLostNotEmpty'
    <2>1. Size' = Size + 1 /\ t \in Producers
      BY <1>8, PushGrows DEF PushStore
    <2>2. m = n + 1 /\ \A u \in Threads : pc'[u] = "blocked" => pc[u] = "blocked"
      BY <1>8, <2>1, PromiseUpdated DEF n, m
    <2>3. QED
      BY <1>1, <1>2, <1>3, <2>1, <2>2
  <1>9. ASSUME NEW t \in Threads, PopTake(t)
        PROVE  NoLostNotEmpty'
    <2>1. Size' = Size - 1 /\ t \in Consumers
      BY <1>9, PopShrinks DEF PopTake
    <2>2. m = n - 1 /\ \A u \in Threads : pc'[u] = "blocked" => pc[u] = "blocked"
      BY <1>9, <2>1, PromiseUpdated DEF n, m
    <2>3. QED
      BY <1>1, <1>2, <1>3, <2>1, <2>2
  <1>10. ASSUME NEW t \in Threads, Signal(t)
         PROVE  NoLostNotEmpty'
    <2>1. Size' = Size
      BY <1>10, RingKept DEF Signal
    <2>2. /\ \A u \in Threads : pc'[u] = "blocked" => pc[u] = "blocked"
          /\ (\A u \in Consumers : pc'[u] # "blocked") \/ m = n
      BY <1>10, PromiseSignalled DEF n, m
    <2>3. QED
      BY <1>1, <1>3, <2>1, <2>2
  <1>11. QED
    BY <1>4, <1>5, <1>6, <1>7, <1>8, <1>9, <1>10 DEF Next, Step

(* No entry of the ring is left to a sleeping consumer alone: an awake one  *)
(* or a push that is about to signal answers for it, for any number of      *)
(* threads and whatever wakeups come without a signal.                      *)
THEOREM NoLostNotEmptyAlways == SafeSpec => []NoLostNotEmpty
  <1>1. Init => NoLostNotEmpty
    BY DEF Init, NoLostNotEmpty, NotEmptyWaiters, Threads
  <1>2. Inv /\ NoLostNotEmpty /\ [Next]_vars => NoLostNotEmpty'
    BY NotEmptyStep
  <1>3. QED
    BY <1>1, <1>2, InvCorrect, PTL DEF SafeSpec

(* No wakeup of a sleeping producer is lost in a step.                      *)
LEMMA NotFullStep ==
  ASSUME Inv, NoLostNotFull, [Next]_vars
  PROVE  NoLostNotFull'
  <1> DEFINE n == Cardinality(Promised(pc, Producers, Consumers))
             m == Cardinality(Promised(pc', Producers, Consumers))
  <1> SidesOf(Producers, Consumers)
    BY DEF SidesOf
  <1>1. /\ n \in Nat /\ m \in Nat
        /\ NoLostNotFull <=> ((\E u \in Producers : pc[u] = "blocked") => QUE_SIZE - 1 - Size <= n)
        /\ NoLostNotFull' <=> ((\E u \in Producers : pc'[u] = "blocked") => QUE_SIZE - 1 - Size' <= m)
    <2>1. /\ n \in Nat /\ n = Cardinality(AwakeOf(pc, Producers))
                              + Cardinality(SignallersOf(pc, Consumers))
      BY Sides, PromisedCount
    <2>2. /\ m \in Nat /\ m = Cardinality(AwakeOf(pc', Producers))
                              + Cardinality(SignallersOf(pc', Consumers))
      BY Sides, PromisedCount
    <2>3. QED
      BY <2>1, <2>2 DEF NoLostNotFull, NotFullWaiters, AwakeOf, SignallersOf
  <1>2. Size \in 0 .. QUE_SIZE - 1 /\ (is_full_cir_queue <=> Size = QUE_SIZE - 1)
    BY AtIs DEF Inv, TypeOK
  <1>3. Producers \subseteq Threads /\ Consumers \subseteq Threads
    BY DEF Threads
  <1> HIDE DEF n, m
  <1>4. CASE UNCHANGED vars
    BY <1>4, RingKept DEF vars, ring, NoLostNotFull, NotFullWaiters
  <1>5. ASSUME NEW t \in Threads,
               \/ Call(t) \/ Acquire(t) \/ LeaveLoop(t) \/ Unlock(t) \/ SpuriousWakeup(t)
        PROVE  NoLostNotFull'
    <2>1. Size' = Size
      BY <1>5, RingKept DEF Call, Acquire, LeaveLoop, Unlock, SpuriousWakeup
    <2>2. n <= m /\ \A u \in Threads : pc'[u] = "blocked" => pc[u] = "blocked"
      BY <1>5, PromiseKept DEF n, m
    <2>3. QED
      BY <1>1, <1>2, <1>3, <2>1, <2>2, QueueAssumption
  <1>6. ASSUME NEW t \in Threads, PopWait(t) \/ TryPopEmpty(t)
        PROVE  NoLostNotFull'
    <2>1. Size' = Size /\ t \in Consumers
      BY <1>6, RingKept DEF PopWait, CondWait, TryPopEmpty
    <2>2. PICK p \in {"blocked", "unlock"} : pc[t] = "held" /\ Moves(t, p)
      BY <1>6 DEF PopWait, CondWait, TryPopEmpty, Goto, Moves
    <2>3. t \notin Producers
      BY <2>1, QueueAssumption
    <2>4. m = n
      <3>1. t \notin Promised(pc, Producers, Consumers) /\ t \notin Promised(pc', Producers, Consumers)
        BY <2>2, <2>3, PromisedIs, AwakeIs DEF Inv
      <3>2. QED
        BY <2>2, <3>1, PromisedMoves DEF n, m, Inv
    <2>5. \A u \in Producers : pc'[u] = pc[u]
      BY <1>3, <2>2, <2>3 DEF Inv, TypeOK, Moves
    <2>6. QED
      BY <1>1, <2>1, <2>4, <2>5
  <1>7. ASSUME NEW t \in Threads, PushWait(t)
        PROVE  NoLostNotFull'
    <2>1. Size' = Size /\ Size = QUE_SIZE - 1
      BY <1>2, <1>7, RingKept DEF PushWait, CondWait
    <2>2. QED
      BY <1>1, <2>1
  <1>8. ASSUME NEW t \in Threads, PopTake(t)
        PROVE  NoLostNotFull'
    <2>1. Size' = Size - 1 /\ t \in Consumers
      BY <1>8, PopShrinks DEF PopTake
    <2>2. m = n + 1 /\ \A u \in Threads : pc'[u] = "blocked" => pc[u] = "blocked"
      BY <1>8, <2>1, PromiseUpdated DEF n, m
    <2>3. QED
      BY <1>1, <1>2, <1>3, <2>1, <2>2, QueueAssumption
  <1>9. ASSUME NEW t \in Threads, PushStore(t)
        PROVE  NoLostNotFull'
    <2>1. Size' = Size + 1 /\ t \in Producers
      BY <1>9, PushGrows DEF PushStore
    <2>2. m = n - 1 /\ \A u \in Threads : pc'[u] = "blocked" => pc[u] = "blocked"
      BY <1>9, <2>1, PromiseUpdated DEF n, m
    <2>3. QED
      BY <1>1, <1>2, <1>3, <2>1, <2>2, QueueAssumption
  <1>10. ASSUME NEW t \in Threads, Signal(t)
         PROVE  NoLostNotFull'
    <2>1. Size' = Size
      BY <1>10, RingKept DEF Signal
    <2>2. /\ \A u \in Threads : pc'[u] = "blocked" => pc[u] = "blocked"
          /\ (\A u \in Producers : pc'[u] # "blocked") \/ m = n
      BY <1>10, PromiseSignalled DEF n, m
    <2>3. QED
      BY <1>1, <1>3, <2>1, <2>2
  <1>11. QED
    BY <1>4, <1>5, <1>6, <1>7, <1>8, <1>9, <1>10 DEF Next, Step

(* No free slot of the ring is left to a sleeping producer alone: an awake  *)
(* one or a pop that is about to signal answers for it.                     *)
THEOREM NoLostNotFullAlways == SafeSpec => []NoLostNotFull
  <1>1. Init => NoLostNotFull
    BY DEF Init, NoLostNotFull, NotFullWaiters, Threads
  <1>2. Inv /\ NoLostNotFull /\ [Next]_vars => NoLostNotFull'
    BY NotFullStep
  <1>3. QED
    BY <1>1, <1>2, InvCorrect, PTL DEF SafeSpec
=============================================================================
