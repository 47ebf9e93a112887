----------------------------- MODULE CirQueue ------------------------------
(***************************************************************************)
(* The circular queue of src/common/pokaqueue.c, shared by the thread that *)
(* lists the insert directory and the threads that load its files, one     *)
(* step per lock, loop test, wait, update, signal and unlock of its three  *)
(* operations.                                                             *)
(***************************************************************************)
EXTENDS Integers, Sequences, FiniteSets

CONSTANTS QUE_SIZE,   (* slots of the ring                                  *)
          Producers,  (* threads that push                                  *)
          Consumers,  (* threads that pop                                   *)
          Items,      (* the pointers that are queued                       *)
          Nil,        (* NULL                                               *)
          NoThread    (* the owner of a free mutex                          *)

Threads == Producers \cup Consumers
Slots   == 0 .. QUE_SIZE - 1

ASSUME QueueAssumption ==
  /\ QUE_SIZE \in Nat /\ QUE_SIZE >= 2
  /\ IsFiniteSet(Producers) /\ IsFiniteSet(Consumers)
  /\ Producers \cap Consumers = {}
  /\ Nil \notin Items
  /\ NoThread \notin Threads

VARIABLES data, front, rear, count,  (* cir_queue_t                         *)
          lock,                      (* the thread that owns q->lock        *)
          pc,                        (* where each thread is                *)
          op,                        (* "push", "pop" or "trypop"           *)
          val                        (* the argument x, or the result temp  *)

ring == <<data, front, rear, count>>
vars == <<data, front, rear, count, lock, pc, op, val>>

(* "lock": wants the mutex, at the call or when a wait ends.  "held": owns *)
(* it, about to test the loop condition.  "blocked": in pthread_cond_wait. *)
(* "update": the test said there is room, or an entry.                     *)
PopOps == {"pop", "trypop"}

\* Slips: count takes the place of the indices; an index that is not wrapped.
full_by_count == count = QUE_SIZE
NoWrap(i)     == i + 1

is_empty_cir_queue == front = rear
is_full_cir_queue  == rear = (QUE_SIZE - 1 + front) % QUE_SIZE
Succ(i)            == (i + 1) % QUE_SIZE

NotEmptyWaiters == {t \in Consumers : pc[t] = "blocked"}
NotFullWaiters  == {t \in Producers : pc[t] = "blocked"}

Init ==
  /\ data  = [i \in Slots |-> Nil]
  /\ front = 0
  /\ rear  = 0
  /\ count = 0
  /\ lock  = NoThread
  /\ pc    = [t \in Threads |-> "idle"]
  /\ op    = [t \in Threads |-> IF t \in Producers THEN "push" ELSE "pop"]
  /\ val   = [t \in Threads |-> Nil]

Goto(t, from, to) == pc[t] = from /\ pc' = [pc EXCEPT ![t] = to]

Call(t) ==
  /\ Goto(t, "idle", "lock")
  /\ \/ /\ t \in Producers
        /\ \E x \in Items : val' = [val EXCEPT ![t] = x]
        /\ UNCHANGED op
     \/ /\ t \in Consumers
        /\ \E o \in PopOps : op' = [op EXCEPT ![t] = o]
        /\ val' = [val EXCEPT ![t] = Nil]
  /\ UNCHANGED <<ring, lock>>

Acquire(t) ==
  /\ lock = NoThread
  /\ Goto(t, "lock", "held")
  /\ lock' = t
  /\ UNCHANGED <<ring, op, val>>

(* pthread_cond_wait gives the mutex back and sleeps in one step.          *)
CondWait(t) ==
  /\ Goto(t, "held", "blocked")
  /\ lock' = NoThread
  /\ UNCHANGED <<ring, op, val>>

PushWait(t) == t \in Producers /\ is_full_cir_queue /\ CondWait(t)

PopWait(t) == t \in Consumers /\ op[t] = "pop" /\ is_empty_cir_queue /\ CondWait(t)

LeaveLoop(t) ==
  /\ IF t \in Producers THEN ~ is_full_cir_queue ELSE ~ is_empty_cir_queue
  /\ Goto(t, "held", "update")
  /\ UNCHANGED <<ring, lock, op, val>>

\* Slip: a push that forgets to signal.
PushSilently(t) ==
  /\ t \in Producers
  /\ Goto(t, "update", "unlock")
  /\ data'  = [data EXCEPT ![rear] = val[t]]
  /\ rear'  = Succ(rear)
  /\ count' = count + 1
  /\ UNCHANGED <<front, lock, op, val>>

PushStore(t) ==
  /\ t \in Producers
  /\ Goto(t, "update", "signal")
  /\ data'  = [data EXCEPT ![rear] = val[t]]
  /\ rear'  = Succ(rear)
  /\ count' = count + 1
  /\ UNCHANGED <<front, lock, op, val>>

\* Slips: a pop that forgets to signal; one that moves front before it reads.
PopSilently(t) ==
  /\ t \in Consumers
  /\ Goto(t, "update", "unlock")
  /\ val'   = [val EXCEPT ![t] = data[front]]
  /\ data'  = [data EXCEPT ![front] = Nil]
  /\ front' = Succ(front)
  /\ count' = count - 1
  /\ UNCHANGED <<rear, lock, op>>

PopMovesFirst(t) ==
  /\ t \in Consumers
  /\ Goto(t, "update", "signal")
  /\ front' = Succ(front)
  /\ val'   = [val EXCEPT ![t] = data[Succ(front)]]
  /\ data'  = [data EXCEPT ![Succ(front)] = Nil]
  /\ count' = count - 1
  /\ UNCHANGED <<rear, lock, op>>

PopTake(t) ==
  /\ t \in Consumers
  /\ Goto(t, "update", "signal")
  /\ val'   = [val EXCEPT ![t] = data[front]]
  /\ data'  = [data EXCEPT ![front] = Nil]
  /\ front' = Succ(front)
  /\ count' = count - 1
  /\ UNCHANGED <<rear, lock, op>>

\* Slip: the early return keeps the mutex.
TryPopKeepsLock(t) ==
  /\ t \in Consumers
  /\ op[t] = "trypop"
  /\ is_empty_cir_queue
  /\ Goto(t, "held", "idle")
  /\ UNCHANGED <<ring, lock, op, val>>

(* pop_notwait_cir_queue on an empty queue: unlock and return NULL.        *)
TryPopEmpty(t) ==
  /\ t \in Consumers
  /\ op[t] = "trypop"
  /\ is_empty_cir_queue
  /\ Goto(t, "held", "unlock")
  /\ UNCHANGED <<ring, lock, op, val>>

\* Slips: if instead of while around the wait; the two conditions swapped.
SignalUntested(t) ==
  LET waiters == IF t \in Producers THEN NotEmptyWaiters ELSE NotFullWaiters
  IN  /\ pc[t] = "signal"
      /\ \/ /\ waiters = {}
            /\ pc' = [pc EXCEPT ![t] = "unlock"]
         \/ \E w \in waiters : pc' = [pc EXCEPT ![t] = "unlock", ![w] = "update"]
      /\ UNCHANGED <<ring, lock, op, val>>

SignalOwnSide(t) ==
  LET waiters == IF t \in Producers THEN NotFullWaiters ELSE NotEmptyWaiters
  IN  /\ pc[t] = "signal"
      /\ \/ /\ waiters = {}
            /\ pc' = [pc EXCEPT ![t] = "unlock"]
         \/ \E w \in waiters : pc' = [pc EXCEPT ![t] = "unlock", ![w] = "lock"]
      /\ UNCHANGED <<ring, lock, op, val>>

(* pthread_cond_signal on the other side's condition wakes one waiter if   *)
(* there is one; the woken thread still has to get the mutex back.         *)
Signal(t) ==
  LET waiters == IF t \in Producers THEN NotEmptyWaiters ELSE NotFullWaiters
  IN  /\ pc[t] = "signal"
      /\ \/ /\ waiters = {}
            /\ pc' = [pc EXCEPT ![t] = "unlock"]
         \/ \E w \in waiters : pc' = [pc EXCEPT ![t] = "unlock", ![w] = "lock"]
      /\ UNCHANGED <<ring, lock, op, val>>

Unlock(t) ==
  /\ Goto(t, "unlock", "idle")
  /\ lock' = NoThread
  /\ UNCHANGED <<ring, op, val>>

(* POSIX lets pthread_cond_wait return with no signal, and lets one signal *)
(* wake more than one waiter.                                              *)
SpuriousWakeup(t) ==
  /\ Goto(t, "blocked", "lock")
  /\ UNCHANGED <<ring, lock, op, val>>

Step(t) ==
  \/ PushWait(t) \/ PopWait(t) \/ TryPopEmpty(t) \/ LeaveLoop(t)
  \/ PushStore(t) \/ PopTake(t) \/ Signal(t) \/ Unlock(t)

Next == \E t \in Threads : Call(t) \/ Acquire(t) \/ Step(t) \/ SpuriousWakeup(t)

(* A thread that owns the mutex runs on, and no thread that wants the      *)
(* mutex is passed over for ever.  Nobody has to call, and nobody is woken *)
(* by anything but a signal.                                               *)
Fairness == \A t \in Threads : WF_vars(Step(t)) /\ SF_vars(Acquire(t))

SafeSpec == Init /\ [][Next]_vars
Spec     == SafeSpec /\ Fairness

-----------------------------------------------------------------------------
(* The entries of the ring, oldest first.                                  *)
Size     == IF front <= rear THEN rear - front ELSE rear - front + QUE_SIZE
At(k)    == IF front + k < QUE_SIZE THEN front + k ELSE front + k - QUE_SIZE
Contents == [k \in 1 .. Size |-> data[At(k - 1)]]

Stage(t) == CASE pc[t] = "idle"               -> "idle"
              [] pc[t] \in {"signal", "unlock"} -> "done"
              [] OTHER                        -> "pending"

(* Type invariant: every variable of cir_queue_t and every thread's place. *)
TypeOK ==
  /\ data \in [Slots -> Items \cup {Nil}]
  /\ front \in Slots
  /\ rear \in Slots
  /\ count \in Int
  /\ lock \in Threads \cup {NoThread}
  /\ pc \in [Threads -> {"idle", "lock", "held", "blocked", "update",
                       "signal", "unlock"}]
  /\ op \in [Threads -> PopOps \cup {"push"}]
  /\ val \in [Threads -> Items \cup {Nil}]

(* The counter that ListDirThread logs agrees with the two indices although*)
(* it is maintained on its own, and the slots between front and rear, and  *)
(* no others, hold an entry: no pop returns a slot never filled or already *)
(* taken, and no push overwrites an entry nobody has taken.                *)
RingConsistent ==
  /\ count = Size
  /\ \A k \in 0 .. QUE_SIZE - 1 : (data[At(k)] # Nil) <=> (k < Size)

(* Only the owner of q->lock is inside a critical section.                 *)
InCritical(t)    == pc[t] \in {"held", "update", "signal", "unlock"}
MutexOwnership   == \A t \in Threads : InCritical(t) <=> lock = t

Awake == {"lock", "held", "update"}

(* No wakeup is lost on notempty: while a consumer sleeps, every entry of  *)
(* the ring is matched by a consumer that is awake and will look at the    *)
(* ring, or by a push that has still to signal.                            *)
NoLostNotEmpty ==
  NotEmptyWaiters # {} =>
    Size <= Cardinality({t \in Consumers : pc[t] \in Awake})
            + Cardinality({t \in Producers : pc[t] = "signal"})

(* Nor on notfull: while a producer sleeps, every free slot is matched by  *)
(* an awake producer or by a pop that has still to signal.                 *)
NoLostNotFull ==
  NotFullWaiters # {} =>
    QUE_SIZE - 1 - Size <= Cardinality({t \in Producers : pc[t] \in Awake})
                           + Cardinality({t \in Consumers : pc[t] = "signal"})

(* The strengthening that makes RingConsistent inductive: what the loop    *)
(* test found still holds when the thread updates the ring, and a push that*)
(* has been called carries a pointer, never NULL.                          *)
TestStillHolds ==
  \A t \in Threads : pc[t] = "update" =>
    IF t \in Producers THEN ~ is_full_cir_queue ELSE ~ is_empty_cir_queue

PushesItem == \A t \in Producers : pc[t] # "idle" => val[t] \in Items

Inv == /\ TypeOK /\ MutexOwnership /\ RingConsistent
       /\ TestStillHolds /\ PushesItem

Abstract == INSTANCE BoundedFifo
              WITH Capacity <- QUE_SIZE - 1,
                   fifo <- Contents, stage <- [t \in Threads |-> Stage(t)]

(* The ring is a FIFO of QUE_SIZE - 1 entries: every result of a pop is    *)
(* the oldest entry pushed and not yet popped, and none is lost or doubled.*)
ImplementsFifo == Abstract!SafeFifo

(* ... and it makes the progress a FIFO owes its callers.                  *)
ImplementsFifoProgress == Abstract!FifoFairness
=============================================================================
