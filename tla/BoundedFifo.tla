---------------------------- MODULE BoundedFifo ----------------------------
(***************************************************************************)
(* What the queue of src/common/pokaqueue.c promises to the threads that   *)
(* call it, with no mutex, ring or condition variable in sight: a first-in *)
(* first-out queue of at most Capacity entries.  Each call takes effect at *)
(* one instant between its start and its return.  push waits while the     *)
(* queue is full, pop waits while it is empty, and pop_notwait returns Nil *)
(* when it is empty.                                                       *)
(***************************************************************************)
EXTENDS Integers, Sequences

CONSTANTS Producers,  (* threads that call push_cir_queue                   *)
          Consumers,  (* threads that call pop_cir_queue, pop_notwait_...   *)
          Items,      (* the pointers that are queued                       *)
          Nil,        (* NULL                                               *)
          Capacity    (* the number of entries that fit                     *)

VARIABLES fifo,   (* the entries, oldest first                              *)
          stage,  (* of each thread: "idle", "pending" or "done"            *)
          op,     (* of each thread: the function it called last            *)
          val     (* of each thread: what it pushes, or what it was given   *)

fifoVars == <<fifo, stage, op, val>>

Threads == Producers \cup Consumers
PopOps  == {"pop", "trypop"}

Init ==
  /\ fifo  = <<>>
  /\ stage = [t \in Threads |-> "idle"]
  /\ op    = [t \in Threads |-> IF t \in Producers THEN "push" ELSE "pop"]
  /\ val   = [t \in Threads |-> Nil]

Call(t) ==
  /\ stage[t] = "idle"
  /\ stage' = [stage EXCEPT ![t] = "pending"]
  /\ \/ /\ t \in Producers
        /\ \E x \in Items : val' = [val EXCEPT ![t] = x]
        /\ UNCHANGED op
     \/ /\ t \in Consumers
        /\ \E o \in PopOps : op' = [op EXCEPT ![t] = o]
        /\ val' = [val EXCEPT ![t] = Nil]
  /\ UNCHANGED fifo

TakesEffect(t) ==
  /\ stage[t] = "pending"
  /\ stage' = [stage EXCEPT ![t] = "done"]
  /\ UNCHANGED op

Put(t) ==
  /\ t \in Producers
  /\ TakesEffect(t)
  /\ Len(fifo) < Capacity
  /\ fifo' = Append(fifo, val[t])
  /\ UNCHANGED val

Get(t) ==
  /\ t \in Consumers
  /\ TakesEffect(t)
  /\ fifo # <<>>
  /\ val'  = [val EXCEPT ![t] = Head(fifo)]
  /\ fifo' = Tail(fifo)

GetNothing(t) ==
  /\ t \in Consumers
  /\ op[t] = "trypop"
  /\ TakesEffect(t)
  /\ fifo = <<>>
  /\ UNCHANGED <<fifo, val>>

Return(t) ==
  /\ stage[t] = "done"
  /\ stage' = [stage EXCEPT ![t] = "idle"]
  /\ UNCHANGED <<fifo, op, val>>

Next == \E t \in Threads :
          Call(t) \/ Put(t) \/ Get(t) \/ GetNothing(t) \/ Return(t)

SafeFifo == Init /\ [][Next]_fifoVars

(* As long as a waiting call could take effect, some waiting call does: an *)
(* entry never sits in the queue while every popping thread sleeps, and    *)
(* room is never left unused while every pushing thread sleeps.            *)
FifoFairness ==
  /\ WF_fifoVars(\E t \in Producers : Put(t))
  /\ WF_fifoVars(\E t \in Consumers : Get(t))
  /\ \A t \in Threads : WF_fifoVars(Return(t))

Fifo == SafeFifo /\ FifoFairness
=============================================================================
