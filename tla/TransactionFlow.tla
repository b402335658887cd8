-------------------------- MODULE TransactionFlow ---------------------------
(***************************************************************************)
(* The life of transactions in one controller with the DRAM abstracted: in *)
(* each cycle the DRAM lets through at most one queued read or write, any  *)
(* one that CommandQueue may pick.  Controller refines this module.        *)
(***************************************************************************)
EXTENDS TransactionQueues

CONSTANT MaxOutstanding     \* bound: unanswered transactions per address and kind

VARIABLES tq,               \* the queues
          callbacks         \* <<addr, is_write>> -> callbacks made by this step

vars == <<tq, callbacks>>

Kinds == Addr \X BOOLEAN
NoCallbacks == [k \in Kinds |-> 0]

Init == tq = InitQueues /\ callbacks = NoCallbacks

(* WillAcceptTransaction, then AddTransaction (dram_system.cc asserts it). *)
Add(t) ==
  /\ ~tq.exited
  /\ WillAcceptTransaction(tq, t.is_write)
  /\ Outstanding(tq, <<t.addr, t.is_write>>) < MaxOutstanding
  /\ tq' = AddTransaction(tq, t)
  /\ callbacks' = NoCallbacks

(* What one cycle may do to the command queues: nothing, or erase and issue *)
(* the i-th entry of queue q.  A write waits for earlier reads.             *)
Issued(q0) ==
  {q0} \cup
  {CompleteRW(EraseRWCommand(q0, q0.queues[p[1]][p[2]]), q0.queues[p[1]][p[2]], FALSE) :
     p \in {p \in Queues \X (1 .. Config.cmd_queue_size) :
              /\ p[2] \in DOMAIN q0.queues[p[1]]
              /\ q0.queues[p[1]][p[2]].is_write =>
                   ~HasRWDependency(q0.queues[p[1]], p[2])}}

(* One cycle: return what is due, issue, schedule. *)
Tick ==
  /\ ~tq.exited
  /\ callbacks' = [k \in Kinds |-> tq.return_queue[<<k[1], k[2], 0>>]]
  /\ \E q1 \in Issued(ReturnDone(tq)) : tq' = ReturnAged(ScheduleTransaction(q1))

Next == (\E t \in Transactions : Add(t)) \/ Tick

Spec == Init /\ [][Next]_vars

-----------------------------------------------------------------------------
QueueRecord ==
  [read_queue : Seq(Transactions), write_buffer : Seq(Transactions),
   unified_queue : Seq(Transactions),
   pending_rd_q : [Addr -> Nat], pending_wr_q : SUBSET Addr,
   queues : [Queues -> Seq(Transactions)], rank_q_empty : [Ranks -> BOOLEAN],
   return_queue : [ReturnSlots -> Nat], write_draining : Nat, exited : BOOLEAN]

TypeOK == tq \in QueueRecord /\ callbacks \in [Kinds -> Nat]

(* The transactions not yet scheduled, and those in a command queue. *)
Waiting(q) ==
  Range(q.read_queue) \cup Range(q.write_buffer) \cup Range(q.unified_queue)
Queued(q) == UNION {Range(q.queues[k]) : k \in Queues}

PendingMatches(q) ==
  \A a \in Addr :
    /\ a \in q.pending_wr_q <=> Transaction(a, TRUE) \in Waiting(q) \cup Queued(q)
    /\ q.pending_rd_q[a] > 0 <=> Transaction(a, FALSE) \in Waiting(q) \cup Queued(q)

(* pending_rd_q_ and pending_wr_q_ hold exactly the transactions that still *)
(* wait in a transaction or command queue: none is dropped on the way and   *)
(* none stays behind after it was issued (AddTransaction, ScheduleTransac-  *)
(* tion, EraseRWCommand and IssueCommand keep four containers in step).     *)
PendingIsQueued == PendingMatches(tq)

OnlyOnce(q) ==
  /\ IsInjective(q.read_queue) /\ IsInjective(q.write_buffer)
  /\ IsInjective(q.unified_queue)
  /\ \A k \in Queues : IsInjective(q.queues[k])
  /\ Waiting(q) \cap Queued(q) = {}
  /\ \A k \in Queues : \A t \in Range(q.queues[k]) : GetQueueIndex(t.addr) = k

(* `there should be only 1 write to the same location at a time', and one   *)
(* read standing for all merged ones: a transaction is in one place, once,  *)
(* and in the command queue of its own bank or rank.                        *)
QueuedOnce == OnlyOnce(tq)

Bounded(q) ==
  /\ Len(q.read_queue) <= Config.trans_queue_size
  /\ Len(q.write_buffer) <= Config.trans_queue_size
  /\ Len(q.unified_queue) <= Config.trans_queue_size
  /\ \A k \in Queues : Len(q.queues[k]) <= Config.cmd_queue_size
  /\ q.write_draining <= Len(q.write_buffer)

(* No queue outgrows its configured size, and a drain never counts more     *)
(* writes than the write buffer holds: otherwise it would not end and reads *)
(* would not be scheduled again.                                            *)
QueuesBounded == Bounded(tq)

(* Neither `not in read queue', `not in write queue' nor `cannot find cmd'  *)
(* is ever reached.                                                         *)
NoExit == ~tq.exited

KindsSeparate(q) ==
  IF Config.unified_queue THEN q.read_queue = <<>> /\ q.write_buffer = <<>>
  ELSE /\ q.unified_queue = <<>>
       /\ \A t \in Range(q.read_queue) : ~t.is_write
       /\ \A t \in Range(q.write_buffer) : t.is_write

Ordered(queue, a) ==
  \A i, j \in DOMAIN queue :
    queue[i] = Transaction(a, TRUE) /\ queue[j] = Transaction(a, FALSE) => j < i

ReadAhead(q) ==
  \A a \in Addr :
    /\ Transaction(a, TRUE) \in Queued(q) => Transaction(a, FALSE) \notin Waiting(q)
    /\ Ordered(q.unified_queue, a)
    /\ \A k \in Queues : Ordered(q.queues[k], a)

(* When a read and a write of one address are both under way the read is    *)
(* ahead: earlier in the same queue, or already in a command queue while    *)
(* the write still waits.                                                   *)
ReadsStayAhead == KindsSeparate(tq) /\ ReadAhead(tq)

(* A write is not issued while a read of its address is pending: the R->W   *)
(* check of ScheduleTransaction (split queues) and HasRWDependency (unified *)
(* queue) keep the older read ahead of the write.                           *)
WriteAfterRead ==
  [][\A a \in tq.pending_wr_q \ tq'.pending_wr_q : tq.pending_rd_q[a] = 0]_vars

QueueInv(q) ==
  /\ q \in QueueRecord
  /\ PendingMatches(q)
  /\ OnlyOnce(q)
  /\ Bounded(q)
  /\ KindsSeparate(q)
  /\ ReadAhead(q)
  /\ ~q.exited

(* The inductive invariant of the proofs. *)
IInv == QueueInv(tq) /\ callbacks \in [Kinds -> Nat]

Interface ==
  INSTANCE MemoryInterface
    WITH outstanding <- [k \in Kinds |-> Outstanding(tq, k)]

(* Every accepted transaction is answered by exactly one callback, merged   *)
(* reads and forwarded reads included.                                      *)
AnsweredOnce == Interface!Spec
=============================================================================
