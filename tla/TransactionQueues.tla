------------------------- MODULE TransactionQueues --------------------------
(***************************************************************************)
(* Where a transaction is between AddTransaction and its completion        *)
(* (controller.cc, and the containers of command_queue.cc): the read queue,*)
(* the write buffer or the unified queue, then a command queue, then the   *)
(* return queue.  The state is a record tq; the operations are operators   *)
(* on it.  A queued R/W command is kept as the transaction it came from:   *)
(* TransToCommand determines everything else about it.                     *)
(***************************************************************************)
EXTENDS DramCommon, SequencesExt

ASSUME QueueAssumption ==
  /\ Config.trans_queue_size \in Nat \ {0}
  /\ Config.cmd_queue_size \in Nat \ {0}
  /\ Config.write_drain_threshold \in Nat           \* the literal 8 of the code
  /\ Config.read_delay \in Nat \ {0}
  /\ Config.unified_queue \in BOOLEAN
  /\ Config.queue_structure \in {"PER_BANK", "PER_RANK"}

Transaction(addr, is_write) == [addr |-> addr, is_write |-> is_write]
Transactions == [addr : Addr, is_write : BOOLEAN]

num_queues ==
  IF Config.queue_structure = "PER_BANK" THEN banks * Config.ranks ELSE Config.ranks
Queues == 0 .. num_queues - 1

QueueIndexOfBank(bank) ==
  IF Config.queue_structure = "PER_RANK" THEN bank[1]
  ELSE bank[1] * banks + bank[2] * Config.banks_per_group + bank[3]
GetQueueIndex(addr) == QueueIndexOfBank(Config.AddressMapping[addr].bank)

(* The return queue as a bag: how many completions of <<addr, is_write>>    *)
(* are due in n cycles.                                                     *)
ReturnSlots == Addr \X BOOLEAN \X (0 .. Config.read_delay)

InitQueues ==
  [read_queue |-> <<>>, write_buffer |-> <<>>, unified_queue |-> <<>>,
   pending_rd_q |-> [a \in Addr |-> 0],   \* a multimap: how many reads of a
   pending_wr_q |-> {},                   \* at most one write per address
   queues |-> [q \in Queues |-> <<>>],
   rank_q_empty |-> [r \in Ranks |-> TRUE],
   return_queue |-> [s \in ReturnSlots |-> 0],
   write_draining |-> 0,
   exited |-> FALSE]                      \* an exit(1) was executed

(* How many transactions of a kind are accepted and not yet answered. *)
Outstanding(q, k) ==
  SumFunctionOnSet(q.return_queue, {s \in ReturnSlots : <<s[1], s[2]>> = k})
    + IF k[2] THEN 0 ELSE q.pending_rd_q[k[1]]

-----------------------------------------------------------------------------
WillAcceptTransaction(tq, is_write) ==
  CASE Config.unified_queue -> Len(tq.unified_queue) < Config.trans_queue_size
    [] ~Config.unified_queue /\ ~is_write ->
         Len(tq.read_queue) < Config.trans_queue_size
    [] ~Config.unified_queue /\ is_write ->
         Len(tq.write_buffer) < Config.trans_queue_size

(* push_back onto the queue that the transaction belongs to. *)
PushTransaction(tq, t) ==
  IF Config.unified_queue THEN [tq EXCEPT !.unified_queue = Append(@, t)]
  ELSE IF t.is_write THEN [tq EXCEPT !.write_buffer = Append(@, t)]
  ELSE [tq EXCEPT !.read_queue = Append(@, t)]

PushReturn(tq, t, count, delay) ==
  [tq EXCEPT !.return_queue[<<t.addr, t.is_write, delay>>] = @ + count]

(* Mutant: a write to a pending address is queued again. *)
AddWriteUnmerged(tq, t) ==
  PushReturn(PushTransaction([tq EXCEPT !.pending_wr_q = @ \cup {t.addr}], t), t, 1, 1)

AddWrite(tq, t) ==
  PushReturn(IF t.addr \in tq.pending_wr_q THEN tq
             ELSE PushTransaction([tq EXCEPT !.pending_wr_q = @ \cup {t.addr}], t),
             t, 1, 1)

(* Mutant: a read of a pending address is queued again. *)
AddReadUnmerged(tq, t) ==
  IF t.addr \in tq.pending_wr_q THEN PushReturn(tq, t, 1, 1)
  ELSE PushTransaction([tq EXCEPT !.pending_rd_q[t.addr] = @ + 1], t)

AddRead(tq, t) ==
  IF t.addr \in tq.pending_wr_q THEN PushReturn(tq, t, 1, 1)
  ELSE LET tq1 == [tq EXCEPT !.pending_rd_q[t.addr] = @ + 1]
       IN IF tq1.pending_rd_q[t.addr] = 1 THEN PushTransaction(tq1, t) ELSE tq1

AddTransaction(tq, t) == IF t.is_write THEN AddWrite(tq, t) ELSE AddRead(tq, t)

-----------------------------------------------------------------------------
(* Mutant: off by one. *)
WillAcceptCommandOneMore(tq, addr) ==
  Len(tq.queues[GetQueueIndex(addr)]) <= Config.cmd_queue_size

WillAcceptCommand(tq, addr) ==
  Len(tq.queues[GetQueueIndex(addr)]) < Config.cmd_queue_size

QueueEmpty(tq) == \A q \in Queues : tq.queues[q] = <<>>

AddCommand(tq, t) ==
  [tq EXCEPT !.queues[GetQueueIndex(t.addr)] = Append(@, t),
             !.rank_q_empty[Config.AddressMapping[t.addr].bank[1]] = FALSE]

(* Upper and lower threshold: a full write buffer starts a drain, and so    *)
(* does one above the threshold when no command is queued.                  *)
DrainStarts(tq) ==
  /\ tq.write_draining = 0 /\ ~Config.unified_queue
  /\ \/ Len(tq.write_buffer) >= Config.trans_queue_size
     \/ Len(tq.write_buffer) > Config.write_drain_threshold /\ QueueEmpty(tq)

(* The queue ScheduleTransaction takes from, and that queue without its     *)
(* i-th entry.                                                              *)
SourceQueue(tq) ==
  IF Config.unified_queue THEN tq.unified_queue
  ELSE IF tq.write_draining > 0 THEN tq.write_buffer ELSE tq.read_queue

EraseFromSource(tq, i) ==
  IF Config.unified_queue THEN [tq EXCEPT !.unified_queue = RemoveAt(@, i)]
  ELSE IF tq.write_draining > 0 THEN [tq EXCEPT !.write_buffer = RemoveAt(@, i)]
  ELSE [tq EXCEPT !.read_queue = RemoveAt(@, i)]

Acceptable(tq) ==
  {i \in DOMAIN SourceQueue(tq) : WillAcceptCommand(tq, SourceQueue(tq)[i].addr)}

(* Mutant: no R->W dependency check. *)
ScheduleFirstUnordered(tq, i) ==
  LET t == SourceQueue(tq)[i]
      tq1 == AddCommand(EraseFromSource(tq, i), t)
  IN IF ~Config.unified_queue /\ t.is_write
     THEN [tq1 EXCEPT !.write_draining = @ - 1] ELSE tq1

(* Mutant: every scheduled transaction counts as a drained write. *)
ScheduleFirstCountsAll(tq, i) ==
  LET t == SourceQueue(tq)[i]
  IN IF ~Config.unified_queue /\ t.is_write /\ tq.pending_rd_q[t.addr] > 0
     THEN [tq EXCEPT !.write_draining = 0]
     ELSE [AddCommand(EraseFromSource(tq, i), t) EXCEPT !.write_draining = @ - 1]

(* The loop body for the first transaction whose command queue has room. *)
ScheduleFirst(tq, i) ==
  LET t == SourceQueue(tq)[i]
      drains == ~Config.unified_queue /\ t.is_write
  IN IF drains /\ tq.pending_rd_q[t.addr] > 0    \* enforce R->W dependency
     THEN [tq EXCEPT !.write_draining = 0]
     ELSE LET tq1 == AddCommand(EraseFromSource(tq, i), t)
          IN IF drains THEN [tq1 EXCEPT !.write_draining = @ - 1] ELSE tq1

ScheduleTransaction(tq) ==
  LET tq1 == IF DrainStarts(tq)
             THEN [tq EXCEPT !.write_draining = Len(tq.write_buffer)] ELSE tq
  IN IF Acceptable(tq1) = {} THEN tq1
     ELSE ScheduleFirst(tq1, CHOOSE i \in Acceptable(tq1) :
                               \A j \in Acceptable(tq1) : i <= j)

-----------------------------------------------------------------------------
(* A read of the same row and column of the bank is queued before entry i   *)
(* (all entries of a queue are of one rank).                                *)
HasRWDependency(queue, i) ==
  \E j \in 1 .. i - 1 :
    /\ ~queue[j].is_write
    /\ Config.AddressMapping[queue[j].addr] = Config.AddressMapping[queue[i].addr]

EraseRWCommand(tq, t) ==
  LET q == GetQueueIndex(t.addr)
  IN IF \E i \in DOMAIN tq.queues[q] : tq.queues[q][i] = t
     THEN [tq EXCEPT !.queues[q] =
             RemoveAt(@, CHOOSE i \in DOMAIN @ :
                           @[i] = t /\ \A j \in 1 .. i - 1 : @[j] # t)]
     ELSE [tq EXCEPT !.exited = TRUE]

(* Mutant: an issued write stays pending. *)
CompleteRWKeepsPending(tq, t, in_pim) ==
  IF t.is_write THEN tq
  ELSE [PushReturn(tq, t, tq.pending_rd_q[t.addr], Config.read_delay)
          EXCEPT !.pending_rd_q[t.addr] = 0]

(* Mutant: of the merged reads only one is answered. *)
CompleteRWAnswersOne(tq, t, in_pim) ==
  IF t.is_write THEN [tq EXCEPT !.pending_wr_q = @ \ {t.addr}]
  ELSE [PushReturn(tq, t, 1, Config.read_delay) EXCEPT !.pending_rd_q[t.addr] = 0]

(* The R/W part of Controller::IssueCommand: all merged reads return        *)
(* together; a read or write that nobody waits for ends the process.        *)
CompleteRW(tq, t, in_pim) ==
  IF t.is_write
  THEN [tq EXCEPT !.pending_wr_q = @ \ {t.addr},
                  !.exited = @ \/ t.addr \notin tq.pending_wr_q]
  ELSE [PushReturn(tq, t, tq.pending_rd_q[t.addr], Config.read_delay)
          EXCEPT !.pending_rd_q[t.addr] = 0,
                 !.exited = @ \/ (~in_pim /\ tq.pending_rd_q[t.addr] = 0)]

(* ReturnDoneTrans until it has nothing left that is due. *)
ReturnDone(tq) ==
  [tq EXCEPT !.return_queue = [s \in ReturnSlots |-> IF s[3] = 0 THEN 0 ELSE @[s]]]

(* clk_++ as the return queue sees it. *)
ReturnAged(tq) ==
  [tq EXCEPT !.return_queue =
    [s \in ReturnSlots |->
       (IF s[3] < Config.read_delay THEN @[<<s[1], s[2], s[3] + 1>>] ELSE 0)
         + (IF s[3] = 0 THEN @[s] ELSE 0)]]
=============================================================================
