---------------------------- MODULE CommandQueue ----------------------------
(***************************************************************************)
(* Which queued command is issued next (src/src/command_queue.cc): round   *)
(* robin over the queues, first ready within a queue, refresh first.  The  *)
(* scheduler state is a record cq; the queues themselves are those of      *)
(* TransactionQueues.                                                      *)
(***************************************************************************)
EXTENDS TransactionQueues, ChannelState

InitCommandQueue == [queue_idx |-> 0, is_in_ref |-> FALSE, ref_q_indices |-> {}]

CommandQueueTypeOK(cq) ==
  /\ cq.queue_idx \in Queues
  /\ cq.is_in_ref \in BOOLEAN
  /\ cq.ref_q_indices \subseteq Queues

TransToCommand(t) ==
  Command(CASE Config.row_buf_policy # "CLOSE_PAGE" /\ ~t.is_write -> "READ"
            [] Config.row_buf_policy # "CLOSE_PAGE" /\ t.is_write -> "WRITE"
            [] Config.row_buf_policy = "CLOSE_PAGE" /\ ~t.is_write -> "READ_PRECHARGE"
            [] Config.row_buf_policy = "CLOSE_PAGE" /\ t.is_write -> "WRITE_PRECHARGE",
          Config.AddressMapping[t.addr], t.addr)

(* Precharge for entry i only if no earlier entry needs the bank, and no    *)
(* later one hits the open row unless that row was hit often enough.        *)
ArbitratePrecharge(ch, queue, i) ==
  LET addr(j) == Config.AddressMapping[queue[j].addr]
      b == ch.bank_states[addr(i).bank]
  IN /\ \A j \in 1 .. i - 1 : addr(j).bank # addr(i).bank
     /\ \/ \A j \in i .. Len(queue) :
             ~(addr(j).bank = addr(i).bank /\ addr(j).row = b.open_row)
        \/ b.row_hit_count >= 4

(* Mutant: no R->W dependency check. *)
ReadyEntriesUnordered(ch, queue) ==
  {i \in DOMAIN queue :
     LET cmd == GetReadyCommand(ch, TransToCommand(queue[i]))
     IN /\ IsValid(cmd)
        /\ cmd.cmd_type = "PRECHARGE" => ArbitratePrecharge(ch, queue, i)}

(* The entries GetFirstReadyInQueue does not pass over. *)
ReadyEntries(ch, queue) ==
  LET Taken(i, cmd) ==
        /\ IsValid(cmd)
        /\ cmd.cmd_type = "PRECHARGE" => ArbitratePrecharge(ch, queue, i)
        /\ cmd.cmd_type \in WriteTypes => ~HasRWDependency(queue, i)
  IN {i \in DOMAIN queue : Taken(i, GetReadyCommand(ch, TransToCommand(queue[i])))}

GetFirstReadyInQueue(ch, queue) ==
  LET FirstOf(ready) == IF ready = {} THEN NoCommand
                        ELSE GetReadyCommand(ch, TransToCommand(queue[First(ready)]))
  IN FirstOf(ReadyEntries(ch, queue))

(* Where the round robin looks k queues on from queue_idx_. *)
Visited(cq, k) == (cq.queue_idx + k) % num_queues

(* Mutant: a picked R/W command stays in its queue. *)
TakeOfferNoErase(tq, cq, offer) ==
  LET offering == {k \in DOMAIN offer : IsValid(offer[k])}
      k == First(offering)
  IN IF offering = {} THEN [tq |-> tq, cq |-> cq, cmd |-> NoCommand]
     ELSE [tq |-> tq, cq |-> [cq EXCEPT !.queue_idx = Visited(cq, k)], cmd |-> offer[k]]

(* The first valid offer is taken; a R/W command leaves its queue.          *)
TakeOffer(tq, cq, offer) ==
  LET offering == {k \in DOMAIN offer : IsValid(offer[k])}
      k == First(offering)
      t == Transaction(offer[k].hex_addr, offer[k].cmd_type \in WriteTypes)
  IN IF offering = {} THEN [tq |-> tq, cq |-> cq, cmd |-> NoCommand]
     ELSE [tq |-> IF offer[k].cmd_type \in ReadWriteTypes THEN EraseRWCommand(tq, t) ELSE tq,
           cq |-> [cq EXCEPT !.queue_idx = Visited(cq, k)],
           cmd |-> offer[k]]

(* Mutant: the queues of a refresh in progress are served too. *)
GetCommandToIssueInRefresh(tq, cq, ch) ==
  TakeOffer(tq, cq, [k \in 1 .. num_queues |->
                       GetFirstReadyInQueue(ch, tq.queues[Visited(cq, k)])])

(* The queues visited from queue_idx_ + 1 on, skipping those of a refresh   *)
(* in progress.                                                             *)
GetCommandToIssue(tq, cq, ch) ==
  TakeOffer(tq, cq, [k \in 1 .. num_queues |->
    IF cq.is_in_ref /\ Visited(cq, k) \in cq.ref_q_indices THEN NoCommand
    ELSE GetFirstReadyInQueue(ch, tq.queues[Visited(cq, k)])])

GetRefQIndices(ref) ==
  CASE ref.cmd_type = "REFRESH" /\ Config.queue_structure = "PER_BANK" ->
         {i \in Queues : i \div banks = Rank(ref)}
    [] ref.cmd_type = "REFRESH" /\ Config.queue_structure = "PER_RANK" -> {Rank(ref)}
    [] ref.cmd_type = "REFRESH_BANK" -> {QueueIndexOfBank(ref.addr.bank)}

(* Mutant: is_in_ref_ is not reset by the refresh itself. *)
FinishRefreshStaysInRef(cq, ch) ==
  LET ref == PendingRefCommand(ch)
  IN [cmd |-> GetReadyCommand(ch, ref),
      cq |-> IF cq.is_in_ref THEN cq
             ELSE [cq EXCEPT !.is_in_ref = TRUE,
                             !.ref_q_indices = @ \cup GetRefQIndices(ref)]]

(* FinishRefresh: the command cmd on the way to the refresh ref, and the    *)
(* scheduler afterwards.                                                    *)
TowardsRefresh(cq, ref, cmd) ==
  [cmd |-> cmd,
   cq |-> CASE cmd.cmd_type \in RefreshTypes ->
                 [cq EXCEPT !.is_in_ref = FALSE, !.ref_q_indices = {}]
            [] cmd.cmd_type \notin RefreshTypes /\ cq.is_in_ref -> cq
            [] cmd.cmd_type \notin RefreshTypes /\ ~cq.is_in_ref ->
                 [cq EXCEPT !.is_in_ref = TRUE, !.ref_q_indices = @ \cup GetRefQIndices(ref)]]

FinishRefresh(cq, ch) ==
  TowardsRefresh(cq, PendingRefCommand(ch), GetReadyCommand(ch, PendingRefCommand(ch)))
=============================================================================
