-------------------------- MODULE MCTransactionFlow -------------------------
(* Two addresses of one bank: merged reads, forwarded reads, a read and a   *)
(* write of one address and a full command queue all occur.  With b1, an    *)
(* address of another bank, a transaction may also overtake one whose       *)
(* command queue is full.                                                   *)
EXTENDS TransactionFlow

CONSTANTS a1, a2, b1

SplitQueues ==
  [ranks |-> 1, bankgroups |-> 2, banks_per_group |-> 1,
   trans_queue_size |-> 2, cmd_queue_size |-> 1, write_drain_threshold |-> 0,
   read_delay |-> 2, unified_queue |-> FALSE, queue_structure |-> "PER_BANK",
   AddressMapping |-> [a \in Addr |-> CASE a = a1 -> Address(<<0, 0, 0>>, 0, 0)
                                        [] a = a2 -> Address(<<0, 0, 0>>, 1, 0)
                                        [] a = b1 -> Address(<<0, 1, 0>>, 0, 0)]]

UnifiedQueue ==
  [SplitQueues EXCEPT !.unified_queue = TRUE, !.queue_structure = "PER_RANK",
                      !.trans_queue_size = 3, !.cmd_queue_size = 2]
=============================================================================
