------------------------- MODULE MCControllerSystem -------------------------
(***************************************************************************)
(* Small controllers for TLC.  The timing parameters are those of          *)
(* MCChannel, scaled down to a few cycles, with a refresh period that      *)
(* leaves room for some accesses between two refreshes.                    *)
(***************************************************************************)
EXTENDS ControllerSystem

BaseConfig ==
  [ranks |-> 1, bankgroups |-> 2, banks_per_group |-> 1,
   IsGDDR |-> FALSE, IsHBM |-> TRUE, IsLPDDR4 |-> FALSE,
   AL |-> 0, RL |-> 1, WL |-> 1, burst_cycle |-> 1, read_delay |-> 2, write_delay |-> 2,
   tCCD_L |-> 1, tCCD_S |-> 1, tRTRS |-> 1, tRTP |-> 1, tWTR_L |-> 1, tWTR_S |-> 1,
   tWR |-> 1, tRP |-> 1, tRRD_L |-> 1, tRRD_S |-> 1, tRAS |-> 2, tRCD |-> 1,
   tRCDRD |-> 1, tRCDWR |-> 1, tRC |-> 3, tRFC |-> 2, tRFCb |-> 2, tCKESR |-> 2,
   tXS |-> 3, tREFI |-> 10, tREFIb |-> 5, tFAW |-> 4, t32AW |-> 0, tPPD |-> 0,
   refresh_policy |-> "RANK_LEVEL_STAGGERED", enable_self_refresh |-> FALSE,
   sref_threshold |-> 0, enable_hbm_dual_cmd |-> FALSE, row_buf_policy |-> "OPEN_PAGE",
   unified_queue |-> FALSE, queue_structure |-> "PER_BANK",
   trans_queue_size |-> 2, cmd_queue_size |-> 2, write_drain_threshold |-> 0,
   AddressMapping |-> <<>>]

(* Rows 0 and 1 of bank 0, row 0 of bank 1. *)
TwoBanks(a) ==
  CASE a = "A0" -> Address(<<0, 0, 0>>, 0, 0)
    [] a = "A1" -> Address(<<0, 0, 0>>, 1, 0)
    [] a = "B0" -> Address(<<0, 1, 0>>, 0, 0)

Reads(S) == {Transaction(a, FALSE) : a \in S}
Writes(S) == {Transaction(a, TRUE) : a \in S}
RowConflict == Reads({"A0", "A1", "B0"}) \cup Writes({"A0"})

(* A write of another bank may hold up a read that a write waits for. *)
ReadWriteConflict == Reads({"A0", "A1"}) \cup Writes({"A0", "B0"})

(* No address is both read and written. *)
Disjoint == Reads({"A0", "B0"}) \cup Writes({"A1"})

SameBank == Reads({"A0", "A1"}) \cup Writes({"A0"})

AllReads == Reads({"A0", "A1", "B0"})

ReadAndTwoWrites == Reads({"A0"}) \cup Writes({"A0", "A1"})

SplitQueues == [BaseConfig EXCEPT !.AddressMapping = [a \in Addr |-> TwoBanks(a)]]

(* Writes are only drained once the buffer is full or holds two. *)
LateDrain == [SplitQueues EXCEPT !.write_drain_threshold = 1]

(* One queue for reads and writes, one command queue per rank, two commands *)
(* per cycle.                                                               *)
UnifiedDual ==
  [SplitQueues EXCEPT !.unified_queue = TRUE, !.queue_structure = "PER_RANK",
                      !.enable_hbm_dual_cmd = TRUE, !.trans_queue_size = 1]

(* The same requests on two ranks of one bank each. *)
TwoRanks ==
  [BaseConfig EXCEPT !.ranks = 2, !.bankgroups = 1, !.tRFC = 4, !.tREFI = 12,
     !.AddressMapping = [a \in Addr |-> CASE a = "A0" -> Address(<<0, 0, 0>>, 0, 0)
                                          [] a = "A1" -> Address(<<0, 0, 0>>, 1, 0)
                                          [] a = "B0" -> Address(<<1, 0, 0>>, 0, 0)]]

Simultaneous == [TwoRanks EXCEPT !.refresh_policy = "RANK_LEVEL_SIMULTANEOUS"]

PerBankRefresh == [SplitQueues EXCEPT !.refresh_policy = "BANK_LEVEL_STAGGERED"]

SelfRefreshing == [SplitQueues EXCEPT !.enable_self_refresh = TRUE, !.sref_threshold = 3]
=============================================================================
