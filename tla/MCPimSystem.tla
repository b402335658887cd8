---------------------------- MODULE MCPimSystem -----------------------------
(***************************************************************************)
(* Small PIM systems for TLC: the array of 128 PEs a row becomes one of 4, *)
(* a bank feeds one PE, a row has 4 columns, and the timing parameters are *)
(* a few cycles.  Programs have the shape that gen_pim_trace2.py writes.   *)
(***************************************************************************)
EXTENDS PimSystem

BaseConfig ==
  [channels |-> 1, ranks |-> 1, bankgroups |-> 1, banks_per_group |-> 4,
   columns |-> 8, BL |-> 2,
   IsGDDR |-> FALSE, IsHBM |-> TRUE, IsLPDDR4 |-> FALSE,
   AL |-> 0, RL |-> 1, WL |-> 1, burst_cycle |-> 1, read_delay |-> 2, write_delay |-> 2,
   tCCD_L |-> 1, tCCD_S |-> 1, tRTRS |-> 1, tRTP |-> 1, tWTR_L |-> 1, tWTR_S |-> 1,
   tWR |-> 1, tRP |-> 1, tRRD_L |-> 1, tRRD_S |-> 1, tRAS |-> 2, tRCD |-> 1,
   tRCDRD |-> 1, tRCDWR |-> 1, tRC |-> 3, tRFC |-> 2, tRFCb |-> 2, tCKESR |-> 2,
   tXS |-> 3, tREFI |-> 20, tREFIb |-> 5, tFAW |-> 4, t32AW |-> 0, tPPD |-> 0,
   refresh_policy |-> "RANK_LEVEL_STAGGERED", enable_self_refresh |-> FALSE,
   sref_threshold |-> 0, enable_hbm_dual_cmd |-> TRUE, row_buf_policy |-> "OPEN_PAGE",
   unified_queue |-> FALSE, queue_structure |-> "PER_BANK",
   trans_queue_size |-> 2, cmd_queue_size |-> 2, write_drain_threshold |-> 0,
   AddressMapping |-> <<>>, GetChannel |-> <<>>]

SmallNpu == [row |-> 4, io |-> 1, reduce |-> <<2, 4>>, drain |-> 4]

Kernel(mcf, ucf, df, M_tile_size, M, K, N, rows) ==
  <<Dataflow(1, 1, mcf, ucf, df, M_tile_size), Workload(0, 0, M, rows[1]),
    Workload(0, 1, K, rows[2]), Workload(0, 2, N, rows[3]), Launch({0})>>

(* GEMM with two M tiles, two N tiles and two K tiles, which keeps weights  *)
(* in banks 0 and 2, inputs in bank 1 and outputs in bank 3; GEMV in bank 0 *)
(* or in banks 0 and 2.                                                     *)
Gemm(K) == Kernel(1, 1, 0, 8, 9, K, 6, <<0, 5, 5>>)
Gemv(mcf, M, K) == Kernel(mcf, 1, 1, 8, M, K, 1, <<3, 3, 0>>)

(* One address of another client. *)
WithRequest(c, bank, row, ch) ==
  [c EXCEPT !.AddressMapping = [a \in Addr |-> Address(<<0, 0, bank>>, row, 0)],
            !.GetChannel = [a \in Addr |-> ch]]

(* The request conflicts with the weights of the GEMM. *)
OneChannel == WithRequest(BaseConfig, 2, 9, 0)
InputConflict == WithRequest(BaseConfig, 1, 9, 0)   \* and this one with its inputs
TwoChannels == WithRequest([BaseConfig EXCEPT !.channels = 2], 2, 9, 0)

GemmAndGemv == {Gemm(2), Gemv(1, 12, 2)}
GemvTail == {Gemv(1, 9, 1)}       \* M is no multiple of Npu.row
LargerPrograms == {Gemm(4), Gemv(2, 12, 5)}

NoRequests == {}
Read == {Transaction(a, FALSE) : a \in Addr}
=====
