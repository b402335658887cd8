------------------------------- MODULE Timing -------------------------------
(***************************************************************************)
(* The command-to-command delays of src/src/timing.cc.  Each table maps a  *)
(* command type to the set of <<later command, delay>> it imposes on the   *)
(* banks that stand in the table's relation to the command's bank.         *)
(***************************************************************************)
EXTENDS DramCommon

read_to_read_s == MaxOf(Config.burst_cycle, Config.tCCD_S)
read_to_read_l ==
  IF Config.bankgroups = 1 THEN read_to_read_s
  ELSE MaxOf(Config.burst_cycle, Config.tCCD_L)
read_to_read_o == Config.burst_cycle + Config.tRTRS
(* Mutant: up to the start of the read data only. *)
read_to_write_start == Config.RL - Config.WL

read_to_write == Config.RL + Config.burst_cycle - Config.WL + Config.tRTRS
read_to_write_o ==
  Config.read_delay + Config.burst_cycle + Config.tRTRS - Config.write_delay
read_to_precharge == Config.AL + Config.tRTP
readp_to_act == Config.AL + Config.tRTP + Config.tRP

write_to_read_s == Config.write_delay + Config.tWTR_S
write_to_read_l ==
  IF Config.bankgroups = 1 THEN write_to_read_s
  ELSE Config.write_delay + Config.tWTR_L
write_to_read_o ==
  Config.write_delay + Config.burst_cycle + Config.tRTRS - Config.read_delay
write_to_write_s == MaxOf(Config.burst_cycle, Config.tCCD_S)
write_to_write_l ==
  IF Config.bankgroups = 1 THEN write_to_write_s
  ELSE MaxOf(Config.burst_cycle, Config.tCCD_L)
write_to_write_o == Config.burst_cycle
(* Mutant: no write recovery. *)
write_to_precharge_no_recovery == Config.WL + Config.burst_cycle

write_to_precharge == Config.WL + Config.burst_cycle + Config.tWR

(* Mutant: one cycle short. *)
precharge_to_activate_short == Config.tRP - 1

precharge_to_activate == Config.tRP
precharge_to_precharge == Config.tPPD
read_to_activate == read_to_precharge + precharge_to_activate
write_to_activate == write_to_precharge + precharge_to_activate

activate_to_activate == Config.tRC
activate_to_activate_s == Config.tRRD_S
activate_to_activate_l ==
  IF Config.bankgroups = 1 THEN Config.tRRD_S ELSE Config.tRRD_L
activate_to_precharge == Config.tRAS
(* Mutant: the write delay for reads. *)
activate_to_read_swapped == Config.tRCDWR

activate_to_read ==
  IF Config.IsGDDR \/ Config.IsHBM THEN Config.tRCDRD ELSE Config.tRCD - Config.AL
activate_to_write ==
  IF Config.IsGDDR \/ Config.IsHBM THEN Config.tRCDWR ELSE Config.tRCD - Config.AL
activate_to_refresh == Config.tRC

refresh_to_refresh == Config.tREFI
refresh_to_activate == Config.tRFC
refresh_to_activate_bank == Config.tRFCb
(* Mutants: one cycle short. *)
self_refresh_entry_to_exit_short == Config.tCKESR - 1
self_refresh_exit_short == Config.tXS - 1

self_refresh_entry_to_exit == Config.tCKESR
self_refresh_exit == Config.tXS

-----------------------------------------------------------------------------
(* The recurring groups of entries. *)
DataBus(to_read, to_write) ==
  (ReadTypes \X {to_read}) \cup (WriteTypes \X {to_write})
PimDataBus(to_read, to_readp, to_write) ==
  (LhGhReadTypes \X {to_read}) \cup (LhGhReadPrechargeTypes \X {to_readp})
    \cup (PimWriteTypes \X {to_write})
RowCommands == ActivateTypes \cup RefreshTypes \cup {"SREF_ENTER"}
AfterAutoPrecharge(to_act, to_refresh) ==
  (ActivateTypes \X {to_act})
    \cup ((RefreshTypes \cup {"SREF_ENTER"}) \X {to_refresh})

same_bank ==
  [t \in CommandType |->
    CASE t = "READ" ->
           DataBus(read_to_read_l, read_to_write)
             \cup {<<"PRECHARGE", read_to_precharge>>}
      [] t = "WRITE" ->
           DataBus(write_to_read_l, write_to_write_l)
             \cup {<<"PRECHARGE", write_to_precharge>>}
      [] t \in LhGhReadTypes ->
           PimDataBus(read_to_read_s, read_to_read_s, read_to_write)
             \cup {<<"PRECHARGE", read_to_precharge>>}
      [] t = "PIM_WRITE" ->
           PimDataBus(write_to_read_s, write_to_read_l, write_to_write_s)
             \cup {<<"PRECHARGE", write_to_precharge>>}
      [] t = "READ_PRECHARGE" \/ t \in LhGhReadPrechargeTypes ->
           AfterAutoPrecharge(readp_to_act, read_to_activate)
      [] t \in {"WRITE_PRECHARGE", "PIM_WRITE_PRECHARGE"} ->
           AfterAutoPrecharge(write_to_activate, write_to_activate)
      [] t = "ACTIVATE" ->
           (ActivateTypes \X {activate_to_activate})
             \cup DataBus(activate_to_read, activate_to_write)
             \cup {<<"PRECHARGE", activate_to_precharge>>}
      [] t = "PIM_ACTIVATE" ->
           (ActivateTypes \X {activate_to_activate})
             \cup PimDataBus(activate_to_read, activate_to_read, activate_to_write)
             \cup {<<"PRECHARGE", activate_to_precharge>>}
      [] t = "PRECHARGE" ->
           RowCommands \X {precharge_to_activate}
      [] OTHER -> {}]

(* What same-group and other-group banks share, up to the _l/_s delays. *)
OtherBanks(t, rr, ww, wr, aa) ==
  CASE t \in ReadTypes -> DataBus(rr, read_to_write)
    [] t \in WriteTypes -> DataBus(wr, ww)
    [] t = "ACTIVATE" ->
         {<<"ACTIVATE", aa>>, <<"REFRESH_BANK", activate_to_refresh>>}
    [] t = "PIM_ACTIVATE" -> {<<"REFRESH_BANK", activate_to_refresh>>}
    [] t = "PRECHARGE" /\ (Config.IsGDDR \/ Config.IsLPDDR4) ->
         {<<"PRECHARGE", precharge_to_precharge>>}
    [] t = "REFRESH_BANK" ->
         (ActivateTypes \X {refresh_to_activate})
           \cup {<<"REFRESH_BANK", refresh_to_refresh>>}
    [] OTHER -> {}

other_banks_same_bankgroup ==
  [t \in CommandType |-> OtherBanks(t, read_to_read_l, write_to_write_l,
                                    write_to_read_l, activate_to_activate_l)]

other_bankgroups_same_rank ==
  [t \in CommandType |-> OtherBanks(t, read_to_read_s, write_to_write_s,
                                    write_to_read_s, activate_to_activate_s)]

other_ranks ==
  [t \in CommandType |->
    CASE t \in ReadTypes -> DataBus(read_to_read_o, read_to_write_o)
      [] t \in WriteTypes -> DataBus(write_to_read_o, write_to_write_o)
      [] OTHER -> {}]

same_rank ==
  [t \in CommandType |->
    CASE t = "REFRESH_BANK" -> RowCommands \X {refresh_to_activate_bank}
      [] t = "REFRESH" ->
           (RowCommands \ {"REFRESH_BANK"}) \X {refresh_to_activate}
      [] t = "SREF_ENTER" -> {<<"SREF_EXIT", self_refresh_entry_to_exit>>}
      [] t = "SREF_EXIT" -> RowCommands \X {self_refresh_exit}
      [] OTHER -> {}]

-----------------------------------------------------------------------------
(* What the tables are good for: parameters that are counts of cycles, the  *)
(* calculated ones as Config::InitTimingParams calculates them, and a row   *)
(* that takes longer to close and reopen than the data bus takes to turn    *)
(* around.  All shipped .ini files have such parameters.                    *)
ASSUME DelayAssumption ==
  /\ \A p \in {Config.AL, Config.RL, Config.WL, Config.burst_cycle, Config.tCCD_L,
               Config.tCCD_S, Config.tRTRS, Config.tRTP, Config.tWTR_L,
               Config.tWTR_S, Config.tWR, Config.tRP, Config.tRRD_L,
               Config.tRRD_S, Config.tRAS, Config.tRCD, Config.tRCDRD,
               Config.tRCDWR, Config.tRC, Config.tRFC, Config.tRFCb, Config.tCKESR,
               Config.tXS, Config.tREFI, Config.tFAW, Config.t32AW, Config.tPPD} :
       p \in Nat
  /\ Config.AL <= Config.RL /\ Config.AL <= Config.WL /\ Config.AL <= Config.tRCD
  /\ Config.read_delay = Config.RL + Config.burst_cycle
  /\ Config.write_delay = Config.WL + Config.burst_cycle
  /\ Config.tRC >= activate_to_read /\ Config.tRC >= activate_to_write
  /\ readp_to_act + activate_to_read >= Config.burst_cycle
  /\ readp_to_act + activate_to_write >= Config.RL + Config.burst_cycle - Config.WL
  /\ write_to_activate + activate_to_read >= write_to_read_l
=============================================================================
