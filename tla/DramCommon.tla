----------------------------- MODULE DramCommon -----------------------------
(***************************************************************************)
(* Command types, addresses and commands (src/src/common.h), and the       *)
(* configuration record that every component reads (configuration.h).      *)
(*                                                                         *)
(* Time.  The code stamps everything with the absolute cycle clk.  All     *)
(* modules of this development keep the remaining time max(0, stamp - clk) *)
(* instead and age it by one at the end of each cycle, so that `clk >=     *)
(* stamp' reads `remaining = 0' and the state space stays finite without   *)
(* a bound on the clock.                                                   *)
(***************************************************************************)
EXTENDS Integers, Sequences, FiniteSets

CONSTANTS Config,      \* the parsed .ini file: one field per Config member used
          Addr         \* the transaction (byte) addresses in play

ReadTypes == {"READ", "READ_PRECHARGE"}
WriteTypes == {"WRITE", "WRITE_PRECHARGE"}
LhGhReadTypes == {"LH_READ", "GH_READ"}
LhGhReadPrechargeTypes == {"LH_READ_PRECHARGE", "GH_READ_PRECHARGE"}
PimWriteTypes == {"PIM_WRITE", "PIM_WRITE_PRECHARGE"}
ActivateTypes == {"ACTIVATE", "PIM_ACTIVATE"}
RefreshTypes == {"REFRESH", "REFRESH_BANK"}          \* Command::IsRefresh
RankTypes == {"REFRESH", "SREF_ENTER", "SREF_EXIT"}  \* Command::IsRankCMD
ReadWriteTypes == ReadTypes \cup WriteTypes          \* Command::IsReadWrite
PimReadWriteTypes ==
  LhGhReadTypes \cup LhGhReadPrechargeTypes \cup PimWriteTypes

CommandType ==
  ReadWriteTypes \cup PimReadWriteTypes \cup ActivateTypes \cup RefreshTypes
    \cup RankTypes \cup {"PRECHARGE"}

Ranks == 0 .. Config.ranks - 1
Bankgroups == 0 .. Config.bankgroups - 1
BanksPerGroup == 0 .. Config.banks_per_group - 1
banks == Config.bankgroups * Config.banks_per_group
Banks == Ranks \X Bankgroups \X BanksPerGroup        \* <<rank, bankgroup, bank>>
BanksOf(rank) == {x \in Banks : x[1] = rank}

(* struct Address, its rank, bankgroup and bank kept as one key; -1 is an   *)
(* absent component.                                                       *)
Address(bank, row, column) == [bank |-> bank, row |-> row, column |-> column]
RankAddress(rank) == Address(<<rank, -1, -1>>, -1, -1)

Command(cmd_type, addr, hex_addr) ==
  [cmd_type |-> cmd_type, addr |-> addr, hex_addr |-> hex_addr]
Rank(cmd) == cmd.addr.bank[1]

(* Command(): type SIZE, the invalid command. *)
NoCommand == Command("SIZE", RankAddress(-1), -1)
IsValid(cmd) == cmd.cmd_type # "SIZE"

(* What a call yields when it runs into AbruptExit: the process ends. *)
AbruptExit == Command("ABRUPT_EXIT", RankAddress(-1), -1)

(* One cycle less to wait. *)
Aged(remaining) == IF remaining = 0 THEN 0 ELSE remaining - 1

MaxOf(a, b) == IF a >= b THEN a ELSE b

-----------------------------------------------------------------------------
(* The structural part of a configuration: at least one rank, bank group    *)
(* and bank, non-empty queues, and an address mapping into the device.      *)
ASSUME StructureAssumption ==
  /\ Config.ranks \in Nat \ {0}
  /\ Config.bankgroups \in Nat \ {0}
  /\ Config.banks_per_group \in Nat \ {0}
  /\ Config.AddressMapping \in
       [Addr -> [bank : Banks, row : Nat, column : Nat]]
=============================================================================
