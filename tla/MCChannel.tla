----------------------------- MODULE MCChannel ------------------------------
(***************************************************************************)
(* Small channels for TLC: every timing parameter is scaled down to a few  *)
(* cycles while the inequalities between them that the shipped .ini files  *)
(* have (tRC = tRAS + tRP, RL >= WL, tRFC > tRP, ...) are kept.            *)
(***************************************************************************)
EXTENDS ChannelProtocol

BaseConfig ==
  [ranks |-> 1, bankgroups |-> 2, banks_per_group |-> 1,
   IsGDDR |-> FALSE, IsHBM |-> TRUE, IsLPDDR4 |-> FALSE,
   AL |-> 0, RL |-> 2, WL |-> 1, burst_cycle |-> 1,
   read_delay |-> 3, write_delay |-> 2,
   tCCD_L |-> 2, tCCD_S |-> 1, tRTRS |-> 1, tRTP |-> 1, tWTR_L |-> 2, tWTR_S |-> 1,
   tWR |-> 1, tRP |-> 2, tRRD_L |-> 2, tRRD_S |-> 1, tRAS |-> 2, tRCD |-> 2,
   tRCDRD |-> 2, tRCDWR |-> 1, tRC |-> 4, tRFC |-> 3, tRFCb |-> 2, tCKESR |-> 2,
   tXS |-> 3, tREFI |-> 20, tREFIb |-> 10, tFAW |-> 4, t32AW |-> 0, tPPD |-> 0,
   sref_threshold |-> 3, AddressMapping |-> <<>>]

(* Two bank groups of one bank; two rows of the first bank, one of the other. *)
OneRank ==
  [BaseConfig EXCEPT !.AddressMapping =
    [a \in Addr |-> CASE a = "A0" -> Address(<<0, 0, 0>>, 0, 0)
                     [] a = "A1" -> Address(<<0, 0, 0>>, 1, 0)
                     [] a = "B0" -> Address(<<0, 1, 0>>, 0, 0)]]

(* One bank group of two banks: the _L delays are replaced by the _S ones. *)
OneBankgroup ==
  [BaseConfig EXCEPT
     !.bankgroups = 1, !.banks_per_group = 2,
     !.AddressMapping =
        [a \in Addr |-> CASE a = "A0" -> Address(<<0, 0, 0>>, 0, 0)
                         [] a = "B0" -> Address(<<0, 0, 1>>, 0, 0)]]

(* The same banks, with a second row of the first bank set aside for PIM;   *)
(* bank refreshes hold the other banks' refreshes back for tREFI.           *)
PimRows ==
  [BaseConfig EXCEPT
     !.bankgroups = 1, !.banks_per_group = 2, !.tREFI = 4,
     !.AddressMapping =
        [a \in Addr |-> CASE a = "A0" -> Address(<<0, 0, 0>>, 0, 0)
                         [] a = "A1" -> Address(<<0, 0, 0>>, 1, 0)
                         [] a = "B0" -> Address(<<0, 0, 1>>, 0, 0)]]

(* The shipped HBM2 configuration has tRCDRD + tRTP + tRP = 33 < 48 = tRC. *)
ShortReads ==
  [OneBankgroup EXCEPT !.tRCDRD = 1, !.tRP = 1, !.tRAS = 4, !.tRC = 5]

(* Two ranks of one bank each that share the data bus. *)
TwoRanks ==
  [BaseConfig EXCEPT
     !.ranks = 2, !.bankgroups = 1, !.burst_cycle = 2, !.read_delay = 4,
     !.write_delay = 3, !.tCCD_S = 2,
     !.AddressMapping =
        [a \in Addr |-> CASE a = "A0" -> Address(<<0, 0, 0>>, 0, 0)
                         [] a = "B0" -> Address(<<1, 0, 0>>, 0, 0)]]

(* Two banks cycling fast enough for five activations within tFAW. *)
ManyActivations ==
  [OneBankgroup EXCEPT !.tRAS = 1, !.tRP = 1, !.tRC = 2, !.tFAW = 7,
                       !.tRCDRD = 1, !.tWR = 0, !.tWTR_S = 0, !.RL = 1,
                       !.read_delay = 2, !.tRTRS = 0]
=============================================================================
