------------------------ MODULE ChannelTimingProofs -------------------------
(***************************************************************************)
(* The timing theorems about ChannelProtocol.  The code never compares two *)
(* commands: it keeps one deadline per bank and command type, raised by    *)
(* the tables of timing.cc.  The invariants below say that such a deadline *)
(* and the age of the command it stems from add up to the parameter of the *)
(* device, so that at the deadline the age is enough.                      *)
(***************************************************************************)
EXTENDS ChannelProofs

-----------------------------------------------------------------------------
(* The kinds of command, one by one. *)
LEMMA ClassFacts ==
  ASSUME NEW t \in CommandType
  PROVE  /\ ClassOf(t) \in Classes
         /\ ClassOf(t) = "ACT" <=> t = "ACTIVATE"
         /\ ClassOf(t) = "PIM_ACT" <=> t = "PIM_ACTIVATE"
         /\ ClassOf(t) = "RD" <=> t \in ReadTypes
         /\ ClassOf(t) = "WR" <=> t \in WriteTypes
         /\ ClassOf(t) = "PIM_RD" <=> t \in LhGhReadTypes \cup LhGhReadPrechargeTypes
         /\ ClassOf(t) = "PIM_WR" <=> t \in PimWriteTypes
         /\ ClassOf(t) = "PRE" <=> t = "PRECHARGE"
         /\ ClassOf(t) = "REF" <=> t = "REFRESH"
         /\ ClassOf(t) = "REFB" <=> t = "REFRESH_BANK"
         /\ ClassOf(t) = "SRE" <=> t = "SREF_ENTER"
         /\ ClassOf(t) = "SRX" <=> t = "SREF_EXIT"
         /\ t \in AutoPrechargeTypes => ClassOf(t) # "PRE"
  BY Zenon DEF ClassOf, Classes, CommandType, ReadTypes, WriteTypes, LhGhReadTypes,
         LhGhReadPrechargeTypes, PimWriteTypes, ActivateTypes, RefreshTypes,
         RankTypes, ReadWriteTypes, PimReadWriteTypes, AutoPrechargeTypes

(* What an issued command does to the ages. *)
LEMMA SinceAfter ==
  ASSUME NEW cmd, IssueStep(cmd), NEW y \in Banks, NEW c \in Classes
  PROVE  since'[y][c] =
           IF y \notin Covered(cmd) THEN since[y][c]
           ELSE IF c = ClassOf(cmd.cmd_type) THEN 0
           ELSE IF c = "PRE" /\ cmd.cmd_type \in AutoPrechargeTypes
           THEN -ToPrecharge(cmd.cmd_type) ELSE since[y][c]
<1> DEFINE p == ToPrecharge(cmd.cmd_type)
           k == ClassOf(cmd.cmd_type)
           auto == cmd.cmd_type \in AutoPrechargeTypes
           ages == [x \in Banks |->
                     IF x \notin Covered(cmd) THEN since[x]
                     ELSE [d \in Classes |->
                            CASE d = k -> 0
                              [] d = "PRE" /\ auto -> -p
                              [] OTHER -> since[x][d]]]
<1>1. since' = ages
  BY Zenon DEF IssueStep, Record
<1>2. auto => k # "PRE"
  BY ClassFacts DEF IssueStep
<1> HIDE DEF p, k, auto
<1>3. ages[y][c] = IF y \notin Covered(cmd) THEN since[y][c]
                   ELSE IF c = k THEN 0
                   ELSE IF c = "PRE" /\ auto THEN -p ELSE since[y][c]
  BY <1>2
<1> HIDE DEF ages
<1> QED BY Zenon, <1>1, <1>3 DEF p, k, auto

-----------------------------------------------------------------------------
(* What is left to wait until bank x may see a command of type t, and the   *)
(* time since bank y saw one of class c, make at least d.                   *)
Guard(x, t, y, c, d) == Wait(x, t) + since[y][c] >= d

(* A guard survives a cycle, as long as ages are told apart up to d. *)
LEMMA GuardTick ==
  ASSUME Types, Tick, NEW x \in Banks, NEW y \in Banks, NEW t \in CommandType,
         NEW c \in Classes, NEW d \in Int, d <= Horizon, Guard(x, t, y, c, d)
  PROVE  Guard(x, t, y, c, d)'
<1>1. Wait(x, t)' = Aged(Wait(x, t)) /\ Wait(x, t) \in Nat
  <2>1. chan.bank_states[x].cmd_timing \in [CommandType -> Nat]
    BY DEF Types, Channel, Bank
  <2> QED BY <2>1, TickEffect DEF Wait
<1>2. since'[y][c] = Older(since[y][c]) /\ since[y][c] \in Int /\ since[y][c] <= Horizon
  BY DEF Tick, Types
<1>3. Horizon \in Nat
  BY HorizonAssumption
<1>4. Guard(x, t, y, c, d)' <=> Wait(x, t)' + since'[y][c] >= d
  BY DEF Guard, Wait
<1> QED BY <1>1, <1>2, <1>3, <1>4 DEF Guard, Aged, Older

(* A guard survives an issued command that leaves the age alone or whose    *)
(* timing list makes up for it.                                             *)
LEMMA GuardIssue ==
  ASSUME Types, Sound, NEW cmd, IssueStep(cmd),
         NEW x \in Banks, NEW y \in Banks, NEW t \in CommandType,
         NEW c \in Classes, NEW d \in Int,
         \/ Guard(x, t, y, c, d) /\ since'[y][c] >= since[y][c]
         \/ \E n \in Int : <<t, n>> \in TimingList(cmd, x) /\ n + since'[y][c] >= d
  PROVE  Guard(x, t, y, c, d)'
<1>0. Guard(x, t, y, c, d)' <=> Wait(x, t)' + since'[y][c] >= d
  BY DEF Guard, Wait
<1>1. Wait(x, t) \in Nat /\ Wait(x, t)' \in Nat
  <2>1. chan.bank_states[x].cmd_timing \in [CommandType -> Nat]
    BY DEF Types, Channel, Bank
  <2>2. chan' \in Channel
    BY Zenon, IssueEffect
  <2>3. chan'.bank_states[x].cmd_timing \in [CommandType -> Nat]
    BY <2>2 DEF Channel, Bank
  <2> QED BY <2>1, <2>3 DEF Wait
<1>2. since[y][c] \in Int /\ since'[y][c] \in Int
  <2>1. Types'
    BY Zenon, IssueTypes
  <2> QED BY <2>1 DEF Types
<1>3. Wait(x, t)' >= Wait(x, t)
  BY Zenon, IssueEffect
<1>4. CASE Guard(x, t, y, c, d) /\ since'[y][c] >= since[y][c]
  BY <1>0, <1>1, <1>2, <1>3, <1>4 DEF Guard
<1>5. ASSUME NEW n \in Int, <<t, n>> \in TimingList(cmd, x), n + since'[y][c] >= d
      PROVE  Guard(x, t, y, c, d)'
  <2> DEFINE p == <<t, n>>
  <2>1. Wait(x, p[1])' >= p[2]
    BY Zenon, <1>5, IssueEffect
  <2>2. Wait(x, t)' >= n
    BY <2>1 DEF Wait
  <2> QED BY <1>0, <1>1, <1>2, <1>5, <2>2
<1> QED BY Zenon, <1>4, <1>5


-----------------------------------------------------------------------------
(* The delays that the tables keep without regard to the state of a bank:   *)
(* <<later type, earlier class, cycles>>, for a bank itself and for two     *)
(* banks of a rank.                                                         *)
OwnDelays ==
  (RowCommands \X {"PRE"} \X {Config.tRP})
    \cup (ActivateTypes \X {"ACT", "PIM_ACT"} \X {Config.tRC})
    \cup ((RowCommands \ {"REFRESH_BANK"}) \X {"REF"} \X {Config.tRFC})
    \cup (RowCommands \X {"SRX"} \X {Config.tXS})
    \cup ({"PRECHARGE"} \X {"ACT", "PIM_ACT"} \X {Config.tRAS})
    \cup ({"SREF_EXIT"} \X {"SRE"} \X {Config.tCKESR})
    \cup (ReadTypes \X {"ACT"} \X {activate_to_read})
    \cup (WriteTypes \X {"ACT"} \X {activate_to_write})
    \cup ((LhGhReadTypes \cup LhGhReadPrechargeTypes) \X {"PIM_ACT"} \X {activate_to_read})
    \cup (PimWriteTypes \X {"PIM_ACT"} \X {activate_to_write})

RRD(x, y) ==
  IF x[2] = y[2] /\ Config.bankgroups > 1 THEN Config.tRRD_L ELSE Config.tRRD_S
WTR(x, y) ==
  Config.WL + Config.burst_cycle +
    IF x[2] = y[2] /\ Config.bankgroups > 1 THEN Config.tWTR_L ELSE Config.tWTR_S

RankDelays(x, y) ==
  {<<"ACTIVATE", "ACT", RRD(x, y)>>, <<"SREF_EXIT", "SRE", Config.tCKESR>>}
    \cup (ReadTypes \X {"WR"} \X {WTR(x, y)})

Delays(x, y) ==
  IF x = y THEN OwnDelays ELSE IF x[1] = y[1] THEN RankDelays(x, y) ELSE {}

Timely ==
  \A x \in Banks, y \in Banks :
    \A q \in Delays(x, y) : Guard(x, q[1], y, q[2], q[3])

(* The delays are told apart by the ages. *)
LEMMA DelaysTyped ==
  ASSUME NEW x \in Banks, NEW y \in Banks, NEW q \in Delays(x, y)
  PROVE  q[1] \in CommandType /\ q[2] \in Classes /\ q[3] \in Int /\ q[3] <= Horizon
<1> USE DEF CommandType, ReadTypes, WriteTypes, LhGhReadTypes, Classes,
        LhGhReadPrechargeTypes, PimWriteTypes, ActivateTypes, RefreshTypes,
        RankTypes, ReadWriteTypes, PimReadWriteTypes, RowCommands
<1>0. activate_to_read \in Int /\ activate_to_write \in Int
  BY DelaysAreIntegers
<1>1. CASE q \in OwnDelays
  BY <1>0, <1>1, HorizonAssumption, DelayAssumption DEF OwnDelays
<1>2. CASE q \in RankDelays(x, y)
  BY <1>0, <1>2, HorizonAssumption, DelayAssumption DEF RankDelays, RRD, WTR
<1> QED BY <1>1, <1>2 DEF Delays

(* The list of a command for a bank that it covers. *)
OwnList(t) == IF t \in RankTypes THEN same_rank[t] ELSE same_bank[t]

(* The tables contain the delays of a bank to itself, and after an          *)
(* auto-precharge the time until that precharge on top.                     *)
LEMMA OwnTables ==
  ASSUME NEW t \in CommandType, NEW q \in OwnDelays
  PROVE  /\ q[2] = ClassOf(t) => <<q[1], q[3]>> \in OwnList(t)
         /\ q[2] = "PRE" /\ t \in AutoPrechargeTypes =>
              <<q[1], q[3] + ToPrecharge(t)>> \in OwnList(t)
<1> USE DEF ReadTypes, WriteTypes, LhGhReadTypes, LhGhReadPrechargeTypes,
        PimWriteTypes, ActivateTypes, RefreshTypes, RankTypes, RowCommands
<1>1. ASSUME q[2] = ClassOf(t)
      PROVE  <<q[1], q[3]>> \in OwnList(t)
  <2>1. CASE t = "ACTIVATE"
    <3>1. ClassOf(t) = "ACT"
      BY <2>1, ClassFacts
    <3>2. OwnList(t) = (ActivateTypes \X {Config.tRC})
                         \cup DataBus(activate_to_read, activate_to_write)
                         \cup {<<"PRECHARGE", Config.tRAS>>}
      BY <2>1, SameBankLists DEF OwnList, activate_to_activate, activate_to_precharge
    <3> QED BY <1>1, <3>1, <3>2 DEF OwnDelays, DataBus
  <2>2. CASE t = "PIM_ACTIVATE"
    <3>1. ClassOf(t) = "PIM_ACT"
      BY <2>2, ClassFacts
    <3>2. OwnList(t) = (ActivateTypes \X {Config.tRC})
                         \cup PimDataBus(activate_to_read, activate_to_read,
                                         activate_to_write)
                         \cup {<<"PRECHARGE", Config.tRAS>>}
      BY <2>2, SameBankLists DEF OwnList, activate_to_activate, activate_to_precharge
    <3> QED BY <1>1, <3>1, <3>2 DEF OwnDelays, PimDataBus
  <2>3. CASE t = "PRECHARGE"
    <3>1. ClassOf(t) = "PRE"
      BY <2>3, ClassFacts
    <3>2. OwnList(t) = RowCommands \X {Config.tRP}
      BY <2>3, SameBankLists DEF OwnList, precharge_to_activate
    <3> QED BY <1>1, <3>1, <3>2 DEF OwnDelays
  <2>4. CASE t = "REFRESH"
    <3>1. ClassOf(t) = "REF"
      BY <2>4, ClassFacts
    <3>2. OwnList(t) = (RowCommands \ {"REFRESH_BANK"}) \X {Config.tRFC}
      BY <2>4, RankLists DEF OwnList, refresh_to_activate
    <3> QED BY <1>1, <3>1, <3>2 DEF OwnDelays
  <2>5. CASE t = "SREF_ENTER"
    <3>1. ClassOf(t) = "SRE"
      BY <2>5, ClassFacts
    <3>2. OwnList(t) = {<<"SREF_EXIT", Config.tCKESR>>}
      BY <2>5, RankLists DEF OwnList, self_refresh_entry_to_exit
    <3> QED BY <1>1, <3>1, <3>2 DEF OwnDelays
  <2>6. CASE t = "SREF_EXIT"
    <3>1. ClassOf(t) = "SRX"
      BY <2>6, ClassFacts
    <3>2. OwnList(t) = RowCommands \X {Config.tXS}
      BY <2>6, RankLists DEF OwnList, self_refresh_exit
    <3> QED BY <1>1, <3>1, <3>2 DEF OwnDelays
  <2>7. CASE t \notin ActivateTypes \cup RankTypes \cup {"PRECHARGE"}
    BY <1>1, <2>7, ClassFacts DEF OwnDelays
  <2> QED BY <2>1, <2>2, <2>3, <2>4, <2>5, <2>6, <2>7
<1>2. ASSUME q[2] = "PRE", t \in AutoPrechargeTypes
      PROVE  <<q[1], q[3] + ToPrecharge(t)>> \in OwnList(t)
  <2>1. q[1] \in RowCommands /\ q[3] = Config.tRP
    BY <1>2 DEF OwnDelays
  <2>2. ClassOf(t) \in {"RD", "PIM_RD"} <=> t \in {"READ_PRECHARGE"} \cup LhGhReadPrechargeTypes
    BY <1>2, ClassFacts DEF AutoPrechargeTypes
  <2>3. CASE t \in {"READ_PRECHARGE"} \cup LhGhReadPrechargeTypes
    <3>1. OwnList(t) = AfterAutoPrecharge(readp_to_act, read_to_activate)
      BY <2>3, SameBankLists DEF OwnList
    <3>2. ToPrecharge(t) = Config.AL + Config.tRTP
      BY <2>2, <2>3 DEF ToPrecharge
    <3>3. readp_to_act = q[3] + ToPrecharge(t) /\ read_to_activate = q[3] + ToPrecharge(t)
      BY <2>1, <3>2, DelayAssumption
      DEF readp_to_act, read_to_activate, read_to_precharge, precharge_to_activate
    <3> QED BY <2>1, <3>1, <3>3 DEF AfterAutoPrecharge
  <2>4. CASE t \in {"WRITE_PRECHARGE", "PIM_WRITE_PRECHARGE"}
    <3>1. OwnList(t) = AfterAutoPrecharge(write_to_activate, write_to_activate)
      BY <2>4, SameBankLists DEF OwnList
    <3>2. ToPrecharge(t) = Config.WL + Config.burst_cycle + Config.tWR
      BY <2>2, <2>4 DEF ToPrecharge
    <3>3. write_to_activate = q[3] + ToPrecharge(t)
      BY <2>1, <3>2, DelayAssumption
      DEF write_to_activate, write_to_precharge, precharge_to_activate
    <3> QED BY <2>1, <3>1, <3>3 DEF AfterAutoPrecharge
  <2> QED BY <1>2, <2>3, <2>4 DEF AutoPrechargeTypes
<1> QED BY <1>1, <1>2

(* The tables contain the delays between two banks of a rank. *)
LEMMA RankTables ==
  ASSUME Types, Sound, NEW cmd, Legal(cmd), cmd.cmd_type \in CommandType,
         NEW x \in Banks, NEW y \in Covered(cmd), x # y, x[1] = y[1],
         NEW q \in RankDelays(x, y), q[2] = ClassOf(cmd.cmd_type)
  PROVE  <<q[1], q[3]>> \in TimingList(cmd, x)
<1> DEFINE t == cmd.cmd_type
<1>1. t = "ACTIVATE" \/ t = "SREF_ENTER" \/ t \in WriteTypes
  BY ClassFacts DEF RankDelays
<1>2. CASE t = "SREF_ENTER"
  <2>1. x[1] = cmd.addr.bank[1]
    BY <1>2, LegalKinds DEF BanksOf, Rank, RankTypes
  <2>2. TimingList(cmd, x) = {<<"SREF_EXIT", self_refresh_entry_to_exit>>}
    BY <1>2, <2>1, TimingListCases, RankLists DEF RankTypes
  <2>3. q = <<"SREF_EXIT", "SRE", Config.tCKESR>>
    BY <1>2, ClassFacts DEF RankDelays
  <2> QED BY <2>2, <2>3 DEF self_refresh_entry_to_exit
<1>3. CASE t = "ACTIVATE" \/ t \in WriteTypes
  <2>0. t \notin RankTypes
    BY <1>3 DEF WriteTypes, RankTypes
  <2>1. y = cmd.addr.bank
    BY <2>0, LegalKinds
  <2>2. /\ x[2] = y[2] => TimingList(cmd, x) = other_banks_same_bankgroup[t]
        /\ x[2] # y[2] => TimingList(cmd, x) = other_bankgroups_same_rank[t]
    <3>1. /\ x[2] = y[2] => TimingList(cmd, x) =
               OtherBanks(t, read_to_read_l, write_to_write_l, write_to_read_l,
                          activate_to_activate_l)
          /\ x[2] # y[2] => TimingList(cmd, x) =
               OtherBanks(t, read_to_read_s, write_to_write_s, write_to_read_s,
                          activate_to_activate_s)
      BY Zenon, <2>0, <2>1, TimingListCases
    <3> QED BY <3>1 DEF other_banks_same_bankgroup, other_bankgroups_same_rank
  <2>3. Config.bankgroups \in Nat /\ Config.bankgroups >= 1
    BY StructureAssumption
  <2>4. CASE t = "ACTIVATE"
    <3>1. q = <<"ACTIVATE", "ACT", RRD(x, y)>>
      BY <2>4, ClassFacts DEF RankDelays, ReadTypes
    <3>2. /\ other_banks_same_bankgroup[t] =
               {<<"ACTIVATE", activate_to_activate_l>>, <<"REFRESH_BANK", activate_to_refresh>>}
          /\ other_bankgroups_same_rank[t] =
               {<<"ACTIVATE", activate_to_activate_s>>, <<"REFRESH_BANK", activate_to_refresh>>}
      BY <2>4, OtherBanksLists DEF other_banks_same_bankgroup, other_bankgroups_same_rank
    <3>3. /\ x[2] = y[2] => RRD(x, y) = activate_to_activate_l
          /\ x[2] # y[2] => RRD(x, y) = activate_to_activate_s
      BY <2>3 DEF RRD, activate_to_activate_l, activate_to_activate_s
    <3> QED BY <2>2, <3>1, <3>2, <3>3
  <2>5. CASE t \in WriteTypes
    <3>1. q[1] \in ReadTypes /\ q[3] = WTR(x, y)
      BY <2>5, ClassFacts DEF RankDelays, WriteTypes
    <3>2. /\ other_banks_same_bankgroup[t] = DataBus(write_to_read_l, write_to_write_l)
          /\ other_bankgroups_same_rank[t] = DataBus(write_to_read_s, write_to_write_s)
      BY <2>5, OtherBanksLists DEF other_banks_same_bankgroup, other_bankgroups_same_rank
    <3>3. /\ x[2] = y[2] => WTR(x, y) = write_to_read_l
          /\ x[2] # y[2] => WTR(x, y) = write_to_read_s
      BY <2>3, DelayAssumption DEF WTR, write_to_read_l, write_to_read_s
    <3>4. \A wr, ww : <<q[1], wr>> \in DataBus(wr, ww)
      BY <3>1 DEF DataBus
    <3> QED BY <2>2, <3>1, <3>2, <3>3, <3>4
  <2> QED BY <1>3, <2>4, <2>5
<1> QED BY <1>1, <1>2, <1>3


(* The deadlines stay late enough.  This is the whole argument for the      *)
(* tables of timing.cc whose delays do not depend on an auto-precharge.     *)
LEMMA TimelyStep ==
  ASSUME Types, Sound, Timely, [Next]_vars
  PROVE  Timely'
<1>0. SUFFICES ASSUME NEW x \in Banks, NEW y \in Banks, NEW q \in Delays(x, y)
               PROVE  Guard(x, q[1], y, q[2], q[3])'
  <2>1. \A x, y : \A q : Guard(x, q[1], y, q[2], q[3])' <=>
          Wait(x, q[1])' + since'[y][q[2]] >= q[3]
    BY DEF Guard, Wait
  <2>2. Timely' <=> \A x \in Banks, y \in Banks : \A q \in Delays(x, y) :
                      Wait(x, q[1])' + since'[y][q[2]] >= q[3]
    BY Zenon DEF Timely, Guard
  <2> QED BY Zenon, <2>1, <2>2
<1> DEFINE t == q[1]
           c == q[2]
           d == q[3]
<1>1. t \in CommandType /\ c \in Classes /\ d \in Int /\ d <= Horizon
  BY DelaysTyped
<1>2. Guard(x, t, y, c, d)
  BY Zenon DEF Timely
<1>3. CASE Tick
  BY Zenon, <1>1, <1>2, <1>3, GuardTick
<1>4. CASE NeedRefresh
  <2>1. chan'.bank_states = chan.bank_states /\ since' = since
    BY Zenon, <1>4, NeedRefreshEffect DEF NeedRefresh
  <2> QED BY <1>2, <2>1 DEF Guard, Wait
<1>5. CASE UNCHANGED vars
  BY <1>2, <1>5 DEF vars, Guard, Wait
<1>6. ASSUME NEW cmd, IssueStep(cmd)
      PROVE  Guard(x, t, y, c, d)'
  <2> DEFINE u == cmd.cmd_type
             s == since[y][c]
             s1 == since'[y][c]
  <2>0. u \in CommandType /\ Legal(cmd)
    BY <1>6 DEF IssueStep
  <2>1. s1 = IF y \notin Covered(cmd) THEN s
             ELSE IF c = ClassOf(u) THEN 0
             ELSE IF c = "PRE" /\ u \in AutoPrechargeTypes
             THEN -ToPrecharge(u) ELSE s
    BY <1>1, <1>6, SinceAfter
  <2>2. s \in Int
    BY <1>1 DEF Types
  <2>3. ToPrecharge(u) \in Int
    BY DelayAssumption DEF ToPrecharge
  <2> HIDE DEF s
  <2>4. CASE y \in Covered(cmd) /\ c = ClassOf(u)
    <3>1. s1 = 0
      BY <2>1, <2>4
    <3>2. <<t, d>> \in TimingList(cmd, x)
      <4>1. CASE x = y
        <5>1. TimingList(cmd, x) = OwnList(u)
          BY <4>1, <2>0, <2>4, LegalKinds, TimingListCases DEF OwnList, Rank, BanksOf
        <5>2. q \in OwnDelays
          BY <4>1 DEF Delays
        <5> QED BY Zenon, <5>1, <5>2, <2>0, <2>4, OwnTables
      <4>2. CASE x # y
        <5>1. x[1] = y[1] /\ q \in RankDelays(x, y)
          BY <4>2 DEF Delays
        <5> QED BY <4>2, <5>1, <2>0, <2>4, RankTables
      <4> QED BY <4>1, <4>2
    <3>3. \E n \in Int : <<t, n>> \in TimingList(cmd, x) /\ n + since'[y][c] >= d
      BY <1>1, <3>1, <3>2
    <3> QED BY Zenon, <1>1, <1>6, <3>3, GuardIssue
  <2>5. CASE y \in Covered(cmd) /\ c # ClassOf(u) /\ c = "PRE" /\ u \in AutoPrechargeTypes
    <3>1. s1 = -ToPrecharge(u)
      BY <2>1, <2>5
    <3>2. x = y /\ q \in OwnDelays
      BY <2>5 DEF Delays, RankDelays
    <3>3. TimingList(cmd, x) = OwnList(u)
      BY <3>2, <2>0, <2>5, LegalKinds, TimingListCases DEF OwnList, Rank, BanksOf
    <3>4. <<t, d + ToPrecharge(u)>> \in TimingList(cmd, x)
      BY Zenon, <3>2, <3>3, <2>0, <2>5, OwnTables
    <3>5. \E n \in Int : <<t, n>> \in TimingList(cmd, x) /\ n + since'[y][c] >= d
      <4>1. d + ToPrecharge(u) \in Int /\ (d + ToPrecharge(u)) + s1 >= d
        BY <1>1, <2>3, <3>1
      <4> QED BY <3>4, <4>1
    <3> QED BY Zenon, <1>1, <1>6, <3>5, GuardIssue
  <2>6. CASE s1 = s
    <3>1. since'[y][c] >= since[y][c]
      BY <2>2, <2>6 DEF s
    <3> QED BY Zenon, <1>1, <1>2, <1>6, <3>1, GuardIssue
  <2> QED BY <2>1, <2>4, <2>5, <2>6
<1> QED BY Zenon, <1>3, <1>4, <1>5, <1>6, StepKinds


-----------------------------------------------------------------------------
(* The row open in bank x was opened for ordinary, or for PIM, accesses. *)
OrdinaryOpen(x) == StateOf(x) = "OPEN" /\ OrdinaryRow(x, RowOf(x))
PimOpen(x) == StateOf(x) = "OPEN" /\ PimRow(x, RowOf(x))

(* The rows of the two kinds of access are not the same. *)
LEMMA RowsApart ==
  ASSUME NEW x, NEW row
  PROVE  ~(OrdinaryRow(x, row) /\ PimRow(x, row))
  BY Zenon, ClientAssumption DEF OrdinaryRow, PimRow

(* Where an open row comes from, and what a command finds at its bank. *)
LEMMA OpenMoves ==
  ASSUME Types, Sound, NEW cmd, IssueStep(cmd), NEW x \in Banks
  PROVE  LET t == cmd.cmd_type
             here == x \in Covered(cmd)
         IN /\ OrdinaryOpen(x)' => \/ OrdinaryOpen(x) /\ ~(here /\ t \in ActivateTypes)
                                   \/ here /\ t = "ACTIVATE"
            /\ PimOpen(x)' => \/ PimOpen(x) /\ ~(here /\ t \in ActivateTypes)
                              \/ here /\ t = "PIM_ACTIVATE"
            /\ StateOf(x)' = "OPEN" => StateOf(x) = "OPEN" \/ (here /\ t \in ActivateTypes)
            /\ here /\ t \in AutoPrechargeTypes \cup {"PRECHARGE"} => StateOf(x)' # "OPEN"
            /\ here /\ t \in ActivateTypes => Wait(x, t) = 0
            /\ here /\ t \in ReadWriteTypes => OrdinaryOpen(x) /\ Wait(x, t) = 0
<1> DEFINE t == cmd.cmd_type
           b == cmd.addr.bank
<1>0. t \in CommandType /\ Legal(cmd)
  BY DEF IssueStep
<1>1. /\ OrdinaryOpen(x)' <=> StateOf(x)' = "OPEN" /\ OrdinaryRow(x, RowOf(x)')
      /\ PimOpen(x)' <=> StateOf(x)' = "OPEN" /\ PimRow(x, RowOf(x)')
  BY DEF OrdinaryOpen, PimOpen, OrdinaryRow, PimRow
<1>2. CASE x \notin Covered(cmd)
  <2>1. StateOf(x)' = StateOf(x) /\ RowOf(x)' = RowOf(x)
    BY Zenon, <1>2, IssueEffect
  <2> QED BY Zenon, <1>1, <1>2, <2>1 DEF OrdinaryOpen, PimOpen
<1>3. CASE x \in Covered(cmd)
  <2> DEFINE c == BankUpdateState(chan.bank_states[x], cmd)
  <2>1. StateOf(x)' = c.state /\ RowOf(x)' = c.open_row
    BY Zenon, <1>3, IssueEffect
  <2>2. /\ t \in ReadWriteTypes \cup PimReadWriteTypes /\ t \notin AutoPrechargeTypes =>
             StateOf(x) = "OPEN" /\ c.state = "OPEN" /\ c.open_row = RowOf(x)
        /\ t \in AutoPrechargeTypes \cup {"PRECHARGE"} =>
             StateOf(x) = "OPEN" /\ c.state = "CLOSED"
        /\ t \in RefreshTypes => StateOf(x) = "CLOSED" /\ c.state = "CLOSED"
        /\ t \in ActivateTypes =>
             StateOf(x) = "CLOSED" /\ c.state = "OPEN" /\ c.open_row = cmd.addr.row
        /\ t = "SREF_ENTER" => StateOf(x) = "CLOSED" /\ c.state = "SREF"
        /\ t = "SREF_EXIT" => StateOf(x) = "SREF" /\ c.state = "CLOSED"
    BY Zenon, <1>3, <1>0, CoveredBanksMove
  <2> HIDE DEF c
  <2>3. CASE t \in ActivateTypes
    <3>1. b = x
      BY <2>3, <1>3, <1>0, LegalKinds, MoveKinds
    <3>2. /\ t = "ACTIVATE" => OrdinaryRow(x, cmd.addr.row) /\ Wait(x, t) = 0
          /\ t = "PIM_ACTIVATE" => PimRow(x, cmd.addr.row) /\ Wait(x, t) = 0
      BY <2>3, <3>1, <1>0
      DEF Legal, ActivateTypes, ReadWriteTypes, PimReadWriteTypes, ReadTypes, WriteTypes,
          LhGhReadTypes, LhGhReadPrechargeTypes, PimWriteTypes
    <3>3. t \notin ReadWriteTypes /\ t \notin AutoPrechargeTypes \cup {"PRECHARGE"}
      BY <2>3, MoveKinds
    <3>4. t = "ACTIVATE" \/ t = "PIM_ACTIVATE"
      BY <2>3 DEF ActivateTypes
    <3>5. StateOf(x)' = "OPEN" /\ RowOf(x)' = cmd.addr.row
      BY Zenon, <2>1, <2>2, <2>3
    <3> QED BY Zenon, <1>1, <1>3, <2>3, <3>2, <3>3, <3>4, <3>5, RowsApart
  <2>4. CASE t \in ReadWriteTypes \cup PimReadWriteTypes
    <3>1. b = x
      BY <2>4, <1>3, <1>0, LegalKinds, MoveKinds
    <3>2. t \in ReadWriteTypes => OrdinaryOpen(x) /\ Wait(x, t) = 0
      BY <2>4, <3>1, <1>0
      DEF Legal, OrdinaryOpen, ReadWriteTypes, PimReadWriteTypes, ReadTypes, WriteTypes,
          LhGhReadTypes, LhGhReadPrechargeTypes, PimWriteTypes
    <3>3. t \notin ActivateTypes
      BY <2>4, MoveKinds
    <3>4. StateOf(x) = "OPEN" /\ (StateOf(x)' = "OPEN" => RowOf(x)' = RowOf(x))
      BY <2>1, <2>2, <2>4
    <3>5. t \in AutoPrechargeTypes \cup {"PRECHARGE"} => StateOf(x)' # "OPEN"
      BY <2>1, <2>2
    <3> QED BY Zenon, <1>1, <1>3, <3>2, <3>3, <3>4, <3>5 DEF OrdinaryOpen, PimOpen
  <2>5. CASE t \notin ActivateTypes \cup ReadWriteTypes \cup PimReadWriteTypes
    <3>1. StateOf(x)' # "OPEN"
      BY <2>5, <2>1, <2>2, <1>0 DEF CommandType, RankTypes, RefreshTypes
    <3> QED BY Zenon, <1>1, <2>5, <3>1
  <2> QED BY <2>3, <2>4, <2>5
<1> QED BY <1>2, <1>3


-----------------------------------------------------------------------------
(* The delays that depend on what happened in between.  A bank that is open *)
(* for one kind of access saw the last activation of the other kind a row   *)
(* cycle ago, and no rank is refreshed under the bank policy.               *)
Opened ==
  \A x \in Banks :
    /\ OrdinaryOpen(x) => since[x]["PIM_ACT"] >= Config.tRC
    /\ PimOpen(x) => since[x]["ACT"] >= Config.tRC
    /\ "REFRESH" \notin RequestTypes => since[x]["REF"] >= Config.tRFC

(* A precharge keeps its distance to the column commands before it; after   *)
(* an auto-precharge the next activation does.                              *)
Recovery(x, c, d) ==
  \/ Guard(x, "PRECHARGE", x, c, d)
  \/ StateOf(x) # "OPEN" /\ \A t \in ActivateTypes : Guard(x, t, x, c, d)

ToClose == ({"RD", "PIM_RD"} \X {Config.AL + Config.tRTP})
             \cup ({"WR", "PIM_WR"} \X {Config.WL + Config.burst_cycle + Config.tWR})

Recovered == \A x \in Banks : \A q \in ToClose : Recovery(x, q[1], q[2])

(* A read keeps its distance to a write of its bank; after a write with     *)
(* auto-precharge the activation in between does.                           *)
Turnaround(x, t) ==
  \/ Guard(x, t, x, "WR", WTR(x, x))
  \/ ~OrdinaryOpen(x) /\ Guard(x, "ACTIVATE", x, "WR", WTR(x, x) - activate_to_read)

Turned == \A x \in Banks : \A t \in ReadTypes : Turnaround(x, t)

(* Ages only grow, except for the banks and classes of an issued command. *)
LEMMA AgesGrow ==
  ASSUME Types, Sound, [Next]_vars, NEW x \in Banks, NEW c \in Classes,
         NEW d \in Int, since[x][c] >= d, d <= Horizon, c # "PRE",
         \A cmd : IssueStep(cmd) /\ x \in Covered(cmd) => ClassOf(cmd.cmd_type) # c
  PROVE  since'[x][c] >= d
<1>0. since[x][c] \in Int /\ Horizon \in Nat
  BY HorizonAssumption DEF Types
<1>1. CASE Tick
  BY <1>0, <1>1 DEF Tick, Older
<1>2. CASE NeedRefresh \/ UNCHANGED vars
  BY Zenon, <1>0, <1>2 DEF NeedRefresh, vars
<1>3. CASE \E cmd : IssueStep(cmd)
  <2>1. PICK cmd : IssueStep(cmd)
    BY <1>3
  <2>2. since'[x][c] = since[x][c]
    BY <2>1, SinceAfter
  <2> QED BY <2>2
<1> QED BY Zenon, <1>1, <1>2, <1>3, StepKinds

(* Steps that issue nothing leave states and rows alone. *)
LEMMA QuietStep ==
  ASSUME Types, Sound, [Next]_vars
  PROVE  \/ \E cmd : IssueStep(cmd)
         \/ /\ \A x \in Banks : StateOf(x)' = StateOf(x) /\ RowOf(x)' = RowOf(x)
            /\ \/ Tick
               \/ chan'.bank_states = chan.bank_states /\ since' = since /\ bus' = bus
<1>1. CASE Tick
  BY Zenon, <1>1, TickEffect
<1>2. CASE NeedRefresh
  <2>1. chan'.bank_states = chan.bank_states /\ since' = since /\ bus' = bus
    BY Zenon, <1>2, NeedRefreshEffect DEF NeedRefresh
  <2> QED BY <2>1 DEF StateOf, RowOf
<1>3. CASE UNCHANGED vars
  BY <1>3 DEF vars, StateOf, RowOf
<1> QED BY Zenon, <1>1, <1>2, <1>3, StepKinds

(* An activation of one kind comes a row cycle after one of the other kind, *)
(* and no command in between lets the age of either drop.                   *)
LEMMA OpenedStep ==
  ASSUME Types, Sound, Timely, Opened, [Next]_vars
  PROVE  Opened'
<1>0. SUFFICES ASSUME NEW x \in Banks
               PROVE  /\ OrdinaryOpen(x)' => since'[x]["PIM_ACT"] >= Config.tRC
                      /\ PimOpen(x)' => since'[x]["ACT"] >= Config.tRC
                      /\ "REFRESH" \notin RequestTypes => since'[x]["REF"] >= Config.tRFC
  BY Zenon DEF Opened
<1>1. /\ Config.tRC \in Int /\ Config.tRC <= Horizon
      /\ Config.tRFC \in Int /\ Config.tRFC <= Horizon
      /\ "ACT" \in Classes /\ "PIM_ACT" \in Classes /\ "REF" \in Classes
  BY DelayAssumption, HorizonAssumption DEF Classes
<1>2. \A cmd : IssueStep(cmd) => cmd.cmd_type \in CommandType /\ Legal(cmd)
  BY DEF IssueStep
<1>3. \A cmd : IssueStep(cmd) =>
        /\ ClassOf(cmd.cmd_type) = "ACT" <=> cmd.cmd_type = "ACTIVATE"
        /\ ClassOf(cmd.cmd_type) = "PIM_ACT" <=> cmd.cmd_type = "PIM_ACTIVATE"
        /\ ClassOf(cmd.cmd_type) = "REF" <=> cmd.cmd_type = "REFRESH"
  BY <1>2, ClassFacts
<1>4. ASSUME "REFRESH" \notin RequestTypes
      PROVE  since'[x]["REF"] >= Config.tRFC
  <2>1. since[x]["REF"] >= Config.tRFC
    BY <1>4 DEF Opened
  <2>2. \A cmd : IssueStep(cmd) => cmd.cmd_type # "REFRESH"
    <3>1. SUFFICES ASSUME NEW cmd, IssueStep(cmd), cmd.cmd_type = "REFRESH"
                   PROVE  FALSE
      OBVIOUS
    <3>2. "REFRESH" \in RequestTypes
      BY <3>1 DEF IssueStep, Legal, ReadWriteTypes, PimReadWriteTypes, ReadTypes, WriteTypes,
          LhGhReadTypes, LhGhReadPrechargeTypes, PimWriteTypes
    <3> QED BY <3>2, <1>4
  <2> QED BY <1>1, <1>3, <2>1, <2>2, AgesGrow
<1>5. /\ <<"ACTIVATE", "PIM_ACT", Config.tRC>> \in Delays(x, x)
      /\ <<"PIM_ACTIVATE", "ACT", Config.tRC>> \in Delays(x, x)
  BY DEF Delays, OwnDelays, ActivateTypes
<1>6. /\ Wait(x, "ACTIVATE") + since[x]["PIM_ACT"] >= Config.tRC
      /\ Wait(x, "PIM_ACTIVATE") + since[x]["ACT"] >= Config.tRC
  <2> DEFINE q == <<"ACTIVATE", "PIM_ACT", Config.tRC>>
             p == <<"PIM_ACTIVATE", "ACT", Config.tRC>>
  <2>1. Guard(x, q[1], x, q[2], q[3]) /\ Guard(x, p[1], x, p[2], p[3])
    BY Zenon, <1>5 DEF Timely
  <2> QED BY <2>1 DEF Guard
<1>7. since[x]["ACT"] \in Int /\ since[x]["PIM_ACT"] \in Int
  BY <1>1 DEF Types
<1>8. ASSUME NEW cmd, IssueStep(cmd)
      PROVE  /\ OrdinaryOpen(x)' => since'[x]["PIM_ACT"] >= Config.tRC
             /\ PimOpen(x)' => since'[x]["ACT"] >= Config.tRC
  <2> DEFINE t == cmd.cmd_type
             here == x \in Covered(cmd)
  <2>1. /\ OrdinaryOpen(x)' => \/ OrdinaryOpen(x) /\ ~(here /\ t \in ActivateTypes)
                               \/ here /\ t = "ACTIVATE"
        /\ PimOpen(x)' => \/ PimOpen(x) /\ ~(here /\ t \in ActivateTypes)
                          \/ here /\ t = "PIM_ACTIVATE"
        /\ here /\ t \in ActivateTypes => Wait(x, t) = 0
    BY Zenon, <1>8, OpenMoves
  <2>2. /\ ~(here /\ t = "PIM_ACTIVATE") => since'[x]["PIM_ACT"] = since[x]["PIM_ACT"]
        /\ ~(here /\ t = "ACTIVATE") => since'[x]["ACT"] = since[x]["ACT"]
    BY <1>1, <1>3, <1>8, SinceAfter
  <2>3. /\ OrdinaryOpen(x) => since[x]["PIM_ACT"] >= Config.tRC
        /\ PimOpen(x) => since[x]["ACT"] >= Config.tRC
    BY Zenon DEF Opened
  <2> QED BY <2>1, <2>2, <2>3, <1>1, <1>6, <1>7 DEF ActivateTypes
<1>9. ASSUME ~ \E cmd : IssueStep(cmd)
      PROVE  /\ OrdinaryOpen(x)' => since'[x]["PIM_ACT"] >= Config.tRC
             /\ PimOpen(x)' => since'[x]["ACT"] >= Config.tRC
  <2>1. StateOf(x)' = StateOf(x) /\ RowOf(x)' = RowOf(x)
    BY Zenon, <1>9, QuietStep
  <2>2. (OrdinaryOpen(x)' <=> OrdinaryOpen(x)) /\ (PimOpen(x)' <=> PimOpen(x))
    BY Zenon, <2>1 DEF OrdinaryOpen, PimOpen, OrdinaryRow, PimRow
  <2>3. OrdinaryOpen(x) => since'[x]["PIM_ACT"] >= Config.tRC
    BY <1>1, <1>9, AgesGrow DEF Opened
  <2>4. PimOpen(x) => since'[x]["ACT"] >= Config.tRC
    BY <1>1, <1>9, AgesGrow DEF Opened
  <2> QED BY <2>2, <2>3, <2>4
<1> QED BY Zenon, <1>4, <1>8, <1>9


(* A bank that the command goes to gets the command's own list. *)
LEMMA CoveredList ==
  ASSUME Types, Sound, NEW cmd, IssueStep(cmd), NEW x \in Banks, x \in Covered(cmd)
  PROVE  TimingList(cmd, x) = OwnList(cmd.cmd_type)
<1>1. cmd.cmd_type \in CommandType /\ Legal(cmd)
  BY DEF IssueStep
<1> QED BY <1>1, LegalKinds, TimingListCases DEF OwnList, Rank, BanksOf

(* What a column command leaves behind for the precharge of its row, or for *)
(* the activation after its own precharge.                                  *)
LEMMA ClosingTables ==
  ASSUME NEW t \in CommandType, NEW q \in ToClose, q[1] = ClassOf(t)
  PROVE  /\ t \notin AutoPrechargeTypes => <<"PRECHARGE", q[2]>> \in OwnList(t)
         /\ t \in AutoPrechargeTypes =>
              \E n \in Int : n >= q[2] /\ \A a \in ActivateTypes : <<a, n>> \in OwnList(t)
<1> USE DEF ReadTypes, WriteTypes, LhGhReadTypes, LhGhReadPrechargeTypes, PimWriteTypes,
        ActivateTypes, RefreshTypes, RankTypes
<1>0. /\ \/ q[1] \in {"RD", "PIM_RD"} /\ q[2] = Config.AL + Config.tRTP
         \/ q[1] \in {"WR", "PIM_WR"} /\ q[2] = Config.WL + Config.burst_cycle + Config.tWR
      /\ q[2] \in Int /\ Config.tRP \in Nat
  BY DelayAssumption DEF ToClose
<1>1. CASE q[1] \in {"RD", "PIM_RD"}
  <2>1. q[2] = Config.AL + Config.tRTP
    BY <1>0, <1>1
  <2>2. t \in ReadTypes \cup LhGhReadTypes \cup LhGhReadPrechargeTypes
    BY <1>1, ClassFacts
  <2>3. t \notin AutoPrechargeTypes => <<"PRECHARGE", q[2]>> \in OwnList(t)
    BY <2>1, <2>2, SameBankLists DEF OwnList, read_to_precharge, AutoPrechargeTypes
  <2>4. readp_to_act \in Int /\ readp_to_act >= q[2]
    BY <2>1, DelayAssumption DEF readp_to_act
  <2>5. t \in AutoPrechargeTypes =>
          OwnList(t) = AfterAutoPrecharge(readp_to_act, read_to_activate)
    BY <2>2, SameBankLists DEF OwnList, AutoPrechargeTypes
  <2>6. \A a \in ActivateTypes : \A n, m : <<a, n>> \in AfterAutoPrecharge(n, m)
    BY DEF AfterAutoPrecharge
  <2> QED BY Zenon, <2>3, <2>4, <2>5, <2>6
<1>2. CASE q[1] \in {"WR", "PIM_WR"}
  <2>1. q[2] = Config.WL + Config.burst_cycle + Config.tWR
    BY <1>0, <1>2
  <2>2. t \in WriteTypes \cup PimWriteTypes
    BY <1>2, ClassFacts
  <2>3. t \notin AutoPrechargeTypes => <<"PRECHARGE", q[2]>> \in OwnList(t)
    BY <2>1, <2>2, SameBankLists DEF OwnList, write_to_precharge, AutoPrechargeTypes
  <2>4. write_to_activate \in Int /\ write_to_activate >= q[2]
    BY <2>1, DelayAssumption DEF write_to_activate, write_to_precharge, precharge_to_activate
  <2>5. t \in AutoPrechargeTypes =>
          OwnList(t) = AfterAutoPrecharge(write_to_activate, write_to_activate)
    BY <2>2, SameBankLists DEF OwnList, AutoPrechargeTypes
  <2>6. \A a \in ActivateTypes : \A n, m : <<a, n>> \in AfterAutoPrecharge(n, m)
    BY DEF AfterAutoPrecharge
  <2> QED BY Zenon, <2>3, <2>4, <2>5, <2>6
<1> QED BY <1>0, <1>1, <1>2

(* Recovery times survive every step. *)
LEMMA RecoveredStep ==
  ASSUME Types, Sound, Recovered, [Next]_vars
  PROVE  Recovered'
<1>0. SUFFICES ASSUME NEW x \in Banks, NEW q \in ToClose
               PROVE  \/ Guard(x, "PRECHARGE", x, q[1], q[2])'
                      \/ /\ StateOf(x)' # "OPEN"
                         /\ \A t \in ActivateTypes : Guard(x, t, x, q[1], q[2])'
  <2>1. Recovered' <=> \A x \in Banks : \A q \in ToClose :
          \/ Guard(x, "PRECHARGE", x, q[1], q[2])'
          \/ /\ StateOf(x)' # "OPEN"
             /\ \A t \in ActivateTypes : Guard(x, t, x, q[1], q[2])'
    BY DEF Recovered, Recovery
  <2> QED BY Zenon, <2>1
<1> DEFINE c == q[1]
           d == q[2]
<1>1. /\ c \in Classes /\ c # "PRE" /\ d \in Int /\ d <= Horizon
      /\ "PRECHARGE" \in CommandType /\ ActivateTypes \subseteq CommandType
  BY HorizonAssumption, DelayAssumption, TypeFacts DEF ToClose, Classes
<1>2. Recovery(x, c, d)
  BY Zenon DEF Recovered
<1>3. CASE ~ \E cmd : IssueStep(cmd)
  <2>1. StateOf(x)' = StateOf(x)
    BY Zenon, <1>3, QuietStep
  <2>2. \A t \in CommandType : Guard(x, t, x, c, d) => Guard(x, t, x, c, d)'
    <3>1. CASE Tick
      BY Zenon, <3>1, <1>1, GuardTick
    <3>2. CASE chan'.bank_states = chan.bank_states /\ since' = since
      BY <3>2 DEF Guard, Wait
    <3> QED BY Zenon, <1>3, <3>1, <3>2, QuietStep
  <2> QED BY Zenon, <1>1, <1>2, <2>1, <2>2 DEF Recovery
<1>4. ASSUME NEW cmd, IssueStep(cmd)
      PROVE  \/ Guard(x, "PRECHARGE", x, c, d)'
             \/ StateOf(x)' # "OPEN" /\ \A t \in ActivateTypes : Guard(x, t, x, c, d)'
  <2> DEFINE u == cmd.cmd_type
             s1 == since'[x][c]
  <2>0. u \in CommandType
    BY <1>4 DEF IssueStep
  <2>1. CASE x \in Covered(cmd) /\ c = ClassOf(u)
    <3>1. since'[x][c] = 0
      BY <2>1, <1>1, <1>4, SinceAfter
    <3>2. TimingList(cmd, x) = OwnList(u)
      BY Zenon, <2>1, <1>4, CoveredList
    <3>3. CASE u \notin AutoPrechargeTypes
      <4>1. <<"PRECHARGE", d>> \in TimingList(cmd, x)
        BY <2>0, <2>1, <3>2, <3>3, ClosingTables
      <4>2. \E n \in Int : <<"PRECHARGE", n>> \in TimingList(cmd, x) /\ n + since'[x][c] >= d
        BY <1>1, <3>1, <4>1
      <4> QED BY Zenon, <1>1, <1>4, <4>2, GuardIssue
    <3>4. CASE u \in AutoPrechargeTypes
      <4>1. PICK n \in Int : n >= d /\ \A a \in ActivateTypes : <<a, n>> \in TimingList(cmd, x)
        BY Zenon, <2>0, <2>1, <3>2, <3>4, ClosingTables
      <4>2. \A a \in ActivateTypes : \E m \in Int :
              <<a, m>> \in TimingList(cmd, x) /\ m + since'[x][c] >= d
        BY <1>1, <3>1, <4>1
      <4>3. \A a \in ActivateTypes : Guard(x, a, x, c, d)'
        BY Zenon, <1>1, <1>4, <4>2, GuardIssue
      <4>4. StateOf(x)' # "OPEN"
        BY <1>4, <2>1, <3>4, OpenMoves
      <4> QED BY <4>3, <4>4
    <3> QED BY <3>3, <3>4
  <2>2. CASE ~(x \in Covered(cmd) /\ c = ClassOf(u))
    <3>1. since'[x][c] = since[x][c] /\ since[x][c] \in Int
      BY <2>2, <1>1, <1>4, SinceAfter DEF Types
    <3>2. since'[x][c] >= since[x][c]
      BY <3>1
    <3>3. \A t \in CommandType : Guard(x, t, x, c, d) => Guard(x, t, x, c, d)'
      BY Zenon, <1>1, <1>4, <3>2, GuardIssue
    <3>4. CASE StateOf(x) # "OPEN" /\ StateOf(x)' = "OPEN"
                 /\ \A t \in ActivateTypes : Guard(x, t, x, c, d)
      <4>1. u \in ActivateTypes /\ Wait(x, u) = 0
        BY Zenon, <3>4, <1>4, OpenMoves
      <4>2. since[x][c] >= d
        BY <3>1, <3>4, <4>1 DEF Guard
      <4>3. Wait(x, "PRECHARGE") \in Nat
        <5>1. chan.bank_states[x].cmd_timing \in [CommandType -> Nat]
          BY DEF Types, Channel, Bank
        <5> QED BY <5>1, <1>1 DEF Wait
      <4>4. Guard(x, "PRECHARGE", x, c, d)
        BY <1>1, <3>1, <4>2, <4>3 DEF Guard
      <4> QED BY Zenon, <4>4, <3>3, <1>1
    <3> QED BY Zenon, <1>1, <1>2, <3>3, <3>4 DEF Recovery
  <2> QED BY <2>1, <2>2
<1> QED BY Zenon, <1>3, <1>4


(* The delays around an activation that are not negative. *)
LEMMA ActivateDelays ==
  /\ activate_to_read \in Nat /\ activate_to_write \in Nat
  /\ \A x : WTR(x, x) = write_to_read_l /\ WTR(x, x) \in Int /\ WTR(x, x) <= Horizon
<1>1. activate_to_read \in Nat /\ activate_to_write \in Nat
  BY DelayAssumption DEF activate_to_read, activate_to_write
<1>2. Config.bankgroups \in Nat /\ Config.bankgroups >= 1
  BY StructureAssumption
<1> QED BY <1>1, <1>2, DelayAssumption, HorizonAssumption
    DEF WTR, write_to_read_l, write_to_read_s

(* The turnaround from a write to a read of its bank survives every step. *)
LEMMA TurnedStep ==
  ASSUME Types, Sound, Turned, [Next]_vars
  PROVE  Turned'
<1>0. SUFFICES ASSUME NEW x \in Banks, NEW t \in ReadTypes
               PROVE  \/ Guard(x, t, x, "WR", WTR(x, x))'
                      \/ /\ ~OrdinaryOpen(x)'
                         /\ Guard(x, "ACTIVATE", x, "WR", WTR(x, x) - activate_to_read)'
  <2>1. Turned' <=> \A x \in Banks : \A t \in ReadTypes :
          \/ Guard(x, t, x, "WR", WTR(x, x))'
          \/ /\ ~OrdinaryOpen(x)'
             /\ Guard(x, "ACTIVATE", x, "WR", WTR(x, x) - activate_to_read)'
    BY DEF Turned, Turnaround
  <2> QED BY Zenon, <2>1
<1> DEFINE c == "WR"
           d == WTR(x, x)
           e == d - activate_to_read
<1>1. /\ d \in Int /\ d <= Horizon /\ e \in Int /\ e <= Horizon /\ e + activate_to_read = d
      /\ d = write_to_read_l /\ activate_to_read \in Nat /\ Horizon \in Int
  BY ActivateDelays, HorizonAssumption
<1>2. /\ t \in CommandType /\ "ACTIVATE" \in CommandType /\ c \in Classes /\ c # "PRE"
      /\ "ACTIVATE" \in ActivateTypes /\ since[x][c] \in Int
  BY TypeFacts DEF Classes, ReadWriteTypes, ActivateTypes, Types
<1> HIDE DEF c, d, e
<1>3. \/ Guard(x, t, x, c, d)
      \/ ~OrdinaryOpen(x) /\ Guard(x, "ACTIVATE", x, c, e)
  BY Zenon DEF Turned, Turnaround, c, d, e
<1>4. CASE ~ \E cmd : IssueStep(cmd)
  <2>1. StateOf(x)' = StateOf(x) /\ RowOf(x)' = RowOf(x)
    BY Zenon, <1>4, QuietStep
  <2>2. OrdinaryOpen(x)' <=> OrdinaryOpen(x)
    BY Zenon, <2>1 DEF OrdinaryOpen, OrdinaryRow
  <2>3. /\ Guard(x, t, x, c, d) => Guard(x, t, x, c, d)'
        /\ Guard(x, "ACTIVATE", x, c, e) => Guard(x, "ACTIVATE", x, c, e)'
    <3>1. CASE Tick
      BY Zenon, <3>1, <1>1, <1>2, GuardTick
    <3>2. CASE chan'.bank_states = chan.bank_states /\ since' = since
      BY <3>2 DEF Guard, Wait
    <3> QED BY Zenon, <1>4, <3>1, <3>2, QuietStep
  <2> QED BY Zenon, <1>3, <2>2, <2>3 DEF c, d, e
<1>5. ASSUME NEW cmd, IssueStep(cmd)
      PROVE  \/ Guard(x, t, x, c, d)'
             \/ ~OrdinaryOpen(x)' /\ Guard(x, "ACTIVATE", x, c, e)'
  <2> DEFINE u == cmd.cmd_type
  <2>0. u \in CommandType
    BY <1>5 DEF IssueStep
  <2>1. CASE x \in Covered(cmd) /\ c = ClassOf(u)
    <3>1. since'[x][c] = 0
      BY <2>1, <1>2, <1>5, SinceAfter
    <3>2. TimingList(cmd, x) = OwnList(u)
      BY Zenon, <2>1, <1>5, CoveredList
    <3>3. u = "WRITE" \/ u = "WRITE_PRECHARGE"
      BY <2>0, <2>1, ClassFacts DEF WriteTypes, c
    <3>4. CASE u = "WRITE"
      <4>1. <<t, d>> \in TimingList(cmd, x)
        BY <1>1, <2>0, <3>2, <3>4, SameBankLists DEF OwnList, DataBus, RankTypes
      <4>2. \E n \in Int : <<t, n>> \in TimingList(cmd, x) /\ n + since'[x][c] >= d
        BY <1>1, <3>1, <4>1
      <4> QED BY Zenon, <1>1, <1>2, <1>5, <4>2, GuardIssue
    <3>5. CASE u = "WRITE_PRECHARGE"
      <4>1. <<"ACTIVATE", write_to_activate>> \in TimingList(cmd, x)
        BY <2>0, <3>2, <3>5, SameBankLists
        DEF OwnList, AfterAutoPrecharge, RankTypes, ActivateTypes
      <4>2. write_to_activate \in Int /\ write_to_activate >= e
        BY <1>1, DelaysAreIntegers, DelayAssumption
      <4>3. \E n \in Int : <<"ACTIVATE", n>> \in TimingList(cmd, x) /\ n + since'[x][c] >= e
        BY <1>1, <3>1, <4>1, <4>2
      <4>4. Guard(x, "ACTIVATE", x, c, e)'
        BY Zenon, <1>1, <1>2, <1>5, <4>3, GuardIssue
      <4>5. u \in AutoPrechargeTypes
        BY <3>5 DEF AutoPrechargeTypes
      <4>6. ~OrdinaryOpen(x)'
        BY Zenon, <1>5, <2>1, <4>5, OpenMoves DEF OrdinaryOpen
      <4> QED BY <4>4, <4>6
    <3> QED BY <3>3, <3>4, <3>5
  <2>2. CASE ~(x \in Covered(cmd) /\ c = ClassOf(u))
    <3>1. since'[x][c] = since[x][c] /\ since[x][c] \in Int
      BY <2>2, <1>2, <1>5, SinceAfter
    <3>2. since'[x][c] >= since[x][c]
      BY <3>1
    <3>3. /\ Guard(x, t, x, c, d) => Guard(x, t, x, c, d)'
          /\ Guard(x, "ACTIVATE", x, c, e) => Guard(x, "ACTIVATE", x, c, e)'
      BY Zenon, <1>1, <1>2, <1>5, <3>2, GuardIssue
    <3>4. CASE ~OrdinaryOpen(x) /\ OrdinaryOpen(x)' /\ Guard(x, "ACTIVATE", x, c, e)
      <4>1. x \in Covered(cmd) /\ u = "ACTIVATE" /\ Wait(x, u) = 0
        BY Zenon, <3>4, <1>2, <1>5, OpenMoves
      <4>2. since[x][c] >= e
        BY <3>1, <3>4, <4>1 DEF Guard
      <4>3. TimingList(cmd, x) = OwnList(u)
        BY Zenon, <4>1, <1>5, CoveredList
      <4>4. <<t, activate_to_read>> \in TimingList(cmd, x)
        BY <2>0, <4>1, <4>3, SameBankLists DEF OwnList, DataBus, RankTypes
      <4>5. \E n \in Int : <<t, n>> \in TimingList(cmd, x) /\ n + since'[x][c] >= d
        BY <1>1, <3>1, <4>2, <4>4
      <4> QED BY Zenon, <1>1, <1>2, <1>5, <4>5, GuardIssue
    <3> QED BY Zenon, <1>3, <3>3, <3>4
  <2> QED BY <2>1, <2>2
<1> QED BY Zenon, <1>4, <1>5 DEF c, d, e


-----------------------------------------------------------------------------
(* The data bus.  A column command occupies the bus DataDelay cycles later; *)
(* from an activation to the column command it takes at least OpenDelay.    *)
DataDelay(t) == IF t \in ReadTypes THEN Config.RL ELSE Config.WL
OpenDelay(t) == IF t \in ReadTypes THEN activate_to_read ELSE activate_to_write

(* By the time bank x can send data for a command of type t, the cycle that *)
(* is now n cycles ahead is over.                                           *)
Clear(x, t, n) ==
  \/ n < Wait(x, t) + DataDelay(t)
  \/ ~OrdinaryOpen(x) /\ n < Wait(x, "ACTIVATE") + OpenDelay(t) + DataDelay(t)

BusFree == \A x \in Banks : \A t \in ReadWriteTypes : \A n \in bus : Clear(x, t, n)

(* The turnaround delays leave room for a burst, between banks, between     *)
(* ranks, and across a precharge and an activation.                         *)
LEMMA BusDelays ==
  LET burst == Config.burst_cycle
      rd == Config.RL
      wr == Config.WL
  IN /\ read_to_read_s >= burst /\ read_to_read_l >= burst /\ read_to_read_o >= burst
     /\ read_to_write + wr >= rd + burst /\ read_to_write_o + wr >= rd + burst
     /\ write_to_read_s + rd >= wr + burst /\ write_to_read_l + rd >= wr + burst
     /\ write_to_read_o + rd >= wr + burst
     /\ write_to_write_s >= burst /\ write_to_write_l >= burst /\ write_to_write_o >= burst
     /\ readp_to_act + activate_to_read >= burst
     /\ readp_to_act + activate_to_write + wr >= rd + burst
     /\ write_to_activate + activate_to_read + rd >= wr + burst
     /\ write_to_activate + activate_to_write >= burst
<1>1. activate_to_read \in Nat /\ activate_to_write \in Nat
  BY ActivateDelays
<1>2. /\ readp_to_act + activate_to_read >= Config.burst_cycle
      /\ readp_to_act + activate_to_write + Config.WL >= Config.RL + Config.burst_cycle
  BY <1>1, DelaysAreIntegers, DelayAssumption
<1> QED BY <1>1, <1>2, DelayAssumption
    DEF read_to_read_s, read_to_read_l, read_to_read_o, read_to_write, read_to_write_o,
        write_to_read_s, write_to_read_l, write_to_read_o, write_to_write_s,
        write_to_write_l, write_to_write_o, write_to_activate, write_to_precharge,
        precharge_to_activate, MaxOf

(* After a column command every bank waits until the burst is over, or is   *)
(* closed and waits with its next activation.                               *)
LEMMA BusTables ==
  ASSUME Types, Sound, NEW cmd, IssueStep(cmd), cmd.cmd_type \in ReadWriteTypes,
         NEW x \in Banks, NEW t \in ReadWriteTypes
  PROVE  LET end == DataDelay(cmd.cmd_type) + Config.burst_cycle
         IN \/ \E m \in Int : /\ <<t, m>> \in TimingList(cmd, x)
                              /\ m + DataDelay(t) >= end
            \/ /\ x \in Covered(cmd) /\ cmd.cmd_type \in AutoPrechargeTypes
               /\ \E m \in Int : /\ <<"ACTIVATE", m>> \in TimingList(cmd, x)
                                 /\ m + OpenDelay(t) + DataDelay(t) >= end
<1> DEFINE u == cmd.cmd_type
           b == cmd.addr.bank
           end == DataDelay(u) + Config.burst_cycle
           Long(r, w) == /\ r \in Int /\ w \in Int
                         /\ r + Config.RL >= end /\ w + Config.WL >= end
<1>0. /\ u \in CommandType /\ Legal(cmd) /\ u \notin RankTypes
      /\ u \in ReadTypes \/ u \in WriteTypes
      /\ t \in ReadTypes \/ t \in WriteTypes
      /\ ~(u \in ReadTypes /\ u \in WriteTypes) /\ ~(t \in ReadTypes /\ t \in WriteTypes)
  BY MoveKinds DEF IssueStep, ReadWriteTypes, ReadTypes, WriteTypes
<1>1. b \in Banks /\ Covered(cmd) = {b}
  BY <1>0, LegalKinds
<1>2. Config.RL \in Nat /\ Config.WL \in Nat /\ Config.burst_cycle \in Nat
  BY DelayAssumption
<1>3. ASSUME NEW r, NEW w, Long(r, w), DataBus(r, w) \subseteq TimingList(cmd, x)
      PROVE  \E m \in Int : <<t, m>> \in TimingList(cmd, x) /\ m + DataDelay(t) >= end
  <2>1. CASE t \in ReadTypes
    <3>1. <<t, r>> \in TimingList(cmd, x) /\ r \in Int /\ r + DataDelay(t) >= end
      BY <1>3, <2>1 DEF DataBus, DataDelay
    <3> QED BY Zenon, <3>1
  <2>2. CASE t \in WriteTypes
    <3>1. <<t, w>> \in TimingList(cmd, x) /\ w \in Int /\ w + DataDelay(t) >= end
      BY <1>0, <1>3, <2>2 DEF DataBus, DataDelay
    <3> QED BY Zenon, <3>1
  <2> QED BY <1>0, <2>1, <2>2
<1>4. /\ u \in ReadTypes => end = Config.RL + Config.burst_cycle
      /\ u \in WriteTypes => end = Config.WL + Config.burst_cycle
  BY <1>0 DEF DataDelay
<1>5. /\ u \in ReadTypes => /\ Long(read_to_read_s, read_to_write)
                            /\ Long(read_to_read_l, read_to_write)
                            /\ Long(read_to_read_o, read_to_write_o)
      /\ u \in WriteTypes => /\ Long(write_to_read_s, write_to_write_s)
                             /\ Long(write_to_read_l, write_to_write_l)
                             /\ Long(write_to_read_o, write_to_write_o)
  <2> HIDE DEF end
  <2> QED BY <1>2, <1>4, BusDelays, DelaysAreIntegers
<1> HIDE DEF end, Long
<1>6. CASE x = b /\ u \notin AutoPrechargeTypes
  <2>1. TimingList(cmd, x) = same_bank[u]
    BY Zenon, <1>0, <1>6, TimingListCases
  <2>2. /\ u \in ReadTypes => DataBus(read_to_read_l, read_to_write) \subseteq same_bank[u]
        /\ u \in WriteTypes => DataBus(write_to_read_l, write_to_write_l) \subseteq same_bank[u]
    BY <1>0, <1>6, SameBankLists DEF ReadTypes, WriteTypes, AutoPrechargeTypes
  <2> QED BY Zenon, <1>0, <1>3, <1>5, <2>1, <2>2 DEF end
<1>7. CASE x = b /\ u \in AutoPrechargeTypes
  <2>1. TimingList(cmd, x) = same_bank[u]
    BY Zenon, <1>0, <1>7, TimingListCases
  <2>2. /\ u \in ReadTypes => <<"ACTIVATE", readp_to_act>> \in same_bank[u]
        /\ u \in WriteTypes => <<"ACTIVATE", write_to_activate>> \in same_bank[u]
    BY <1>0, <1>7, SameBankLists
    DEF ReadTypes, WriteTypes, AutoPrechargeTypes, AfterAutoPrecharge, ActivateTypes,
        LhGhReadPrechargeTypes
  <2>3. /\ u \in ReadTypes => readp_to_act + OpenDelay(t) + DataDelay(t) >= end
        /\ u \in WriteTypes => write_to_activate + OpenDelay(t) + DataDelay(t) >= end
        /\ readp_to_act \in Int /\ write_to_activate \in Int
    BY <1>2, <1>4, BusDelays, DelaysAreIntegers DEF OpenDelay, DataDelay
  <2>4. x \in Covered(cmd)
    BY <1>1, <1>7
  <2> QED BY Zenon, <1>0, <1>7, <2>1, <2>2, <2>3, <2>4 DEF end
<1>8. CASE x # b /\ x[1] = b[1]
  <2>1. /\ x[2] = b[2] => TimingList(cmd, x) =
             OtherBanks(u, read_to_read_l, write_to_write_l, write_to_read_l,
                        activate_to_activate_l)
        /\ x[2] # b[2] => TimingList(cmd, x) =
             OtherBanks(u, read_to_read_s, write_to_write_s, write_to_read_s,
                        activate_to_activate_s)
    BY Zenon, <1>0, <1>8, TimingListCases
  <2>2. /\ u \in ReadTypes => \/ TimingList(cmd, x) = DataBus(read_to_read_l, read_to_write)
                              \/ TimingList(cmd, x) = DataBus(read_to_read_s, read_to_write)
        /\ u \in WriteTypes =>
             \/ TimingList(cmd, x) = DataBus(write_to_read_l, write_to_write_l)
             \/ TimingList(cmd, x) = DataBus(write_to_read_s, write_to_write_s)
    BY <1>0, <2>1, OtherBanksLists
  <2>3. \A S : S \subseteq S
    OBVIOUS
  <2> QED BY Zenon, <1>0, <1>3, <1>5, <2>2, <2>3 DEF end
<1>9. CASE x[1] # b[1]
  <2>1. TimingList(cmd, x) = other_ranks[u]
    BY Zenon, <1>0, <1>9, TimingListCases
  <2>2. /\ u \in ReadTypes => TimingList(cmd, x) = DataBus(read_to_read_o, read_to_write_o)
        /\ u \in WriteTypes => TimingList(cmd, x) = DataBus(write_to_read_o, write_to_write_o)
    BY Zenon, <1>0, <2>1, RankLists
  <2>3. \A S : S \subseteq S
    OBVIOUS
  <2> QED BY Zenon, <1>0, <1>3, <1>5, <2>2, <2>3 DEF end
<1> QED BY Zenon, <1>6, <1>7, <1>8, <1>9


(* Waits are natural numbers. *)
LEMMA WaitNat ==
  ASSUME chan \in Channel, NEW x \in Banks, NEW t \in CommandType
  PROVE  Wait(x, t) \in Nat
<1>1. chan.bank_states[x].cmd_timing \in [CommandType -> Nat]
  BY DEF Channel, Bank
<1> QED BY <1>1 DEF Wait

(* The bus stays free for whoever may use it next. *)
LEMMA BusFreeStep ==
  ASSUME Types, Sound, BusFree, [Next]_vars
  PROVE  BusFree'
<1>0. SUFFICES ASSUME NEW x \in Banks, NEW t \in ReadWriteTypes, NEW n \in bus'
               PROVE  \/ n < Wait(x, t)' + DataDelay(t)
                      \/ /\ ~OrdinaryOpen(x)'
                         /\ n < Wait(x, "ACTIVATE")' + OpenDelay(t) + DataDelay(t)
  <2>1. BusFree' <=> \A x \in Banks : \A t \in ReadWriteTypes : \A n \in bus' :
          \/ n < Wait(x, t)' + DataDelay(t)
          \/ /\ ~OrdinaryOpen(x)'
             /\ n < Wait(x, "ACTIVATE")' + OpenDelay(t) + DataDelay(t)
    BY DEF BusFree, Clear, Wait
  <2> QED BY Zenon, <2>1
<1> DEFINE w == Wait(x, t)
           a == Wait(x, "ACTIVATE")
           w1 == Wait(x, t)'
           a1 == Wait(x, "ACTIVATE")'
           dd == DataDelay(t)
           od == OpenDelay(t)
<1>1. /\ t \in CommandType /\ "ACTIVATE" \in CommandType
      /\ t \in ReadTypes \/ t \in WriteTypes
  BY TypeFacts DEF ReadWriteTypes, ActivateTypes
<1>2. /\ dd \in Nat /\ od \in Nat /\ Config.burst_cycle \in Nat
      /\ Config.RL \in Nat /\ Config.WL \in Nat
  BY DelayAssumption, ActivateDelays DEF DataDelay, OpenDelay
<1>3. w \in Nat /\ a \in Nat
  BY <1>1, WaitNat DEF Types
<1>4. w1 \in Nat /\ a1 \in Nat
  <2>1. chan' \in Channel
    BY StepKeeps DEF Types
  <2>2. chan'.bank_states[x].cmd_timing \in [CommandType -> Nat]
    BY <2>1 DEF Channel, Bank
  <2> QED BY <1>1, <2>2 DEF Wait
<1>5. n \in Nat /\ bus \subseteq Nat
  BY StepKeeps DEF Types
<1>6. \A m \in bus : m < w + dd \/ (~OrdinaryOpen(x) /\ m < a + od + dd)
  BY Zenon DEF BusFree, Clear
<1> HIDE DEF w, a, w1, a1, dd, od
<1>7. CASE ~ \E cmd : IssueStep(cmd)
  <2>1. StateOf(x)' = StateOf(x) /\ RowOf(x)' = RowOf(x)
    BY Zenon, <1>7, QuietStep
  <2>2. OrdinaryOpen(x)' <=> OrdinaryOpen(x)
    BY Zenon, <2>1 DEF OrdinaryOpen, OrdinaryRow
  <2>3. CASE Tick
    <3>1. w1 = Aged(w) /\ a1 = Aged(a)
      BY Zenon, <2>3, <1>1, TickEffect DEF w, w1, a, a1
    <3>2. PICK m \in bus \ {0} : n = m - 1
      BY <2>3 DEF Tick
    <3>3. m \in Nat /\ m # 0
      BY <1>5, <3>2
    <3>4. n < w1 + dd \/ (~OrdinaryOpen(x)' /\ n < a1 + od + dd)
      BY <1>2, <1>3, <1>6, <2>2, <3>1, <3>2, <3>3 DEF Aged
    <3> QED BY <3>4 DEF w1, a1, dd, od
  <2>4. CASE chan'.bank_states = chan.bank_states /\ bus' = bus
    <3>1. w1 = w /\ a1 = a /\ n \in bus
      BY <2>4 DEF w, w1, a, a1, Wait
    <3> QED BY Zenon, <1>6, <2>2, <3>1 DEF w1, a1, dd, od
  <2> QED BY Zenon, <1>7, <2>3, <2>4, QuietStep
<1>8. ASSUME NEW cmd, IssueStep(cmd)
      PROVE  n < w1 + dd \/ (~OrdinaryOpen(x)' /\ n < a1 + od + dd)
  <2> DEFINE u == cmd.cmd_type
  <2>0. u \in CommandType
    BY <1>8 DEF IssueStep
  <2>1. w1 >= w /\ a1 >= a
    BY Zenon, <1>1, <1>8, IssueEffect DEF w, w1, a, a1
  <2>2. \A m \in Int : /\ <<t, m>> \in TimingList(cmd, x) => w1 >= m
                       /\ <<"ACTIVATE", m>> \in TimingList(cmd, x) => a1 >= m
    <3>1. \A p \in TimingList(cmd, x) : Wait(x, p[1])' >= p[2]
      BY Zenon, <1>8, IssueEffect
    <3>2. ASSUME NEW m \in Int, NEW k, <<k, m>> \in TimingList(cmd, x)
          PROVE  Wait(x, k)' >= m
      <4> DEFINE p == <<k, m>>
      <4>1. Wait(x, p[1])' >= p[2]
        BY Zenon, <3>1, <3>2
      <4> QED BY <4>1 DEF Wait
    <3> QED BY Zenon, <3>2 DEF w1, a1
  <2>3. n \in bus \/ n \in BurstOf(u)
    BY <1>8 DEF IssueStep, Record
  <2>4. CASE n \in bus
    <3>1. CASE n < w + dd
      BY <1>2, <1>3, <1>4, <1>5, <2>1, <3>1
    <3>2. CASE ~OrdinaryOpen(x)' /\ n < a + od + dd
      BY <1>2, <1>3, <1>4, <1>5, <2>1, <3>2
    <3>3. CASE ~OrdinaryOpen(x) /\ OrdinaryOpen(x)' /\ n < a + od + dd
      <4>1. x \in Covered(cmd) /\ u = "ACTIVATE" /\ Wait(x, u) = 0
        <5>1. "ACTIVATE" \in ActivateTypes
          BY DEF ActivateTypes
        <5> QED BY Zenon, <3>3, <1>8, <5>1, OpenMoves
      <4>2. a = 0
        BY <4>1 DEF a
      <4>3. TimingList(cmd, x) = OwnList(u)
        BY Zenon, <4>1, <1>8, CoveredList
      <4>4. <<t, od>> \in TimingList(cmd, x)
        BY <1>1, <2>0, <4>1, <4>3, SameBankLists
        DEF OwnList, DataBus, RankTypes, OpenDelay, od, ReadTypes, WriteTypes
      <4>5. od \in Int
        BY <1>2
      <4>6. w1 >= od
        BY Zenon, <2>2, <4>4, <4>5
      <4> QED BY <1>2, <1>4, <1>5, <3>3, <4>2, <4>6
    <3> QED BY <1>6, <2>4, <3>1, <3>2, <3>3
  <2>5. CASE n \in BurstOf(u)
    <3>1. u \in ReadWriteTypes
      BY <2>5 DEF BurstOf, ReadWriteTypes
    <3>2. n < DataDelay(u) + Config.burst_cycle /\ DataDelay(u) \in Nat
      <4>1. CASE u \in ReadTypes
        BY <1>2, <2>5, <4>1 DEF BurstOf, DataDelay, ReadTypes, WriteTypes
      <4>2. CASE u \notin ReadTypes
        BY <1>2, <2>5, <4>2 DEF BurstOf, DataDelay
      <4> QED BY <4>1, <4>2
    <3>3. CASE \E m \in Int : /\ <<t, m>> \in TimingList(cmd, x)
                              /\ m + dd >= DataDelay(u) + Config.burst_cycle
      <4>1. PICK m \in Int : /\ <<t, m>> \in TimingList(cmd, x)
                             /\ m + dd >= DataDelay(u) + Config.burst_cycle
        BY Zenon, <3>3
      <4>2. w1 >= m
        BY Zenon, <2>2, <4>1
      <4> QED BY <1>2, <1>4, <1>5, <3>2, <4>1, <4>2
    <3>4. CASE /\ x \in Covered(cmd) /\ u \in AutoPrechargeTypes
               /\ \E m \in Int : /\ <<"ACTIVATE", m>> \in TimingList(cmd, x)
                                 /\ m + od + dd >= DataDelay(u) + Config.burst_cycle
      <4>1. ~OrdinaryOpen(x)'
        BY Zenon, <1>8, <3>4, OpenMoves DEF OrdinaryOpen
      <4>2. PICK m \in Int : /\ <<"ACTIVATE", m>> \in TimingList(cmd, x)
                             /\ m + od + dd >= DataDelay(u) + Config.burst_cycle
        BY Zenon, <3>4
      <4>3. a1 >= m
        BY Zenon, <2>2, <4>2
      <4> QED BY <1>2, <1>4, <1>5, <3>2, <4>1, <4>2, <4>3
    <3> QED BY Zenon, <1>8, <3>1, <3>3, <3>4, BusTables DEF dd, od
  <2> QED BY <2>3, <2>4, <2>5
<1> QED BY Zenon, <1>7, <1>8 DEF w1, a1, dd, od


-----------------------------------------------------------------------------
(* The activation window.  The deadlines that are kept belong to the last   *)
(* activations, and the activations that are kept no longer are old enough. *)
Windowed(w, a) ==
  /\ Len(w) <= Len(a) /\ Len(a) <= 4
  /\ \A i \in 1 .. Len(a) - Len(w) : a[i] >= Config.tFAW
  /\ \A i \in 1 .. Len(w) : w[i] + a[Len(a) - Len(w) + i] >= Config.tFAW

InWindow == \A r \in Ranks : Windowed(chan.four_aw[r], activations[r])

(* A deadline that has passed may be dropped. *)
LEMMA WindowDrop ==
  ASSUME NEW w \in Seq(Nat), NEW a \in Seq(Nat), Windowed(w, a), w # <<>>, Head(w) = 0
  PROVE  Windowed(Tail(w), a)
<1> DEFINE v == Tail(w)
           k == Len(w)
           m == Len(a)
<1>1. /\ k \in Nat /\ m \in Nat /\ k >= 1
      /\ Len(v) = k - 1 /\ w[1] = 0
      /\ \A i \in 1 .. k - 1 : v[i] = w[i + 1]
  OBVIOUS
<1>2. /\ k <= m /\ m <= 4 /\ Config.tFAW \in Nat
      /\ \A i \in 1 .. m - k : a[i] >= Config.tFAW
      /\ \A i \in 1 .. k : w[i] + a[m - k + i] >= Config.tFAW
  BY DelayAssumption DEF Windowed
<1>3. \A i \in 1 .. m : a[i] \in Nat
  OBVIOUS
<1> HIDE DEF v, k, m
<1>4. a[m - k + 1] >= Config.tFAW
  <2>1. 1 \in 1 .. k /\ m - k + 1 \in 1 .. m
    BY <1>1, <1>2
  <2>2. w[1] + a[m - k + 1] >= Config.tFAW
    BY <1>2, <2>1
  <2> QED BY <1>1, <1>2, <1>3, <2>1, <2>2
<1>5. \A i \in 1 .. m - (k - 1) : a[i] >= Config.tFAW
  <2>1. \A i \in 1 .. m - (k - 1) : i \in 1 .. m - k \/ i = m - k + 1
    BY <1>1
  <2> QED BY <1>2, <1>4, <2>1
<1>6. \A i \in 1 .. k - 1 : v[i] + a[m - (k - 1) + i] >= Config.tFAW
  <2>1. SUFFICES ASSUME NEW i \in 1 .. k - 1
                 PROVE  v[i] + a[m - (k - 1) + i] >= Config.tFAW
    OBVIOUS
  <2>2. i + 1 \in 1 .. k /\ m - (k - 1) + i = m - k + (i + 1) /\ v[i] = w[i + 1]
    BY <1>1
  <2> QED BY <1>2, <2>2
<1>7. Len(v) <= m /\ m <= 4
  BY <1>1, <1>2
<1> QED BY Zenon, <1>1, <1>5, <1>6, <1>7 DEF Windowed, v, m

(* The oldest activation may be forgotten when four are kept and fewer than *)
(* four deadlines.                                                          *)
LEMMA WindowForget ==
  ASSUME NEW w \in Seq(Nat), NEW a \in Seq(Nat), NEW k \in Nat, NEW m \in Nat,
         Windowed(w, a), k = Len(w), m = Len(a), k < m
  PROVE  /\ Tail(a) \in Seq(Nat) /\ Len(Tail(a)) = m - 1
         /\ Windowed(w, Tail(a))
<1> DEFINE b == Tail(a)
<1>1. a # <<>>
  OBVIOUS
<1>2. /\ b \in Seq(Nat) /\ Len(b) = m - 1 /\ \A i \in 1 .. Len(b) : b[i] = a[i + 1]
  BY Zenon, <1>1, HeadTailProperties
<1>3. /\ m <= 4
      /\ \A i \in 1 .. m - k : a[i] >= Config.tFAW
      /\ \A i \in 1 .. k : w[i] + a[m - k + i] >= Config.tFAW
  BY Zenon DEF Windowed
<1> HIDE DEF b
<1>4. \A i \in 1 .. (m - 1) - k : b[i] >= Config.tFAW
  <2>1. SUFFICES ASSUME NEW i \in 1 .. (m - 1) - k
                 PROVE  b[i] >= Config.tFAW
    OBVIOUS
  <2>2. i \in 1 .. m - 1 /\ i + 1 \in 1 .. m - k
    OBVIOUS
  <2> QED BY <1>2, <1>3, <2>2
<1>5. \A i \in 1 .. k : w[i] + b[(m - 1) - k + i] >= Config.tFAW
  <2>1. SUFFICES ASSUME NEW i \in 1 .. k
                 PROVE  w[i] + b[(m - 1) - k + i] >= Config.tFAW
    OBVIOUS
  <2>2. (m - 1) - k + i \in 1 .. m - 1 /\ ((m - 1) - k + i) + 1 = m - k + i
    OBVIOUS
  <2>3. b[(m - 1) - k + i] = a[m - k + i]
    BY Zenon, <1>2, <2>2
  <2> QED BY <1>3, <2>3
<1>6. k <= m - 1 /\ m - 1 <= 4
  BY <1>3
<1> QED BY Zenon, <1>2, <1>4, <1>5, <1>6 DEF Windowed, b

(* A new activation, when fewer than four are kept. *)
LEMMA WindowAppend ==
  ASSUME NEW w \in Seq(Nat), NEW b \in Seq(Nat), NEW k \in Nat, NEW n \in Nat,
         Windowed(w, b), k = Len(w), n = Len(b), n <= 3
  PROVE  Windowed(Append(w, Config.tFAW), Append(b, 0))
<1> DEFINE f == Config.tFAW
           v == Append(w, f)
           c == Append(b, 0)
<1>1. /\ f \in Nat /\ k <= n
      /\ \A i \in 1 .. n - k : b[i] >= f
      /\ \A i \in 1 .. k : w[i] + b[n - k + i] >= f
  BY DelayAssumption DEF Windowed
<1>2. /\ Len(v) = k + 1 /\ v[k + 1] = f /\ \A i \in 1 .. k : v[i] = w[i]
      /\ Len(c) = n + 1 /\ c[n + 1] = 0 /\ \A i \in 1 .. n : c[i] = b[i]
  BY <1>1
<1> HIDE DEF v, c, f
<1>3. \A i \in 1 .. (n + 1) - (k + 1) : c[i] >= f
  <2>1. \A i \in 1 .. (n + 1) - (k + 1) : i \in 1 .. n - k /\ i \in 1 .. n
    BY <1>1
  <2> QED BY <1>1, <1>2, <2>1
<1>4. \A i \in 1 .. k + 1 : v[i] + c[(n + 1) - (k + 1) + i] >= f
  <2>1. SUFFICES ASSUME NEW i \in 1 .. k + 1
                 PROVE  v[i] + c[(n + 1) - (k + 1) + i] >= f
    OBVIOUS
  <2>2. CASE i = k + 1
    <3>1. (n + 1) - (k + 1) + i = n + 1
      BY <1>1, <2>2
    <3> QED BY <1>1, <1>2, <2>2, <3>1
  <2>3. CASE i # k + 1
    <3>1. i \in 1 .. k /\ (n + 1) - (k + 1) + i = n - k + i /\ n - k + i \in 1 .. n
      BY <1>1, <2>3
    <3> QED BY Zenon, <1>1, <1>2, <3>1
  <2> QED BY <2>2, <2>3
<1>5. k + 1 <= n + 1 /\ n + 1 <= 4
  BY <1>1
<1> QED BY Zenon, <1>2, <1>3, <1>4, <1>5 DEF Windowed, v, c, f


(* An activation that IsFAWReady lets through leaves the window in order. *)
LEMMA WindowActivate ==
  ASSUME NEW w \in Seq(Nat), NEW a \in Seq(Nat), Windowed(w, a), WindowReady(w, 4)
  PROVE  Windowed(WindowAfterActivate(w, Config.tFAW),
                  Append(IF Len(a) < 4 THEN a ELSE Tail(a), 0))
<1> DEFINE v == IF w # <<>> /\ Head(w) = 0 THEN Tail(w) ELSE w
           k == Len(v)
           m == Len(a)
<1>1. v \in Seq(Nat) /\ k \in Nat /\ m \in Nat
  OBVIOUS
<1>2. Windowed(v, a)
  BY Zenon, WindowDrop
<1>3. m <= 4
  BY <1>2 DEF Windowed
<1>4. k <= 3
  <2>1. CASE w # <<>> /\ Head(w) = 0
    <3>1. Len(Tail(w)) = Len(w) - 1 /\ Len(w) \in Nat
      BY <2>1
    <3>2. Len(w) <= Len(a)
      BY DEF Windowed
    <3> QED BY <1>1, <1>3, <2>1, <3>1, <3>2
  <2>2. CASE w = <<>>
    BY <2>2
  <2>3. CASE w # <<>> /\ Head(w) # 0
    BY <2>3 DEF WindowReady
  <2> QED BY <2>1, <2>2, <2>3
<1> HIDE DEF v
<1>5. CASE m < 4
  <2> DEFINE n == Len(a)
  <2>1. n <= 3 /\ n \in Nat
    BY <1>1, <1>5
  <2>2. Windowed(Append(v, Config.tFAW), Append(a, 0))
    <3> HIDE DEF k, n
    <3> QED BY Zenon, <1>1, <1>2, <2>1, WindowAppend DEF k, n
  <2> QED BY <1>5, <2>2 DEF WindowAfterActivate, v
<1>6. CASE ~(m < 4)
  <2> DEFINE b == Tail(a)
             n == Len(b)
  <2>1. k < m
    BY <1>1, <1>4, <1>6
  <2>2. b \in Seq(Nat) /\ n = m - 1 /\ Windowed(v, b)
    <3> HIDE DEF k, m
    <3> QED BY Zenon, <1>1, <1>2, <2>1, WindowForget DEF k, m
  <2>3. n \in Nat /\ n <= 3
    <3> HIDE DEF n, b
    <3> QED BY <1>1, <1>3, <1>6, <2>1, <2>2
  <2>4. Windowed(Append(v, Config.tFAW), Append(b, 0))
    <3> HIDE DEF k, n, b
    <3> QED BY Zenon, <1>1, <2>2, <2>3, WindowAppend DEF k, n
  <2> QED BY <1>6, <2>4 DEF WindowAfterActivate, v
<1> QED BY <1>5, <1>6

(* In a cycle a deadline comes nearer by what an age grows. *)
LEMMA AgedOlder ==
  ASSUME NEW p \in Nat, NEW q \in 0 .. Horizon, NEW f \in Nat, f <= Horizon
  PROVE  /\ p + q >= f => Aged(p) + Older(q) >= f
         /\ q >= f => Older(q) >= f
  BY HorizonAssumption DEF Aged, Older

(* A cycle keeps the window in order. *)
LEMMA WindowTick ==
  ASSUME NEW w \in Seq(Nat), NEW a \in Seq(0 .. Horizon), Windowed(w, a)
  PROVE  Windowed([i \in DOMAIN w |-> Aged(w[i])], [i \in DOMAIN a |-> Older(a[i])])
<1> DEFINE v == [i \in DOMAIN w |-> Aged(w[i])]
           b == [i \in DOMAIN a |-> Older(a[i])]
           k == Len(w)
           m == Len(a)
           f == Config.tFAW
<1>0. Horizon \in Nat /\ f \in Nat /\ f <= Horizon
  BY Zenon, HorizonAssumption, DelayAssumption
<1>1. /\ k \in Nat /\ m \in Nat /\ DOMAIN w = 1 .. k /\ DOMAIN a = 1 .. m
      /\ \A i \in 1 .. k : w[i] \in Nat
      /\ \A i \in 1 .. m : a[i] \in 0 .. Horizon
  BY <1>0
<1>2. /\ k <= m /\ m <= 4
      /\ \A i \in 1 .. m - k : a[i] >= f
      /\ \A i \in 1 .. k : w[i] + a[m - k + i] >= f
  BY Zenon DEF Windowed
<1>3. /\ v \in [1 .. k -> Nat] /\ \A i \in 1 .. k : v[i] = Aged(w[i])
      /\ b \in [1 .. m -> Nat] /\ \A i \in 1 .. m : b[i] = Older(a[i])
  <2> HIDE DEF k, m, f
  <2> QED BY <1>0, <1>1 DEF Aged, Older
<1> HIDE DEF v, b, k, m, f
<1>4. Len(v) = k /\ Len(b) = m
  BY <1>1, <1>3
<1>5. \A i \in 1 .. m - k : b[i] >= f
  <2>1. SUFFICES ASSUME NEW i \in 1 .. m - k
                 PROVE  b[i] >= f
    OBVIOUS
  <2>2. i \in 1 .. m
    BY <1>1
  <2>3. a[i] \in 0 .. Horizon /\ a[i] >= f /\ b[i] = Older(a[i])
    BY Zenon, <1>1, <1>2, <1>3, <2>2
  <2>4. Older(a[i]) >= f
    BY Zenon, <1>0, <2>3, AgedOlder
  <2> QED BY Zenon, <2>3, <2>4
<1>6. \A i \in 1 .. k : v[i] + b[m - k + i] >= f
  <2>1. SUFFICES ASSUME NEW i \in 1 .. k
                 PROVE  v[i] + b[m - k + i] >= f
    OBVIOUS
  <2> DEFINE j == m - k + i
  <2>2. j \in 1 .. m
    BY <1>1, <1>2
  <2> HIDE DEF j
  <2>3. w[i] + a[j] >= f /\ w[i] \in Nat /\ a[j] \in 0 .. Horizon
    BY <1>1, <1>2, <2>2 DEF j
  <2>4. v[i] = Aged(w[i]) /\ b[j] = Older(a[j])
    BY <1>3, <2>2
  <2>5. Aged(w[i]) + Older(a[j]) >= f
    BY Zenon, <1>0, <2>3, AgedOlder
  <2>6. v[i] + b[j] >= f
    BY Zenon, <2>4, <2>5
  <2> QED BY <2>6 DEF j
<1> QED BY Zenon, <1>2, <1>4, <1>5, <1>6 DEF Windowed, v, b, f


(* What a legal activation finds. *)
LEMMA ActivateFinds ==
  ASSUME Types, Sound, NEW cmd, IssueStep(cmd), cmd.cmd_type \in ActivateTypes
  PROVE  /\ cmd.addr.bank \in Banks /\ Rank(cmd) = cmd.addr.bank[1] /\ Rank(cmd) \in Ranks
         /\ StateOf(cmd.addr.bank) = "CLOSED"
         /\ Wait(cmd.addr.bank, cmd.cmd_type) = 0
         /\ WindowReady(chan.four_aw[Rank(cmd)], 4)
<1>1. /\ cmd.addr.bank \in Banks /\ StateOf(cmd.addr.bank) = "CLOSED"
      /\ Wait(cmd.addr.bank, cmd.cmd_type) = 0
      /\ IsFAWReady(chan, cmd.addr.bank[1])
  BY DEF IssueStep, Legal, ActivateTypes, ReadWriteTypes, PimReadWriteTypes, ReadTypes,
         WriteTypes, LhGhReadTypes, LhGhReadPrechargeTypes, PimWriteTypes
<1>2. Rank(cmd) \in Ranks
  BY LegalKinds DEF IssueStep
<1> QED BY Zenon, <1>1, <1>2 DEF IsFAWReady, Rank

(* The activation windows stay in order. *)
LEMMA InWindowStep ==
  ASSUME Types, Sound, InWindow, [Next]_vars
  PROVE  InWindow'
<1>0. SUFFICES ASSUME NEW r \in Ranks
               PROVE  Windowed(chan'.four_aw[r], activations'[r])
  BY Zenon DEF InWindow, Windowed
<1> DEFINE w == chan.four_aw[r]
           a == activations[r]
<1>1. w \in Seq(Nat) /\ a \in Seq(0 .. Horizon) /\ Windowed(w, a)
  BY DEF Types, Channel, InWindow
<1>2. CASE Tick
  <2>1. chan'.four_aw[r] = [i \in DOMAIN w |-> Aged(w[i])]
    BY Zenon, <1>2, TickEffect
  <2>2. activations'[r] = [i \in DOMAIN a |-> Older(a[i])]
    BY <1>2 DEF Tick
  <2> HIDE DEF w, a
  <2>3. Windowed([i \in DOMAIN w |-> Aged(w[i])], [i \in DOMAIN a |-> Older(a[i])])
    BY <1>1, WindowTick
  <2> QED BY Zenon, <2>1, <2>2, <2>3
<1>3. CASE NeedRefresh
  <2>1. chan'.four_aw = chan.four_aw /\ activations' = activations
    BY Zenon, <1>3, NeedRefreshEffect DEF NeedRefresh
  <2> QED BY Zenon, <1>1, <2>1
<1>4. CASE UNCHANGED vars
  <2>1. chan' = chan /\ activations' = activations
    BY <1>4 DEF vars
  <2> QED BY Zenon, <1>1, <2>1
<1>5. ASSUME NEW cmd, IssueStep(cmd)
      PROVE  Windowed(chan'.four_aw[r], activations'[r])
  <2> DEFINE b == Append(IF Len(a) < 4 THEN a ELSE Tail(a), 0)
             act == cmd.cmd_type \in ActivateTypes /\ r = Rank(cmd)
  <2>0. chan.four_aw \in [Ranks -> Seq(Nat)] /\ activations \in [Ranks -> Seq(0 .. Horizon)]
    BY DEF Types, Channel
  <2>1. chan'.four_aw[r] = IF act THEN WindowAfterActivate(w, Config.tFAW) ELSE w
    <3>1. chan'.four_aw = IF cmd.cmd_type \in ActivateTypes
            THEN [chan.four_aw EXCEPT ![Rank(cmd)] = WindowAfterActivate(@, Config.tFAW)]
            ELSE chan.four_aw
      BY Zenon, <1>5, IssueEffect
    <3> QED BY <2>0, <3>1
  <2>2. activations'[r] = IF act THEN b ELSE a
    <3>1. activations' = IF cmd.cmd_type \in ActivateTypes
            THEN [activations EXCEPT ![Rank(cmd)] =
                    Append(IF Len(@) < 4 THEN @ ELSE Tail(@), 0)]
            ELSE activations
      BY <1>5 DEF IssueStep, Record
    <3>2. CASE act
      BY <2>0, <3>1, <3>2
    <3>3. CASE ~act
      BY <2>0, <3>1, <3>3
    <3> QED BY Zenon, <3>2, <3>3
  <2>3. act => WindowReady(w, 4)
    BY <1>5, ActivateFinds
  <2>4. a \in Seq(Nat)
    <3>1. 0 .. Horizon \subseteq Nat
      BY HorizonAssumption
    <3>2. /\ Len(a) \in Nat /\ DOMAIN a = 1 .. Len(a)
          /\ a \in [1 .. Len(a) -> 0 .. Horizon]
      BY Zenon, <1>1, LenProperties
    <3> DEFINE m == Len(a)
    <3> HIDE DEF a, m
    <3>3. a = [i \in 1 .. m |-> a[i]] /\ \A i \in 1 .. m : a[i] \in Nat
      BY <3>1, <3>2 DEF m
    <3>4. [i \in 1 .. m |-> a[i]] \in Seq(Nat)
      BY <3>2, <3>3, IsASeq DEF m
    <3> QED BY Zenon, <3>3, <3>4
  <2> HIDE DEF w, a
  <2>5. act => Windowed(WindowAfterActivate(w, Config.tFAW), b)
    BY Zenon, <1>1, <2>3, <2>4, WindowActivate
  <2> QED BY Zenon, <1>1, <2>1, <2>2, <2>5
<1> QED BY Zenon, <1>2, <1>3, <1>4, <1>5, StepKinds

-----------------------------------------------------------------------------
Kept == Timely /\ Opened /\ Recovered /\ Turned /\ BusFree /\ InWindow

(* After a reset no command is waited for and every age is at its limit. *)
LEMMA InitTimes ==
  ASSUME Init
  PROVE  Kept
<1>0. Types /\ Sound
  BY InitKeeps
<1>1. Horizon \in Nat
  BY HorizonAssumption
<1>2. /\ \A x \in Banks : StateOf(x) = "CLOSED"
      /\ \A x \in Banks, c \in Classes : since[x][c] = Horizon
      /\ bus = {}
      /\ \A r \in Ranks : chan.four_aw[r] = <<>> /\ activations[r] = <<>>
  BY DEF Init, InitChannel, InitBank, StateOf
<1>3. ASSUME NEW x \in Banks, NEW t \in CommandType, NEW y \in Banks, NEW c \in Classes,
             NEW d \in Int, d <= Horizon
      PROVE  Guard(x, t, y, c, d)
  <2>1. Wait(x, t) \in Nat
    BY <1>0, WaitNat DEF Types
  <2> QED BY <1>1, <1>2, <1>3, <2>1 DEF Guard
<1>4. Timely
  BY Zenon, <1>3, DelaysTyped DEF Timely
<1>5. Opened
  BY <1>1, <1>2, HorizonAssumption DEF Opened, Classes
<1>6. Recovered
  <2>1. \A q \in ToClose : q[1] \in Classes /\ q[2] \in Int /\ q[2] <= Horizon
    BY HorizonAssumption, DelayAssumption DEF ToClose, Classes
  <2>2. "PRECHARGE" \in CommandType
    BY TypeFacts
  <2> QED BY Zenon, <1>3, <2>1, <2>2 DEF Recovered, Recovery
<1>7. Turned
  <2>1. "WR" \in Classes /\ ReadTypes \subseteq CommandType
    BY TypeFacts DEF Classes, ReadWriteTypes
  <2> QED BY Zenon, <1>3, <2>1, ActivateDelays DEF Turned, Turnaround
<1>8. BusFree
  BY <1>2 DEF BusFree
<1>9. InWindow
  <2>1. Windowed(<<>>, <<>>)
    BY DEF Windowed
  <2> QED BY Zenon, <1>2, <2>1 DEF InWindow
<1> QED BY <1>4, <1>5, <1>6, <1>7, <1>8, <1>9 DEF Kept

(* Deadlines and ages add up in every reachable state: the inductive        *)
(* invariant from which the timing theorems follow.                         *)
THEOREM DeadlinesKept == Spec => [](Types /\ Sound /\ Kept)
<1>1. Init => Types /\ Sound /\ Kept
  BY InitKeeps, InitTimes
<1>2. Types /\ Sound /\ Kept /\ [Next]_vars => Types' /\ Sound' /\ Kept'
  BY Zenon, StepKeeps, TimelyStep, OpenedStep, RecoveredStep, TurnedStep, BusFreeStep,
     InWindowStep DEF Kept
<1> QED BY <1>1, <1>2, PTL DEF Spec


-----------------------------------------------------------------------------
(* From the deadlines to the properties. *)

(* A step does nothing, issues nothing, or issues a legal command. *)
LEMMA StepIssued ==
  ASSUME Types, Sound, [Next]_vars
  PROVE  \/ UNCHANGED vars
         \/ issued'.cmd_type = "SIZE"
         \/ IssueStep(issued')
<1>1. CASE Tick \/ NeedRefresh
  BY Zenon, <1>1, NoCommandFields DEF Tick, NeedRefresh
<1>2. ASSUME NEW cmd, IssueStep(cmd)
      PROVE  IssueStep(issued')
  <2>1. issued' = cmd
    BY <1>2 DEF IssueStep, Record
  <2> QED BY Zenon, <1>2, <2>1
<1> QED BY Zenon, <1>1, <1>2, StepKinds

(* A command whose deadline has passed keeps its delay. *)
LEMMA DelayKept ==
  ASSUME Types, Timely, NEW x \in Banks, NEW y \in Banks, NEW t, NEW c \in Classes, NEW d,
         <<t, c, d>> \in Delays(x, y), Wait(x, t) = 0
  PROVE  since[y][c] >= d
<1> DEFINE q == <<t, c, d>>
<1>1. Guard(x, q[1], y, q[2], q[3])
  BY Zenon DEF Timely
<1>2. since[y][c] \in Int
  BY DEF Types
<1> QED BY <1>1, <1>2 DEF Guard

(* What a bank has waited for when it may see a row command. *)
LEMMA RowCommandWaits ==
  ASSUME Types, Timely, NEW x \in Banks, NEW t \in RowCommands, Wait(x, t) = 0
  PROVE  /\ since[x]["PRE"] >= Config.tRP
         /\ since[x]["SRX"] >= Config.tXS
         /\ t # "REFRESH_BANK" => since[x]["REF"] >= Config.tRFC
         /\ t \in ActivateTypes => since[x]["ACT"] >= Config.tRC
         /\ t \in ActivateTypes => since[x]["PIM_ACT"] >= Config.tRC
<1>1. /\ <<t, "PRE", Config.tRP>> \in Delays(x, x)
      /\ <<t, "SRX", Config.tXS>> \in Delays(x, x)
      /\ t # "REFRESH_BANK" => <<t, "REF", Config.tRFC>> \in Delays(x, x)
      /\ t \in ActivateTypes => <<t, "ACT", Config.tRC>> \in Delays(x, x)
      /\ t \in ActivateTypes => <<t, "PIM_ACT", Config.tRC>> \in Delays(x, x)
  BY DEF Delays, OwnDelays
<1>2. /\ "PRE" \in Classes /\ "SRX" \in Classes /\ "REF" \in Classes
      /\ "ACT" \in Classes /\ "PIM_ACT" \in Classes
  BY DEF Classes
<1> QED BY Zenon, <1>1, <1>2, DelayKept

(* Every activation is legal: closed bank, tRP, tRC, tRFC, tXS and tRRD.    *)
THEOREM ActivationsLegal == Spec => ActivateLegal
<1>1. ASSUME Types, Sound, Kept, [Next]_vars
      PROVE  [ActivateStep]_vars
  <2>1. SUFFICES ASSUME IssueStep(issued'), issued'.cmd_type \in ActivateTypes
                 PROVE  ActivateStep
    <3>1. "SIZE" \notin ActivateTypes
      BY DEF ActivateTypes
    <3> QED BY Zenon, <1>1, <3>1, StepIssued DEF ActivateStep
  <2> DEFINE b == issued'.addr.bank
             t == issued'.cmd_type
  <2>2. b \in Banks /\ StateOf(b) = "CLOSED" /\ Wait(b, t) = 0
    BY Zenon, <1>1, <2>1, ActivateFinds
  <2>3. t \in RowCommands /\ t # "REFRESH_BANK"
    BY <2>1 DEF RowCommands, ActivateTypes
  <2> HIDE DEF b, t
  <2>4. /\ since[b]["PRE"] >= Config.tRP /\ since[b]["SRX"] >= Config.tXS
        /\ since[b]["REF"] >= Config.tRFC
        /\ since[b]["ACT"] >= Config.tRC /\ since[b]["PIM_ACT"] >= Config.tRC
    BY Zenon, <1>1, <2>1, <2>2, <2>3, RowCommandWaits DEF Kept, t
  <2>5. ASSUME t = "ACTIVATE", NEW x \in BanksOf(b[1]), x # b
        PROVE  since[x]["ACT"] >= RRD(b, x)
    <3>1. x \in Banks /\ "ACT" \in Classes
      BY DEF BanksOf, Classes
    <3>2. <<t, "ACT", RRD(b, x)>> \in Delays(b, x)
      BY <2>5 DEF Delays, RankDelays, BanksOf
    <3> QED BY Zenon, <1>1, <2>2, <3>1, <3>2, DelayKept DEF Kept
  <2>6. Precharged(b) /\ SinceActivate(b) >= Config.tRC
    BY <2>2, <2>4 DEF Precharged, SinceActivate, StateOf
  <2> QED BY <2>4, <2>5, <2>6 DEF ActivateStep, RRD, b, t
<1> QED BY <1>1, DeadlinesKept, PTL DEF Spec, ActivateLegal


(* No five activations of a rank fall into one tFAW window. *)
THEOREM WindowRespected == Spec => FourActivateWindow
<1>1. ASSUME Types, Sound, Kept, [Next]_vars
      PROVE  [WindowStep]_vars
  <2>1. SUFFICES ASSUME IssueStep(issued'), issued'.cmd_type \in ActivateTypes
                 PROVE  WindowStep
    <3>1. "SIZE" \notin ActivateTypes
      BY DEF ActivateTypes
    <3> QED BY Zenon, <1>1, <3>1, StepIssued DEF WindowStep
  <2> DEFINE r == Rank(issued')
             w == chan.four_aw[r]
             a == activations[r]
  <2>2. r \in Ranks /\ WindowReady(w, 4)
    BY Zenon, <1>1, <2>1, ActivateFinds
  <2>3. w \in Seq(Nat) /\ a \in Seq(0 .. Horizon) /\ Windowed(w, a)
    BY <1>1, <2>2 DEF Types, Channel, Kept, InWindow
  <2> HIDE DEF w, a
  <2>4. ASSUME Len(a) = 4
        PROVE  a[1] >= Config.tFAW
    <3> DEFINE k == Len(w)
               m == Len(a)
    <3>1. k \in Nat /\ m \in Nat
      BY <2>3
    <3>2. /\ k <= m
          /\ \A i \in 1 .. m - k : a[i] >= Config.tFAW
          /\ \A i \in 1 .. k : w[i] + a[m - k + i] >= Config.tFAW
      BY Zenon, <2>3 DEF Windowed
    <3>3. k = 0 \/ w[1] = 0 \/ k < m
      <4>1. w = <<>> => k = 0
        OBVIOUS
      <4>2. w # <<>> => Head(w) = w[1]
        BY <2>3
      <4>3. w = <<>> \/ Head(w) = 0 \/ k < m
        BY Zenon, <2>2, <2>4 DEF WindowReady
      <4> QED BY Zenon, <4>1, <4>2, <4>3
    <3>4. m = 4
      BY Zenon, <2>4
    <3>5. a[1] \in Nat
      <4>1. a \in [1 .. m -> 0 .. Horizon]
        BY Zenon, <2>3, LenProperties
      <4> HIDE DEF m
      <4> QED BY <3>4, <4>1, HorizonAssumption
    <3> HIDE DEF k, m
    <3>6. CASE k < m
      <4>1. 1 \in 1 .. m - k
        BY <3>1, <3>6
      <4> QED BY Zenon, <3>2, <4>1
    <3>7. CASE ~(k < m)
      <4>1. 1 \in 1 .. k /\ m - k + 1 = 1 /\ w[1] = 0
        BY <3>1, <3>2, <3>3, <3>4, <3>7
      <4>2. w[1] + a[m - k + 1] >= Config.tFAW
        BY Zenon, <3>2, <4>1
      <4> QED BY <3>5, <4>1, <4>2
    <3> QED BY <3>6, <3>7
  <2> QED BY Zenon, <2>4 DEF WindowStep, r, a
<1> QED BY <1>1, DeadlinesKept, PTL DEF Spec, FourActivateWindow

(* What a legal column command finds. *)
LEMMA ColumnFinds ==
  ASSUME Types, Sound, NEW cmd, IssueStep(cmd),
         cmd.cmd_type \in ReadWriteTypes \cup PimReadWriteTypes
  PROVE  LET x == cmd.addr.bank
             t == cmd.cmd_type
         IN /\ x \in Banks /\ StateOf(x) = "OPEN" /\ RowOf(x) = cmd.addr.row
            /\ Wait(x, t) = 0
            /\ t \in ReadWriteTypes => OrdinaryOpen(x)
            /\ t \in PimReadWriteTypes => PimOpen(x)
  BY DEF IssueStep, Legal, ActivateTypes, ReadWriteTypes, PimReadWriteTypes, ReadTypes,
         WriteTypes, LhGhReadTypes, LhGhReadPrechargeTypes, PimWriteTypes, OrdinaryOpen, PimOpen

(* A burst starts on a bus that is free until it ends. *)
THEOREM BurstsApart == Spec => DataBusExclusive
<1>1. ASSUME Types, Sound, Kept, [Next]_vars
      PROVE  [BusStep]_vars
  <2>1. SUFFICES ASSUME IssueStep(issued'), issued'.cmd_type \in ReadWriteTypes
                 PROVE  BusStep
    <3>1. \A t : t \notin ReadWriteTypes => BurstOf(t) = {}
      BY DEF ReadWriteTypes, BurstOf
    <3>2. "SIZE" \notin ReadWriteTypes
      BY DEF ReadWriteTypes, ReadTypes, WriteTypes
    <3>3. \A S : S \cap {} = {}
      OBVIOUS
    <3> QED BY Zenon, <1>1, <3>1, <3>2, <3>3, StepIssued DEF BusStep
  <2> DEFINE x == issued'.addr.bank
             t == issued'.cmd_type
  <2>2. x \in Banks /\ Wait(x, t) = 0 /\ OrdinaryOpen(x)
    BY <1>1, <2>1, ColumnFinds
  <2>3. \A n \in bus : n < DataDelay(t)
    <3>1. \A n \in bus : Clear(x, t, n)
      BY Zenon, <1>1, <2>1, <2>2 DEF Kept, BusFree
    <3>2. DataDelay(t) \in Nat
      BY DelayAssumption DEF DataDelay
    <3> HIDE DEF x, t
    <3> QED BY <2>2, <3>1, <3>2 DEF Clear
  <2>4. \A n \in BurstOf(t) : n >= DataDelay(t)
    <3> HIDE DEF t
    <3>1. t \in ReadTypes \/ t \in WriteTypes
      BY <2>1 DEF ReadWriteTypes, t
    <3>2. CASE t \in ReadTypes
      BY <3>2, DelayAssumption DEF BurstOf, DataDelay, ReadTypes, WriteTypes
    <3>3. CASE t \notin ReadTypes
      BY <3>1, <3>3, DelayAssumption DEF BurstOf, DataDelay
    <3> QED BY <3>2, <3>3
  <2>5. DataDelay(t) \in Nat /\ bus \subseteq Nat
    BY <1>1, DelayAssumption DEF DataDelay, Types
  <2>6. bus \cap BurstOf(t) = {}
    <3> DEFINE d == DataDelay(t)
               burst == BurstOf(t)
    <3> HIDE DEF d, burst
    <3>1. /\ \A n \in bus : n \in Nat /\ n < d
          /\ \A n \in burst : n >= d
          /\ d \in Nat
      BY <2>3, <2>4, <2>5 DEF d, burst
    <3>2. bus \cap burst = {}
      BY <3>1
    <3> QED BY <3>2 DEF burst
  <2> QED BY <2>6 DEF BusStep, t
<1> QED BY <1>1, DeadlinesKept, PTL DEF Spec, DataBusExclusive


(* Column commands find their row open for tRCD, and reads find the last    *)
(* write data of the rank gone for tWTR.                                    *)
THEOREM ColumnAccessesLegal == Spec => ColumnAccessLegal
<1>1. ASSUME Types, Sound, Kept, [Next]_vars
      PROVE  [ColumnStep]_vars
  <2>1. SUFFICES ASSUME IssueStep(issued'),
                        issued'.cmd_type \in ReadWriteTypes \cup PimReadWriteTypes
                 PROVE  ColumnStep
    <3>1. /\ "SIZE" \notin ReadWriteTypes \cup PimReadWriteTypes
          /\ ReadTypes \subseteq ReadWriteTypes \cup PimReadWriteTypes
      BY DEF ReadWriteTypes, PimReadWriteTypes, ReadTypes, WriteTypes, LhGhReadTypes,
             LhGhReadPrechargeTypes, PimWriteTypes
    <3> QED BY Zenon, <1>1, <3>1, StepIssued DEF ColumnStep
  <2> DEFINE x == issued'.addr.bank
             t == issued'.cmd_type
             need == IF t \in ReadTypes \cup LhGhReadTypes \cup LhGhReadPrechargeTypes
                     THEN activate_to_read ELSE activate_to_write
  <2>2. /\ x \in Banks /\ StateOf(x) = "OPEN" /\ RowOf(x) = issued'.addr.row
        /\ Wait(x, t) = 0
        /\ t \in ReadWriteTypes => OrdinaryOpen(x)
        /\ t \in PimReadWriteTypes => PimOpen(x)
    BY Zenon, <1>1, <2>1, ColumnFinds
  <2>3. t \in CommandType /\ Rank(issued') = x[1]
    BY <2>1 DEF IssueStep, Rank
  <2>4. /\ need \in Int /\ Config.tRC \in Int /\ Config.tRC >= need
        /\ since[x]["ACT"] \in Int /\ since[x]["PIM_ACT"] \in Int
        /\ "ACT" \in Classes /\ "PIM_ACT" \in Classes /\ "WR" \in Classes
    <3>1. /\ need \in Int /\ Config.tRC \in Int /\ Config.tRC >= need
      BY DelayAssumption, DelaysAreIntegers
    <3>2. "ACT" \in Classes /\ "PIM_ACT" \in Classes /\ "WR" \in Classes
      BY DEF Classes
    <3> QED BY <1>1, <2>2, <3>1, <3>2 DEF Types
  <2>5. SinceActivate(x) >= need
    <3>1. CASE t \in ReadWriteTypes
      <4>1. <<t, "ACT", need>> \in Delays(x, x)
        BY <3>1 DEF Delays, OwnDelays, ReadWriteTypes, ReadTypes, WriteTypes, LhGhReadTypes,
                    LhGhReadPrechargeTypes
      <4> HIDE DEF x, t, need
      <4>2. since[x]["ACT"] >= need
        BY Zenon, <1>1, <2>2, <2>4, <4>1, DelayKept DEF Kept
      <4>3. since[x]["PIM_ACT"] >= Config.tRC
        BY Zenon, <1>1, <2>2, <3>1 DEF Kept, Opened
      <4> QED BY <2>4, <4>2, <4>3 DEF SinceActivate
    <3>2. CASE t \in PimReadWriteTypes
      <4>1. <<t, "PIM_ACT", need>> \in Delays(x, x)
        BY <3>2 DEF Delays, OwnDelays, PimReadWriteTypes, ReadTypes, PimWriteTypes,
                    LhGhReadTypes, LhGhReadPrechargeTypes
      <4> HIDE DEF x, t, need
      <4>2. since[x]["PIM_ACT"] >= need
        BY Zenon, <1>1, <2>2, <2>4, <4>1, DelayKept DEF Kept
      <4>3. since[x]["ACT"] >= Config.tRC
        BY Zenon, <1>1, <2>2, <3>2 DEF Kept, Opened
      <4> QED BY <2>4, <4>2, <4>3 DEF SinceActivate
    <3> QED BY <2>1, <3>1, <3>2
  <2>6. need = IF ~(Config.IsGDDR \/ Config.IsHBM) THEN Config.tRCD - Config.AL
               ELSE IF ClassOf(t) \in {"RD", "PIM_RD"} THEN Config.tRCDRD
               ELSE Config.tRCDWR
    <3>1. ClassOf(t) \in {"RD", "PIM_RD"} <=>
            t \in ReadTypes \cup LhGhReadTypes \cup LhGhReadPrechargeTypes
      BY <2>3, ClassFacts
    <3> HIDE DEF t
    <3> QED BY <3>1 DEF activate_to_read, activate_to_write
  <2>7. ASSUME t \in ReadTypes, NEW y \in BanksOf(x[1])
        PROVE  since[y]["WR"] >= WTR(x, y)
    <3>1. y \in Banks /\ y[1] = x[1]
      BY DEF BanksOf
    <3>2. CASE y # x
      <4>1. <<t, "WR", WTR(x, y)>> \in Delays(x, y)
        BY <2>7, <3>1, <3>2 DEF Delays, RankDelays
      <4> HIDE DEF x, t
      <4> QED BY Zenon, <1>1, <2>2, <2>4, <3>1, <4>1, DelayKept DEF Kept
    <3>3. CASE y = x
      <4>1. OrdinaryOpen(x)
        BY <2>2, <2>7 DEF ReadWriteTypes
      <4> HIDE DEF x, t
      <4>2. Guard(x, t, x, "WR", WTR(x, x))
        BY Zenon, <1>1, <2>2, <2>7, <4>1 DEF Kept, Turned, Turnaround
      <4>3. since[x]["WR"] \in Int
        BY <1>1, <2>2, <2>4 DEF Types
      <4> QED BY <2>2, <3>3, <4>2, <4>3 DEF Guard
    <3> QED BY <3>2, <3>3
  <2>8. chan.bank_states[x].state = "OPEN" /\ chan.bank_states[x].open_row = issued'.addr.row
    BY <2>2 DEF StateOf, RowOf
  <2>9. t \in ReadTypes => \A y \in BanksOf(Rank(issued')) :
          since[y]["WR"] >= Config.WL + Config.burst_cycle +
            IF y[2] = x[2] /\ Config.bankgroups > 1 THEN Config.tWTR_L ELSE Config.tWTR_S
    BY <2>3, <2>7 DEF WTR
  <2> HIDE DEF need
  <2> QED BY Zenon, <2>5, <2>6, <2>8, <2>9 DEF ColumnStep
<1> QED BY <1>1, DeadlinesKept, PTL DEF Spec, ColumnAccessLegal

(* A row is closed after tRAS and the recovery of its last column command. *)
THEOREM PrechargesLegal == Spec => PrechargeLegal
<1>1. ASSUME Types, Sound, Kept, [Next]_vars
      PROVE  [PrechargeStep]_vars
  <2>1. SUFFICES ASSUME IssueStep(issued'), issued'.cmd_type = "PRECHARGE"
                 PROVE  PrechargeStep
    <3>1. "SIZE" # "PRECHARGE"
      OBVIOUS
    <3> QED BY Zenon, <1>1, <3>1, StepIssued DEF PrechargeStep
  <2> DEFINE x == issued'.addr.bank
  <2>2. x \in Banks /\ StateOf(x) = "OPEN" /\ Wait(x, "PRECHARGE") = 0
    BY <2>1 DEF IssueStep, Legal, ReadWriteTypes, PimReadWriteTypes, ReadTypes,
         WriteTypes, LhGhReadTypes, LhGhReadPrechargeTypes, PimWriteTypes
  <2> HIDE DEF x
  <2>3. "ACT" \in Classes /\ "PIM_ACT" \in Classes
    BY DEF Classes
  <2>4. since[x]["ACT"] >= Config.tRAS /\ since[x]["PIM_ACT"] >= Config.tRAS
    <3>1. /\ <<"PRECHARGE", "ACT", Config.tRAS>> \in Delays(x, x)
          /\ <<"PRECHARGE", "PIM_ACT", Config.tRAS>> \in Delays(x, x)
      BY DEF Delays, OwnDelays
    <3> QED BY Zenon, <1>1, <2>2, <2>3, <3>1, DelayKept DEF Kept
  <2>5. ASSUME NEW c \in Classes, NEW d, <<c, d>> \in ToClose
        PROVE  since[x][c] >= d
    <3> DEFINE q == <<c, d>>
    <3>1. Recovery(x, q[1], q[2])
      BY Zenon, <1>1, <2>2, <2>5 DEF Kept, Recovered
    <3>2. Recovery(x, c, d)
      BY <3>1
    <3>3. Guard(x, "PRECHARGE", x, c, d)
      BY Zenon, <2>2, <3>2 DEF Recovery
    <3>4. since[x][c] \in Int
      BY <1>1, <2>2 DEF Types
    <3> QED BY <2>2, <3>3, <3>4 DEF Guard
  <2>6. /\ \A c \in {"RD", "PIM_RD"} : c \in Classes /\ <<c, Config.AL + Config.tRTP>> \in ToClose
        /\ \A c \in {"WR", "PIM_WR"} :
             c \in Classes /\ <<c, Config.WL + Config.burst_cycle + Config.tWR>> \in ToClose
    BY DEF ToClose, Classes
  <2>7. /\ \A c \in {"RD", "PIM_RD"} : since[x][c] >= Config.AL + Config.tRTP
        /\ \A c \in {"WR", "PIM_WR"} :
             since[x][c] >= Config.WL + Config.burst_cycle + Config.tWR
    BY Zenon, <2>5, <2>6
  <2>8. SinceActivate(x) >= Config.tRAS
    BY <2>4 DEF SinceActivate
  <2> QED BY Zenon, <2>7, <2>8 DEF PrechargeStep, x
<1> QED BY <1>1, DeadlinesKept, PTL DEF Spec, PrechargeLegal


(* Refreshes and self-refresh entries find every bank they cover precharged *)
(* and clear of the rank's last refresh and self-refresh exit.              *)
THEOREM RefreshesLegal == Spec => RefreshLegal
<1>1. ASSUME Types, Sound, Kept, [Next]_vars
      PROVE  [RefreshStep]_vars
  <2>1. SUFFICES ASSUME IssueStep(issued'),
                        issued'.cmd_type \in RefreshTypes \cup {"SREF_ENTER"},
                        NEW x \in Covered(issued')
                 PROVE  /\ Precharged(x)
                        /\ since[x]["REF"] >= Config.tRFC
                        /\ since[x]["SRX"] >= Config.tXS
    <3>1. "SIZE" \notin RefreshTypes \cup {"SREF_ENTER"}
      BY DEF RefreshTypes
    <3> QED BY Zenon, <1>1, <3>1, StepIssued DEF RefreshStep
  <2> DEFINE t == issued'.cmd_type
  <2>2. /\ t \in RequestTypes /\ x \in Banks
        /\ StateOf(x) = "CLOSED" /\ Wait(x, t) = 0
    <3>1. CASE t = "REFRESH_BANK"
      <4>1. x = issued'.addr.bank
        BY <1>1, <2>1, <3>1, LegalKinds DEF IssueStep, RankTypes
      <4> QED BY <2>1, <3>1, <4>1
          DEF IssueStep, Legal, ReadWriteTypes, PimReadWriteTypes, ReadTypes,
              WriteTypes, LhGhReadTypes, LhGhReadPrechargeTypes, PimWriteTypes
    <3>2. CASE t \in {"REFRESH", "SREF_ENTER"}
      <4>1. x \in BanksOf(issued'.addr.bank[1])
        BY <1>1, <2>1, <3>2, LegalKinds DEF IssueStep, RankTypes, Rank
      <4>2. /\ t \in RequestTypes
            /\ \A y \in BanksOf(issued'.addr.bank[1]) : StateOf(y) = "CLOSED" /\ Wait(y, t) = 0
        BY <2>1, <3>2
        DEF IssueStep, Legal, ReadWriteTypes, PimReadWriteTypes, ReadTypes,
            WriteTypes, LhGhReadTypes, LhGhReadPrechargeTypes, PimWriteTypes
      <4> QED BY <4>1, <4>2 DEF BanksOf
    <3> QED BY <2>1, <3>1, <3>2 DEF RefreshTypes
  <2>3. t \in RowCommands
    BY <2>1 DEF RowCommands
  <2> HIDE DEF t
  <2>4. /\ since[x]["PRE"] >= Config.tRP /\ since[x]["SRX"] >= Config.tXS
        /\ t # "REFRESH_BANK" => since[x]["REF"] >= Config.tRFC
    BY Zenon, <1>1, <2>2, <2>3, RowCommandWaits DEF Kept
  <2>5. t = "REFRESH_BANK" => since[x]["REF"] >= Config.tRFC
    <3>1. t = "REFRESH_BANK" => "REFRESH" \notin RequestTypes
      BY <2>2, ClientAssumption DEF RefreshTypes
    <3> QED BY Zenon, <1>1, <2>2, <3>1 DEF Kept, Opened
  <2> QED BY <2>2, <2>4, <2>5 DEF Precharged, StateOf
<1> QED BY <1>1, DeadlinesKept, PTL DEF Spec, RefreshLegal

(* A rank in self-refresh sees the exit command only, after tCKESR. *)
THEOREM SelfRefreshesLegal == Spec => SelfRefreshLegal
<1>1. ASSUME Types, Sound, Kept, [Next]_vars
      PROVE  [SelfRefreshStep]_vars
  <2>1. SUFFICES ASSUME IssueStep(issued'), chan.rank_is_sref[Rank(issued')]
                 PROVE  SelfRefreshStep
    <3>1. "SIZE" \notin CommandType
      BY TypeFacts
    <3> QED BY Zenon, <1>1, <3>1, StepIssued DEF SelfRefreshStep
  <2> DEFINE r == Rank(issued')
             t == issued'.cmd_type
             b == issued'.addr.bank
  <2>2. r \in Ranks /\ r = b[1] /\ t \in CommandType
    BY <1>1, <2>1, LegalKinds DEF IssueStep, Rank
  <2>3. PICK y \in Banks : y[1] = r
    <3>1. <<r, 0, 0>> \in Banks
      BY <2>2, StructureAssumption DEF Banks, Bankgroups, BanksPerGroup
    <3> QED BY <3>1
  <2>4. \A x \in Banks : x[1] = r => StateOf(x) = "SREF"
    BY Zenon, <1>1, <2>1 DEF Sound
  <2>5. t = "SREF_EXIT" /\ b \in Banks /\ Wait(b, "SREF_EXIT") = 0
    <3>1. b \in Banks => StateOf(b) = "SREF"
      BY Zenon, <2>2, <2>4
    <3>2. y \in BanksOf(b[1]) /\ StateOf(y) = "SREF"
      BY <2>2, <2>3, <2>4 DEF BanksOf
    <3> QED BY <2>1, <3>1, <3>2 DEF IssueStep, Legal
  <2>6. ASSUME NEW x \in BanksOf(r)
        PROVE  since[x]["SRE"] >= Config.tCKESR
    <3>1. x \in Banks /\ x[1] = b[1] /\ "SRE" \in Classes
      BY <2>2 DEF BanksOf, Classes
    <3>2. <<"SREF_EXIT", "SRE", Config.tCKESR>> \in Delays(b, x)
      BY <3>1 DEF Delays, OwnDelays, RankDelays
    <3> HIDE DEF b
    <3> QED BY Zenon, <1>1, <2>5, <3>1, <3>2, DelayKept DEF Kept
  <2> QED BY Zenon, <2>5, <2>6 DEF SelfRefreshStep
<1> QED BY <1>1, DeadlinesKept, PTL DEF Spec, SelfRefreshLegal
=============================================================================
