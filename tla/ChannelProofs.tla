--------------------------- MODULE ChannelProofs ----------------------------
(***************************************************************************)
(* Proofs about ChannelProtocol: whatever is asked of a channel and when,  *)
(* the commands it lets through are legal for the banks they go to, keep   *)
(* the timing parameters and leave the data bus to one burst at a time,    *)
(* for every number of ranks and banks and all timing parameters that      *)
(* satisfy DelayAssumption.                                                *)
(***************************************************************************)
EXTENDS ChannelProtocol, SequenceTheorems, WellFoundedInduction, TLAPS

-----------------------------------------------------------------------------
(* The state. *)
Bank ==
  [state : {"CLOSED", "OPEN", "SREF", "ABRUPT_EXIT"}, open_row : Nat \cup {-1},
   row_hit_count : 0 .. RowHitLimit, cmd_timing : [CommandType -> Nat]]

RefreshCommands ==
  {Command("REFRESH", RankAddress(r), -1) : r \in Ranks}
    \cup {Command("REFRESH_BANK", Address(x, -1, -1), -1) : x \in Banks}

Channel ==
  [bank_states : [Banks -> Bank], refresh_q : Seq(RefreshCommands),
   rank_is_sref : [Ranks -> BOOLEAN], rank_idle_cycles : [Ranks -> Nat],
   four_aw : [Ranks -> Seq(Nat)], thirty_two_aw : [Ranks -> Seq(Nat)]]

Types ==
  /\ chan \in Channel
  /\ since \in [Banks -> [Classes -> Int]]
  /\ \A x \in Banks, c \in Classes : since[x][c] <= Horizon
  /\ activations \in [Ranks -> Seq(0 .. Horizon)]
  /\ bus \subseteq Nat

-----------------------------------------------------------------------------
(* The delays. *)

(* Every delay is an integer. *)
LEMMA DelaysAreIntegers ==
  /\ read_to_read_s \in Int /\ read_to_read_l \in Int
  /\ read_to_read_o \in Int /\ read_to_write \in Int
  /\ read_to_write_o \in Int /\ read_to_precharge \in Int
  /\ readp_to_act \in Int /\ write_to_read_s \in Int
  /\ write_to_read_l \in Int /\ write_to_read_o \in Int
  /\ write_to_write_s \in Int /\ write_to_write_l \in Int
  /\ write_to_write_o \in Int /\ write_to_precharge \in Int
  /\ precharge_to_activate \in Int /\ precharge_to_precharge \in Int
  /\ read_to_activate \in Int /\ write_to_activate \in Int
  /\ activate_to_activate \in Int /\ activate_to_activate_s \in Int
  /\ activate_to_activate_l \in Int /\ activate_to_precharge \in Int
  /\ activate_to_read \in Int /\ activate_to_write \in Int
  /\ activate_to_refresh \in Int /\ refresh_to_refresh \in Int
  /\ refresh_to_activate \in Int /\ refresh_to_activate_bank \in Int
  /\ self_refresh_entry_to_exit \in Int /\ self_refresh_exit \in Int
  BY DelayAssumption
  DEF read_to_read_s, read_to_read_l, read_to_read_o, read_to_write,
      read_to_write_o, read_to_precharge, readp_to_act, write_to_read_s,
      write_to_read_l, write_to_read_o, write_to_write_s, write_to_write_l,
      write_to_write_o, write_to_precharge, precharge_to_activate,
      precharge_to_precharge, read_to_activate, write_to_activate,
      activate_to_activate, activate_to_activate_s, activate_to_activate_l,
      activate_to_precharge, activate_to_read, activate_to_write,
      activate_to_refresh, refresh_to_refresh, refresh_to_activate,
      refresh_to_activate_bank, self_refresh_entry_to_exit,
      self_refresh_exit, MaxOf

-----------------------------------------------------------------------------
(* The tables. *)

(* A list of delays with one entry at most for each command type. *)
Functional(list) ==
  /\ list \subseteq CommandType \X Int
  /\ \A p, q \in list : p[1] = q[1] => p[2] = q[2]

(* The command types are told apart. *)
LEMMA TypeFacts ==
  /\ ActivateTypes \subseteq CommandType \ RankTypes
  /\ ReadWriteTypes \cup PimReadWriteTypes \subseteq CommandType \ RankTypes
  /\ "PRECHARGE" \in CommandType \ RankTypes
  /\ "REFRESH_BANK" \in CommandType \ RankTypes
  /\ RankTypes \subseteq CommandType
  /\ "SIZE" \notin CommandType /\ "ABRUPT_EXIT" \notin CommandType
  BY DEF CommandType, ReadTypes, WriteTypes, LhGhReadTypes,
         LhGhReadPrechargeTypes, PimWriteTypes, ActivateTypes, RefreshTypes,
         RankTypes, ReadWriteTypes, PimReadWriteTypes

(* The lists of the tables, one command type at a time. *)
LEMMA SameBankLists ==
  ASSUME NEW t \in CommandType
  PROVE
    /\ t = "READ" =>
         same_bank[t] = DataBus(read_to_read_l, read_to_write)
                          \cup {<<"PRECHARGE", read_to_precharge>>}
    /\ t = "WRITE" =>
         same_bank[t] = DataBus(write_to_read_l, write_to_write_l)
                          \cup {<<"PRECHARGE", write_to_precharge>>}
    /\ t \in LhGhReadTypes =>
         same_bank[t] = PimDataBus(read_to_read_s, read_to_read_s, read_to_write)
                          \cup {<<"PRECHARGE", read_to_precharge>>}
    /\ t = "PIM_WRITE" =>
         same_bank[t] = PimDataBus(write_to_read_s, write_to_read_l, write_to_write_s)
                          \cup {<<"PRECHARGE", write_to_precharge>>}
    /\ t \in {"READ_PRECHARGE"} \cup LhGhReadPrechargeTypes =>
         same_bank[t] = AfterAutoPrecharge(readp_to_act, read_to_activate)
    /\ t \in {"WRITE_PRECHARGE", "PIM_WRITE_PRECHARGE"} =>
         same_bank[t] = AfterAutoPrecharge(write_to_activate, write_to_activate)
    /\ t = "ACTIVATE" =>
         same_bank[t] = (ActivateTypes \X {activate_to_activate})
                          \cup DataBus(activate_to_read, activate_to_write)
                          \cup {<<"PRECHARGE", activate_to_precharge>>}
    /\ t = "PIM_ACTIVATE" =>
         same_bank[t] = (ActivateTypes \X {activate_to_activate})
                          \cup PimDataBus(activate_to_read, activate_to_read,
                                          activate_to_write)
                          \cup {<<"PRECHARGE", activate_to_precharge>>}
    /\ t = "PRECHARGE" =>
         same_bank[t] = RowCommands \X {precharge_to_activate}
    /\ t \in RefreshTypes \cup RankTypes => same_bank[t] = {}
  BY SMT DEF same_bank, LhGhReadTypes, LhGhReadPrechargeTypes, RefreshTypes, RankTypes

(* The lists that the other banks of the rank get. *)
LEMMA OtherBanksLists ==
  ASSUME NEW t \in CommandType, NEW rr, NEW ww, NEW wr, NEW aa
  PROVE
    /\ t \in ReadTypes => OtherBanks(t, rr, ww, wr, aa) = DataBus(rr, read_to_write)
    /\ t \in WriteTypes => OtherBanks(t, rr, ww, wr, aa) = DataBus(wr, ww)
    /\ t = "ACTIVATE" =>
         OtherBanks(t, rr, ww, wr, aa) =
           {<<"ACTIVATE", aa>>, <<"REFRESH_BANK", activate_to_refresh>>}
    /\ t = "PIM_ACTIVATE" =>
         OtherBanks(t, rr, ww, wr, aa) = {<<"REFRESH_BANK", activate_to_refresh>>}
    /\ t = "PRECHARGE" =>
         OtherBanks(t, rr, ww, wr, aa) \in {{<<"PRECHARGE", precharge_to_precharge>>}, {}}
    /\ t = "REFRESH_BANK" =>
         OtherBanks(t, rr, ww, wr, aa) =
           (ActivateTypes \X {refresh_to_activate})
             \cup {<<"REFRESH_BANK", refresh_to_refresh>>}
    /\ t \in PimReadWriteTypes \cup RankTypes => OtherBanks(t, rr, ww, wr, aa) = {}
  BY SMT DEF OtherBanks, ReadTypes, WriteTypes, PimReadWriteTypes, LhGhReadTypes,
             LhGhReadPrechargeTypes, PimWriteTypes, RankTypes

(* The lists that the other ranks and a whole rank get. *)
LEMMA RankLists ==
  ASSUME NEW t \in CommandType
  PROVE
    /\ t \in ReadTypes => other_ranks[t] = DataBus(read_to_read_o, read_to_write_o)
    /\ t \in WriteTypes => other_ranks[t] = DataBus(write_to_read_o, write_to_write_o)
    /\ t \notin ReadWriteTypes => other_ranks[t] = {}
    /\ t = "REFRESH_BANK" => same_rank[t] = RowCommands \X {refresh_to_activate_bank}
    /\ t = "REFRESH" =>
         same_rank[t] = (RowCommands \ {"REFRESH_BANK"}) \X {refresh_to_activate}
    /\ t = "SREF_ENTER" => same_rank[t] = {<<"SREF_EXIT", self_refresh_entry_to_exit>>}
    /\ t = "SREF_EXIT" => same_rank[t] = RowCommands \X {self_refresh_exit}
    /\ t \notin RefreshTypes \cup RankTypes => same_rank[t] = {}
  BY SMT DEF other_ranks, same_rank, ReadTypes, WriteTypes, ReadWriteTypes,
             RefreshTypes, RankTypes

(* Every command type is of one of these kinds. *)
LEMMA TypeKinds ==
  ASSUME NEW t \in CommandType
  PROVE  \/ t \in {"READ", "WRITE", "PIM_WRITE", "ACTIVATE", "PIM_ACTIVATE", "PRECHARGE"}
         \/ t \in LhGhReadTypes
         \/ t \in {"READ_PRECHARGE"} \cup LhGhReadPrechargeTypes
         \/ t \in {"WRITE_PRECHARGE", "PIM_WRITE_PRECHARGE"}
         \/ t \in RefreshTypes \cup RankTypes
  BY DEF CommandType, ReadTypes, WriteTypes, LhGhReadTypes,
         LhGhReadPrechargeTypes, PimWriteTypes, ActivateTypes, RefreshTypes,
         RankTypes, ReadWriteTypes, PimReadWriteTypes

(* Every list of every table names every command type once. *)
LEMMA TablesFunctional ==
  ASSUME NEW t \in CommandType
  PROVE  /\ Functional(same_bank[t])
         /\ Functional(other_banks_same_bankgroup[t])
         /\ Functional(other_bankgroups_same_rank[t])
         /\ Functional(other_ranks[t])
         /\ Functional(same_rank[t])
<1> USE DelaysAreIntegers
    DEF Functional, DataBus, PimDataBus, AfterAutoPrecharge, RowCommands,
        CommandType, ReadTypes, WriteTypes, LhGhReadTypes,
        LhGhReadPrechargeTypes, PimWriteTypes, ActivateTypes, RefreshTypes,
        RankTypes, ReadWriteTypes, PimReadWriteTypes
<1>1. Functional(same_bank[t])
  BY SMTT(60), SameBankLists
<1>2. ASSUME NEW rr \in Int, NEW ww \in Int, NEW wr \in Int, NEW aa \in Int
      PROVE  Functional(OtherBanks(t, rr, ww, wr, aa))
  BY SMTT(60), OtherBanksLists
<1>3. Functional(other_banks_same_bankgroup[t])
        /\ Functional(other_bankgroups_same_rank[t])
  <2> HIDE DEF Functional, DataBus, PimDataBus, AfterAutoPrecharge, RowCommands,
              CommandType, ReadTypes, WriteTypes, LhGhReadTypes,
              LhGhReadPrechargeTypes, PimWriteTypes, ActivateTypes, RefreshTypes,
              RankTypes, ReadWriteTypes, PimReadWriteTypes
  <2>1. /\ other_banks_same_bankgroup[t] =
             OtherBanks(t, read_to_read_l, write_to_write_l,
                        write_to_read_l, activate_to_activate_l)
        /\ other_bankgroups_same_rank[t] =
             OtherBanks(t, read_to_read_s, write_to_write_s,
                        write_to_read_s, activate_to_activate_s)
    BY Zenon DEF other_banks_same_bankgroup, other_bankgroups_same_rank
  <2> QED BY <1>2, <2>1
<1>4. Functional(other_ranks[t])
  BY RankLists
<1>5. Functional(same_rank[t])
  BY RankLists
<1> QED BY <1>1, <1>3, <1>4, <1>5

(* UpdateTiming, for a list with one delay per command type: no deadline    *)
(* moves back, and every delay of the list is kept.                         *)
LEMMA UpdateTimingKeepsDelays ==
  ASSUME NEW b \in Bank, NEW list, Functional(list)
  PROVE  /\ BankUpdateTiming(b, list) \in Bank
         /\ BankUpdateTiming(b, list).state = b.state
         /\ BankUpdateTiming(b, list).open_row = b.open_row
         /\ \A t \in CommandType :
              BankUpdateTiming(b, list).cmd_timing[t] >= b.cmd_timing[t]
         /\ \A p \in list : BankUpdateTiming(b, list).cmd_timing[p[1]] >= p[2]
<1> DEFINE delays(t) == {p[2] : p \in {q \in list : q[1] = t}}
           all(t) == delays(t) \cup {b.cmd_timing[t]}
           latest(t) == CHOOSE m \in all(t) : \A d \in all(t) : d <= m
<1>0. b.cmd_timing \in [CommandType -> Nat]
  BY DEF Bank
<1>1. ASSUME NEW t \in CommandType
      PROVE  /\ latest(t) \in all(t)
             /\ \A d \in all(t) : d <= latest(t)
             /\ latest(t) \in Nat
  <2>1. \A d, e \in delays(t) : d = e /\ d \in Int
    BY DEF Functional
  <2>2. b.cmd_timing[t] \in Nat
    BY <1>0
  <2>3. \E m \in all(t) : \A d \in all(t) : d <= m
    <3> HIDE DEF delays
    <3>1. CASE \E d \in delays(t) : d > b.cmd_timing[t]
      BY <2>1, <2>2, <3>1
    <3>2. CASE ~ \E d \in delays(t) : d > b.cmd_timing[t]
      BY <2>1, <2>2, <3>2
    <3> QED BY <3>1, <3>2
  <2> HIDE DEF delays
  <2>4. latest(t) \in all(t) /\ \A d \in all(t) : d <= latest(t)
    BY <2>3, Zenon
  <2> HIDE DEF latest
  <2>5. latest(t) \in Int /\ latest(t) >= b.cmd_timing[t]
    BY <2>1, <2>2, <2>4
  <2> QED BY <2>2, <2>4, <2>5
<1>2. BankUpdateTiming(b, list) =
        [b EXCEPT !.cmd_timing = [t \in CommandType |-> latest(t)]]
  BY Zenon DEF BankUpdateTiming
<1>3. \A p \in list : p[1] \in CommandType /\ p[2] \in delays(p[1])
  BY DEF Functional
<1> HIDE DEF latest, delays
<1>4. [t \in CommandType |-> latest(t)] \in [CommandType -> Nat]
  BY <1>1
<1>5. \A t \in CommandType : latest(t) >= b.cmd_timing[t]
  BY <1>1
<1>6. \A p \in list : p[1] \in CommandType /\ latest(p[1]) >= p[2]
  BY <1>1, <1>3
<1> HIDE DEF all
<1> QED BY <1>2, <1>4, <1>5, <1>6 DEF Bank

-----------------------------------------------------------------------------
(* Which commands are let through. *)
StateOf(x) == chan.bank_states[x].state
RowOf(x) == chan.bank_states[x].open_row
Wait(x, t) == chan.bank_states[x].cmd_timing[t]

OrdinaryRow(x, row) ==
  \E a \in Addr \ PimAddr : /\ Config.AddressMapping[a].bank = x
                            /\ Config.AddressMapping[a].row = row
PimRow(x, row) ==
  \E a \in PimAddr : /\ Config.AddressMapping[a].bank = x
                     /\ Config.AddressMapping[a].row = row

(* No bank has run into AbruptExit, the banks of a rank self-refresh        *)
(* together, rows are opened for addresses, and only refreshes of the       *)
(* policy in force wait.                                                    *)
Sound ==
  /\ issued # AbruptExit
  /\ \A x \in Banks :
       /\ StateOf(x) # "ABRUPT_EXIT"
       /\ StateOf(x) = "SREF" <=> chan.rank_is_sref[x[1]]
       /\ StateOf(x) = "OPEN" => OrdinaryRow(x, RowOf(x)) \/ PimRow(x, RowOf(x))
  /\ \A i \in DOMAIN chan.refresh_q : chan.refresh_q[i].cmd_type \in RequestTypes

(* The command finds its bank, or every bank of its rank, in a state in     *)
(* which it is defined, and its time has come.                              *)
Legal(cmd) ==
  LET t == cmd.cmd_type
      x == cmd.addr.bank
      row == cmd.addr.row
      Due(state) == x \in Banks /\ StateOf(x) = state /\ Wait(x, t) = 0
  IN \/ t = "PRECHARGE" /\ Due("OPEN")
     \/ t \in ReadWriteTypes /\ Due("OPEN") /\ RowOf(x) = row /\ OrdinaryRow(x, row)
     \/ t \in PimReadWriteTypes /\ Due("OPEN") /\ RowOf(x) = row /\ PimRow(x, row)
     \/ /\ t = "ACTIVATE" /\ Due("CLOSED") /\ OrdinaryRow(x, row)
        /\ IsFAWReady(chan, x[1])
     \/ /\ t = "PIM_ACTIVATE" /\ Due("CLOSED") /\ PimRow(x, row)
        /\ IsFAWReady(chan, x[1])
     \/ t = "SREF_EXIT" /\ Due("SREF")
     \/ t = "REFRESH_BANK" /\ Due("CLOSED") /\ t \in RequestTypes
     \/ /\ t \in {"REFRESH", "SREF_ENTER"} /\ x[1] \in Ranks /\ t \in RequestTypes
        /\ \A y \in BanksOf(x[1]) : StateOf(y) = "CLOSED" /\ Wait(y, t) = 0

(* A step that issues cmd. *)
IssueStep(cmd) ==
  /\ Legal(cmd) /\ cmd.cmd_type \in CommandType
  /\ chan' = UpdateTimingAndStates(chan, cmd)
  /\ Record(cmd)

(* What a bank answers to the requests that are made. *)
LEMMA BankAnswers ==
  ASSUME NEW b \in Bank, NEW request, b.state # "ABRUPT_EXIT",
         \/ request.cmd_type \in ReadWriteTypes \cup PimReadWriteTypes
         \/ request.cmd_type \in RefreshTypes \cup {"SREF_ENTER"} /\ b.state # "SREF"
  PROVE  LET r == RequiredType(b, request)
         IN /\ r \in CommandType
            /\ \/ /\ r = "ACTIVATE" /\ b.state = "CLOSED"
                  /\ request.cmd_type \in ReadWriteTypes
               \/ /\ r = "PIM_ACTIVATE" /\ b.state = "CLOSED"
                  /\ request.cmd_type \in PimReadWriteTypes
               \/ /\ r = request.cmd_type /\ b.state = "CLOSED"
                  /\ request.cmd_type \in RefreshTypes \cup {"SREF_ENTER"}
               \/ /\ r = request.cmd_type /\ b.state = "OPEN"
                  /\ request.cmd_type \in ReadWriteTypes \cup PimReadWriteTypes
                  /\ request.addr.row = b.open_row
               \/ r = "PRECHARGE" /\ b.state = "OPEN"
               \/ r = "SREF_EXIT" /\ b.state = "SREF"
            /\ BankReadyCommand(b, request) =
                 IF b.cmd_timing[r] = 0
                 THEN Command(r, request.addr, request.hex_addr) ELSE NoCommand
<1>1. b.state \in {"CLOSED", "OPEN", "SREF"}
  BY DEF Bank
<1>2. PICK r : r = RequiredType(b, request)
  OBVIOUS
<1>3. /\ r \in CommandType
      /\ \/ /\ r = "ACTIVATE" /\ b.state = "CLOSED"
            /\ request.cmd_type \in ReadWriteTypes
         \/ /\ r = "PIM_ACTIVATE" /\ b.state = "CLOSED"
            /\ request.cmd_type \in PimReadWriteTypes
         \/ /\ r = request.cmd_type /\ b.state = "CLOSED"
            /\ request.cmd_type \in RefreshTypes \cup {"SREF_ENTER"}
         \/ /\ r = request.cmd_type /\ b.state = "OPEN"
            /\ request.cmd_type \in ReadWriteTypes \cup PimReadWriteTypes
            /\ request.addr.row = b.open_row
         \/ r = "PRECHARGE" /\ b.state = "OPEN"
         \/ r = "SREF_EXIT" /\ b.state = "SREF"
  BY Zenon, <1>1, <1>2
  DEF RequiredType, CommandType, ReadTypes, WriteTypes, LhGhReadTypes,
      LhGhReadPrechargeTypes, PimWriteTypes, ActivateTypes, RefreshTypes,
      RankTypes, ReadWriteTypes, PimReadWriteTypes
<1>4. r # "ABRUPT_EXIT"
  BY <1>3, TypeFacts
<1>5. BankReadyCommand(b, request) =
        IF b.cmd_timing[r] = 0
        THEN Command(r, request.addr, request.hex_addr) ELSE NoCommand
  BY Zenon, <1>2, <1>4 DEF BankReadyCommand, CommandIfDue
<1> QED BY Zenon, <1>2, <1>3, <1>5

(* A command is a record of its three parts. *)
LEMMA CommandFields ==
  ASSUME NEW t, NEW a, NEW h
  PROVE  /\ Command(t, a, h).cmd_type = t
         /\ Command(t, a, h).addr = a
         /\ Command(t, a, h).hex_addr = h
  BY DEF Command

(* The answers that are no commands. *)
LEMMA NoCommandFields ==
  /\ ~IsValid(NoCommand) /\ NoCommand.cmd_type = "SIZE"
  /\ AbruptExit.cmd_type = "ABRUPT_EXIT"
  BY DEF IsValid, NoCommand, AbruptExit, Command

(* A column access to an address is answered with a legal command. *)
LEMMA AccessIsLegal ==
  ASSUME Types, Sound, NEW t, NEW a \in Addr,
         \/ t \in ReadWriteTypes /\ a \notin PimAddr
         \/ t \in PimReadWriteTypes /\ a \in PimAddr,
         Issue(Command(t, Config.AddressMapping[a], a))
  PROVE  \E cmd : IssueStep(cmd)
<1> DEFINE request == Command(t, Config.AddressMapping[a], a)
           x == Config.AddressMapping[a].bank
           b == chan.bank_states[x]
           r == RequiredType(b, request)
           cmd == GetReadyCommand(chan, request)
<1>1. x \in Banks /\ Config.AddressMapping[a].row \in Nat
  BY StructureAssumption
<1>2. b \in Bank /\ b.state # "ABRUPT_EXIT"
  BY <1>1 DEF Types, Channel, Sound, StateOf
<1>3. /\ request.cmd_type = t /\ request.addr = Config.AddressMapping[a]
      /\ request.addr.bank = x /\ Rank(request) = x[1]
  BY CommandFields DEF Rank
<1> HIDE DEF request
<1>4. t \in ReadWriteTypes \cup PimReadWriteTypes /\ t \in CommandType \ RankTypes
  BY TypeFacts
<1>5. /\ r \in CommandType
      /\ \/ r = "ACTIVATE" /\ b.state = "CLOSED" /\ t \in ReadWriteTypes
         \/ r = "PIM_ACTIVATE" /\ b.state = "CLOSED" /\ t \in PimReadWriteTypes
         \/ r = t /\ b.state = "OPEN" /\ request.addr.row = b.open_row
         \/ r = "PRECHARGE" /\ b.state = "OPEN"
         \/ r = "SREF_EXIT" /\ b.state = "SREF"
      /\ BankReadyCommand(b, request) =
           IF b.cmd_timing[r] = 0
           THEN Command(r, request.addr, request.hex_addr) ELSE NoCommand
  <2>1. t \notin RefreshTypes \cup {"SREF_ENTER"}
    BY <1>4 DEF RefreshTypes, ReadWriteTypes, PimReadWriteTypes, ReadTypes, WriteTypes,
         LhGhReadTypes, LhGhReadPrechargeTypes, PimWriteTypes
  <2> HIDE DEF b
  <2> QED BY Zenon, <1>2, <1>3, <1>4, <2>1, BankAnswers
<1> HIDE DEF b, r
<1>6. GetReadyCommand(chan, request) =
        IF BankReadyCommand(b, request).cmd_type \in ActivateTypes
             /\ ~ActivationWindowOk(chan, x[1])
        THEN NoCommand ELSE BankReadyCommand(b, request)
  BY Zenon, <1>3, <1>4 DEF GetReadyCommand, b
<1>7. IsValid(cmd) /\ ~Exited
  BY Zenon DEF Issue, request
<1>8. /\ b.cmd_timing[r] = 0
      /\ cmd = Command(r, request.addr, request.hex_addr)
      /\ r \in ActivateTypes => ActivationWindowOk(chan, x[1])
  <2>1. b.cmd_timing[r] = 0
    <3>1. SUFFICES ASSUME b.cmd_timing[r] # 0 PROVE FALSE
      OBVIOUS
    <3>2. BankReadyCommand(b, request) = NoCommand
      BY Zenon, <3>1, <1>5
    <3>3. cmd = NoCommand
      BY Zenon, <3>2, <1>6
    <3> QED BY Zenon, <3>3, <1>7, NoCommandFields
  <2>2. BankReadyCommand(b, request) = Command(r, request.addr, request.hex_addr)
    BY Zenon, <2>1, <1>5
  <2>3. BankReadyCommand(b, request).cmd_type = r
    BY <2>2, CommandFields
  <2>4. cmd # NoCommand
    BY Zenon, <1>7, NoCommandFields
  <2> HIDE DEF cmd
  <2>5. cmd = IF r \in ActivateTypes /\ ~ActivationWindowOk(chan, x[1])
              THEN NoCommand ELSE Command(r, request.addr, request.hex_addr)
    BY Zenon, <1>6, <2>2, <2>3 DEF cmd
  <2> QED BY Zenon, <2>1, <2>4, <2>5
<1> HIDE DEF cmd
<1>9. cmd.cmd_type = r /\ cmd.addr = Config.AddressMapping[a] /\ cmd.addr.bank = x
  BY <1>3, <1>8, CommandFields
<1>10. cmd # AbruptExit
  BY <1>5, <1>9, NoCommandFields, TypeFacts
<1>11. chan' = UpdateTimingAndStates(chan, cmd) /\ Record(cmd)
  BY Zenon, <1>10 DEF Issue, request, cmd
<1>12. Legal(cmd)
  <2>1. Wait(x, r) = 0 /\ StateOf(x) = b.state /\ RowOf(x) = b.open_row
    BY <1>8 DEF Wait, StateOf, RowOf, b
  <2>2. CASE t \in ReadWriteTypes /\ a \notin PimAddr
    <3>1. OrdinaryRow(x, cmd.addr.row)
      BY <1>9, <2>2 DEF OrdinaryRow
    <3>2. r \in ActivateTypes => IsFAWReady(chan, x[1])
      BY <1>8 DEF ActivationWindowOk
    <3>3. t \notin PimReadWriteTypes
      BY <2>2 DEF ReadWriteTypes, PimReadWriteTypes, ReadTypes, WriteTypes,
            LhGhReadTypes, LhGhReadPrechargeTypes, PimWriteTypes
    <3> HIDE DEF x
    <3> QED BY <1>1, <1>3, <1>5, <1>9, <2>1, <2>2, <3>1, <3>2, <3>3 DEF Legal, ActivateTypes
  <2>3. CASE t \in PimReadWriteTypes /\ a \in PimAddr
    <3>1. PimRow(x, cmd.addr.row)
      BY <1>9, <2>3 DEF PimRow
    <3>2. r \in ActivateTypes => IsFAWReady(chan, x[1])
      BY <1>8 DEF ActivationWindowOk
    <3>3. t \notin ReadWriteTypes
      BY <2>3 DEF ReadWriteTypes, PimReadWriteTypes, ReadTypes, WriteTypes,
            LhGhReadTypes, LhGhReadPrechargeTypes, PimWriteTypes
    <3> HIDE DEF x
    <3> QED BY <1>1, <1>3, <1>5, <1>9, <2>1, <2>3, <3>1, <3>2, <3>3 DEF Legal, ActivateTypes
  <2> QED BY <2>2, <2>3
<1> QED BY <1>5, <1>9, <1>11, <1>12 DEF IssueStep

(* A non-empty set of naturals has a least element: the first bank that     *)
(* answers with another command is defined.                                 *)
LEMMA LeastExists ==
  ASSUME NEW S \in SUBSET Nat, S # {}
  PROVE  \E i \in S : \A j \in S : i <= j
<1>1. IsWellFoundedOn(OpToRel(<, Nat), Nat)
  BY Zenon, NatLessThanWellFounded
<1>2. PICK i \in S : \A j \in S : ~(<<j, i>> \in OpToRel(<, Nat))
  BY Zenon, <1>1, WFMin
<1>3. \A j \in S : ~(j < i)
  BY Zenon, <1>2 DEF OpToRel
<1> QED BY <1>3

(* The order in which GetReadyCommand visits the banks is by number. *)
LEMMA VisitIndexNat ==
  \A x \in Banks : VisitIndex(x) \in Nat
<1> SUFFICES ASSUME NEW x \in Banks PROVE VisitIndex(x) \in Nat
  OBVIOUS
<1>1. x[2] \in Nat /\ x[3] \in Nat /\ Config.banks_per_group \in Nat
  BY StructureAssumption DEF Banks, Ranks, Bankgroups, BanksPerGroup
<1>2. x[2] * Config.banks_per_group \in Nat
  BY <1>1
<1> QED BY <1>1, <1>2 DEF VisitIndex

(* A request to a whole rank is answered with the request itself, when      *)
(* every bank is closed and ready, or with the precharge of an open bank.   *)
LEMMA RankRequestIsLegal ==
  ASSUME Types, Sound, NEW t \in {"REFRESH", "SREF_ENTER"}, t \in RequestTypes,
         NEW r \in Ranks, ~chan.rank_is_sref[r],
         Issue(Command(t, RankAddress(r), -1))
  PROVE  \E cmd : IssueStep(cmd)
<1> DEFINE request == Command(t, RankAddress(r), -1)
           answer == [x \in BanksOf(r) |-> BankReadyCommand(chan.bank_states[x], request)]
           other == {x \in DOMAIN answer :
                       IsValid(answer[x]) /\ answer[x].cmd_type # request.cmd_type}
           cmd == GetReadyCommand(chan, request)
<1>1. /\ request.cmd_type = t /\ Rank(request) = r
      /\ request.addr.bank = <<r, -1, -1>> /\ request.addr.bank[1] = r
  BY CommandFields DEF Rank, RankAddress, Address
<1>2. t \in RankTypes /\ t \in CommandType /\ t \in RefreshTypes \cup {"SREF_ENTER"}
        /\ t # "PRECHARGE"
        /\ t \notin ReadWriteTypes /\ t \notin PimReadWriteTypes
        /\ t # "SREF_EXIT"
  BY DEF RankTypes, RefreshTypes, CommandType, ReadWriteTypes, PimReadWriteTypes,
         ReadTypes, WriteTypes, LhGhReadTypes, LhGhReadPrechargeTypes, PimWriteTypes
<1>3. ASSUME NEW x \in BanksOf(r)
      PROVE  /\ x \in Banks /\ x[1] = r
             /\ \/ StateOf(x) = "CLOSED" /\ answer[x] = NoCommand
                \/ /\ StateOf(x) = "CLOSED" /\ Wait(x, t) = 0
                   /\ answer[x].cmd_type = t
                \/ StateOf(x) = "OPEN" /\ answer[x] = NoCommand
                \/ /\ StateOf(x) = "OPEN" /\ Wait(x, "PRECHARGE") = 0
                   /\ answer[x] = Command("PRECHARGE", request.addr, request.hex_addr)
  <2>1. x \in Banks /\ x[1] = r
    BY DEF BanksOf
  <2> DEFINE b == chan.bank_states[x]
  <2>2. b \in Bank /\ b.state # "ABRUPT_EXIT" /\ b.state # "SREF"
    BY <2>1 DEF Types, Channel, Sound, StateOf
  <2>3. answer[x] = BankReadyCommand(b, request)
    BY Zenon
  <2>4. StateOf(x) = b.state /\ \A u : Wait(x, u) = b.cmd_timing[u]
    BY DEF StateOf, Wait
  <2> HIDE DEF b, request, answer
  <2> DEFINE q == RequiredType(b, request)
  <2>5. /\ \/ q = t /\ b.state = "CLOSED"
           \/ q = "PRECHARGE" /\ b.state = "OPEN"
        /\ BankReadyCommand(b, request) =
             IF b.cmd_timing[q] = 0
             THEN Command(q, request.addr, request.hex_addr) ELSE NoCommand
    BY Zenon, <1>1, <1>2, <2>2, BankAnswers
  <2> HIDE DEF q
  <2>6. CASE b.cmd_timing[q] = 0
    <3>1. answer[x] = Command(q, request.addr, request.hex_addr)
      BY Zenon, <2>3, <2>5, <2>6
    <3>2. answer[x].cmd_type = q
      BY <3>1, CommandFields
    <3> QED BY Zenon, <3>1, <3>2, <2>1, <2>4, <2>5, <2>6
  <2>7. CASE b.cmd_timing[q] # 0
    BY Zenon, <2>1, <2>3, <2>4, <2>5, <2>7
  <2> QED BY Zenon, <2>6, <2>7
<1>4. cmd = CombineAnswers(request, answer)
  BY Zenon, <1>1, <1>2 DEF GetReadyCommand, RankReadyCommand
<1>5. IsValid(cmd)
  BY Zenon DEF Issue
<1>6. DOMAIN answer = BanksOf(r)
  OBVIOUS
<1>7. cmd # AbruptExit => chan' = UpdateTimingAndStates(chan, cmd) /\ Record(cmd)
  BY Zenon DEF Issue
<1> HIDE DEF cmd, answer, request
<1>8. CASE other = {}
  <2>1. cmd = IF \A y \in DOMAIN answer : IsValid(answer[y]) THEN request ELSE NoCommand
    BY Zenon, <1>4, <1>8 DEF CombineAnswers
  <2>2. cmd = request /\ \A y \in BanksOf(r) : IsValid(answer[y])
    BY Zenon, <2>1, <1>5, <1>6, NoCommandFields
  <2>3. \A y \in BanksOf(r) : answer[y].cmd_type = t
    BY <2>2, <1>1, <1>6, <1>8
  <2>4. \A y \in BanksOf(r) : StateOf(y) = "CLOSED" /\ Wait(y, t) = 0
    BY <2>2, <2>3, <1>2, <1>3, NoCommandFields, CommandFields
  <2>5. Legal(cmd)
    BY <2>2, <2>4, <1>1 DEF Legal
  <2>6. cmd # AbruptExit
    BY <2>2, <1>1, NoCommandFields
  <2> QED BY <2>2, <2>5, <2>6, <1>1, <1>2, <1>7 DEF IssueStep
<1>9. CASE other # {}
  <2>1. \E y \in other : \A z \in other : VisitIndex(y) <= VisitIndex(z)
    <3> DEFINE S == {VisitIndex(y) : y \in other}
    <3>1. S \in SUBSET Nat /\ S # {}
      BY <1>6, <1>9, VisitIndexNat DEF BanksOf
    <3>2. PICK i \in S : \A j \in S : i <= j
      BY Zenon, <3>1, LeastExists
    <3> QED BY <3>2
  <2> DEFINE x == CHOOSE y \in other : \A z \in other : VisitIndex(y) <= VisitIndex(z)
  <2>2. x \in other
    BY Zenon, <2>1
  <2>3. cmd = IF answer[x] = AbruptExit THEN AbruptExit
              ELSE [answer[x] EXCEPT !.addr = Address(x, -1, -1)]
    BY Zenon, <1>4, <1>9 DEF CombineAnswers
  <2> HIDE DEF x
  <2>4. /\ x \in Banks /\ StateOf(x) = "OPEN" /\ Wait(x, "PRECHARGE") = 0
        /\ answer[x] = Command("PRECHARGE", request.addr, request.hex_addr)
    BY Zenon, <2>2, <1>1, <1>3, <1>6, NoCommandFields
  <2>5. answer[x] # AbruptExit
    BY <2>4, CommandFields, NoCommandFields
  <2>6. cmd = Command("PRECHARGE", Address(x, -1, -1), request.hex_addr)
    BY <2>3, <2>4, <2>5 DEF Command
  <2>7. cmd.cmd_type = "PRECHARGE" /\ cmd.addr.bank = x
    BY <2>6, CommandFields DEF Address
  <2>8. cmd # AbruptExit
    BY <2>7, NoCommandFields
  <2>9. Legal(cmd)
    BY <2>4, <2>7 DEF Legal
  <2> QED BY <2>7, <2>8, <2>9, <1>7, TypeFacts DEF IssueStep
<1> QED BY <1>8, <1>9

(* The refresh of a bank is answered with itself or with a precharge. *)
LEMMA BankRefreshIsLegal ==
  ASSUME Types, Sound, "REFRESH_BANK" \in RequestTypes,
         NEW x \in Banks, ~chan.rank_is_sref[x[1]],
         Issue(Command("REFRESH_BANK", Address(x, -1, -1), -1))
  PROVE  \E cmd : IssueStep(cmd)
<1> DEFINE request == Command("REFRESH_BANK", Address(x, -1, -1), -1)
           b == chan.bank_states[x]
           r == RequiredType(b, request)
           cmd == GetReadyCommand(chan, request)
<1>1. request.cmd_type = "REFRESH_BANK" /\ request.addr.bank = x
  BY CommandFields DEF Address
<1>2. b \in Bank /\ b.state # "ABRUPT_EXIT" /\ b.state # "SREF"
  BY DEF Types, Channel, Sound, StateOf
<1>3. /\ "REFRESH_BANK" \in RefreshTypes /\ "REFRESH_BANK" \notin RankTypes
      /\ "REFRESH_BANK" \notin ReadWriteTypes /\ "REFRESH_BANK" \notin PimReadWriteTypes
      /\ "REFRESH_BANK" \notin ActivateTypes /\ "PRECHARGE" \notin ActivateTypes
  BY DEF RankTypes, RefreshTypes, ReadWriteTypes, PimReadWriteTypes, ActivateTypes,
         ReadTypes, WriteTypes, LhGhReadTypes, LhGhReadPrechargeTypes, PimWriteTypes
<1>4. /\ \A u : Wait(x, u) = b.cmd_timing[u]
      /\ StateOf(x) = b.state
  BY DEF Wait, StateOf
<1>5. IsValid(cmd) /\ (cmd # AbruptExit =>
        chan' = UpdateTimingAndStates(chan, cmd) /\ Record(cmd))
  BY Zenon DEF Issue
<1> HIDE DEF request
<1>6. GetReadyCommand(chan, request) =
        IF BankReadyCommand(b, request).cmd_type \in ActivateTypes
             /\ ~ActivationWindowOk(chan, Rank(request))
        THEN NoCommand ELSE BankReadyCommand(b, request)
  BY Zenon, <1>1, <1>3 DEF GetReadyCommand
<1> HIDE DEF b
<1>7. /\ \/ r = "REFRESH_BANK" /\ b.state = "CLOSED"
         \/ r = "PRECHARGE" /\ b.state = "OPEN"
      /\ BankReadyCommand(b, request) =
           IF b.cmd_timing[r] = 0
           THEN Command(r, request.addr, request.hex_addr) ELSE NoCommand
  BY Zenon, <1>1, <1>2, <1>3, BankAnswers
<1> HIDE DEF r, cmd
<1>8. cmd = BankReadyCommand(b, request)
  <2>1. BankReadyCommand(b, request).cmd_type \notin ActivateTypes
    BY <1>3, <1>7, CommandFields, NoCommandFields DEF ActivateTypes
  <2> QED BY Zenon, <2>1, <1>6 DEF cmd
<1>9. b.cmd_timing[r] = 0 /\ cmd = Command(r, request.addr, request.hex_addr)
  BY Zenon, <1>5, <1>7, <1>8, NoCommandFields
<1>10. cmd.cmd_type = r /\ cmd.addr.bank = x
  BY <1>1, <1>9, CommandFields
<1>11. cmd # AbruptExit
  BY <1>7, <1>10, NoCommandFields
<1>12. Legal(cmd)
  BY <1>4, <1>7, <1>9, <1>10 DEF Legal
<1> QED BY <1>5, <1>7, <1>10, <1>11, <1>12, TypeFacts DEF IssueStep

(* Every step lets time pass, asks for a refresh, or issues a legal command. *)
LEMMA StepKinds ==
  ASSUME Types, Sound, Next
  PROVE  Tick \/ NeedRefresh \/ \E cmd : IssueStep(cmd)
<1>1. CASE Access
  BY Zenon, <1>1, AccessIsLegal DEF Access
<1>2. CASE PimAccess
  <2>1. PimAddr \subseteq Addr
    BY ClientAssumption
  <2> QED BY Zenon, <1>2, <2>1, AccessIsLegal DEF PimAccess
<1>3. CASE FinishRefresh
  <2> DEFINE ref == Head(chan.refresh_q)
  <2>1. /\ chan.refresh_q \in Seq(RefreshCommands) /\ chan.refresh_q # <<>>
        /\ ~chan.rank_is_sref[Rank(ref)] /\ Issue(ref)
    BY <1>3 DEF FinishRefresh, IsRefreshWaiting, PendingRefCommand, Types, Channel
  <2>2. ref \in RefreshCommands /\ ref = chan.refresh_q[1] /\ 1 \in DOMAIN chan.refresh_q
    BY <2>1
  <2>3. ref.cmd_type \in RequestTypes
    BY <2>2 DEF Sound
  <2> HIDE DEF ref
  <2>4. CASE \E r \in Ranks : ref = Command("REFRESH", RankAddress(r), -1)
    <3>1. PICK r \in Ranks : ref = Command("REFRESH", RankAddress(r), -1)
      BY <2>4
    <3>2. ref.cmd_type = "REFRESH" /\ Rank(ref) = r
      BY <3>1, CommandFields DEF Rank, RankAddress, Address
    <3> QED BY Zenon, <2>1, <2>3, <3>1, <3>2, RankRequestIsLegal
  <2>5. CASE \E x \in Banks : ref = Command("REFRESH_BANK", Address(x, -1, -1), -1)
    <3>1. PICK x \in Banks : ref = Command("REFRESH_BANK", Address(x, -1, -1), -1)
      BY <2>5
    <3>2. ref.cmd_type = "REFRESH_BANK" /\ Rank(ref) = x[1]
      BY <3>1, CommandFields DEF Rank, Address
    <3> QED BY Zenon, <2>1, <2>3, <3>1, <3>2, BankRefreshIsLegal
  <2> QED BY Zenon, <2>2, <2>4, <2>5 DEF RefreshCommands
<1>4. CASE EnterSelfRefresh
  BY Zenon, <1>4, RankRequestIsLegal DEF EnterSelfRefresh
<1> QED BY Zenon, <1>1, <1>2, <1>3, <1>4 DEF Next

-----------------------------------------------------------------------------
(* What a step does to the channel. *)

(* Erasing an element leaves elements that were there. *)
LEMMA ErasedElements ==
  ASSUME NEW T, NEW s \in Seq(T), NEW i \in DOMAIN s
  PROVE  /\ Erased(s, i) \in Seq(T)
         /\ \A k \in DOMAIN Erased(s, i) : \E j \in DOMAIN s : Erased(s, i)[k] = s[j]
<1> DEFINE l == SubSeq(s, 1, i - 1)
           r == SubSeq(s, i + 1, Len(s))
<1>0. Len(s) \in Nat /\ i \in 1 .. Len(s)
  OBVIOUS
<1>1. l \in Seq(T) /\ Len(l) = i - 1 /\ \A j \in 1 .. i - 1 : l[j] = s[j]
  BY <1>0, SubSeqProperties
<1>2. r \in Seq(T) /\ Len(r) = Len(s) - i
        /\ \A j \in 1 .. Len(s) - i : r[j] = s[i + j]
  BY <1>0, SubSeqProperties
<1> DEFINE q == l \o r
<1> HIDE DEF l, r
<1>3. /\ q \in Seq(T) /\ Len(q) = Len(s) - 1
      /\ \A j \in 1 .. Len(s) - 1 : q[j] = IF j < i THEN s[j] ELSE s[j + 1]
  <2>1. /\ q \in Seq(T) /\ Len(q) = Len(l) + Len(r)
        /\ \A j \in 1 .. Len(l) + Len(r) : q[j] = IF j <= Len(l) THEN l[j] ELSE r[j - Len(l)]
    BY Zenon, <1>1, <1>2, ConcatProperties
  <2> HIDE DEF q
  <2>2. Len(l) + Len(r) = Len(s) - 1
    BY <1>0, <1>1, <1>2
  <2>3. ASSUME NEW j \in 1 .. Len(s) - 1
        PROVE  q[j] = IF j < i THEN s[j] ELSE s[j + 1]
    <3>1. q[j] = IF j <= i - 1 THEN l[j] ELSE r[j - (i - 1)]
      BY <2>1, <2>2, <1>1
    <3>2. CASE j < i
      BY <3>1, <3>2, <1>0, <1>1
    <3>3. CASE ~(j < i)
      <4>1. j - (i - 1) \in 1 .. Len(s) - i /\ i + (j - (i - 1)) = j + 1
        BY <3>3, <1>0
      <4> QED BY <3>1, <3>3, <4>1, <1>0, <1>2
    <3> QED BY <3>2, <3>3
  <2> QED BY <2>1, <2>2, <2>3
<1> HIDE DEF q
<1>4. ASSUME NEW k \in DOMAIN q PROVE \E j \in DOMAIN s : q[k] = s[j]
  <2>1. k \in 1 .. Len(s) - 1
    BY <1>3
  <2>2. CASE k < i
    <3>1. q[k] = s[k] /\ k \in DOMAIN s
      BY <2>1, <2>2, <1>0, <1>3
    <3> QED BY <3>1
  <2>3. CASE ~(k < i)
    <3>1. q[k] = s[k + 1] /\ k + 1 \in DOMAIN s
      BY <2>1, <2>3, <1>0, <1>3
    <3> QED BY <3>1
  <2> QED BY <2>2, <2>3
<1> QED BY Zenon, <1>3, <1>4 DEF Erased, l, r, q

(* The first match in the refresh queue is a match. *)
LEMMA FirstIsElement ==
  ASSUME NEW I \in SUBSET Nat, I # {}
  PROVE  First(I) \in I
<1>1. \E i \in I : \A j \in I : i <= j
  BY LeastExists
<1> QED BY Zenon, <1>1 DEF First

(* What the commands that GetReadyCommand lets through do to a bank. *)
LEMMA BankMoves ==
  ASSUME NEW b \in Bank, NEW cmd
  PROVE  LET t == cmd.cmd_type
             c == BankUpdateState(b, cmd)
         IN /\ b.state = "OPEN" /\ t \in ReadWriteTypes \cup PimReadWriteTypes
                 /\ t \notin AutoPrechargeTypes =>
                 /\ c.state = "OPEN" /\ c.open_row = b.open_row
                 /\ c \in Bank /\ c.cmd_timing = b.cmd_timing
            /\ b.state = "OPEN" /\ t \in AutoPrechargeTypes \cup {"PRECHARGE"} =>
                 c.state = "CLOSED" /\ c \in Bank /\ c.cmd_timing = b.cmd_timing
            /\ b.state = "CLOSED" /\ t \in RefreshTypes => c = b
            /\ b.state = "CLOSED" /\ t \in ActivateTypes /\ cmd.addr.row \in Nat =>
                 /\ c.state = "OPEN" /\ c.open_row = cmd.addr.row
                 /\ c \in Bank /\ c.cmd_timing = b.cmd_timing
            /\ b.state = "CLOSED" /\ t = "SREF_ENTER" =>
                 c.state = "SREF" /\ c \in Bank /\ c.cmd_timing = b.cmd_timing
            /\ b.state = "SREF" /\ t = "SREF_EXIT" =>
                 c.state = "CLOSED" /\ c \in Bank /\ c.cmd_timing = b.cmd_timing
<1> DEFINE t == cmd.cmd_type
           c == BankUpdateState(b, cmd)
<1> USE DEF ReadWriteTypes, PimReadWriteTypes, ReadTypes, WriteTypes, LhGhReadTypes,
        LhGhReadPrechargeTypes, PimWriteTypes, ActivateTypes, RefreshTypes,
        AutoPrechargeTypes
<1>1. ASSUME b.state = "OPEN", t \in ReadWriteTypes \cup PimReadWriteTypes,
             t \notin AutoPrechargeTypes
      PROVE  /\ c.state = "OPEN" /\ c.open_row = b.open_row
             /\ c \in Bank /\ c.cmd_timing = b.cmd_timing
  <2>1. c = [b EXCEPT !.row_hit_count = IF @ = RowHitLimit THEN @ ELSE @ + 1]
    BY <1>1 DEF BankUpdateState
  <2> HIDE DEF c
  <2> QED BY <1>1, <2>1 DEF Bank, RowHitLimit
<1>2. ASSUME b.state = "OPEN", t \in AutoPrechargeTypes \cup {"PRECHARGE"}
      PROVE  c.state = "CLOSED" /\ c \in Bank /\ c.cmd_timing = b.cmd_timing
  <2>1. c = [b EXCEPT !.state = "CLOSED", !.open_row = -1, !.row_hit_count = 0]
    BY <1>2 DEF BankUpdateState
  <2> HIDE DEF c
  <2>2. c.state = "CLOSED" /\ c.cmd_timing = b.cmd_timing
    BY <2>1 DEF Bank
  <2>3. c \in Bank
    <3>1. c = [state |-> "CLOSED", open_row |-> -1, row_hit_count |-> 0,
               cmd_timing |-> b.cmd_timing]
      BY Zenon, <2>1 DEF Bank
    <3>2. -1 \in Nat \cup {-1} /\ 0 \in 0 .. RowHitLimit /\ b.cmd_timing \in [CommandType -> Nat]
      BY DEF Bank, RowHitLimit
    <3> QED BY Zenon, <3>1, <3>2 DEF Bank
  <2> QED BY <2>2, <2>3
<1>3. ASSUME b.state = "CLOSED", t \in RefreshTypes PROVE c = b
  BY <1>3 DEF BankUpdateState
<1>4. ASSUME b.state = "CLOSED", t \in ActivateTypes, cmd.addr.row \in Nat
      PROVE  /\ c.state = "OPEN" /\ c.open_row = cmd.addr.row
             /\ c \in Bank /\ c.cmd_timing = b.cmd_timing
  <2>1. c = [b EXCEPT !.state = "OPEN", !.open_row = cmd.addr.row]
    BY <1>4 DEF BankUpdateState
  <2> HIDE DEF c
  <2> QED BY Zenon, <1>4, <2>1 DEF Bank
<1>5. ASSUME b.state = "CLOSED", t = "SREF_ENTER"
      PROVE  c.state = "SREF" /\ c \in Bank /\ c.cmd_timing = b.cmd_timing
  <2>1. c = [b EXCEPT !.state = "SREF"]
    BY <1>5 DEF BankUpdateState
  <2> HIDE DEF c
  <2> QED BY <2>1 DEF Bank
<1>6. ASSUME b.state = "SREF", t = "SREF_EXIT"
      PROVE  c.state = "CLOSED" /\ c \in Bank /\ c.cmd_timing = b.cmd_timing
  <2>1. c = [b EXCEPT !.state = "CLOSED"]
    BY <1>6 DEF BankUpdateState
  <2> HIDE DEF c
  <2> QED BY <2>1 DEF Bank
<1> QED BY Zenon, <1>1, <1>2, <1>3, <1>4, <1>5, <1>6

(* All that is in q is in s. *)
Within(q, s) == \A i \in DOMAIN q : \E j \in DOMAIN s : q[i] = s[j]

(* The refresh queue after an issued refresh. *)
LEMMA NeedRefreshDone ==
  ASSUME NEW ch \in Channel, NEW k
  PROVE  /\ RankNeedRefresh(ch, k, FALSE) \in Channel
         /\ BankNeedRefresh(ch, k, FALSE) \in Channel
         /\ RankNeedRefresh(ch, k, FALSE) =
              [ch EXCEPT !.refresh_q = RankNeedRefresh(ch, k, FALSE).refresh_q]
         /\ BankNeedRefresh(ch, k, FALSE) =
              [ch EXCEPT !.refresh_q = BankNeedRefresh(ch, k, FALSE).refresh_q]
         /\ Within(RankNeedRefresh(ch, k, FALSE).refresh_q, ch.refresh_q)
         /\ Within(BankNeedRefresh(ch, k, FALSE).refresh_q, ch.refresh_q)
<1> DEFINE s == ch.refresh_q
           I == {i \in 1 .. Len(s) : Rank(s[i]) = k}
           J == {i \in 1 .. Len(s) : s[i].addr.bank = k}
           qr == IF I = {} THEN s ELSE Erased(s, First(I))
           qb == IF J = {} THEN s ELSE Erased(s, First(J))
<1>1. s \in Seq(RefreshCommands)
  BY DEF Channel
<1>2. RankNeedRefresh(ch, k, FALSE) = [ch EXCEPT !.refresh_q = qr]
  BY Zenon DEF RankNeedRefresh, EraseFirst
<1>3. BankNeedRefresh(ch, k, FALSE) = [ch EXCEPT !.refresh_q = qb]
  BY Zenon DEF BankNeedRefresh, EraseFirst
<1>4. /\ qr \in Seq(RefreshCommands)
      /\ \A i \in DOMAIN qr : \E j \in DOMAIN s : qr[i] = s[j]
  <2>1. CASE I # {}
    <3>1. I \in SUBSET Nat /\ I # {} /\ qr = Erased(s, First(I)) /\ I \subseteq DOMAIN s
      BY <2>1, <1>1
    <3>2. First(I) \in DOMAIN s
      BY Zenon, <3>1, FirstIsElement
    <3> DEFINE i == First(I)
    <3> HIDE DEF I, qr, s, i
    <3>3. qr = Erased(s, i) /\ i \in DOMAIN s
      BY Zenon, <3>1, <3>2 DEF i
    <3> QED BY <3>3, <1>1, ErasedElements
  <2>2. CASE I = {}
    BY Zenon, <2>2, <1>1
  <2> QED BY Zenon, <2>1, <2>2
<1>5. /\ qb \in Seq(RefreshCommands)
      /\ \A i \in DOMAIN qb : \E j \in DOMAIN s : qb[i] = s[j]
  <2>1. CASE J # {}
    <3>1. J \in SUBSET Nat /\ J # {} /\ qb = Erased(s, First(J)) /\ J \subseteq DOMAIN s
      BY <2>1, <1>1
    <3>2. First(J) \in DOMAIN s
      BY Zenon, <3>1, FirstIsElement
    <3> DEFINE i == First(J)
    <3> HIDE DEF J, qb, s, i
    <3>3. qb = Erased(s, i) /\ i \in DOMAIN s
      BY Zenon, <3>1, <3>2 DEF i
    <3> QED BY <3>3, <1>1, ErasedElements
  <2>2. CASE J = {}
    BY Zenon, <2>2, <1>1
  <2> QED BY Zenon, <2>1, <2>2
<1> HIDE DEF qr, qb
<1>6. [ch EXCEPT !.refresh_q = qr].refresh_q = qr /\ [ch EXCEPT !.refresh_q = qb].refresh_q = qb
  BY DEF Channel
<1>7. [ch EXCEPT !.refresh_q = qr] \in Channel /\ [ch EXCEPT !.refresh_q = qb] \in Channel
  BY Zenon, <1>4, <1>5 DEF Channel
<1>8. RankNeedRefresh(ch, k, FALSE).refresh_q = qr
        /\ BankNeedRefresh(ch, k, FALSE).refresh_q = qb
  BY Zenon, <1>2, <1>3, <1>6
<1>9. Within(qr, ch.refresh_q) /\ Within(qb, ch.refresh_q)
  BY Zenon, <1>4, <1>5 DEF Within
<1> QED BY Zenon, <1>2, <1>3, <1>7, <1>8, <1>9

(* The list a bank gets, by its place relative to the bank of the command. *)
LEMMA TimingListCases ==
  ASSUME NEW cmd, cmd.cmd_type \in CommandType, NEW x
  PROVE  LET t == cmd.cmd_type
             bank == cmd.addr.bank
         IN /\ t \in RankTypes /\ x[1] = bank[1] => TimingList(cmd, x) = same_rank[t]
            /\ t \in RankTypes /\ x[1] # bank[1] => TimingList(cmd, x) = {}
            /\ t \notin RankTypes /\ x = bank => TimingList(cmd, x) = same_bank[t]
            /\ t \notin RankTypes /\ x # bank /\ x[1] = bank[1] /\ x[2] = bank[2] =>
                 TimingList(cmd, x) =
                   OtherBanks(t, read_to_read_l, write_to_write_l,
                              write_to_read_l, activate_to_activate_l)
            /\ t \notin RankTypes /\ x[1] = bank[1] /\ x[2] # bank[2] =>
                 TimingList(cmd, x) =
                   OtherBanks(t, read_to_read_s, write_to_write_s,
                              write_to_read_s, activate_to_activate_s)
            /\ t \notin RankTypes /\ x[1] # bank[1] => TimingList(cmd, x) = other_ranks[t]
  BY Zenon DEF TimingList, other_banks_same_bankgroup, other_bankgroups_same_rank

(* The list a command has for a bank names each command type once, so the  *)
(* order in which UpdateTiming walks through it does not matter.           *)
LEMMA TimingListFunctional ==
  ASSUME NEW cmd, cmd.cmd_type \in CommandType, NEW x
  PROVE  Functional(TimingList(cmd, x))
<1> DEFINE t == cmd.cmd_type
           bank == cmd.addr.bank
<1>1. CASE t \in RankTypes /\ x[1] = bank[1]
  BY Zenon, <1>1, TimingListCases, TablesFunctional
<1>2. CASE t \in RankTypes /\ x[1] # bank[1]
  <2>1. Functional({})
    BY DEF Functional
  <2> QED BY Zenon, <2>1, <1>2, TimingListCases
<1>3. CASE t \notin RankTypes /\ x = bank
  BY Zenon, <1>3, TimingListCases, TablesFunctional
<1>4. CASE t \notin RankTypes /\ x # bank /\ x[1] = bank[1] /\ x[2] = bank[2]
  BY Zenon, <1>4, TimingListCases, TablesFunctional DEF other_banks_same_bankgroup
<1>5. CASE t \notin RankTypes /\ x[1] = bank[1] /\ x[2] # bank[2]
  BY Zenon, <1>5, TimingListCases, TablesFunctional DEF other_bankgroups_same_rank
<1>6. CASE t \notin RankTypes /\ x[1] # bank[1]
  BY Zenon, <1>6, TimingListCases, TablesFunctional
<1> QED BY Zenon, <1>1, <1>2, <1>3, <1>4, <1>5, <1>6

(* The kinds of commands, for the legal moves. *)
LEMMA MoveKinds ==
  /\ (ReadWriteTypes \cup PimReadWriteTypes) \cap (ActivateTypes \cup RefreshTypes
        \cup RankTypes \cup {"PRECHARGE"}) = {}
  /\ ActivateTypes \cap (RefreshTypes \cup RankTypes \cup {"PRECHARGE"}) = {}
  /\ AutoPrechargeTypes \subseteq ReadWriteTypes \cup PimReadWriteTypes
  /\ ReadWriteTypes \cap PimReadWriteTypes = {}
  /\ "PRECHARGE" \notin RefreshTypes \cup RankTypes
  BY DEF ReadWriteTypes, PimReadWriteTypes, ReadTypes, WriteTypes, LhGhReadTypes,
         LhGhReadPrechargeTypes, PimWriteTypes, ActivateTypes, RefreshTypes,
         AutoPrechargeTypes, RankTypes

(* Where a legal command is issued, every bank it covers makes a move that  *)
(* the bank state machine defines.                                          *)
LEMMA CoveredBanksMove ==
  ASSUME Types, Sound, NEW cmd, Legal(cmd), cmd.cmd_type \in CommandType,
         NEW x \in Banks, x \in Covered(cmd)
  PROVE  LET t == cmd.cmd_type
             c == BankUpdateState(chan.bank_states[x], cmd)
         IN /\ c \in Bank /\ c.cmd_timing = chan.bank_states[x].cmd_timing
            /\ t \in ReadWriteTypes \cup PimReadWriteTypes /\ t \notin AutoPrechargeTypes =>
                 StateOf(x) = "OPEN" /\ c.state = "OPEN" /\ c.open_row = RowOf(x)
            /\ t \in AutoPrechargeTypes \cup {"PRECHARGE"} =>
                 StateOf(x) = "OPEN" /\ c.state = "CLOSED"
            /\ t \in RefreshTypes => StateOf(x) = "CLOSED" /\ c.state = "CLOSED"
            /\ t \in ActivateTypes =>
                 StateOf(x) = "CLOSED" /\ c.state = "OPEN" /\ c.open_row = cmd.addr.row
            /\ t = "SREF_ENTER" => StateOf(x) = "CLOSED" /\ c.state = "SREF"
            /\ t = "SREF_EXIT" => StateOf(x) = "SREF" /\ c.state = "CLOSED"
<1> DEFINE t == cmd.cmd_type
           b == chan.bank_states[x]
<1>1. b \in Bank /\ StateOf(x) = b.state /\ RowOf(x) = b.open_row
  BY DEF Types, Channel, StateOf, RowOf
<1>2. CASE t \notin RankTypes
  <2>1. x = cmd.addr.bank
    BY <1>2 DEF Covered
  <2>2. CASE t = "PRECHARGE"
    <3>1. b.state = "OPEN"
      BY <2>1, <2>2, <1>1, MoveKinds DEF Legal, RankTypes, RefreshTypes, ActivateTypes
    <3> HIDE DEF b
    <3> QED BY <2>2, <3>1, <1>1, BankMoves, MoveKinds DEF b
  <2>3. CASE t \in ReadWriteTypes \cup PimReadWriteTypes
    <3>1. b.state = "OPEN"
      BY Zenon, <2>1, <2>3, <1>1, MoveKinds DEF Legal, RankTypes, RefreshTypes, ActivateTypes
    <3> HIDE DEF b
    <3> QED BY <2>3, <3>1, <1>1, BankMoves, MoveKinds DEF b, RankTypes
  <2>4. CASE t \in ActivateTypes
    <3>1. b.state = "CLOSED" /\ cmd.addr.row \in Nat
      BY Zenon, <2>1, <2>4, <1>1, MoveKinds, StructureAssumption, ClientAssumption
      DEF Legal, RankTypes, RefreshTypes, ActivateTypes, OrdinaryRow, PimRow
    <3> HIDE DEF b
    <3> QED BY <2>4, <3>1, <1>1, BankMoves, MoveKinds DEF b, RankTypes
  <2>5. CASE t = "REFRESH_BANK"
    <3>1. b.state = "CLOSED"
      BY <2>1, <2>5, <1>1, MoveKinds DEF Legal, RankTypes, RefreshTypes, ActivateTypes
    <3> HIDE DEF b
    <3> QED BY <2>5, <3>1, <1>1, BankMoves, MoveKinds DEF b, RefreshTypes, RankTypes
  <2> QED BY Zenon, <1>2, <2>2, <2>3, <2>4, <2>5 DEF CommandType, RefreshTypes, RankTypes
<1>3. CASE t \in RankTypes
  <2>1. x[1] = cmd.addr.bank[1] /\ x \in BanksOf(cmd.addr.bank[1])
    BY <1>3 DEF Covered, BanksOf, Rank
  <2>2. CASE t = "SREF_EXIT"
    <3>1. cmd.addr.bank \in Banks /\ StateOf(cmd.addr.bank) = "SREF"
      BY <2>2, MoveKinds DEF Legal, RankTypes, RefreshTypes, ActivateTypes
    <3>2. b.state = "SREF"
      BY <2>1, <3>1, <1>1 DEF Sound
    <3> HIDE DEF b
    <3> QED BY <2>2, <3>2, <1>1, BankMoves, MoveKinds DEF b, RefreshTypes, RankTypes
  <2>3. CASE t \in {"REFRESH", "SREF_ENTER"}
    <3>1. b.state = "CLOSED"
      BY <2>1, <2>3, <1>1, MoveKinds DEF Legal, RankTypes, RefreshTypes, ActivateTypes
    <3> HIDE DEF b
    <3> QED BY <2>3, <3>1, <1>1, BankMoves, MoveKinds DEF b, RefreshTypes, RankTypes
  <2> QED BY Zenon, <1>3, <2>2, <2>3 DEF RankTypes
<1> QED BY <1>2, <1>3

(* Everything an issued command changes in the channel. *)
LEMMA IssueEffect ==
  ASSUME Types, Sound, NEW cmd, IssueStep(cmd)
  PROVE  /\ chan' \in Channel
         /\ \A x \in Banks :
              /\ StateOf(x)' =
                   IF x \in Covered(cmd)
                   THEN BankUpdateState(chan.bank_states[x], cmd).state ELSE StateOf(x)
              /\ RowOf(x)' =
                   IF x \in Covered(cmd)
                   THEN BankUpdateState(chan.bank_states[x], cmd).open_row ELSE RowOf(x)
              /\ \A t \in CommandType : Wait(x, t)' >= Wait(x, t)
              /\ \A p \in TimingList(cmd, x) : Wait(x, p[1])' >= p[2]
         /\ chan'.rank_is_sref =
              CASE cmd.cmd_type = "SREF_ENTER" -> [chan.rank_is_sref EXCEPT ![Rank(cmd)] = TRUE]
                [] cmd.cmd_type = "SREF_EXIT" -> [chan.rank_is_sref EXCEPT ![Rank(cmd)] = FALSE]
                [] OTHER -> chan.rank_is_sref
         /\ Within(chan'.refresh_q, chan.refresh_q)
         /\ chan'.four_aw =
              IF cmd.cmd_type \in ActivateTypes
              THEN [chan.four_aw EXCEPT ![Rank(cmd)] = WindowAfterActivate(@, Config.tFAW)]
              ELSE chan.four_aw
<1> DEFINE t == cmd.cmd_type
           moved == [x \in Banks |-> IF x \in Covered(cmd)
                                     THEN BankUpdateState(chan.bank_states[x], cmd)
                                     ELSE chan.bank_states[x]]
           ch0 == [chan EXCEPT !.bank_states = moved]
           ch1 == UpdateState(chan, cmd)
           ch2 == IF t \in ActivateTypes THEN UpdateActivationTimes(ch1, Rank(cmd)) ELSE ch1
<1>0. chan \in Channel /\ t \in CommandType /\ Legal(cmd)
  BY DEF Types, IssueStep
<1>1. moved \in [Banks -> Bank]
        /\ \A x \in Banks : moved[x].cmd_timing = chan.bank_states[x].cmd_timing
  <2>1. chan.bank_states \in [Banks -> Bank]
    BY <1>0 DEF Channel
  <2>2. ASSUME NEW x \in Banks
        PROVE  moved[x] \in Bank /\ moved[x].cmd_timing = chan.bank_states[x].cmd_timing
    <3>1. CASE x \in Covered(cmd)
      BY Zenon, <3>1, <1>0, CoveredBanksMove
    <3>2. CASE x \notin Covered(cmd)
      BY <3>2, <2>1
    <3> QED BY <3>1, <3>2
  <2> QED BY <2>2
<1>2. ch0 \in Channel /\ ch0.bank_states = moved /\ ch0.refresh_q = chan.refresh_q
        /\ ch0.rank_is_sref = chan.rank_is_sref /\ ch0.four_aw = chan.four_aw
  <2> HIDE DEF moved
  <2> QED BY Zenon, <1>0, <1>1 DEF Channel
<1>3. ch1 = CASE t = "REFRESH" -> RankNeedRefresh(ch0, Rank(cmd), FALSE)
              [] t = "REFRESH_BANK" -> BankNeedRefresh(ch0, cmd.addr.bank, FALSE)
              [] t = "SREF_ENTER" -> [ch0 EXCEPT !.rank_is_sref[Rank(cmd)] = TRUE]
              [] t = "SREF_EXIT" -> [ch0 EXCEPT !.rank_is_sref[Rank(cmd)] = FALSE]
              [] OTHER -> ch0
  BY Zenon DEF UpdateState, Covered
<1> HIDE DEF ch0, ch1
<1>4. /\ ch1 \in Channel /\ ch1.bank_states = moved /\ ch1.four_aw = chan.four_aw
      /\ ch1.rank_is_sref =
           CASE t = "SREF_ENTER" -> [chan.rank_is_sref EXCEPT ![Rank(cmd)] = TRUE]
             [] t = "SREF_EXIT" -> [chan.rank_is_sref EXCEPT ![Rank(cmd)] = FALSE]
             [] OTHER -> chan.rank_is_sref
      /\ Within(ch1.refresh_q, chan.refresh_q)
  <2> HIDE DEF moved
  <2>1. CASE t = "REFRESH"
    <3>1. ch1 = RankNeedRefresh(ch0, Rank(cmd), FALSE)
      BY <2>1, <1>3
    <3>2. /\ ch1 \in Channel
          /\ ch1 = [ch0 EXCEPT !.refresh_q = ch1.refresh_q]
          /\ Within(ch1.refresh_q, ch0.refresh_q)
      BY Zenon, <3>1, <1>2, NeedRefreshDone
    <3>3. /\ ch1.bank_states = ch0.bank_states /\ ch1.four_aw = ch0.four_aw
          /\ ch1.rank_is_sref = ch0.rank_is_sref
      BY <3>2, <1>2 DEF Channel
    <3> QED BY <2>1, <3>2, <3>3, <1>2
  <2>2. CASE t = "REFRESH_BANK"
    <3>1. ch1 = BankNeedRefresh(ch0, cmd.addr.bank, FALSE)
      BY <2>2, <1>3
    <3>2. /\ ch1 \in Channel
          /\ ch1 = [ch0 EXCEPT !.refresh_q = ch1.refresh_q]
          /\ Within(ch1.refresh_q, ch0.refresh_q)
      BY Zenon, <3>1, <1>2, NeedRefreshDone
    <3>3. /\ ch1.bank_states = ch0.bank_states /\ ch1.four_aw = ch0.four_aw
          /\ ch1.rank_is_sref = ch0.rank_is_sref
      BY <3>2, <1>2 DEF Channel
    <3> QED BY <2>2, <3>2, <3>3, <1>2
  <2>3. CASE t = "SREF_ENTER"
    <3>1. ch1 = [ch0 EXCEPT !.rank_is_sref[Rank(cmd)] = TRUE]
      BY <2>3, <1>3
    <3>2. ch1 \in Channel
      BY Zenon, <3>1, <1>2 DEF Channel
    <3>3. /\ ch1.bank_states = ch0.bank_states /\ ch1.four_aw = ch0.four_aw
          /\ ch1.rank_is_sref = [ch0.rank_is_sref EXCEPT ![Rank(cmd)] = TRUE]
          /\ ch1.refresh_q = ch0.refresh_q
      BY <3>1, <1>2 DEF Channel
    <3> QED BY <2>3, <3>2, <3>3, <1>2 DEF Within
  <2>4. CASE t = "SREF_EXIT"
    <3>1. ch1 = [ch0 EXCEPT !.rank_is_sref[Rank(cmd)] = FALSE]
      BY <2>4, <1>3
    <3>2. ch1 \in Channel
      BY Zenon, <3>1, <1>2 DEF Channel
    <3>3. /\ ch1.bank_states = ch0.bank_states /\ ch1.four_aw = ch0.four_aw
          /\ ch1.rank_is_sref = [ch0.rank_is_sref EXCEPT ![Rank(cmd)] = FALSE]
          /\ ch1.refresh_q = ch0.refresh_q
      BY <3>1, <1>2 DEF Channel
    <3> QED BY <2>4, <3>2, <3>3, <1>2 DEF Within
  <2>5. CASE t \notin {"REFRESH", "REFRESH_BANK", "SREF_ENTER", "SREF_EXIT"}
    <3>1. ch1 = ch0
      BY Zenon, <2>5, <1>3
    <3> QED BY <2>5, <3>1, <1>2 DEF Within
  <2> QED BY <2>1, <2>2, <2>3, <2>4, <2>5
<1>5. /\ ch2 \in Channel /\ ch2.bank_states = moved /\ ch2.refresh_q = ch1.refresh_q
      /\ ch2.rank_is_sref = ch1.rank_is_sref
      /\ ch2.four_aw =
           IF t \in ActivateTypes
           THEN [chan.four_aw EXCEPT ![Rank(cmd)] = WindowAfterActivate(@, Config.tFAW)]
           ELSE chan.four_aw
  <2> HIDE DEF moved
  <2>1. CASE t \in ActivateTypes
    <3>1. ch2 = [[ch1 EXCEPT !.four_aw[Rank(cmd)] = WindowAfterActivate(@, Config.tFAW)]
                   EXCEPT !.thirty_two_aw[Rank(cmd)] =
                     IF Config.IsGDDR THEN WindowAfterActivate(@, Config.t32AW) ELSE @]
      BY Zenon, <2>1 DEF UpdateActivationTimes
    <3> HIDE DEF ch2
    <3>2. \A w \in Seq(Nat) : \A n \in Nat : WindowAfterActivate(w, n) \in Seq(Nat)
      BY DEF WindowAfterActivate
    <3>3. Config.tFAW \in Nat /\ Config.t32AW \in Nat
      BY DelayAssumption
    <3>4. ch2 \in Channel
      BY Zenon, <3>1, <3>2, <3>3, <1>4 DEF Channel
    <3>5. /\ ch2.bank_states = ch1.bank_states /\ ch2.refresh_q = ch1.refresh_q
          /\ ch2.rank_is_sref = ch1.rank_is_sref
          /\ ch2.four_aw = [ch1.four_aw EXCEPT ![Rank(cmd)] = WindowAfterActivate(@, Config.tFAW)]
      BY <3>1, <1>4 DEF Channel
    <3> QED BY <2>1, <3>4, <3>5, <1>4
  <2>2. CASE t \notin ActivateTypes
    BY <2>2, <1>4
  <2> QED BY <2>1, <2>2
<1> DEFINE timed == [x \in Banks |-> BankUpdateTiming(moved[x], TimingList(cmd, x))]
<1>6. chan' = [ch2 EXCEPT !.bank_states = timed]
  <2>1. chan' = UpdateTiming(ch1, cmd)
    BY Zenon DEF IssueStep, UpdateTimingAndStates, ch1
  <2>2. UpdateTiming(ch1, cmd) =
          [ch2 EXCEPT !.bank_states =
             [x \in Banks |-> BankUpdateTiming(ch2.bank_states[x], TimingList(cmd, x))]]
    BY Zenon DEF UpdateTiming
  <2> HIDE DEF moved, ch2
  <2> QED BY Zenon, <2>1, <2>2, <1>5
<1> HIDE DEF ch2, moved
<1>7. ASSUME NEW x \in Banks
      PROVE  /\ timed[x] \in Bank
             /\ timed[x].state = moved[x].state /\ timed[x].open_row = moved[x].open_row
             /\ \A u \in CommandType : timed[x].cmd_timing[u] >= moved[x].cmd_timing[u]
             /\ \A p \in TimingList(cmd, x) : timed[x].cmd_timing[p[1]] >= p[2]
  <2>1. timed[x] = BankUpdateTiming(moved[x], TimingList(cmd, x)) /\ moved[x] \in Bank
    BY <1>1
  <2>2. Functional(TimingList(cmd, x))
    BY Zenon, <1>0, TimingListFunctional
  <2> DEFINE list == TimingList(cmd, x)
             b == BankUpdateTiming(moved[x], list)
  <2> HIDE DEF list
  <2>3. b \in Bank /\ b.state = moved[x].state /\ b.open_row = moved[x].open_row
    BY Zenon, <2>1, <2>2, UpdateTimingKeepsDelays DEF list
  <2>4. \A u \in CommandType : b.cmd_timing[u] >= moved[x].cmd_timing[u]
    BY Zenon, <2>1, <2>2, UpdateTimingKeepsDelays DEF list
  <2>5. \A p \in list : b.cmd_timing[p[1]] >= p[2]
    BY Zenon, <2>1, <2>2, UpdateTimingKeepsDelays DEF list
  <2>6. timed[x] = b
    BY Zenon, <2>1 DEF list
  <2> HIDE DEF timed, b
  <2> QED BY Zenon, <2>3, <2>4, <2>5, <2>6 DEF list
<1>8. timed \in [Banks -> Bank]
  BY <1>7
<1> HIDE DEF timed
<1>9. /\ chan' \in Channel /\ chan'.bank_states = timed /\ chan'.refresh_q = ch2.refresh_q
      /\ chan'.rank_is_sref = ch2.rank_is_sref /\ chan'.four_aw = ch2.four_aw
  BY Zenon, <1>5, <1>6, <1>8 DEF Channel
<1>10. ASSUME NEW x \in Banks
       PROVE  /\ StateOf(x)' =
                   IF x \in Covered(cmd)
                   THEN BankUpdateState(chan.bank_states[x], cmd).state ELSE StateOf(x)
              /\ RowOf(x)' =
                   IF x \in Covered(cmd)
                   THEN BankUpdateState(chan.bank_states[x], cmd).open_row ELSE RowOf(x)
              /\ \A u \in CommandType : Wait(x, u)' >= Wait(x, u)
              /\ \A p \in TimingList(cmd, x) : Wait(x, p[1])' >= p[2]
  <2>1. moved[x] = IF x \in Covered(cmd) THEN BankUpdateState(chan.bank_states[x], cmd)
                   ELSE chan.bank_states[x]
    BY DEF moved
  <2>2. /\ StateOf(x)' = timed[x].state /\ RowOf(x)' = timed[x].open_row
        /\ \A u : Wait(x, u)' = timed[x].cmd_timing[u]
    BY Zenon, <1>9 DEF StateOf, RowOf, Wait
  <2>3. \A u : Wait(x, u) = moved[x].cmd_timing[u]
    BY Zenon, <1>1 DEF Wait
  <2> QED BY ZenonT(40), <2>1, <2>2, <2>3, <1>7 DEF StateOf, RowOf
<1> QED BY Zenon, <1>4, <1>5, <1>9, <1>10


(* The command types and where their commands go: a rank command covers the *)
(* banks of a rank, every other command the bank it names.                  *)
LEMMA LegalKinds ==
  ASSUME Types, Sound, NEW cmd, Legal(cmd), cmd.cmd_type \in CommandType
  PROVE  LET t == cmd.cmd_type
             x == cmd.addr.bank
         IN /\ Rank(cmd) \in Ranks
            /\ t \notin RankTypes => x \in Banks /\ Covered(cmd) = {x}
            /\ t \in RankTypes => Covered(cmd) = BanksOf(Rank(cmd))
            /\ Covered(cmd) \subseteq BanksOf(Rank(cmd))
<1> DEFINE t == cmd.cmd_type
           x == cmd.addr.bank
<1>1. x \in Banks \/ (t \in {"REFRESH", "SREF_ENTER"} /\ x[1] \in Ranks)
  BY Zenon DEF Legal
<1>2. x \in Banks => x[1] \in Ranks /\ x \in BanksOf(x[1])
  BY DEF Banks, BanksOf
<1>3. t \notin RankTypes => x \in Banks /\ Covered(cmd) = {x}
  BY <1>1 DEF Covered, RankTypes
<1>4. t \in RankTypes => Covered(cmd) = BanksOf(Rank(cmd))
  BY DEF Covered
<1> QED BY <1>1, <1>2, <1>3, <1>4 DEF Rank

(* An issued command leaves banks and ranks in step, and only rows of       *)
(* addresses open.                                                          *)
LEMMA IssueSound ==
  ASSUME Types, Sound, NEW cmd, IssueStep(cmd)
  PROVE  Sound'
<1> DEFINE t == cmd.cmd_type
<1>0. t \in CommandType /\ Legal(cmd) /\ issued' = cmd /\ Rank(cmd) \in Ranks
        /\ chan.rank_is_sref \in [Ranks -> BOOLEAN]
  BY LegalKinds DEF IssueStep, Record, Types, Channel
<1>1. issued' # AbruptExit
  BY <1>0, NoCommandFields, TypeFacts DEF CommandType
<1>2. ASSUME NEW x \in Banks
      PROVE  /\ StateOf(x)' # "ABRUPT_EXIT"
             /\ StateOf(x)' = "SREF" <=> chan'.rank_is_sref[x[1]]
             /\ StateOf(x)' = "OPEN" => OrdinaryRow(x, RowOf(x)') \/ PimRow(x, RowOf(x)')
  <2>0. /\ StateOf(x) # "ABRUPT_EXIT"
        /\ StateOf(x) = "SREF" <=> chan.rank_is_sref[x[1]]
        /\ StateOf(x) = "OPEN" => OrdinaryRow(x, RowOf(x)) \/ PimRow(x, RowOf(x))
        /\ x[1] \in Ranks
    BY Zenon DEF Sound, Banks
  <2>1. chan'.rank_is_sref =
          CASE t = "SREF_ENTER" -> [chan.rank_is_sref EXCEPT ![Rank(cmd)] = TRUE]
            [] t = "SREF_EXIT" -> [chan.rank_is_sref EXCEPT ![Rank(cmd)] = FALSE]
            [] OTHER -> chan.rank_is_sref
    BY Zenon, IssueEffect
  <2>2. CASE x \notin Covered(cmd)
    <3>1. StateOf(x)' = StateOf(x) /\ RowOf(x)' = RowOf(x)
      BY Zenon, <2>2, IssueEffect
    <3>2. t \in {"SREF_ENTER", "SREF_EXIT"} => x[1] # Rank(cmd)
      BY <2>2 DEF Covered, BanksOf, RankTypes
    <3>3. chan'.rank_is_sref[x[1]] = chan.rank_is_sref[x[1]]
      BY Zenon, <2>0, <2>1, <3>2, <1>0
    <3> QED BY Zenon, <2>0, <3>1, <3>3
  <2>3. CASE x \in Covered(cmd)
    <3> DEFINE c == BankUpdateState(chan.bank_states[x], cmd)
    <3>1. StateOf(x)' = c.state /\ RowOf(x)' = c.open_row
      BY Zenon, <2>3, IssueEffect
    <3>2. x[1] = Rank(cmd)
      BY <2>3, <1>0, LegalKinds DEF BanksOf
    <3>3. /\ t \in ReadWriteTypes \cup PimReadWriteTypes /\ t \notin AutoPrechargeTypes =>
               StateOf(x) = "OPEN" /\ c.state = "OPEN" /\ c.open_row = RowOf(x)
          /\ t \in AutoPrechargeTypes \cup {"PRECHARGE"} =>
               StateOf(x) = "OPEN" /\ c.state = "CLOSED"
          /\ t \in RefreshTypes => StateOf(x) = "CLOSED" /\ c.state = "CLOSED"
          /\ t \in ActivateTypes =>
               StateOf(x) = "CLOSED" /\ c.state = "OPEN" /\ c.open_row = cmd.addr.row
          /\ t = "SREF_ENTER" => StateOf(x) = "CLOSED" /\ c.state = "SREF"
          /\ t = "SREF_EXIT" => StateOf(x) = "SREF" /\ c.state = "CLOSED"
      BY Zenon, <2>3, <1>0, CoveredBanksMove
    <3> HIDE DEF c
    <3>4. CASE t \in {"SREF_ENTER", "SREF_EXIT"}
      BY <3>4, <3>3, <3>2, <3>1, <2>1, <1>0
    <3>5. CASE t \notin {"SREF_ENTER", "SREF_EXIT"}
      <4>1. chan'.rank_is_sref = chan.rank_is_sref
        BY <3>5, <2>1
      <4>2. CASE t \in ReadWriteTypes \cup PimReadWriteTypes /\ t \notin AutoPrechargeTypes
        BY <4>1, <4>2, <3>1, <3>3, <2>0
      <4>3. CASE t \in AutoPrechargeTypes \cup {"PRECHARGE"}
        BY <4>1, <4>3, <3>1, <3>3, <2>0
      <4>4. CASE t \in RefreshTypes
        BY <4>1, <4>4, <3>1, <3>3, <2>0
      <4>5. CASE t \in ActivateTypes
        <5>1. cmd.addr.bank = x
          BY <4>5, <2>3, <1>0, LegalKinds, MoveKinds
        <5>2. OrdinaryRow(x, cmd.addr.row) \/ PimRow(x, cmd.addr.row)
          BY <4>5, <5>1, <1>0
          DEF Legal, ActivateTypes, ReadWriteTypes, PimReadWriteTypes, ReadTypes, WriteTypes,
              LhGhReadTypes, LhGhReadPrechargeTypes, PimWriteTypes
        <5> QED BY <4>1, <4>5, <3>1, <3>3, <2>0, <5>2
      <4> QED BY <4>2, <4>3, <4>4, <4>5, <3>5, <1>0 DEF CommandType, RankTypes, RefreshTypes
    <3> QED BY <3>4, <3>5
  <2> QED BY <2>2, <2>3
<1>3. \A i \in DOMAIN chan'.refresh_q : chan'.refresh_q[i].cmd_type \in RequestTypes
  BY Zenon, IssueEffect DEF Within, Sound
<1>4. \A x \in Banks : /\ OrdinaryRow(x, RowOf(x))' = OrdinaryRow(x, RowOf(x)')
                       /\ PimRow(x, RowOf(x))' = PimRow(x, RowOf(x)')
  BY DEF OrdinaryRow, PimRow
<1> QED BY Zenon, <1>1, <1>2, <1>3, <1>4 DEF Sound

(* An issued command keeps the types, those of the history included. *)
LEMMA IssueTypes ==
  ASSUME Types, Sound, NEW cmd, IssueStep(cmd)
  PROVE  Types'
<1> DEFINE t == cmd.cmd_type
<1>1. chan' \in Channel
  BY Zenon, IssueEffect
<1>2. ToPrecharge(t) \in Nat
  BY DelayAssumption DEF ToPrecharge
<1>3. since' \in [Banks -> [Classes -> Int]]
        /\ \A x \in Banks, c \in Classes : since'[x][c] <= Horizon
  <2> DEFINE p == ToPrecharge(t)
             k == ClassOf(t)
             auto == t \in AutoPrechargeTypes
  <2>1. since' = [x \in Banks |->
          IF x \notin Covered(cmd) THEN since[x]
          ELSE [c \in Classes |->
                 CASE c = k -> 0
                   [] c = "PRE" /\ auto -> -p
                   [] OTHER -> since[x][c]]]
    BY DEF IssueStep, Record
  <2>2. p \in Nat /\ Horizon \in Nat
    BY <1>2, HorizonAssumption
  <2> HIDE DEF p, k, auto
  <2>3. ASSUME NEW x \in Banks
        PROVE  since'[x] \in [Classes -> Int] /\ \A c \in Classes : since'[x][c] <= Horizon
    BY <2>1, <2>2 DEF Types
  <2> QED BY <2>1, <2>3
<1>4. activations' \in [Ranks -> Seq(0 .. Horizon)]
  <2>1. activations' = IF t \in ActivateTypes
          THEN [activations EXCEPT ![Rank(cmd)] =
                  Append(IF Len(@) < 4 THEN @ ELSE Tail(@), 0)]
          ELSE activations
    BY DEF IssueStep, Record
  <2>2. Rank(cmd) \in Ranks
    BY LegalKinds DEF IssueStep
  <2> DEFINE a == activations[Rank(cmd)]
             b == Append(IF Len(a) < 4 THEN a ELSE Tail(a), 0)
  <2>3. a \in Seq(0 .. Horizon) /\ 0 \in 0 .. Horizon
    BY <2>2, HorizonAssumption DEF Types
  <2>4. b \in Seq(0 .. Horizon)
    <3> HIDE DEF a
    <3>1. CASE Len(a) < 4
      BY <3>1, <2>3
    <3>2. CASE ~(Len(a) < 4)
      <4>1. a # <<>>
        BY <3>2, <2>3
      <4>2. Tail(a) \in Seq(0 .. Horizon)
        BY <4>1, <2>3
      <4> QED BY <3>2, <4>2, <2>3
    <3> QED BY <3>1, <3>2
  <2> HIDE DEF b
  <2>5. activations' = IF t \in ActivateTypes THEN [activations EXCEPT ![Rank(cmd)] = b]
                       ELSE activations
    BY <2>1 DEF b
  <2> QED BY Zenon, <2>5, <2>4 DEF Types
<1>5. bus' \subseteq Nat
  <2>1. BurstOf(t) \subseteq Nat
    BY DelayAssumption DEF BurstOf
  <2> QED BY <2>1 DEF IssueStep, Record, Types
<1> QED BY <1>1, <1>3, <1>4, <1>5 DEF Types


(* A cycle: every wait is one shorter and nothing else changes. *)
LEMMA TickEffect ==
  ASSUME Types, Tick
  PROVE  /\ chan' \in Channel
         /\ \A x \in Banks : /\ StateOf(x)' = StateOf(x) /\ RowOf(x)' = RowOf(x)
                             /\ \A t \in CommandType : Wait(x, t)' = Aged(Wait(x, t))
         /\ chan'.rank_is_sref = chan.rank_is_sref /\ chan'.refresh_q = chan.refresh_q
         /\ \A r \in Ranks : chan'.four_aw[r] =
              [i \in DOMAIN chan.four_aw[r] |-> Aged(chan.four_aw[r][i])]
<1> DEFINE bs == [x \in Banks |-> BankAged(chan.bank_states[x])]
           fa == [r \in Ranks |-> [i \in DOMAIN chan.four_aw[r] |-> Aged(chan.four_aw[r][i])]]
           ta == [r \in Ranks |-> [i \in DOMAIN chan.thirty_two_aw[r] |->
                                     Aged(chan.thirty_two_aw[r][i])]]
<1>0. chan \in Channel
  BY DEF Types
<1>1. chan' = [[[chan EXCEPT !.bank_states = bs] EXCEPT !.four_aw = fa]
                 EXCEPT !.thirty_two_aw = ta]
  BY Zenon DEF Tick, ChannelAged
<1>2. ASSUME NEW x \in Banks
      PROVE  /\ bs[x] \in Bank
             /\ bs[x].state = StateOf(x) /\ bs[x].open_row = RowOf(x)
             /\ \A t \in CommandType : bs[x].cmd_timing[t] = Aged(Wait(x, t))
  <2> DEFINE b == chan.bank_states[x]
             ct == [t \in CommandType |-> Aged(b.cmd_timing[t])]
  <2>1. bs[x] = [b EXCEPT !.cmd_timing = ct] /\ b \in Bank
    BY <1>0 DEF BankAged, Channel
  <2>2. ct \in [CommandType -> Nat]
    <3>1. b.cmd_timing \in [CommandType -> Nat]
      BY <2>1 DEF Bank
    <3> QED BY <3>1 DEF Aged
  <2>3. \A t \in CommandType : ct[t] = Aged(Wait(x, t))
    BY DEF Wait
  <2> HIDE DEF b, ct, bs
  <2>4. bs[x] \in Bank /\ bs[x].state = b.state /\ bs[x].open_row = b.open_row
          /\ bs[x].cmd_timing = ct
    BY <2>1, <2>2 DEF Bank
  <2> QED BY Zenon, <2>3, <2>4 DEF StateOf, RowOf, b
<1>3. bs \in [Banks -> Bank]
  BY <1>2
<1>4. ASSUME NEW w \in Seq(Nat)
      PROVE  [i \in DOMAIN w |-> Aged(w[i])] \in Seq(Nat)
  <2>1. DOMAIN w = 1 .. Len(w) /\ Len(w) \in Nat
    OBVIOUS
  <2>2. \A i \in 1 .. Len(w) : Aged(w[i]) \in Nat
    BY DEF Aged
  <2> QED BY <2>1, <2>2, IsASeq
<1>5. fa \in [Ranks -> Seq(Nat)] /\ ta \in [Ranks -> Seq(Nat)]
  <2>1. chan.four_aw \in [Ranks -> Seq(Nat)] /\ chan.thirty_two_aw \in [Ranks -> Seq(Nat)]
    BY <1>0 DEF Channel
  <2> QED BY <2>1, <1>4
<1> HIDE DEF bs, ta
<1>6. /\ chan' \in Channel /\ chan'.bank_states = bs /\ chan'.four_aw = fa
      /\ chan'.rank_is_sref = chan.rank_is_sref /\ chan'.refresh_q = chan.refresh_q
  <2> HIDE DEF fa
  <2> QED BY Zenon, <1>0, <1>1, <1>3, <1>5 DEF Channel
<1>7. \A x \in Banks : /\ StateOf(x)' = bs[x].state /\ RowOf(x)' = bs[x].open_row
                       /\ \A t : Wait(x, t)' = bs[x].cmd_timing[t]
  BY Zenon, <1>6 DEF StateOf, RowOf, Wait
<1>8. \A x \in Banks : /\ StateOf(x)' = StateOf(x) /\ RowOf(x)' = RowOf(x)
                       /\ \A t \in CommandType : Wait(x, t)' = Aged(Wait(x, t))
  BY Zenon, <1>2, <1>7
<1>9. \A r \in Ranks : fa[r] = [i \in DOMAIN chan.four_aw[r] |-> Aged(chan.four_aw[r][i])]
  OBVIOUS
<1> HIDE DEF fa
<1> QED BY Zenon, <1>6, <1>8, <1>9

(* A refresh that is asked for waits in the refresh queue. *)
LEMMA NeedRefreshEffect ==
  ASSUME Types, NeedRefresh
  PROVE  /\ chan' \in Channel
         /\ chan'.bank_states = chan.bank_states
         /\ chan'.rank_is_sref = chan.rank_is_sref /\ chan'.four_aw = chan.four_aw
         /\ \E ref \in RefreshCommands : /\ ref.cmd_type \in RequestTypes
                                         /\ chan'.refresh_q = Append(chan.refresh_q, ref)
<1>0. chan \in Channel
  BY DEF Types
<1>1. PICK ref \in RefreshCommands : /\ ref.cmd_type \in RequestTypes
                                     /\ chan' = [chan EXCEPT !.refresh_q = Append(@, ref)]
  <2>1. CASE /\ "REFRESH" \in RequestTypes
             /\ \E r \in Ranks : chan' = RankNeedRefresh(chan, r, TRUE)
    <3>1. PICK r \in Ranks : chan' = RankNeedRefresh(chan, r, TRUE)
      BY Zenon, <2>1
    <3> DEFINE cmd == Command("REFRESH", RankAddress(r), -1)
    <3>2. cmd \in RefreshCommands /\ cmd.cmd_type = "REFRESH"
      BY CommandFields DEF RefreshCommands
    <3>3. chan' = [chan EXCEPT !.refresh_q = Append(@, cmd)]
      BY Zenon, <3>1 DEF RankNeedRefresh
    <3> QED BY Zenon, <2>1, <3>2, <3>3
  <2>2. CASE /\ "REFRESH_BANK" \in RequestTypes
             /\ \E x \in Banks : chan' = BankNeedRefresh(chan, x, TRUE)
    <3>1. PICK x \in Banks : chan' = BankNeedRefresh(chan, x, TRUE)
      BY Zenon, <2>2
    <3> DEFINE cmd == Command("REFRESH_BANK", Address(x, -1, -1), -1)
    <3>2. cmd \in RefreshCommands /\ cmd.cmd_type = "REFRESH_BANK"
      BY CommandFields DEF RefreshCommands
    <3>3. chan' = [chan EXCEPT !.refresh_q = Append(@, cmd)]
      BY Zenon, <3>1 DEF BankNeedRefresh
    <3> QED BY Zenon, <2>2, <3>2, <3>3
  <2> QED BY Zenon, <2>1, <2>2 DEF NeedRefresh
<1>2. Append(chan.refresh_q, ref) \in Seq(RefreshCommands)
  BY <1>0 DEF Channel
<1>3. /\ chan' \in Channel /\ chan'.bank_states = chan.bank_states
      /\ chan'.rank_is_sref = chan.rank_is_sref /\ chan'.four_aw = chan.four_aw
      /\ chan'.refresh_q = Append(chan.refresh_q, ref)
  <2> DEFINE q == Append(chan.refresh_q, ref)
  <2>1. chan' = [chan EXCEPT !.refresh_q = q] /\ q \in Seq(RefreshCommands)
    BY <1>1, <1>2
  <2> HIDE DEF q
  <2>2. /\ chan' \in Channel /\ chan'.bank_states = chan.bank_states
        /\ chan'.rank_is_sref = chan.rank_is_sref /\ chan'.four_aw = chan.four_aw
        /\ chan'.refresh_q = q
    BY Zenon, <1>0, <2>1 DEF Channel
  <2> QED BY Zenon, <2>2 DEF q
<1> QED BY Zenon, <1>1, <1>3


(* The types and the soundness of the channel are inductive. *)
LEMMA StepKeeps ==
  ASSUME Types, Sound, [Next]_vars
  PROVE  Types' /\ Sound'
<1> DEFINE Rows == \A x \in Banks : /\ OrdinaryRow(x, RowOf(x))' = OrdinaryRow(x, RowOf(x)')
                                    /\ PimRow(x, RowOf(x))' = PimRow(x, RowOf(x)')
<1>0. Rows
  BY DEF OrdinaryRow, PimRow
<1>1. CASE Tick
  <2>0. Horizon \in Nat /\ (issued' # AbruptExit)
    BY <1>1, HorizonAssumption, NoCommandFields DEF Tick
  <2>1. since' \in [Banks -> [Classes -> Int]]
          /\ \A x \in Banks, c \in Classes : since'[x][c] <= Horizon
    <3>1. since' = [x \in Banks |-> [c \in Classes |-> Older(since[x][c])]]
      BY <1>1 DEF Tick
    <3> QED BY <2>0, <3>1 DEF Types, Older
  <2>2. activations' \in [Ranks -> Seq(0 .. Horizon)]
    <3>1. activations' = [r \in Ranks |->
            [i \in DOMAIN activations[r] |-> Older(activations[r][i])]]
      BY <1>1 DEF Tick
    <3>2. ASSUME NEW a \in Seq(0 .. Horizon)
          PROVE  [i \in DOMAIN a |-> Older(a[i])] \in Seq(0 .. Horizon)
      <4>1. DOMAIN a = 1 .. Len(a) /\ Len(a) \in Nat
        OBVIOUS
      <4>2. \A i \in 1 .. Len(a) : Older(a[i]) \in 0 .. Horizon
        BY <2>0 DEF Older
      <4> QED BY <4>1, <4>2, IsASeq
    <3> QED BY <3>1, <3>2 DEF Types
  <2>3. bus' \subseteq Nat
    <3>1. bus' = {n - 1 : n \in bus \ {0}} /\ bus \subseteq Nat
      BY <1>1 DEF Tick, Types
    <3> QED BY <3>1
  <2>4. Types'
    BY Zenon, <2>1, <2>2, <2>3, <1>1, TickEffect DEF Types
  <2>5. Sound'
    <3>1. /\ \A x \in Banks : StateOf(x)' = StateOf(x) /\ RowOf(x)' = RowOf(x)
          /\ chan'.rank_is_sref = chan.rank_is_sref /\ chan'.refresh_q = chan.refresh_q
      BY Zenon, <1>1, TickEffect
    <3> QED BY Zenon, <3>1, <2>0, <1>0 DEF Sound
  <2> QED BY <2>4, <2>5
<1>2. CASE NeedRefresh
  <2>1. since' = since /\ activations' = activations /\ bus' = bus
          /\ issued' # AbruptExit
    BY <1>2, NoCommandFields DEF NeedRefresh
  <2>2. Types'
    BY Zenon, <2>1, <1>2, NeedRefreshEffect DEF Types
  <2>3. PICK ref \in RefreshCommands : /\ ref.cmd_type \in RequestTypes
                                       /\ chan'.refresh_q = Append(chan.refresh_q, ref)
    BY Zenon, <1>2, NeedRefreshEffect
  <2>4. \A i \in DOMAIN chan'.refresh_q : chan'.refresh_q[i].cmd_type \in RequestTypes
    <3> DEFINE q == chan.refresh_q
               p == chan'.refresh_q
    <3>1. /\ q \in Seq(RefreshCommands) /\ p = Append(q, ref)
          /\ \A i \in DOMAIN q : q[i].cmd_type \in RequestTypes
      BY <2>3 DEF Types, Channel, Sound
    <3> HIDE DEF q, p
    <3>2. \A i \in DOMAIN p : (i \in DOMAIN q /\ p[i] = q[i]) \/ p[i] = ref
      BY <3>1
    <3> QED BY <3>1, <3>2, <2>3 DEF p
  <2>5. /\ \A x \in Banks : StateOf(x)' = StateOf(x) /\ RowOf(x)' = RowOf(x)
        /\ chan'.rank_is_sref = chan.rank_is_sref
    BY Zenon, <1>2, NeedRefreshEffect DEF StateOf, RowOf
  <2>6. Sound'
    BY Zenon, <2>1, <2>4, <2>5, <1>0 DEF Sound
  <2> QED BY <2>2, <2>6
<1>3. CASE \E cmd : IssueStep(cmd)
  BY Zenon, <1>3, IssueTypes, IssueSound
<1>4. CASE UNCHANGED vars
  BY <1>4 DEF vars, Types, Sound, StateOf, RowOf, OrdinaryRow, PimRow
<1>5. CASE Next
  BY Zenon, <1>5, <1>1, <1>2, <1>3, StepKinds
<1> QED BY <1>4, <1>5

(* The reset state is sound. *)
LEMMA InitKeeps ==
  ASSUME Init
  PROVE  Types /\ Sound
<1>0. Horizon \in Nat
  BY HorizonAssumption
<1>1. InitBank \in Bank
  <2>1. InitBank.cmd_timing = [t \in CommandType |-> 0]
    BY DEF InitBank
  <2>2. [t \in CommandType |-> 0] \in [CommandType -> Nat]
    OBVIOUS
  <2> DEFINE ct == [t \in CommandType |-> 0]
  <2> HIDE DEF ct
  <2>3. InitBank = [state |-> "CLOSED", open_row |-> -1, row_hit_count |-> 0,
                    cmd_timing |-> ct]
    BY DEF InitBank, ct
  <2> QED BY <2>2, <2>3 DEF Bank, RowHitLimit, ct
<1>2. chan \in Channel
  <2> DEFINE bs == [x \in Banks |-> InitBank]
             sr == [r \in Ranks |-> FALSE]
             id == [r \in Ranks |-> 0]
             aw == [r \in Ranks |-> <<>>]
  <2>1. bs \in [Banks -> Bank] /\ sr \in [Ranks -> BOOLEAN] /\ id \in [Ranks -> Nat]
    BY <1>1
  <2>2. aw \in [Ranks -> Seq(Nat)]
    OBVIOUS
  <2>3. chan = [bank_states |-> bs, refresh_q |-> <<>>, rank_is_sref |-> sr,
                rank_idle_cycles |-> id, four_aw |-> aw, thirty_two_aw |-> aw]
    BY DEF Init, InitChannel
  <2> HIDE DEF bs, sr, id, aw
  <2> QED BY <2>1, <2>2, <2>3 DEF Channel
<1>3. Types
  <2>1. since \in [Banks -> [Classes -> Int]]
          /\ \A x \in Banks, c \in Classes : since[x][c] <= Horizon
    BY <1>0 DEF Init
  <2>2. activations \in [Ranks -> Seq(0 .. Horizon)]
    BY DEF Init
  <2> QED BY <1>2, <2>1, <2>2 DEF Types, Init
<1>4. /\ \A x \in Banks : StateOf(x) = "CLOSED" /\ x[1] \in Ranks
      /\ \A r \in Ranks : chan.rank_is_sref[r] = FALSE
      /\ chan.refresh_q = <<>>
  BY DEF Init, InitChannel, InitBank, StateOf, Banks
<1>5. issued # AbruptExit
  BY NoCommandFields DEF Init
<1>6. DOMAIN chan.refresh_q = {}
  BY <1>4
<1>7. Sound
  BY <1>4, <1>5, <1>6 DEF Sound
<1> QED BY <1>3, <1>7

-----------------------------------------------------------------------------
(* In every reachable state the channel has its type, its banks are in      *)
(* step with its ranks, and only rows of addresses are open.                *)
THEOREM ChannelSound == Spec => [](Types /\ Sound)
<1>1. Init => Types /\ Sound
  BY InitKeeps
<1>2. Types /\ Sound /\ [Next]_vars => Types' /\ Sound'
  BY StepKeeps
<1> QED BY <1>1, <1>2, PTL DEF Spec

(* bankstate.cc never calls AbruptExit: whatever is asked of the channel    *)
(* and when, every request has an answer, and every answer is legal for     *)
(* all banks that it goes to.                                               *)
THEOREM NeverIllegal == Spec => []NoIllegalCommand
<1>1. Types /\ Sound => NoIllegalCommand
  BY DEF Sound, NoIllegalCommand, Exited, ChannelExited, StateOf
<1> QED BY <1>1, ChannelSound, PTL
=============================================================================
