-------------------------- MODULE ChannelProtocol ---------------------------
(***************************************************************************)
(* The channel under an arbitrary client: any queued request may be asked  *)
(* for at any time, and whatever GetReadyCommand answers is issued, as the *)
(* controller does.  History variables record when each bank last saw each *)
(* kind of command, and the properties compare these times with the DRAM   *)
(* timing parameters themselves, not with the tables built from them.      *)
(***************************************************************************)
EXTENDS ChannelState

CONSTANTS RequestTypes,  \* the request types the client uses
          PimAddr,       \* the addresses reserved to PIM requests
          MaxRefreshQ,   \* bound: refreshes the client leaves waiting
          Horizon        \* ages are not told apart beyond this many cycles

VARIABLES chan,          \* the channel state
          since,         \* history: per bank and class, cycles since the last one
          activations,   \* history: per rank, ages of the last activations
          bus,           \* history: future cycles in which the data bus is taken
          issued         \* the command this step issued, or NoCommand

vars == <<chan, since, activations, bus, issued>>

(* The kinds of command the properties tell apart. *)
ClassOf(t) ==
  CASE t = "ACTIVATE" -> "ACT"
    [] t = "PIM_ACTIVATE" -> "PIM_ACT"
    [] t \in ReadTypes -> "RD"
    [] t \in WriteTypes -> "WR"
    [] t \in LhGhReadTypes \cup LhGhReadPrechargeTypes -> "PIM_RD"
    [] t \in PimWriteTypes -> "PIM_WR"
    [] t = "PRECHARGE" -> "PRE"
    [] t = "REFRESH" -> "REF"
    [] t = "REFRESH_BANK" -> "REFB"
    [] t = "SREF_ENTER" -> "SRE"
    [] t = "SREF_EXIT" -> "SRX"
Classes == {"ACT", "PIM_ACT", "RD", "WR", "PIM_RD", "PIM_WR", "PRE", "REF",
            "REFB", "SRE", "SRX"}

AutoPrechargeTypes ==
  {"READ_PRECHARGE", "WRITE_PRECHARGE", "PIM_WRITE_PRECHARGE"}
    \cup LhGhReadPrechargeTypes

(* The delay from a column command to the precharge that may follow it. *)
ToPrecharge(t) ==
  IF ClassOf(t) \in {"RD", "PIM_RD"} THEN Config.AL + Config.tRTP
  ELSE Config.WL + Config.burst_cycle + Config.tWR

(* Ages are told apart up to every delay that a property is about. *)
ASSUME HorizonAssumption ==
  /\ Horizon \in Nat
  /\ \A d \in {Config.tRC, Config.tRAS, Config.tRP, Config.tRFC, Config.tRFCb,
               Config.tXS, Config.tFAW, Config.tRRD_L, Config.tRRD_S,
               Config.tCKESR, activate_to_read, activate_to_write,
               Config.AL + Config.tRTP, Config.WL + Config.burst_cycle + Config.tWR,
               Config.WL + Config.burst_cycle + Config.tWTR_L,
               Config.WL + Config.burst_cycle + Config.tWTR_S} : d <= Horizon

(* The client follows one refresh policy (refresh_policy in the .ini file)  *)
(* and keeps PIM data in rows of their own.                                 *)
ASSUME ClientAssumption ==
  /\ ~(RefreshTypes \subseteq RequestTypes)
  /\ PimAddr \subseteq Addr
  /\ \A a \in PimAddr, o \in Addr \ PimAddr :
       Config.AddressMapping[a].bank = Config.AddressMapping[o].bank =>
         Config.AddressMapping[a].row # Config.AddressMapping[o].row

Init ==
  /\ chan = InitChannel
  /\ since = [x \in Banks |-> [c \in Classes |-> Horizon]]
  /\ activations = [r \in Ranks |-> <<>>]
  /\ bus = {}
  /\ issued = NoCommand

-----------------------------------------------------------------------------
Exited == issued = AbruptExit \/ ChannelExited(chan)

(* The cycles from now in which a column command occupies the data bus. *)
BurstOf(t) ==
  CASE t \in ReadTypes -> Config.RL .. Config.RL + Config.burst_cycle - 1
    [] t \in WriteTypes -> Config.WL .. Config.WL + Config.burst_cycle - 1
    [] OTHER -> {}

(* The banks a command goes to. *)
Covered(cmd) ==
  IF cmd.cmd_type \in RankTypes THEN BanksOf(Rank(cmd)) ELSE {cmd.addr.bank}

(* The bookkeeping of the history variables.  An auto-precharge counts as a *)
(* precharge that is still ToPrecharge cycles ahead.                        *)
Record(cmd) ==
  LET t == cmd.cmd_type
  IN /\ issued' = cmd
     /\ bus' = bus \cup BurstOf(t)
     /\ since' = [x \in Banks |->
          IF x \notin Covered(cmd) THEN since[x]
          ELSE [c \in Classes |->
                 CASE c = ClassOf(t) -> 0
                   [] c = "PRE" /\ t \in AutoPrechargeTypes -> -ToPrecharge(t)
                   [] OTHER -> since[x][c]]]
     /\ activations' =
          IF t \in ActivateTypes
          THEN [activations EXCEPT ![Rank(cmd)] =
                  Append(IF Len(@) < 4 THEN @ ELSE Tail(@), 0)]
          ELSE activations

(* The program ends where GetReadyCommand aborts. *)
Issue(request) ==
  LET cmd == GetReadyCommand(chan, request)
  IN /\ ~Exited /\ IsValid(cmd)
     /\ IF cmd = AbruptExit
        THEN issued' = cmd /\ UNCHANGED <<chan, since, activations, bus>>
        ELSE chan' = UpdateTimingAndStates(chan, cmd) /\ Record(cmd)

(* A transaction's command, or a PIM command to a PIM address. *)
Access ==
  \E t \in RequestTypes \cap ReadWriteTypes, a \in Addr \ PimAddr :
    Issue(Command(t, Config.AddressMapping[a], a))

PimAccess ==
  \E t \in RequestTypes \cap PimReadWriteTypes, a \in PimAddr :
    Issue(Command(t, Config.AddressMapping[a], a))

(* Refresh::InsertRefresh asks for a refresh of a rank or of a bank that is *)
(* not in self-refresh.                                                     *)
NeedRefresh ==
  /\ ~Exited
  /\ Len(chan.refresh_q) < MaxRefreshQ
  /\ \/ /\ "REFRESH" \in RequestTypes
        /\ \E r \in Ranks : /\ ~chan.rank_is_sref[r]
                            /\ chan' = RankNeedRefresh(chan, r, TRUE)
     \/ /\ "REFRESH_BANK" \in RequestTypes
        /\ \E x \in Banks : /\ ~chan.rank_is_sref[x[1]]
                            /\ chan' = BankNeedRefresh(chan, x, TRUE)
  /\ issued' = NoCommand
  /\ UNCHANGED <<since, activations, bus>>

(* The client finishes no refresh of a rank that is in self-refresh, and    *)
(* sends no rank into self-refresh twice or with a refresh waiting.         *)
FinishRefresh ==
  /\ IsRefreshWaiting(chan)
  /\ ~chan.rank_is_sref[Rank(PendingRefCommand(chan))]
  /\ Issue(PendingRefCommand(chan))

EnterSelfRefresh ==
  /\ "SREF_ENTER" \in RequestTypes
  /\ \E r \in Ranks :
       /\ ~chan.rank_is_sref[r]
       /\ \A i \in DOMAIN chan.refresh_q : Rank(chan.refresh_q[i]) # r
       /\ Issue(Command("SREF_ENTER", RankAddress(r), -1))

Older(age) == IF age = Horizon THEN age ELSE age + 1

Tick ==
  /\ ~Exited
  /\ chan' = ChannelAged(chan)
  /\ since' = [x \in Banks |-> [c \in Classes |-> Older(since[x][c])]]
  /\ activations' = [r \in Ranks |->
       [i \in DOMAIN activations[r] |-> Older(activations[r][i])]]
  /\ bus' = {n - 1 : n \in bus \ {0}}
  /\ issued' = NoCommand

Next ==
  \/ Access
  \/ PimAccess
  \/ NeedRefresh
  \/ FinishRefresh
  \/ EnterSelfRefresh
  \/ Tick

Spec == Init /\ [][Next]_vars

-----------------------------------------------------------------------------
TypeOK ==
  /\ ChannelTypeOK(chan)
  /\ since \in [Banks -> [Classes -> -Horizon .. Horizon]]
  /\ \A r \in Ranks : Len(activations[r]) <= 4
  /\ bus \subseteq 0 .. Horizon + Config.RL + Config.burst_cycle
  /\ issued \in {NoCommand, AbruptExit} \/ issued.cmd_type \in CommandType

SinceActivate(x) ==
  IF since[x]["ACT"] <= since[x]["PIM_ACT"] THEN since[x]["ACT"]
  ELSE since[x]["PIM_ACT"]

(* Bank x is closed and its precharge, explicit or automatic, is complete. *)
Precharged(x) ==
  chan.bank_states[x].state = "CLOSED" /\ since[x]["PRE"] >= Config.tRP

(* Neither half of a bank state machine ever calls AbruptExit               *)
(* (bankstate.cc GetReadyCommand and UpdateState): every request has an     *)
(* answer, and the answer is legal for every bank it is applied to, the     *)
(* rank commands' whole rank included.                                      *)
NoIllegalCommand == ~Exited

ActivateStep ==
  issued'.cmd_type \in ActivateTypes =>
    LET b == issued'.addr.bank
    IN /\ Precharged(b)
       /\ SinceActivate(b) >= Config.tRC
       /\ since[b]["REF"] >= Config.tRFC
       /\ since[b]["SRX"] >= Config.tXS
       /\ issued'.cmd_type = "ACTIVATE" =>
            \A x \in BanksOf(b[1]) \ {b} :
              since[x]["ACT"] >= IF x[2] = b[2] /\ Config.bankgroups > 1
                                 THEN Config.tRRD_L ELSE Config.tRRD_S

(* ACTIVATE goes only to a closed, fully precharged bank, one row cycle     *)
(* after its last activation, with tRRD to the other banks' activations,    *)
(* and not within tRFC of a refresh or tXS of a self-refresh exit of its    *)
(* rank.  PIM activations use their own address path and keep no tRRD       *)
(* (timing.cc, PIM_ACTIVATE).                                               *)
ActivateLegal == [][ActivateStep]_vars

WindowStep ==
  issued'.cmd_type \in ActivateTypes =>
    LET window == activations[Rank(issued')]
    IN Len(window) = 4 => window[1] >= Config.tFAW

(* No five activations of a rank fall within tFAW, although the code keeps  *)
(* only the deadlines of recent activations and drops at most one per       *)
(* activation (UpdateActivationTimes).                                      *)
FourActivateWindow == [][WindowStep]_vars

ColumnStep ==
  /\ issued'.cmd_type \in ReadWriteTypes \cup PimReadWriteTypes =>
       LET x == issued'.addr.bank
       IN /\ chan.bank_states[x].state = "OPEN"
          /\ chan.bank_states[x].open_row = issued'.addr.row
          /\ SinceActivate(x) >=
               IF ~(Config.IsGDDR \/ Config.IsHBM) THEN Config.tRCD - Config.AL
               ELSE IF ClassOf(issued'.cmd_type) \in {"RD", "PIM_RD"} THEN Config.tRCDRD
               ELSE Config.tRCDWR
  /\ issued'.cmd_type \in ReadTypes =>
       \A x \in BanksOf(Rank(issued')) :
         since[x]["WR"] >=
           Config.WL + Config.burst_cycle +
             IF x[2] = issued'.addr.bank[2] /\ Config.bankgroups > 1
             THEN Config.tWTR_L ELSE Config.tWTR_S

(* A column command reaches the row it was meant for, tRCD after that row   *)
(* was opened, and a read waits tWTR after the last write data of its rank. *)
ColumnAccessLegal == [][ColumnStep]_vars

BusStep ==
  bus \cap BurstOf(issued'.cmd_type) = {}

(* The data of two column commands never collide on the data bus, whatever  *)
(* the mix of reads and writes, banks and ranks.                            *)
DataBusExclusive == [][BusStep]_vars

PrechargeStep ==
  issued'.cmd_type = "PRECHARGE" =>
    LET s == since[issued'.addr.bank]
    IN /\ SinceActivate(issued'.addr.bank) >= Config.tRAS
       /\ \A c \in {"RD", "PIM_RD"} : s[c] >= Config.AL + Config.tRTP
       /\ \A c \in {"WR", "PIM_WR"} :
            s[c] >= Config.WL + Config.burst_cycle + Config.tWR

(* A row is closed only tRAS after it was opened, and after the read or     *)
(* write recovery of the last column command to it.                         *)
PrechargeLegal == [][PrechargeStep]_vars

RefreshStep ==
  issued'.cmd_type \in RefreshTypes \cup {"SREF_ENTER"} =>
    \A x \in Covered(issued') :
      /\ Precharged(x)
      /\ since[x]["REF"] >= Config.tRFC
      /\ since[x]["SRX"] >= Config.tXS

(* A rank or bank refresh, or a self-refresh entry, finds every bank it     *)
(* covers closed and precharged, clear of the rank's previous refresh and   *)
(* of a self-refresh exit.                                                  *)
RefreshLegal == [][RefreshStep]_vars

SelfRefreshStep ==
  issued'.cmd_type \in CommandType /\ chan.rank_is_sref[Rank(issued')] =>
    /\ issued'.cmd_type = "SREF_EXIT"
    /\ \A x \in BanksOf(Rank(issued')) : since[x]["SRE"] >= Config.tCKESR

(* A rank in self-refresh sees nothing but the exit command, and that not   *)
(* before tCKESR.                                                           *)
SelfRefreshLegal == [][SelfRefreshStep]_vars

(* timing.cc: `need to precharge before ref, so it's tRC': a rank refresh   *)
(* comes at least tRC after the last activation in the rank.                *)
RefreshAfterRowCycle ==
  [][issued'.cmd_type = "REFRESH" =>
       \A x \in BanksOf(Rank(issued')) : SinceActivate(x) >= Config.tRC]_vars

(* timing.cc: `tRFC is defined as ref to act', for a bank refresh tRFCb: a  *)
(* refreshed bank is not activated before its refresh time has passed.      *)
BankRefreshRecovery ==
  [][issued'.cmd_type \in ActivateTypes =>
       since[issued'.addr.bank]["REFB"] >= Config.tRFCb]_vars
=============================================================================
