---------------------------- MODULE ChannelState ----------------------------
(***************************************************************************)
(* The banks of one channel and what they share (src/src/channel_state.cc):*)
(* the pending refreshes, which ranks self-refresh, the activation windows *)
(* and the idle counters.  A channel is a record; the operations are       *)
(* operators on it.                                                        *)
(***************************************************************************)
EXTENDS BankState, Timing

InitChannel ==
  [bank_states |-> [x \in Banks |-> InitBank],
   refresh_q |-> <<>>,
   rank_is_sref |-> [r \in Ranks |-> FALSE],
   rank_idle_cycles |-> [r \in Ranks |-> 0],
   four_aw |-> [r \in Ranks |-> <<>>],
   thirty_two_aw |-> [r \in Ranks |-> <<>>]]

ChannelTypeOK(ch) ==
  /\ DOMAIN ch.bank_states = Banks
  /\ \A x \in Banks : BankTypeOK(ch.bank_states[x])
  /\ \A i \in DOMAIN ch.refresh_q : ch.refresh_q[i].cmd_type \in RefreshTypes
  /\ ch.rank_is_sref \in [Ranks -> BOOLEAN]
  /\ ch.rank_idle_cycles \in [Ranks -> 0 .. Config.sref_threshold]
  /\ \A r \in Ranks : /\ \A i \in DOMAIN ch.four_aw[r] :
                             ch.four_aw[r][i] \in 0 .. Config.tFAW
                      /\ \A i \in DOMAIN ch.thirty_two_aw[r] :
                             ch.thirty_two_aw[r][i] \in 0 .. Config.t32AW

(* Some bank ran into AbruptExit. *)
ChannelExited(ch) == \E x \in Banks : ch.bank_states[x].state = "ABRUPT_EXIT"

IsAllBankIdleInRank(ch, rank) ==
  \A x \in BanksOf(rank) : ~IsRowOpen(ch.bank_states[x])

IsRefreshWaiting(ch) == ch.refresh_q # <<>>
PendingRefCommand(ch) == Head(ch.refresh_q)

-----------------------------------------------------------------------------
First(S) == CHOOSE i \in S : \A j \in S : i <= j

Erased(q, i) == SubSeq(q, 1, i - 1) \o SubSeq(q, i + 1, Len(q))

(* Erase the first position found, and leave the loop. *)
EraseFirst(q, found) == IF found = {} THEN q ELSE Erased(q, First(found))

BankNeedRefresh(ch, bank, need) ==
  LET same == {i \in 1 .. Len(ch.refresh_q) : ch.refresh_q[i].addr.bank = bank}
      ref == Command("REFRESH_BANK", Address(bank, -1, -1), -1)
  IN [ch EXCEPT !.refresh_q = IF need THEN Append(@, ref)
                              ELSE EraseFirst(@, same)]

RankNeedRefresh(ch, rank, need) ==
  LET same == {i \in 1 .. Len(ch.refresh_q) : Rank(ch.refresh_q[i]) = rank}
      ref == Command("REFRESH", RankAddress(rank), -1)
  IN [ch EXCEPT !.refresh_q = IF need THEN Append(@, ref)
                              ELSE EraseFirst(@, same)]

-----------------------------------------------------------------------------
(* Mutant: one activation too many. *)
WindowReadyFive(window, limit) ==
  window = <<>> \/ Head(window) = 0 \/ Len(window) <= limit

(* Activation windows: the remaining time of the last activations; at most  *)
(* `limit' of them may be running.                                          *)
WindowReady(window, limit) ==
  window = <<>> \/ Head(window) = 0 \/ Len(window) < limit

IsFAWReady(ch, rank) == WindowReady(ch.four_aw[rank], 4)
Is32AWReady(ch, rank) == WindowReady(ch.thirty_two_aw[rank], 32)

ActivationWindowOk(ch, rank) ==
  IsFAWReady(ch, rank) /\ (Config.IsGDDR => Is32AWReady(ch, rank))

WindowAfterActivate(window, length) ==
  Append(IF window # <<>> /\ Head(window) = 0 THEN Tail(window) ELSE window, length)

UpdateActivationTimes(ch, rank) ==
  [ch EXCEPT !.four_aw[rank] = WindowAfterActivate(@, Config.tFAW),
             !.thirty_two_aw[rank] =
                IF Config.IsGDDR THEN WindowAfterActivate(@, Config.t32AW) ELSE @]

-----------------------------------------------------------------------------
(* The order in which the rank commands visit the banks of a rank. *)
VisitIndex(bank) == bank[2] * Config.banks_per_group + bank[3]

(* Mutant: the rank is ready when every bank is ready for something. *)
RankReadyCommandAnyAnswer(ch, cmd) ==
  IF \A x \in BanksOf(Rank(cmd)) : IsValid(BankReadyCommand(ch.bank_states[x], cmd))
  THEN cmd ELSE NoCommand

(* For a rank command the first bank that answers with some other command   *)
(* (a PRECHARGE) decides; otherwise every bank must be ready.               *)
CombineAnswers(cmd, answer) ==
  LET other == {x \in DOMAIN answer :
                  IsValid(answer[x]) /\ answer[x].cmd_type # cmd.cmd_type}
      x == CHOOSE y \in other : \A z \in other : VisitIndex(y) <= VisitIndex(z)
  IN IF other = {}
     THEN IF \A y \in DOMAIN answer : IsValid(answer[y]) THEN cmd ELSE NoCommand
     ELSE IF answer[x] = AbruptExit THEN AbruptExit
     ELSE [answer[x] EXCEPT !.addr = Address(x, -1, -1)]

RankReadyCommand(ch, cmd) ==
  CombineAnswers(cmd, [x \in BanksOf(Rank(cmd)) |->
                         BankReadyCommand(ch.bank_states[x], cmd)])

GetReadyCommand(ch, cmd) ==
  IF cmd.cmd_type \in RankTypes THEN RankReadyCommand(ch, cmd)
  ELSE LET InWindow(ready_cmd) ==
             IF ready_cmd.cmd_type \in ActivateTypes /\ ~ActivationWindowOk(ch, Rank(cmd))
             THEN NoCommand ELSE ready_cmd
       IN InWindow(BankReadyCommand(ch.bank_states[cmd.addr.bank], cmd))

-----------------------------------------------------------------------------
(* Mutant: an issued refresh stays in refresh_q_. *)
UpdateStateKeepsRefresh(ch, cmd) ==
  LET touched == IF cmd.cmd_type \in RankTypes THEN BanksOf(Rank(cmd))
                 ELSE {cmd.addr.bank}
  IN [ch EXCEPT !.bank_states =
        [x \in Banks |-> IF x \in touched THEN BankUpdateState(@[x], cmd) ELSE @[x]]]

UpdateState(ch, cmd) ==
  LET touched == IF cmd.cmd_type \in RankTypes THEN BanksOf(Rank(cmd))
                 ELSE {cmd.addr.bank}
      ch1 == [ch EXCEPT !.bank_states =
                [x \in Banks |-> IF x \in touched THEN BankUpdateState(@[x], cmd)
                                 ELSE @[x]]]
  IN CASE cmd.cmd_type = "REFRESH" -> RankNeedRefresh(ch1, Rank(cmd), FALSE)
       [] cmd.cmd_type = "REFRESH_BANK" -> BankNeedRefresh(ch1, cmd.addr.bank, FALSE)
       [] cmd.cmd_type = "SREF_ENTER" -> [ch1 EXCEPT !.rank_is_sref[Rank(cmd)] = TRUE]
       [] cmd.cmd_type = "SREF_EXIT" -> [ch1 EXCEPT !.rank_is_sref[Rank(cmd)] = FALSE]
       [] OTHER -> ch1

(* The timing list that cmd imposes on bank x.  same_rank is consulted for  *)
(* the rank commands only.                                                  *)
TimingList(cmd, x) ==
  LET t == cmd.cmd_type
      bank == cmd.addr.bank
  IN CASE t \in RankTypes -> IF x[1] = bank[1] THEN same_rank[t] ELSE {}
       [] t \notin RankTypes /\ x = bank -> same_bank[t]
       [] t \notin RankTypes /\ x # bank /\ x[1] = bank[1] /\ x[2] = bank[2] ->
            other_banks_same_bankgroup[t]
       [] t \notin RankTypes /\ x[1] = bank[1] /\ x[2] # bank[2] ->
            other_bankgroups_same_rank[t]
       [] t \notin RankTypes /\ x[1] # bank[1] -> other_ranks[t]

UpdateTiming(ch, cmd) ==
  LET ch1 == IF cmd.cmd_type \in ActivateTypes
             THEN UpdateActivationTimes(ch, Rank(cmd)) ELSE ch
  IN [ch1 EXCEPT !.bank_states =
        [x \in Banks |-> BankUpdateTiming(@[x], TimingList(cmd, x))]]

UpdateTimingAndStates(ch, cmd) == UpdateTiming(UpdateState(ch, cmd), cmd)

(* clk_++ as the channel sees it. *)
ChannelAged(ch) ==
  LET AgedAll(window) == [i \in DOMAIN window |-> Aged(window[i])]
  IN [ch EXCEPT !.bank_states = [x \in Banks |-> BankAged(@[x])],
                !.four_aw = [r \in Ranks |-> AgedAll(@[r])],
                !.thirty_two_aw = [r \in Ranks |-> AgedAll(@[r])]]
=============================================================================
