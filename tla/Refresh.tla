------------------------------ MODULE Refresh -------------------------------
(***************************************************************************)
(* The refresh counter of one channel (src/src/refresh.cc).  The state is  *)
(* a record rf; `until' is the number of cycles before the next insertion  *)
(* (clk_ % refresh_interval_ counted backwards, the first cycle excepted). *)
(***************************************************************************)
EXTENDS ChannelState

RefreshPolicies ==
  {"RANK_LEVEL_SIMULTANEOUS", "RANK_LEVEL_STAGGERED", "BANK_LEVEL_STAGGERED"}

refresh_interval ==
  CASE Config.refresh_policy = "RANK_LEVEL_SIMULTANEOUS" -> Config.tREFI
    [] Config.refresh_policy = "BANK_LEVEL_STAGGERED" -> Config.tREFIb
    [] Config.refresh_policy = "RANK_LEVEL_STAGGERED" -> Config.tREFI \div Config.ranks

ASSUME RefreshAssumption ==
  Config.refresh_policy \in RefreshPolicies /\ refresh_interval \in Nat \ {0}

InitRefresh ==
  [until |-> refresh_interval, next_rank |-> 0, next_bg |-> 0, next_bank |-> 0]

RefreshTypeOK(rf) ==
  /\ rf.until \in 0 .. refresh_interval
  /\ <<rf.next_rank, rf.next_bg, rf.next_bank>> \in Banks

(* Mutant: the rank index does not move. *)
IterateNextStuck(rf) == rf

IterateNext(rf) ==
  LET bg == (rf.next_bg + 1) % Config.bankgroups
      bank == IF bg = 0 THEN (rf.next_bank + 1) % Config.banks_per_group
              ELSE rf.next_bank
      rank == (rf.next_rank + 1) % Config.ranks
  IN IF Config.refresh_policy = "RANK_LEVEL_STAGGERED"
     THEN [rf EXCEPT !.next_rank = rank]
     ELSE [rf EXCEPT !.next_bg = bg, !.next_bank = bank,
                     !.next_rank = IF bg = 0 /\ bank = 0 THEN rank ELSE @]

(* The channel after InsertRefresh.  The simultaneous policy leaves its     *)
(* loop at the first rank that is not self-refreshing.                      *)
InsertRefresh(rf, ch) ==
  LET awake == {r \in Ranks : ~ch.rank_is_sref[r]}
      bank == <<rf.next_rank, rf.next_bg, rf.next_bank>>
  IN CASE Config.refresh_policy = "RANK_LEVEL_SIMULTANEOUS" ->
            IF awake = {} THEN ch
            ELSE RankNeedRefresh(ch, CHOOSE r \in awake : \A s \in awake : r <= s, TRUE)
       [] Config.refresh_policy = "RANK_LEVEL_STAGGERED" ->
            IF rf.next_rank \in awake THEN RankNeedRefresh(ch, rf.next_rank, TRUE) ELSE ch
       [] Config.refresh_policy = "BANK_LEVEL_STAGGERED" ->
            IF rf.next_rank \in awake THEN BankNeedRefresh(ch, bank, TRUE) ELSE ch

(* Refresh::ClockTick: the counter and the channel after one cycle. *)
RefreshClockTick(rf, ch) ==
  IF rf.until > 0 THEN [rf |-> [rf EXCEPT !.until = @ - 1], ch |-> ch]
  ELSE [rf |-> [(IF Config.refresh_policy = "RANK_LEVEL_SIMULTANEOUS" THEN rf
                 ELSE IterateNext(rf)) EXCEPT !.until = refresh_interval - 1],
        ch |-> InsertRefresh(rf, ch)]

(* refresh_interval_ - max(0, clk_ - 1) % refresh_interval_ *)
CyclesToRefresh(rf) ==
  IF rf.until = refresh_interval THEN refresh_interval ELSE rf.until + 1

pim_refresh_coming(rf) == CyclesToRefresh(rf) < Config.tRAS + 3
pim_refresh_coming2(rf) == CyclesToRefresh(rf) < 3
=============================================================================
