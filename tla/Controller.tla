----------------------------- MODULE Controller -----------------------------
(***************************************************************************)
(* One channel controller (src/src/controller.cc): the transaction queues, *)
(* the command queues, the refresh counter, the PIM command lists and the  *)
(* channel, and what one ClockTick does to all of them.  A controller is a *)
(* record c; the operations are operators on it.                           *)
(***************************************************************************)
EXTENDS CommandQueue, Refresh

InitController ==
  [tq |-> InitQueues, cq |-> InitCommandQueue, chan |-> InitChannel, rf |-> InitRefresh,
   rd_w_cmds |-> <<>>, rd_in_cmds |-> <<>>, wr_cmds |-> <<>>,
   wr_multitenant |-> FALSE, in_pim |-> FALSE,
   aborted |-> FALSE]                  \* AbruptExit was called

ControllerExited(c) == c.aborted \/ c.tq.exited \/ ChannelExited(c.chan)

(* IssueCommand: pending and return queues first, then timing and states. *)
IssueCommand(c, cmd) ==
  LET t == Transaction(cmd.hex_addr, cmd.cmd_type \in WriteTypes)
  IN [c EXCEPT !.tq = IF cmd.cmd_type \in ReadWriteTypes
                      THEN CompleteRW(@, t, c.in_pim) ELSE @,
               !.chan = UpdateTimingAndStates(@, cmd)]

-----------------------------------------------------------------------------
(* Mutant: the second command is picked before the first one is issued. *)
IssueGeneralStale(c, cmd) ==
  LET g == GetCommandToIssue(c.tq, c.cq, c.chan)
      c2 == [c EXCEPT !.tq = g.tq, !.cq = g.cq]
  IN IF ~Config.enable_hbm_dual_cmd \/ ~IsValid(g.cmd) THEN IssueCommand(c, cmd)
     ELSE IssueCommand(IssueCommand(c2, cmd), g.cmd)

(* The second command g.cmd of a cycle after cmd: one of the two must be a  *)
(* column access.  A second R/W command has left its queue all the same.    *)
IssueSecond(c, cmd, g) ==
  LET c1 == [c EXCEPT !.tq = g.tq, !.cq = g.cq]
      column(k) == k.cmd_type \in ReadWriteTypes
  IN IF IsValid(g.cmd) /\ column(g.cmd) # column(cmd) THEN IssueCommand(c1, g.cmd)
     ELSE c1

(* A general command is issued, and with dual command issue possibly a      *)
(* second one.                                                              *)
IssueGeneral(c, cmd) ==
  LET DualIssue(c1) ==
        IF ~Config.enable_hbm_dual_cmd THEN c1
        ELSE IssueSecond(c1, cmd, GetCommandToIssue(c1.tq, c1.cq, c1.chan))
  IN DualIssue(IssueCommand(c, cmd))

-----------------------------------------------------------------------------
(* The PIM command lists, each served in order.  An activation is probed    *)
(* with the column access it prepares; while a refresh waits it is dropped  *)
(* instead of issued.  acc.done ends the loop early (wr_multitenant).       *)
PimReady(ch, cmd, probe) ==
  GetReadyCommand(ch, IF cmd.cmd_type = "PIM_ACTIVATE" THEN [cmd EXCEPT !.cmd_type = probe]
                      ELSE cmd)

ServePimCommand(acc, cmd, ready, single) ==
  LET held == IsRefreshWaiting(acc.c.chan) /\ cmd.cmd_type = "PIM_ACTIVATE"
  IN CASE acc.done \/ acc.c.aborted -> [acc EXCEPT !.kept = Append(@, cmd)]
       [] ~acc.done /\ ~acc.c.aborted /\ ready = AbruptExit -> [acc EXCEPT !.c.aborted = TRUE]
       [] ~acc.done /\ ~acc.c.aborted /\ ready # AbruptExit ->
            IF ready.cmd_type # cmd.cmd_type THEN [acc EXCEPT !.kept = Append(@, cmd)]
            ELSE IF held THEN acc
            ELSE [acc EXCEPT !.c = IssueCommand(@, cmd), !.done = single]

(* rd_w_cmds_: a PRECHARGE is issued unasked. *)
ServeWeights(c) ==
  LET Serve(acc, cmd) ==
        ServePimCommand(acc, cmd, IF cmd.cmd_type = "PRECHARGE" THEN cmd
                                  ELSE PimReady(acc.c.chan, cmd, "GH_READ"), FALSE)
      r == FoldLeft(Serve, [c |-> c, kept |-> <<>>, done |-> FALSE], c.rd_w_cmds)
  IN [r.c EXCEPT !.rd_w_cmds = r.kept]

(* rd_in_cmds_; release_time is the cycle of the push, which has passed. *)
ServeInputs(c) ==
  LET Serve(acc, cmd) ==
        ServePimCommand(acc, cmd, PimReady(acc.c.chan, cmd, "GH_READ"), FALSE)
      r == FoldLeft(Serve, [c |-> c, kept |-> <<>>, done |-> FALSE], c.rd_in_cmds)
  IN [r.c EXCEPT !.rd_in_cmds = r.kept]

(* wr_cmds_ *)
ServeOutputs(c) ==
  LET Serve(acc, cmd) ==
        ServePimCommand(acc, cmd, PimReady(acc.c.chan, cmd, "PIM_WRITE"), c.wr_multitenant)
      r == FoldLeft(Serve, [c |-> c, kept |-> <<>>, done |-> FALSE], c.wr_cmds)
  IN [r.c EXCEPT !.wr_cmds = r.kept]

NoPimCommands(c) == c.rd_w_cmds = <<>> /\ c.rd_in_cmds = <<>> /\ c.wr_cmds = <<>>

-----------------------------------------------------------------------------
(* Power updates, part 1: idle cycles (asked only against sref_threshold,   *)
(* where they saturate).                                                    *)
CountIdle(c) ==
  [c EXCEPT !.chan.rank_idle_cycles =
     [r \in Ranks |->
        CASE c.chan.rank_is_sref[r] -> @[r]
          [] ~c.chan.rank_is_sref[r] /\ IsAllBankIdleInRank(c.chan, r) ->
               IF @[r] = Config.sref_threshold THEN @[r] ELSE @[r] + 1
          [] ~c.chan.rank_is_sref[r] /\ ~IsAllBankIdleInRank(c.chan, r) -> 0]]

(* Part 2: what is wanted of rank r, and the first rank that can have it. *)
PowerCommand(c, r) ==
  CASE c.chan.rank_is_sref[r] /\ ~c.tq.rank_q_empty[r] ->
         GetReadyCommand(c.chan, Command("SREF_EXIT", RankAddress(r), -1))
    [] ~c.chan.rank_is_sref[r] /\ c.tq.rank_q_empty[r]
         /\ c.chan.rank_idle_cycles[r] >= Config.sref_threshold ->
         GetReadyCommand(c.chan, Command("SREF_ENTER", RankAddress(r), -1))
    [] OTHER -> NoCommand

SelfRefresh(c) ==
  LET IssueFirst(cmd) ==
        LET able == {r \in Ranks : IsValid(cmd[r])}
            r == First(able)
        IN CASE able = {} -> c
             [] able # {} /\ cmd[r] = AbruptExit -> [c EXCEPT !.aborted = TRUE]
             [] able # {} /\ cmd[r] # AbruptExit -> IssueCommand(c, cmd[r])
  IN IssueFirst([r \in Ranks |-> PowerCommand(c, r)])

-----------------------------------------------------------------------------
(* Refresh first, then a command from the queues. *)
PickCommand(c) ==
  LET OrElseQueued(f) ==
        IF IsValid(f.cmd) THEN [tq |-> c.tq, cq |-> f.cq, cmd |-> f.cmd]
        ELSE GetCommandToIssue(c.tq, f.cq, c.chan)
  IN OrElseQueued(IF IsRefreshWaiting(c.chan) THEN FinishRefresh(c.cq, c.chan)
                  ELSE [cmd |-> NoCommand, cq |-> c.cq])

(* With PIM commands waiting only a refresh is let through; whatever else   *)
(* was picked is not issued.                                                *)
IssuePicked(c, p) ==
  LET c1 == [c EXCEPT !.tq = p.tq, !.cq = p.cq]
      general == p.cmd.cmd_type \in RefreshTypes \/ NoPimCommands(c)
  IN CASE p.cmd = AbruptExit -> [c |-> [c1 EXCEPT !.aborted = TRUE], cmd_issued |-> TRUE]
       [] p.cmd # AbruptExit /\ general ->
            [c |-> IF IsValid(p.cmd) THEN IssueGeneral(c1, p.cmd) ELSE c1,
             cmd_issued |-> IsValid(p.cmd)]
       [] p.cmd # AbruptExit /\ ~general ->
            [c |-> ServeOutputs(ServeInputs(ServeWeights(c1))), cmd_issued |-> TRUE]

ServeCommands(c) == IssuePicked(c, PickCommand(c))

(* The power updates, unless a command ended the program. *)
PowerUpdate(s) ==
  IF ControllerExited(s.c) THEN s.c
  ELSE IF Config.enable_self_refresh /\ ~s.cmd_issued THEN SelfRefresh(CountIdle(s.c))
  ELSE CountIdle(s.c)

ClockTick(c) ==
  LET Refreshed(r) == [c EXCEPT !.rf = r.rf, !.chan = r.ch]
      Scheduled(c1) == IF ControllerExited(c1) THEN c1
                       ELSE [c1 EXCEPT !.tq = ScheduleTransaction(@)]
  IN Scheduled(PowerUpdate(ServeCommands(Refreshed(RefreshClockTick(c.rf, c.chan)))))

(* clk_++ *)
ControllerAged(c) == [c EXCEPT !.tq = ReturnAged(@), !.chan = ChannelAged(@)]

ControllerTypeOK(c) ==
  /\ CommandQueueTypeOK(c.cq)
  /\ ChannelTypeOK(c.chan)
  /\ RefreshTypeOK(c.rf)
  /\ \A l \in {c.rd_w_cmds, c.rd_in_cmds, c.wr_cmds} : \A i \in DOMAIN l :
       l[i].cmd_type \in PimReadWriteTypes \cup {"PIM_ACTIVATE", "PRECHARGE"}
=============================================================================
