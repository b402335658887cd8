-------------------------- MODULE ControllerSystem --------------------------
(***************************************************************************)
(* One channel of JedecDRAMSystem (src/src/dram_system.cc) without PIM     *)
(* work: a client that adds transactions between the clock ticks, and the  *)
(* controller.                                                             *)
(***************************************************************************)
EXTENDS Controller

CONSTANTS Requests,         \* the transactions the client sends
          ClientStops,      \* whether the client may stop sending
          MaxOutstanding    \* bound: unanswered transactions per address and kind

VARIABLES ctl,              \* the controller
          clk,              \* clk_, modulo the refresh period
          sending,          \* the client has not stopped
          callbacks         \* <<addr, is_write>> -> callbacks made by this step

vars == <<ctl, clk, sending, callbacks>>

Flow == INSTANCE TransactionFlow WITH tq <- ctl.tq

Init ==
  /\ ctl = InitController
  /\ clk = 0
  /\ sending = TRUE
  /\ callbacks = Flow!NoCallbacks

(* AddTransaction, after WillAcceptTransaction said yes. *)
Add(t) ==
  /\ sending /\ ~ControllerExited(ctl)
  /\ WillAcceptTransaction(ctl.tq, t.is_write)
  /\ Flow!Outstanding(ctl.tq, <<t.addr, t.is_write>>) < MaxOutstanding
  /\ ctl' = [ctl EXCEPT !.tq = AddTransaction(@, t)]
  /\ callbacks' = Flow!NoCallbacks
  /\ UNCHANGED <<clk, sending>>

(* The end of the trace. *)
Stop ==
  /\ ClientStops /\ sending
  /\ sending' = FALSE
  /\ UNCHANGED <<ctl, clk, callbacks>>

(* The clock, which nothing but a program exit stops. *)
Clock ==
  /\ ~ControllerExited(ctl)
  /\ clk' = (clk + 1) % refresh_interval

(* JedecDRAMSystem::ClockTick: return what is due, run the controller. *)
Tick ==
  /\ Clock
  /\ callbacks' = [k \in Flow!Kinds |-> ctl.tq.return_queue[<<k[1], k[2], 0>>]]
  /\ ctl' = ControllerAged(ClockTick([ctl EXCEPT !.tq = ReturnDone(@)]))
  /\ UNCHANGED sending

Next == (\E t \in Requests : Add(t)) \/ Stop \/ Tick

Spec == Init /\ [][Next]_vars

(* main.cc calls ClockTick in every iteration of its loop.  Tick is the only *)
(* action that advances clk and is enabled whenever Clock is.               *)
FairSpec == Spec /\ WF_clk(Clock)

-----------------------------------------------------------------------------
TypeOK ==
  /\ ControllerTypeOK(ctl)
  /\ clk \in 0 .. refresh_interval - 1 /\ sending \in BOOLEAN

(* No AbruptExit and no exit(1): whatever is queued, every command that the *)
(* refresh, dual-issue and self-refresh paths hand to the channel is legal  *)
(* in the state the earlier ones of the same cycle left behind.             *)
NeverAborts == ~ControllerExited(ctl)

(* A refresh is done before the next one of the same rank or bank is due:   *)
(* the queues it blocks and row hits cannot hold it up for a whole refresh  *)
(* period (FinishRefresh, `ASAP approach').                                 *)
RefreshInTime ==
  \A i, j \in DOMAIN ctl.chan.refresh_q :
    ctl.chan.refresh_q[i] = ctl.chan.refresh_q[j] => i = j

(* Every rank is refreshed again and again, whatever the other ranks and    *)
(* the traffic do.  Only a REFRESH bars all activations of a rank for tRFC  *)
(* (tRFC is longer than the other delays of ACTIVATE).                      *)
RanksRefreshed ==
  \A r \in Ranks :
    []<>(\A x \in BanksOf(r) :
           ctl.chan.bank_states[x].cmd_timing["ACTIVATE"] = Config.tRFC - 1)

(* While a refresh is under way, the queues it involves stand still and     *)
(* none of their banks is opened again: GetCommandToIssue skips them, on    *)
(* the dual-issue path too.                                                 *)
RefreshNotOvertaken ==
  [][ctl.cq.is_in_ref /\ ctl'.cq.is_in_ref =>
       /\ \A k \in ctl.cq.ref_q_indices :
            Len(ctl'.tq.queues[k]) >= Len(ctl.tq.queues[k])
       /\ \A x \in Banks : /\ QueueIndexOfBank(x) \in ctl.cq.ref_q_indices
                           /\ ctl.chan.bank_states[x].state = "CLOSED"
                           => ctl'.chan.bank_states[x].state = "CLOSED"]_vars

(* The concrete scheduler only does what TransactionFlow allows, so all     *)
(* that is proved there of the queues holds here.                           *)
RefinesFlow == Flow!Spec

(* Once the client stops, every accepted read is answered: none is left in  *)
(* a queue that is never served again, whatever was drained, merged or      *)
(* forwarded before.                                                        *)
ReadsAnswered ==
  ~sending ~> \A a \in Addr : Flow!Outstanding(ctl.tq, <<a, FALSE>>) = 0

(* Once the client stops, every rank goes into self-refresh.                *)
IdleRanksSleep == \A r \in Ranks : ~sending ~> ctl.chan.rank_is_sref[r]
=============================================================================
