----------------------------- MODULE PimSystem ------------------------------
(***************************************************************************)
(* JedecDRAMSystem (src/src/dram_system.cc) with all its channels: the     *)
(* transactions of a PIM program and of other clients arrive between the   *)
(* clock ticks, and every tick runs the PIM scheduler and then each        *)
(* controller.  The history variables hold which column accesses the       *)
(* controllers issue from their PIM command lists and how many so far; the *)
(* properties compare them with the accesses of the matrix multiplication. *)
(***************************************************************************)
EXTENDS PimScheduler

CONSTANTS Programs,         \* the sequences of PIM transactions in play
          pim_trans_queue_depth,
          Requests,         \* the other transactions
          MaxOutstanding    \* bound: unanswered transactions per address and kind

VARIABLES ctl,              \* the controllers, by channel
          pim,              \* the scheduler
          program,          \* the PIM transactions of this behaviour
          sent,             \* how many of them were added
          clk,              \* clk_, modulo the refresh period
          issued,           \* history: per channel and list, the addresses of the
                            \* column accesses this step issued from it
          count             \* history: and how many were issued before

vars == <<ctl, pim, program, sent, clk, issued, count>>

Lists == {"rd_w_cmds", "rd_in_cmds", "wr_cmds"}

Init ==
  /\ ctl = [ch \in Channels |-> InitController]
  /\ pim = InitScheduler
  /\ program \in Programs
  /\ sent = 0
  /\ clk = 0
  /\ issued = [ch \in Channels |-> [l \in Lists |-> <<>>]]
  /\ count = [ch \in Channels |-> [l \in Lists |-> 0]]

(* The program ends: an abort in a controller, a failed assert, or main.cc  *)
(* leaving its loop.                                                        *)
Exited == pim.failed \/ \E ch \in Channels : ControllerExited(ctl[ch])
Ended == Exited \/ pim.turn_off

(* AddTransaction(hex_addr): the next PIM transaction. *)
AddPim ==
  /\ ~Ended
  /\ sent < Len(program)
  /\ Len(pim.pim_trans_queue) < pim_trans_queue_depth
  /\ pim' = [pim EXCEPT !.pim_trans_queue = Append(@, program[sent + 1])]
  /\ sent' = sent + 1
  /\ UNCHANGED <<ctl, program, clk, issued, count>>

(* AddTransaction(hex_addr, is_write), after its channel said yes. *)
Add(t) ==
  LET ch == Config.GetChannel[t.addr]
  IN /\ ~Ended
     /\ WillAcceptTransaction(ctl[ch].tq, t.is_write)
     /\ Outstanding(ctl[ch].tq, <<t.addr, t.is_write>>) < MaxOutstanding
     /\ ctl' = [ctl EXCEPT ![ch].tq = AddTransaction(@, t)]
     /\ UNCHANGED <<pim, program, sent, clk, issued, count>>

-----------------------------------------------------------------------------
(* The column accesses that left a list when its controller ran. *)
ColumnsIssued(before, after) ==
  LET gone == SelectSeq(before, LAMBDA cmd : /\ cmd.cmd_type \in PimReadWriteTypes
                                              /\ cmd \notin Range(after))
  IN [n \in DOMAIN gone |-> gone[n].addr]

(* The clock, which stops only when the program ends. *)
Clock ==
  /\ ~Ended
  /\ clk' = (clk + 1) % refresh_interval

(* JedecDRAMSystem::ClockTick: return what is due, run the PIM scheduler,   *)
(* run the controllers.                                                     *)
Tick ==
  /\ Clock
  /\ LET Run(s) ==
           LET Finish(c) ==
                 /\ ctl' = [ch \in Channels |-> ControllerAged(c[ch])]
                 /\ issued' = [ch \in Channels |-> [l \in Lists |->
                      ColumnsIssued(s.ctl[ch][l], c[ch][l])]]
           IN /\ pim' = s.p
              /\ count' = [ch \in Channels |-> [l \in Lists |->
                   count[ch][l] + Len(issued[ch][l])]]
              /\ IF s.p.failed THEN UNCHANGED <<ctl, issued>>
                 ELSE Finish([ch \in Channels |-> ClockTick(s.ctl[ch])])
     IN Run(Schedule(pim, [ch \in Channels |-> [ctl[ch] EXCEPT !.tq = ReturnDone(@)]]))
  /\ UNCHANGED <<program, sent>>

Next == AddPim \/ (\E t \in Requests : Add(t)) \/ Tick

Spec == Init /\ [][Next]_vars

(* main.cc calls ClockTick in every iteration of its loop, and its CPU goes *)
(* on offering the next line of its trace.                                  *)
FairSpec == Spec /\ WF_clk(Clock) /\ WF_vars(AddPim)

-----------------------------------------------------------------------------
(* The reference: which columns a program with one cut accesses, in which   *)
(* order, in closed form from its dimensions.  Vectors are numbered from 0  *)
(* in the order of the computation: an M tile at a time, for it every N     *)
(* tile, for that every K tile.                                             *)
flow == program[1]
dim_M == program[2].dim_value
dim_K == program[3].dim_value
dim_N == program[4].dim_value

CeilDiv(a, b) == (a + b - 1) \div b
M_tiles == CeilDiv(dim_M, flow.M_tile_size)
N_tiles == IF flow.df = 0 THEN CeilDiv(dim_N, Npu.row) ELSE 1
AllKTiles == CeilDiv(dim_K, MinOf(Config.channels * Npu.io, dim_K))
RowsOf(m) == MinOf(flow.M_tile_size, dim_M - m * flow.M_tile_size)

(* With df = 1 an output column holds a row of the array. *)
OutputRows == IF flow.df = 0 THEN dim_M ELSE MaxOf(1, (dim_M * flow.mcf) \div Npu.row)
OutputTile == IF flow.df = 0 THEN flow.M_tile_size
              ELSE (flow.M_tile_size \div Npu.row) * flow.mcf
OutputRowsOf(m) == MinOf(OutputTile, OutputRows - m * OutputTile)

(* Banks per vector, and columns of a weight tile in each of them. *)
Width(l) ==
  CASE l = "rd_w_cmds" -> banks \div weight_banks_reduce(flow)
    [] l = "rd_in_cmds" -> mc(flow)
    [] l = "wr_cmds" -> IF flow.df = 0 THEN mc(flow) ELSE 1
WeightColumns == MinOf(dim_N, CeilDiv(Npu.row, Width("rd_w_cmds")))

Vectors(l) ==
  CASE l = "rd_w_cmds" -> M_tiles * N_tiles * AllKTiles * WeightColumns
    [] l = "rd_in_cmds" -> dim_M * N_tiles * AllKTiles
    [] l = "wr_cmds" -> OutputRows * N_tiles

(* The weights are scanned once per M tile, the inputs of an M tile once    *)
(* per N tile, and the outputs are written one after the other.             *)
VectorAddress(l, v, k) ==
  LET block == flow.M_tile_size * AllKTiles
      m == v \div (block * N_tiles)
      beside == IF flow.df = 0 THEN 1 ELSE 0
  IN CASE l = "rd_w_cmds" ->
            OperandAddress(k * weight_banks_reduce(flow), program[2].base_row,
                           v % (N_tiles * AllKTiles * WeightColumns))
       [] l = "rd_in_cmds" ->
            OperandAddress(k * (banks \div mc(flow)) + beside, program[4].base_row,
                           m * block + ((v - m * block * N_tiles) % (RowsOf(m) * AllKTiles)))
       [] l = "wr_cmds" ->
            OperandAddress(k * (banks \div mc(flow)) + 3 * beside, program[3].base_row, v)

(* How many input vectors make up the output tile of output vector v and    *)
(* all tiles before it.                                                     *)
InputsFor(v) ==
  LET m == v \div (OutputTile * N_tiles)
      n == (v - m * OutputTile * N_tiles) \div OutputRowsOf(m)
  IN AllKTiles * (m * flow.M_tile_size * N_tiles + (n + 1) * RowsOf(m))

-----------------------------------------------------------------------------
(* No assert fails, nothing aborts, and every command goes to a bank that   *)
(* exists.                                                                  *)
NeverAborts == ~Exited

(* Every controller accesses the operands' columns in the order of the      *)
(* matrix multiplication, none twice and none left out, however refreshes   *)
(* close the rows in between and however often a vector had to be flushed   *)
(* and tried again.                                                         *)
AccessesInOrder ==
  \A ch \in Channels, l \in Lists : \A x \in DOMAIN issued[ch][l] :
    LET n == count[ch][l] + x - 1
    IN issued[ch][l][x] = VectorAddress(l, n \div Width(l), n % Width(l))

(* Outputs are written after the inputs they come from: a column of an      *)
(* output tile only once all channels have streamed all K tiles of it.      *)
OutputAfterInput ==
  \A c1, c2 \in Channels :
    issued[c1]["wr_cmds"] # <<>> =>
      count[c2]["rd_in_cmds"] >=
        Width("rd_in_cmds") * InputsFor(count[c1]["wr_cmds"] \div Width("wr_cmds"))

(* When the scheduler turns PIM mode off, and main.cc ends the simulation,  *)
(* all of it has been done: no command is left in a list.                   *)
CompleteAtTurnOff ==
  pim.turn_off =>
    \A ch \in Channels, l \in Lists :
      count[ch][l] + Len(issued[ch][l]) = Width(l) * Vectors(l)

(* A program that was sent completely is carried out: the computation ends  *)
(* and turns PIM mode off.                                                  *)
ComputationCompletes == <>pim.turn_off

(* Every read of the other client that was accepted and not yet answered is *)
(* on its way: its command waits in some queue.  One that is in none will   *)
(* never be answered.                                                       *)
NoRequestLost ==
  \A ch \in Channels, a \in Addr :
    ctl[ch].tq.pending_rd_q[a] > 0 =>
      \E q \in {ctl[ch].tq.read_queue, ctl[ch].tq.unified_queue}
                \cup Range(ctl[ch].tq.queues) :
        Transaction(a, FALSE) \in Range(q)

(* dram_system.cc: `If a command cannot be executed in some channels due to *)
(* timing constraints, flush the commands going to other channels and try   *)
(* again later': a vector is streamed in all channels or in none.           *)
StreamInStep ==
  \A c1, c2 \in Channels :
    /\ NoPimCommands(ctl[c1]) /\ NoPimCommands(ctl[c2])
    => count[c1]["rd_in_cmds"] + Len(issued[c1]["rd_in_cmds"])
         = count[c2]["rd_in_cmds"] + Len(issued[c2]["rd_in_cmds"])
=============================================================================
