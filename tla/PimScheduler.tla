---------------------------- MODULE PimScheduler ----------------------------
(***************************************************************************)
(* The PIM command scheduler of JedecDRAMSystem::ClockTick                 *)
(* (src/src/dram_system.cc): the registers that PIM transactions load, and *)
(* the state machine that turns them, cycle by cycle, into the PIM         *)
(* commands of a matrix multiplication and hands these to the channel      *)
(* controllers.  The scheduler is a record p; p.cut[i] holds element i of  *)
(* each of the code's per-cut vectors.  A PIM transaction is a record, its *)
(* packing into the bits of an address is left out.                        *)
(***************************************************************************)
EXTENDS Controller

CONSTANTS Npu    \* the dimensions the code writes as literals:
                 \*   row     PEs in a row                             (128)
                 \*   io      PEs that one bank's io feeds              (16)
                 \*   reduce  weight_banks_reduce by dataflow, <<df=0, df=1>>
                 \*   drain   column accesses until an output is ready (3 + 16)

Channels == 0 .. Config.channels - 1
Columns == Config.columns \div Config.BL        \* column accesses per row
MinOf(a, b) == IF a <= b THEN a ELSE b

ASSUME PimAssumption ==
  /\ Config.channels \in Nat \ {0} /\ Columns \in Nat \ {0}
  /\ Npu.row \in Nat \ {0} /\ Npu.io \in Nat \ {0}

-----------------------------------------------------------------------------
(* PIM transactions. *)
Dataflow(vcuts, hcuts, mcf, ucf, df, M_tile_size) ==
  [type |-> "dataflow", vcuts |-> vcuts, hcuts |-> hcuts, mcf |-> mcf, ucf |-> ucf,
   df |-> df, M_tile_size |-> M_tile_size]
Workload(cut_no, loadType, dim_value, base_row) ==
  [type |-> "workload", cut_no |-> cut_no, loadType |-> loadType,
   dim_value |-> dim_value, base_row |-> base_row]
Launch(cuts) == [type |-> "launch", cuts |-> cuts]

(* What a dataflow configuration makes of every cut. *)
InitCut ==
  [M |-> 0, N |-> 0, K |-> 0, base_rows_w |-> 0, base_rows_in |-> 0, base_rows_out |-> 0,
   M_it |-> 0, N_it |-> 0, K_tile_it |-> 0, M_out_it |-> 0, N_out_tile_it |-> 0,
   in_pim |-> FALSE, iw_status |-> 0, in_cnt |-> 0, out_cnt |-> -1, vpu_cnt |-> 0,
   in_act_placed |-> FALSE, w_act_placed |-> FALSE, out_act_placed |-> FALSE,
   output_valid |-> 0]

InitScheduler ==
  [pim_trans_queue |-> <<>>, vcuts |-> -1, hcuts |-> -1, mcf |-> 1, ucf |-> 1, df |-> -1,
   M_tile_size |-> 0, cut |-> <<>>, turn_off |-> FALSE,
   failed |-> FALSE]                       \* an assert failed or AbruptExit was called

Cuts(p) == IF p.vcuts = -1 \/ p.hcuts = -1 THEN {} ELSE 0 .. p.vcuts * p.hcuts - 1

(* Mutant: the activations are not repeated. *)
ForgetActivationsKept(p, ctl) == p

(* A coming refresh will close the rows: the activations must be repeated. *)
ForgetActivations(p, ctl) ==
  IF \E ch \in Channels : pim_refresh_coming(ctl[ch].rf)
  THEN [p EXCEPT !.cut = [i \in Cuts(p) |->
          [@[i] EXCEPT !.in_act_placed = FALSE, !.w_act_placed = FALSE,
                       !.out_act_placed = FALSE]]]
  ELSE p

(* The three kinds of transaction.  A launch stays at the head of the queue *)
(* until every cut is configured.  Without a dataflow configuration, or for *)
(* a cut it did not create, the code runs off its vectors.                  *)
Configured(p, t) ==
  \A i \in Cuts(p) :
    i \in t.cuts /\ p.cut[i].M # 0 /\ p.cut[i].N # 0 /\ p.cut[i].K # 0

LaunchCuts(p, t) ==
  IF Cuts(p) = {} /\ 0 \in t.cuts THEN [p EXCEPT !.failed = TRUE]
  ELSE IF Cuts(p) = {} \/ ~Configured(p, t) THEN p
  ELSE [p EXCEPT !.cut = [i \in Cuts(p) |-> [@[i] EXCEPT !.in_pim = TRUE]],
                 !.pim_trans_queue = Tail(@)]

LoadDataflow(p, t) ==
  [p EXCEPT !.vcuts = t.vcuts, !.hcuts = t.hcuts, !.mcf = t.mcf, !.ucf = t.ucf,
            !.df = t.df, !.M_tile_size = t.M_tile_size,
            !.cut = [i \in 0 .. t.vcuts * t.hcuts - 1 |-> InitCut],
            !.pim_trans_queue = Tail(@)]

LoadWorkload(p, t) ==
  LET popped == [p EXCEPT !.pim_trans_queue = Tail(@)]
      Set(c) == CASE t.loadType = 0 -> [c EXCEPT !.M = t.dim_value, !.base_rows_w = t.base_row]
                  [] t.loadType = 1 -> [c EXCEPT !.K = t.dim_value, !.base_rows_out = t.base_row]
                  [] t.loadType = 2 -> [c EXCEPT !.N = t.dim_value, !.base_rows_in = t.base_row]
  IN IF t.loadType \notin 0 .. 2 \/ t.cut_no \notin Cuts(p) THEN [p EXCEPT !.failed = TRUE]
     ELSE [popped EXCEPT !.cut[t.cut_no] = Set(@)]

(* At most one transaction is taken per cycle. *)
PopTransaction(p) ==
  IF p.pim_trans_queue = <<>> THEN p
  ELSE CASE Head(p.pim_trans_queue).type = "launch" -> LaunchCuts(p, Head(p.pim_trans_queue))
         [] Head(p.pim_trans_queue).type = "dataflow" -> LoadDataflow(p, Head(p.pim_trans_queue))
         [] Head(p.pim_trans_queue).type = "workload" -> LoadWorkload(p, Head(p.pim_trans_queue))

(* The controllers' flags, which are set here and never reset. *)
MarkControllers(p, ctl) ==
  LET type == IF p.pim_trans_queue = <<>> THEN "none" ELSE Head(p.pim_trans_queue).type
  IN [ch \in Channels |->
        [ctl[ch] EXCEPT
           !.in_pim = @ \/ type = "launch",
           !.wr_multitenant = @ \/ /\ type = "dataflow"
                                   /\ Head(p.pim_trans_queue).vcuts
                                        * Head(p.pim_trans_queue).hcuts > 1]]

-----------------------------------------------------------------------------
(* The part of the array that belongs to cut i, and the tiles of its work. *)
mc(p) == p.mcf * p.ucf
vcut_no(p, i) == i % p.vcuts
hcut_no(p, i) == i \div p.vcuts
cut_height(p) == Config.channels \div p.hcuts
cut_width(p) == banks \div p.vcuts
weight_banks_reduce(p) == IF p.df = 0 THEN Npu.reduce[1] ELSE Npu.reduce[2]

N_tile_size(p) == Npu.row \div p.vcuts
N_tile_it(p, c) == c.N_it \div N_tile_size(p)
M_tile_it(p, c) == c.M_it \div p.M_tile_size
K_tile_size(p, c) == MinOf(cut_height(p) * Npu.io, c.K)
K_tiles(p, c) == (c.K - 1) \div K_tile_size(p, c) + 1

(* Mutant: one tile too early. *)
LastKTileEarly(p, c) == (c.K_tile_it + 2) * K_tile_size(p, c) >= c.K

LastKTile(p, c) == (c.K_tile_it + 1) * K_tile_size(p, c) >= c.K
M_current_tile_size(p, c) ==
  IF c.M < p.M_tile_size * (M_tile_it(p, c) + 1) THEN c.M % p.M_tile_size ELSE p.M_tile_size

(* Column `offset' after row base of bank bk (its number within a channel). *)
OperandAddress(bk, base, offset) ==
  Address(<<0, bk \div Config.banks_per_group, bk % Config.banks_per_group>>,
          base + offset \div Columns, offset % Columns)

(* Every command of cmds for every channel of chs, in the code's loop       *)
(* order, with what its controller answers now.                             *)
Asked(ctl, chs, cmds) ==
  [n \in 1 .. Len(chs) * Len(cmds) |->
     LET ch == chs[(n - 1) \div Len(cmds) + 1]
     IN [ch |-> ch, cmd |-> GetReadyCommand(ctl[ch].chan, cmds[((n - 1) % Len(cmds)) + 1])]]

CutChannels(p, i) == [j \in 1 .. cut_height(p) |-> hcut_no(p, i) * cut_height(p) + j - 1]

(* If a command cannot be executed in some channel, or channels differ in   *)
(* what they need, nothing is sent.                                         *)
AllReady(answers) ==
  IF \A n \in DOMAIN answers : /\ IsValid(answers[n].cmd)
                               /\ answers[n].cmd.cmd_type = answers[1].cmd.cmd_type
  THEN answers ELSE <<>>

-----------------------------------------------------------------------------
(* iw_status 0: loading a tile into the PE registers. *)
N_tile_size_per_bank(p, c) ==
  MinOf(c.N, (N_tile_size(p) - 1) \div (cut_width(p) \div weight_banks_reduce(p)) + 1)

(* n columns complete the tile. *)
TileLoaded(p, c, n) ==
  /\ n % N_tile_size_per_bank(p, c) = 0
  /\ N_tile_size(p) = N_tile_size_per_bank(p, c) \/ n % N_tile_size(p) # 0

WeightOffset(p, c) ==
  N_tile_it(p, c) * (N_tile_size_per_bank(p, c) * K_tiles(p, c))
    + c.K_tile_it * N_tile_size_per_bank(p, c) + (c.N_it % N_tile_size(p))

WeightCommand(p, i, c, k) ==
  LET addr == OperandAddress(vcut_no(p, i) * cut_width(p) + k * weight_banks_reduce(p),
                             c.base_rows_w, WeightOffset(p, c))
      last == \/ (addr.column + 1)
                   % MinOf(c.N, (Npu.row \div banks) * weight_banks_reduce(p)) = 0
              \/ (addr.column + 1) % Columns = 0
              \/ TileLoaded(p, c, c.N_it + 1)
  IN Command(IF last THEN "GH_READ_PRECHARGE" ELSE "GH_READ", addr, -1)

AdvanceWeights(p, c) ==
  IF TileLoaded(p, c, c.N_it + 1)
  THEN [c EXCEPT !.N_it = N_tile_size(p) * N_tile_it(p, c), !.iw_status = 1]
  ELSE [c EXCEPT !.N_it = @ + 1]

(* The cut and the commands sent after `cmds' were found ready. *)
SendWeights(p, c, cmds, wait_refresh) ==
  LET type == cmds[1].cmd.cmd_type
      closed == [c EXCEPT !.w_act_placed = @ /\ type # "GH_READ_PRECHARGE"]
  IN CASE cmds = <<>> -> [c |-> c, cmds |-> <<>>]
       [] cmds # <<>> /\ type = "PIM_ACTIVATE" ->
            IF c.w_act_placed \/ wait_refresh THEN [c |-> c, cmds |-> <<>>]
            ELSE [c |-> [c EXCEPT !.w_act_placed = TRUE], cmds |-> cmds]
       [] cmds # <<>> /\ type = "PRECHARGE" /\ p.df = 1 -> [c |-> closed, cmds |-> cmds]
       [] cmds # <<>> /\ type # "PIM_ACTIVATE" /\ ~(type = "PRECHARGE" /\ p.df = 1) ->
            [c |-> AdvanceWeights(p, closed), cmds |-> cmds]

PlaceWeights(p, ctl, i, c, wait_refresh) ==
  LET cmds == [k \in 1 .. cut_width(p) \div weight_banks_reduce(p) |->
                 WeightCommand(p, i, c, k - 1)]
  IN SendWeights(p, c, AllReady(Asked(ctl, CutChannels(p, i), cmds)), wait_refresh)
-----------------------------------------------------------------------------
(* iw_status 2: streaming vectors into the array. *)
StreamRead(p) == IF p.df = 0 THEN "GH_READ" ELSE "LH_READ"
StreamReadPrecharge(p) == IF p.df = 0 THEN "GH_READ_PRECHARGE" ELSE "LH_READ_PRECHARGE"

StreamOffset(p, c) ==
  M_tile_it(p, c) * (p.M_tile_size * K_tiles(p, c))
    + c.K_tile_it * M_current_tile_size(p, c) + (c.M_it % p.M_tile_size)

StreamCommand(p, i, c, k) ==
  LET bk == vcut_no(p, i) * cut_width(p) + k * (cut_width(p) \div mc(p))
      addr == OperandAddress(IF p.df = 0 THEN bk + 1 ELSE bk, c.base_rows_in,
                             StreamOffset(p, c))
      close == c.M_it + 1 = c.M /\ (p.df = 0 => LastKTile(p, c))
  IN Command(IF close \/ addr.column = Columns - 1 THEN StreamReadPrecharge(p)
             ELSE StreamRead(p), addr, -1)

(* A bank that is not ready discards what was collected so far and ends its *)
(* channel's turn, but the next channels are still asked (the `break' in    *)
(* the inner loop).  Reads are dropped once the answers were of two kinds.  *)
NotFlushed(p, answers, width) ==
  LET Collect(acc, n) ==
        LET j == (n - 1) \div width
            a == answers[n]
        IN CASE acc.skip = j -> acc
             [] acc.skip # j /\ ~IsValid(a.cmd) -> [acc EXCEPT !.cmds = <<>>, !.skip = j]
             [] acc.skip # j /\ IsValid(a.cmd) ->
                  [acc EXCEPT !.cmds = Append(@, a),
                              !.mixed = @ \/ /\ acc.cmds # <<>>
                                             /\ acc.cmds[1].cmd.cmd_type # a.cmd.cmd_type]
      all == FoldLeft(Collect, [cmds |-> <<>>, skip |-> -1, mixed |-> FALSE],
                      [n \in DOMAIN answers |-> n])
      NotRead(a) == a.cmd.cmd_type \notin {StreamRead(p), StreamReadPrecharge(p)}
  IN CASE Cardinality(Cuts(p)) > 1 /\ Len(all.cmds) # cut_height(p) -> <<>>
       [] all.mixed -> SelectSeq(all.cmds, NotRead)
       [] OTHER -> all.cmds

(* Mutant: every K tile starts an output. *)
OutputStartsEarly(p, c) == c.M_it % p.M_tile_size = 0

(* The last K tile's first vector starts the output of the tile. *)
OutputStarts(p, c) == LastKTile(p, c) /\ c.M_it % p.M_tile_size = 0

(* The next vector: the K tiles of an output tile, then its N tiles, then   *)
(* the M tiles.  in_cnt and out_cnt count down the array's delays.          *)
AdvanceStream(p, c) ==
  LET tile_done == (c.M_it + 1) % p.M_tile_size = 0 \/ c.M_it + 1 = c.M
      next_N == N_tile_size(p) * (N_tile_it(p, c) + 1)
      next_M == p.M_tile_size * (M_tile_it(p, c) + 1)
      N_done == LastKTile(p, c) /\ next_N >= c.N
      out == IF OutputStarts(p, c)
             THEN MaxOf(1, Config.tCCD_L * Npu.drain - Config.tRCDWR) ELSE c.out_cnt
      delay == Config.tCCD_L * MaxOf(Npu.row \div (p.vcuts * mc(p)), Npu.io) - Config.tRCDRD
  IN IF ~tile_done THEN [c EXCEPT !.out_cnt = out, !.M_it = @ + 1]
     ELSE [c EXCEPT !.out_cnt = out, !.iw_status = 3,
             !.in_cnt = IF N_done /\ next_M >= c.M THEN -1 ELSE MaxOf(1, delay),
             !.K_tile_it = IF LastKTile(p, c) THEN 0 ELSE @ + 1,
             !.N_it = CASE N_done -> 0
                        [] LastKTile(p, c) /\ ~N_done -> next_N
                        [] OTHER -> @,
             !.M_it = IF N_done THEN next_M ELSE p.M_tile_size * M_tile_it(p, c)]

SendStream(p, c, cmds, wait_refresh) ==
  LET type == cmds[1].cmd.cmd_type
      closed == [c EXCEPT !.in_act_placed = @ /\ type # StreamReadPrecharge(p)]
  IN CASE cmds = <<>> -> [c |-> c, cmds |-> <<>>, failed |-> FALSE]
       [] cmds # <<>> /\ type = "PIM_ACTIVATE" ->
            IF c.in_act_placed \/ wait_refresh THEN [c |-> c, cmds |-> <<>>, failed |-> FALSE]
            ELSE [c |-> [c EXCEPT !.in_act_placed = TRUE], cmds |-> cmds, failed |-> FALSE]
       [] cmds # <<>> /\ type # "PIM_ACTIVATE" ->
            IF c.vpu_cnt # 0 THEN [c |-> closed, cmds |-> <<>>, failed |-> FALSE]
            ELSE [c |-> AdvanceStream(p, closed), cmds |-> cmds,
                  failed |-> ~(p.M_tile_size > Npu.row \div p.vcuts)]

PlaceStream(p, ctl, i, c, wait_refresh) ==
  LET cmds == [k \in 1 .. mc(p) |-> StreamCommand(p, i, c, k - 1)]
  IN SendStream(p, [c EXCEPT !.vpu_cnt = MaxOf(0, @ - 1)],
                NotFlushed(p, Asked(ctl, CutChannels(p, i), cmds), mc(p)),
                wait_refresh)

(* iw_status 3: waiting until the array can take a new tile; -1 is the end. *)
AwaitArray(c) ==
  IF c.in_cnt = -1 THEN c
  ELSE [c EXCEPT !.in_cnt = MaxOf(0, @ - 1),
                 !.iw_status = IF c.in_cnt <= 1 /\ c.output_valid = 0 THEN 0 ELSE @]

(* An output tile becomes valid when out_cnt runs out. *)
CountOutput(c) ==
  [c EXCEPT !.output_valid = IF c.out_cnt = 0 THEN @ + 1 ELSE @,
            !.out_cnt = IF @ # -1 THEN @ - 1 ELSE @]
-----------------------------------------------------------------------------
(* Writing an output tile.  The sizes differ for df = 1, where a column     *)
(* holds a whole row of outputs.                                            *)
M_tile_size_out(p) == IF p.df = 1 THEN (p.M_tile_size \div Npu.row) * p.mcf ELSE p.M_tile_size

(* Mutant: one row of outputs too few. *)
M_outShort(p, c) == IF p.df = 1 THEN MaxOf(1, (c.M * p.mcf - 1) \div Npu.row) ELSE c.M

M_out(p, c) == IF p.df = 1 THEN MaxOf(1, (c.M * p.mcf) \div Npu.row) ELSE c.M
N_out(p, c) == IF p.df = 1 THEN Npu.row ELSE c.N
N_tile_size_out(p) == IF p.df = 1 THEN Npu.row ELSE N_tile_size(p)
M_out_tile_it(p, c) == c.M_out_it \div M_tile_size_out(p)

OutputOffset(p, c) ==
  LET tiles == (c.N - 1) \div N_tile_size_out(p) + 1
      tiles_ch == tiles \div p.vcuts
                    + IF tiles % p.vcuts > c.N_out_tile_it % p.vcuts THEN 1 ELSE 0
      m == M_out_tile_it(p, c)
      current == IF M_out(p, c) < M_tile_size_out(p) * (m + 1)
                 THEN M_out(p, c) % M_tile_size_out(p) ELSE M_tile_size_out(p)
  IN m * (M_tile_size_out(p) * tiles_ch) + (c.N_out_tile_it \div p.vcuts) * current
       + (c.M_out_it % M_tile_size_out(p))

(* With df = 0 the outputs go two banks further than the inputs come from. *)
OutputCommand(p, i, c, k) ==
  LET bk == vcut_no(p, i) * cut_width(p) + k * (cut_width(p) \div mc(p))
      beside == IF p.df = 0 THEN bk + 1 ELSE bk
      at == OperandAddress(beside, c.base_rows_out, OutputOffset(p, c))
      addr == [at EXCEPT !.bank[3] = IF p.df = 0 THEN @ + 2 ELSE @]
  IN Command(IF c.M_out_it + 1 = M_out(p, c) \/ addr.column = Columns - 1
             THEN "PIM_WRITE_PRECHARGE" ELSE "PIM_WRITE", addr, -1)

OutputChannel(p, i, c, j) ==
  LET height == IF cut_height(p) < p.vcuts THEN 1 ELSE cut_height(p) \div p.vcuts
      vcut_out_no == CASE c.M = 1 -> vcut_no(p, i)
                       [] c.M # 1 /\ p.vcuts = 16 -> vcut_no(p, i) \div 2
                       [] OTHER -> (vcut_no(p, i) + c.N_out_tile_it) % p.vcuts
  IN hcut_no(p, i) * cut_height(p) + vcut_out_no * height + j

(* The cuts that share a channel's output: i, and its neighbour if the      *)
(* channels do not go round.                                                *)
SharedOutput(p, i) == IF cut_height(p) < p.vcuts THEN {i, i + 1} ELSE {i}

OutputTileDone(p, c) ==
  (c.M_out_it + 1) % M_tile_size_out(p) = 0 \/ c.M_out_it + 1 = M_out(p, c)

(* Mutant: the N tiles that are left are forgotten. *)
OutputExhaustedEarly(p, c) ==
  OutputTileDone(p, c) /\ M_tile_size_out(p) * (M_out_tile_it(p, c) + 1) >= M_out(p, c)

OutputNDone(p, c) ==
  OutputTileDone(p, c) /\ (c.N_out_tile_it + 1) * N_tile_size_out(p) >= N_out(p, c)

OutputExhausted(p, c) ==
  OutputNDone(p, c) /\ M_tile_size_out(p) * (M_out_tile_it(p, c) + 1) >= M_out(p, c)

(* One output column written; the last one of all turns PIM mode off. *)
AdvanceOutput(p, i) ==
  LET c == p.cut[i]
      m == M_out_tile_it(p, c)
      tile_done == OutputTileDone(p, c)
      N_done == OutputNDone(p, c)
      exhausted == OutputExhausted(p, c)
      iterated == [p EXCEPT
        !.cut[i].M_out_it = CASE N_done -> M_tile_size_out(p) * (m + 1)
                              [] tile_done /\ ~N_done -> M_tile_size_out(p) * m
                              [] OTHER -> @ + 1,
        !.cut[i].N_out_tile_it = IF N_done THEN 0 ELSE IF tile_done THEN @ + 1 ELSE @]
      cuts == [j \in Cuts(p) |->
                 IF j \notin SharedOutput(p, i) \/ ~tile_done THEN iterated.cut[j]
                 ELSE [iterated.cut[j] EXCEPT !.output_valid = @ - 1,
                                              !.in_pim = @ /\ ~exhausted]]
  IN [iterated EXCEPT !.cut = cuts,
        !.turn_off = IF exhausted THEN \A j \in Cuts(p) : ~cuts[j].in_pim ELSE @,
        !.failed = @ \/ (exhausted /\ c.in_cnt # -1)]

SendOutput(p, i, cmds, wait_refresh) ==
  LET type == cmds[1].cmd.cmd_type
      closed == [p EXCEPT !.cut[i].out_act_placed = @ /\ type # "PIM_WRITE_PRECHARGE"]
  IN CASE cmds = <<>> -> [p |-> p, cmds |-> <<>>]
       [] cmds # <<>> /\ type = "PIM_ACTIVATE" ->
            IF p.cut[i].out_act_placed \/ wait_refresh THEN [p |-> p, cmds |-> <<>>]
            ELSE [p |-> [p EXCEPT !.cut[i].out_act_placed = TRUE], cmds |-> cmds]
       [] cmds # <<>> /\ type # "PIM_ACTIVATE" -> [p |-> AdvanceOutput(closed, i), cmds |-> cmds]

PlaceOutput(p, ctl, i, output_ready, wait_refresh) ==
  LET c == p.cut[i]
      out_enable == cut_height(p) \div p.vcuts > 0 \/ vcut_no(p, i) % 2 = 0
      chs == [j \in 1 .. MaxOf(1, cut_height(p) \div p.vcuts) |-> OutputChannel(p, i, c, j - 1)]
      cmds == [k \in 1 .. (IF p.df = 1 THEN 1 ELSE mc(p)) |-> OutputCommand(p, i, c, k - 1)]
  IN IF ~(c.output_valid > 0 /\ output_ready /\ out_enable) THEN [p |-> p, cmds |-> <<>>]
     ELSE SendOutput(p, i, AllReady(Asked(ctl, chs, cmds)), wait_refresh)

-----------------------------------------------------------------------------
(* The phase of cut i: the cut after it and the reads it sends. *)
Phase(p, ctl, i, c, wait_refresh) ==
  LET none == [c |-> c, w |-> <<>>, in |-> <<>>, failed |-> FALSE]
      Loaded(r) == [none EXCEPT !.c = r.c, !.w = r.cmds]
      Streamed(r) == [none EXCEPT !.c = r.c, !.in = r.cmds, !.failed = r.failed]
  IN CASE c.iw_status = 0 -> Loaded(PlaceWeights(p, ctl, i, c, wait_refresh))
       [] c.iw_status = 1 -> [none EXCEPT !.c.iw_status = 2, !.c.vpu_cnt = 1]
       [] c.iw_status = 2 -> Streamed(PlaceStream(p, ctl, i, c, wait_refresh))
       [] c.iw_status = 3 -> [none EXCEPT !.c = AwaitArray(c)]

(* The commands go to the lists of their channels' controllers. *)
Push(ctl, w, in, out) ==
  LET Of(ch, cmds) == LET here == SelectSeq(cmds, LAMBDA a : a.ch = ch)
                      IN [n \in DOMAIN here |-> here[n].cmd]
  IN [ch \in Channels |->
        [ctl[ch] EXCEPT !.rd_w_cmds = @ \o Of(ch, w), !.rd_in_cmds = @ \o Of(ch, in),
                        !.wr_cmds = @ \o Of(ch, out)]]

(* One cut in one cycle, s being the scheduler and the controllers. *)
ScheduleCut(s, i, wait_refresh) ==
  LET Sent(f, o) == [p |-> o.p, ctl |-> Push(s.ctl, f.w, f.in, o.cmds)]
      Written(f) ==
        Sent(f, PlaceOutput([s.p EXCEPT !.cut[i] = CountOutput(f.c), !.failed = @ \/ f.failed],
                            s.ctl, i, s.p.cut[i].iw_status = 3, wait_refresh))
  IN IF ~s.p.cut[i].in_pim THEN s
     ELSE Written(Phase(s.p, s.ctl, i, s.p.cut[i], wait_refresh))

(* The PIM part of JedecDRAMSystem::ClockTick.  wait_refresh is only set    *)
(* once the cuts are known, which the code asks before it takes the         *)
(* transaction; no cut is active in the cycle of its own configuration.     *)
Schedule(p, ctl) ==
  LET wait_refresh == \E ch \in Channels : pim_refresh_coming(ctl[ch].rf)
      is_in_ref == \E ch \in Channels :
                     ctl[ch].cq.is_in_ref \/ pim_refresh_coming2(ctl[ch].rf)
      Step(s, i) == ScheduleCut(s, i, wait_refresh)
      Run(s) == IF is_in_ref \/ s.p.failed THEN s
                ELSE FoldLeft(Step, s, [n \in 1 .. Cardinality(Cuts(s.p)) |-> n - 1])
  IN Run([p |-> PopTransaction(ForgetActivations(p, ctl)), ctl |-> MarkControllers(p, ctl)])
=============================================================================
