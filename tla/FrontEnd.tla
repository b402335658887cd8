------------------------------ MODULE FrontEnd ------------------------------
(***************************************************************************)
(* The program around the memory: main.cc, the CPU models of cpu.cc, the   *)
(* trace reader of common.cc, the facade of memory_system.cc and the       *)
(* statistics of every channel.                                            *)
(*                                                                         *)
(* The memory itself is what MemoryInterface promises: a channel takes a   *)
(* transaction or not, and answers what it took at some later cycle, in    *)
(* any order.  The CPU sees nothing else of it, and the statistics only    *)
(* count it.  After PIM transactions the memory may issue PIM reads and    *)
(* may set turn_off.                                                       *)
(***************************************************************************)
EXTENDS Configuration, Statistics, SequencesExt

CONSTANTS CommandLines,   \* [ini, trace, stream_type, cycles, resets]: the trace with
                          \* its lines, a newline after the last one, and if it was
                          \* given; resets if an embedding program may reset the
                          \* statistics
          Draws, ArrayDraws, \* the addresses the random generator gives, and triples
          array_size, stride,
          epoch_period,
          MaxQueued       \* bound: unanswered transactions per channel

VARIABLES args,           \* the command line
          config,         \* the device
          cpu,            \* the CPU model
          clk,            \* completed iterations of main's loop
          queue,          \* per channel: accepted and not yet answered
          turn_off,
          willing,        \* what the memory answered the last queries
          sent,           \* history: what was accepted, by the current arrays
                          \* for a stream, of all lines for a trace
          stats,          \* per channel: its statistics
          last_trans_clk, \* per channel
          since,          \* history: clk when the statistics were reset
          out             \* per channel: what PrintFinalStats wrote, or NoOutput

vars == <<args, config, cpu, clk, queue, turn_off, willing, sent, stats, last_trans_clk,
          since, out>>

Channels == 0 .. config.channels - 1
Queries == 1 .. 3
NoOutput == <<>>

write_types == {"WRITE", "write", "P_MEM_WR", "BOFF"}
pim_types == {"PIM"}

(* main.cc: a trace file takes precedence over a stream type. *)
Kind == IF args.trace.given THEN "trace"
        ELSE IF args.stream_type \in {"stream", "s"} THEN "stream" ELSE "random"

InitCpu ==
  CASE Kind = "trace" -> [get_next |-> TRUE, next |-> 1, eof |-> FALSE,
                          trans |-> [active |-> FALSE]]
    [] Kind = "stream" -> [base |-> [q \in Queries |-> 0], offset |-> 0,
                           inserted |-> [q \in Queries |-> FALSE]]
    [] Kind = "random" -> [get_next |-> TRUE, addr |-> 0, is_write |-> FALSE]

Init ==
  /\ args \in CommandLines
  /\ config = Device(args.ini)
  /\ cpu = InitCpu
  /\ clk = 0
  /\ queue = [ch \in Channels |-> <<>>]
  /\ turn_off = FALSE
  /\ willing = [q \in Queries |-> FALSE]
  /\ sent = <<>>
  /\ stats = [ch \in Channels |-> InitStats]
  /\ last_trans_clk = [ch \in Channels |-> 0]
  /\ since = 0
  /\ out = NoOutput

-----------------------------------------------------------------------------
(* The CPUs: the state after a cycle and the transactions it adds, given    *)
(* what the memory answers.  The k-th query of a cycle is answered by w[k]. *)

(* common.cc, operator>>: a line with its newline; the last line may lack   *)
(* it, and then reading it already meets the end of the file.  Past the     *)
(* last line nothing is read, and mem_op stays empty.                       *)
ReadLine(c) ==
  IF c.next > Len(args.trace.lines)
  THEN [c EXCEPT !.trans = [active |-> FALSE], !.eof = TRUE]
  ELSE LET line == args.trace.lines[c.next]
       IN [c EXCEPT !.next = @ + 1,
                    !.eof = c.next = Len(args.trace.lines) /\ ~args.trace.newline,
                    !.trans = [active |-> line.mem_op \in write_types \cup pim_types,
                               addr |-> line.addr, added_cycle |-> line.added_cycle,
                               is_write |-> line.mem_op \in write_types,
                               is_pim |-> line.mem_op \in pim_types]]

(* Mutant: the next line is read although this one was refused. *)
OfferDropped(c, w) == [cpu |-> [c EXCEPT !.get_next = TRUE],
                       adds |-> IF w[1] THEN <<c.trans>> ELSE <<>>]

Offer(c, w) == [cpu |-> [c EXCEPT !.get_next = w[1]],
                adds |-> IF w[1] THEN <<c.trans>> ELSE <<>>]

(* Mutant: a line is sent only after its cycle. *)
DueLate(trans) == trans.active /\ trans.added_cycle < clk

Due(trans) == trans.active /\ trans.added_cycle <= clk

TraceCycle(c, w) ==
  LET Step(r) == IF Due(r.trans) THEN Offer(r, w) ELSE [cpu |-> r, adds |-> <<>>]
  IN IF c.eof THEN [cpu |-> c, adds |-> <<>>]
     ELSE Step(IF c.get_next THEN ReadLine([c EXCEPT !.get_next = FALSE]) ELSE c)

(* Mutant: the element is left when its two reads are in. *)
AdvanceEarly(c) ==
  IF c.inserted[1] /\ c.inserted[2]
  THEN [c EXCEPT !.offset = @ + stride, !.inserted = [q \in Queries |-> FALSE]]
  ELSE c

Advance(c) ==
  IF \A q \in Queries : c.inserted[q]
  THEN [c EXCEPT !.offset = @ + stride, !.inserted = [q \in Queries |-> FALSE]]
  ELSE c

NextArrays == cpu.offset >= array_size \/ clk = 0

(* Read a and b, write c, each as soon as it is taken. *)
StreamCycle(c, w, gen) ==
  LET s == IF NextArrays THEN [c EXCEPT !.base = gen, !.offset = 0] ELSE c
      taken == SelectSeq(<<1, 2, 3>>, LAMBDA q : ~s.inserted[q] /\ w[q])
  IN [cpu |-> Advance([s EXCEPT !.inserted = [q \in Queries |-> @[q] \/ w[q]]]),
      adds |-> [n \in DOMAIN taken |->
                  [addr |-> s.base[taken[n]] + s.offset, is_write |-> taken[n] = 3,
                   is_pim |-> FALSE, array |-> taken[n], offset |-> s.offset]]]

(* A refused transaction is offered again: addr and is_write are drawn only *)
(* after an accepted one.                                                   *)
RandomCycle(c, w, addr, is_write) ==
  LET r == [c EXCEPT !.addr = addr, !.is_write = is_write]
  IN [cpu |-> [r EXCEPT !.get_next = w[1]],
      adds |-> IF w[1] THEN <<[addr |-> r.addr, is_write |-> r.is_write, is_pim |-> FALSE]>>
               ELSE <<>>]

-----------------------------------------------------------------------------
(* The memory's side of a cycle: the channel answers the transactions at    *)
(* the positions done, issues a PIM read or not, and counts the cycle.      *)
CountAnswer(s, t) ==
  IF t.is_write THEN Increment(s, "num_writes_done")
  ELSE AddValue(Increment(s, "num_reads_done"), "read_latency", clk - t.added_cycle)

CountCycle(s, answered, reads) ==
  LET counted == FoldLeft(CountAnswer, s, answered)
  IN Increment(IF reads THEN Increment(counted, "num_lh_read_cmds") ELSE counted, "num_cycles")

(* BaseDRAMSystem::PrintEpochStats and Controller::PrintEpochStats. *)
EndEpoch(s) ==
  IF (clk + 1) % epoch_period = 0 THEN UpdateEpochStats(Increment(s, "epoch_num")).stats ELSE s

(* The transactions of a cycle that go to a channel, in order. *)
Routed(adds, ch) ==
  SelectSeq(adds, LAMBDA t : ~t.is_pim /\ GetChannel(config, t.addr) = ch)

(* Controller::AddTransaction. *)
CountArrivals(s, ch, n) ==
  FoldLeft(LAMBDA r, k : AddValue(r, "interarrival_latency",
                                  IF k = 1 THEN clk + 1 - last_trans_clk[ch] ELSE 0),
           s, [k \in 1 .. n |-> k])

Keep(q, done) == [n \in 1 .. Len(q) - Cardinality(done) |->
                    q[CHOOSE i \in DOMAIN q \ done :
                        Cardinality({j \in DOMAIN q \ done : j <= i}) = n]]

PimStarted == Kind = "trace" /\ \E n \in DOMAIN sent : sent[n].is_pim

(* The history of a random CPU, and of the arrays a stream has finished. *)
Forgotten == Kind = "random" \/ (Kind = "stream" /\ NextArrays)

(* CPU::ClockTick with everything it calls: the memory's cycle, with the    *)
(* answers it gives, then what the CPU adds.                                *)
Cycle(step, done, reads) ==
  LET arrivals == [ch \in Channels |-> Routed(step.adds, ch)]
  IN /\ cpu' = step.cpu
     /\ queue' = [ch \in Channels |->
          Keep(queue[ch], done[ch])
            \o [n \in DOMAIN arrivals[ch] |->
                 [is_write |-> arrivals[ch][n].is_write, added_cycle |-> clk + 1]]]
     /\ \A ch \in Channels : Len(queue'[ch]) <= MaxQueued
     /\ stats' = [ch \in Channels |->
          CountArrivals(EndEpoch(CountCycle(stats[ch],
                          [n \in 1 .. Cardinality(done[ch]) |->
                             queue[ch][SetToSortSeq(done[ch], <)[n]]], reads)),
                        ch, Len(arrivals[ch]))]
     /\ last_trans_clk' = [ch \in Channels |->
          IF arrivals[ch] = <<>> THEN last_trans_clk[ch] ELSE clk + 1]
     /\ sent' = (IF Forgotten THEN <<>> ELSE sent)
                  \o [n \in DOMAIN step.adds |-> step.adds[n] @@ [at |-> clk]]

Running == clk < args.cycles /\ ~turn_off

(* One iteration of main's loop, with what the CPU does in it. *)
Iterate(step) ==
  /\ Running
  /\ clk' = clk + 1
  /\ \E done \in [Channels -> SUBSET (1 .. MaxQueued)],
       reads \in (IF PimStarted THEN BOOLEAN ELSE {FALSE}) :
       /\ \A ch \in Channels : done[ch] \subseteq DOMAIN queue[ch]
       /\ Cycle(step, done, reads)
  /\ turn_off' \in (IF PimStarted THEN BOOLEAN ELSE {FALSE})
  /\ UNCHANGED <<args, config, since, out>>

OneQuery == {[q \in Queries |-> b] : b \in BOOLEAN}

TraceTick ==
  /\ Kind = "trace"
  /\ willing' \in OneQuery
  /\ Iterate(TraceCycle(cpu, willing'))

StreamTick ==
  /\ Kind = "stream"
  /\ willing' \in [Queries -> BOOLEAN]
  /\ \E gen \in (IF NextArrays THEN ArrayDraws ELSE {cpu.base}) :
       Iterate(StreamCycle(cpu, willing', gen))

RandomTick ==
  /\ Kind = "random"
  /\ willing' \in OneQuery
  /\ \E addr \in (IF cpu.get_next THEN Draws ELSE {cpu.addr}),
       is_write \in (IF cpu.get_next THEN BOOLEAN ELSE {cpu.is_write}) :
       Iterate(RandomCycle(cpu, willing', addr, is_write))

(* main.cc after its loop: PrintStats. *)
Finish ==
  /\ ~Running
  /\ out = NoOutput
  /\ LET final == [ch \in Channels |-> UpdateFinalStats(stats[ch])]
     IN /\ out' = [ch \in Channels |-> final[ch].out]
        /\ stats' = [ch \in Channels |-> final[ch].stats]
  /\ UNCHANGED <<args, config, cpu, clk, queue, turn_off, willing, sent, last_trans_clk, since>>

(* MemorySystem::ResetStats, for a program that embeds the library and      *)
(* simulates in phases; bound: two phases.                                  *)
ResetStats ==
  /\ args.resets
  /\ Running
  /\ since = 0 /\ clk > 0
  /\ stats' = [ch \in Channels |-> Reset(stats[ch])]
  /\ since' = clk
  /\ UNCHANGED <<args, config, cpu, clk, queue, turn_off, willing, sent, last_trans_clk, out>>

Next == TraceTick \/ StreamTick \/ RandomTick \/ ResetStats \/ Finish

Spec == Init /\ [][Next]_vars

-----------------------------------------------------------------------------
(* The .ini file gives a device whose locations and addresses correspond    *)
(* one to one, whose every location exists and whose every megabyte has an  *)
(* address: SetAddressMapping and CalculateSize agree, for each device and  *)
(* order of fields.  The device never changes, so the start says it all.    *)
AddressesFitDevice ==
  clk = 0 => LocationUnique(config) /\ LocationExists(config)
AddressesReachDevice ==
  clk = 0 => AddressesWholeDevice(config)

(* The lines of the trace reach the memory in order, each once and not      *)
(* before its cycle, however long the memory refuses one of them.           *)
LinesInOrder ==
  Kind = "trace" =>
    /\ Len(sent) <= Len(args.trace.lines)
    /\ \A n \in DOMAIN sent : /\ sent[n].addr = args.trace.lines[n].addr
                              /\ sent[n].added_cycle = args.trace.lines[n].added_cycle
                              /\ sent[n].added_cycle <= sent[n].at

(* README.md: the CPU "consumes traces of workloads, feed the fetched       *)
(* transactions into the memory system".  When the next line is due and the *)
(* memory would take it, it is sent in that cycle.                          *)
DueLineIsSent ==
  [][(TraceTick /\ Len(sent) < Len(args.trace.lines) /\ willing'[1]
        /\ args.trace.lines[Len(sent) + 1].added_cycle <= clk)
     => Len(sent') = Len(sent) + 1]_vars

(* A stream adds whole elements: everything before its offset was read from *)
(* both arrays and written to the third exactly once, in order, and of the  *)
(* current element exactly the inserted parts were sent.                    *)
ElementsComplete ==
  Kind = "stream" =>
    LET Expected == {<<q, o>> \in Queries \X (0 .. cpu.offset) :
                       /\ o % stride = 0
                       /\ o < cpu.offset \/ cpu.inserted[q]}
    IN /\ {<<sent[n].array, sent[n].offset>> : n \in DOMAIN sent} = Expected
       /\ Len(sent) = Cardinality(Expected)
       /\ \A n \in DOMAIN sent : sent[n].addr = cpu.base[sent[n].array] + sent[n].offset

Binned(ch, h) == MapThenSumSet(LAMBDA b : out[ch].bins[h][b], Bins(h))

(* The final report adds up, whatever the epochs cut in two: it has the     *)
(* cycles and epochs since the last reset and a latency for every read      *)
(* answered; without a reset also an interarrival time for every            *)
(* transaction accepted (answered or still waiting), times that sum up to   *)
(* the last arrival, and bins that hold every value.                        *)
FinalReportAddsUp ==
  out # NoOutput =>
    \A ch \in Channels :
      LET c == out[ch].counters
          average == out[ch].average
      IN /\ c["num_cycles"] = clk - since
         /\ c["epoch_num"] = clk \div epoch_period - since \div epoch_period
         /\ average["read_latency"].count = c["num_reads_done"]
         /\ since = 0 =>
              /\ average["interarrival_latency"].count =
                   c["num_reads_done"] + c["num_writes_done"] + Len(queue[ch])
              /\ average["interarrival_latency"].sum = last_trans_clk[ch]
              /\ \A h \in DOMAIN Histograms : Binned(ch, h) = average[h].count

(* simple_stats.h: Reset is for "after one phase of simulation".  The bins  *)
(* of the final report hold the values it averages over.                    *)
BinsMatchValues ==
  out # NoOutput => \A ch \in Channels, h \in DOMAIN Histograms :
                      Binned(ch, h) = out[ch].average[h].count

(* simple_stats.h says of the energies: "in the end updated to the overall  *)
(* value".                                                                  *)
EnergiesOverall ==
  out # NoOutput =>
    \A ch \in Channels, n \in Energies : out[ch].doubles[n] = out[ch].counters[n]
=============================================================================
