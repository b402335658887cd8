----------------------------- MODULE MCFrontEnd -----------------------------
(* The structures of all the .ini files under src/configs (many files share *)
(* one), which are only set up, and one small device with two channels on   *)
(* which the CPUs run.                                                      *)
EXTENDS FrontEnd

Ini(protocol, enable, bankgroups, banks_per_group, rows, columns, device_width, BL,
    block_size, channel_size, channels, bus_width, mapping) ==
  [protocol |-> protocol, bankgroup_enable |-> enable, bankgroups |-> bankgroups,
   banks_per_group |-> banks_per_group, rows |-> rows, columns |-> columns,
   device_width |-> device_width, BL |-> BL, block_size |-> block_size,
   channel_size |-> channel_size, channels |-> channels, bus_width |-> bus_width,
   address_mapping |-> mapping]

RoChRaBaBgCo == <<"ro", "ch", "ra", "ba", "bg", "co">>
RoRaBgBaChCo == <<"ro", "ra", "bg", "ba", "ch", "co">>
RoCoRaBgBaCh == <<"ro", "co", "ra", "bg", "ba", "ch">>
RoRaBgBaCoCh == <<"ro", "ra", "bg", "ba", "co", "ch">>
RoBaBgCoChRa == <<"ro", "ba", "bg", "co", "ch", "ra">>

Shipped ==
  {Ini("DDR3", TRUE, 1, 8, 16384, 1024, 8, 8, 64, 2048, 1, 64, RoChRaBaBgCo),
   Ini("DDR3", TRUE, 1, 8, 32768, 1024, 16, 8, 64, 4096, 1, 64, RoChRaBaBgCo),
   Ini("DDR3", TRUE, 1, 8, 65536, 2048, 4, 8, 64, 16384, 1, 64, RoChRaBaBgCo),
   Ini("DDR3", TRUE, 1, 8, 65536, 1024, 8, 8, 64, 8192, 1, 64, RoChRaBaBgCo),
   Ini("DDR3", TRUE, 1, 8, 65536, 1024, 16, 8, 64, 8192, 1, 64, RoChRaBaBgCo),
   Ini("DDR3", TRUE, 1, 8, 65536, 4096, 4, 8, 64, 32768, 1, 64, RoChRaBaBgCo),
   Ini("DDR3", TRUE, 1, 8, 65536, 2048, 8, 8, 64, 16384, 1, 64, RoChRaBaBgCo),
   Ini("DDR4", TRUE, 2, 4, 32768, 1024, 16, 8, 64, 4096, 1, 64, RoChRaBaBgCo),
   Ini("DDR4", TRUE, 4, 4, 65536, 1024, 4, 8, 64, 16384, 1, 64, RoChRaBaBgCo),
   Ini("DDR4", TRUE, 4, 4, 32768, 1024, 8, 8, 64, 8192, 1, 64, RoChRaBaBgCo),
   Ini("DDR4", TRUE, 2, 4, 65536, 1024, 16, 8, 64, 8192, 1, 64, RoChRaBaBgCo),
   Ini("DDR4", TRUE, 4, 4, 131072, 1024, 4, 8, 64, 32768, 1, 64, RoChRaBaBgCo),
   Ini("DDR4", TRUE, 4, 4, 65536, 1024, 8, 8, 64, 16384, 1, 64, RoChRaBaBgCo),
   Ini("DDR4", TRUE, 4, 4, 65536, 1024, 8, 8, 64, 16384, 2, 64, RoBaBgCoChRa),
   Ini("DDR4", TRUE, 4, 4, 65536, 1024, 8, 8, 64, 1024, 8, 8, RoChRaBaBgCo),
   Ini("GDDR5X", FALSE, 4, 4, 16384, 64, 32, 16, 64, 4096, 1, 128, RoChRaBaBgCo),
   Ini("GDDR5", FALSE, 4, 4, 4096, 64, 32, 8, 64, 1024, 1, 256, RoChRaBaBgCo),
   Ini("GDDR5", FALSE, 4, 4, 16384, 128, 32, 8, 64, 4096, 1, 128, RoChRaBaBgCo),
   Ini("GDDR6", FALSE, 4, 4, 16384, 128, 16, 16, 64, 4096, 1, 128, RoChRaBaBgCo),
   Ini("HBM", TRUE, 4, 4, 16384, 64, 128, 4, 64, 512, 8, 128, RoRaBgBaChCo),
   Ini("HBM", TRUE, 4, 4, 8192, 128, 64, 4, 64, 256, 8, 64, RoRaBgBaCoCh),
   Ini("HBM", TRUE, 4, 4, 32768, 64, 128, 4, 64, 1024, 8, 128, RoRaBgBaChCo),
   Ini("HMC", TRUE, 1, 16, 65536, 64, 32, 8, 64, 256, 32, 32, RoCoRaBgBaCh),
   Ini("HMC", TRUE, 1, 8, 65536, 64, 32, 8, 64, 128, 16, 32, RoCoRaBgBaCh),
   Ini("HMC", TRUE, 1, 8, 65536, 64, 32, 2, 128, 128, 16, 32, RoCoRaBgBaCh),
   Ini("HMC", TRUE, 1, 16, 65536, 64, 32, 8, 64, 256, 16, 32, RoCoRaBgBaCh),
   Ini("LPDDR3", TRUE, 1, 8, 32768, 1024, 32, 8, 64, 2048, 1, 64, RoChRaBaBgCo),
   Ini("LPDDR4", TRUE, 2, 4, 65536, 1024, 16, 16, 64, 8192, 1, 64, RoChRaBaBgCo),
   Ini("DDR3", TRUE, 1, 8, 32768, 1024, 8, 4, 64, 4096, 1, 64, RoRaBgBaChCo),
   Ini("LPDDR", TRUE, 1, 4, 16384, 2048, 16, 8, 64, 1024, 1, 64, RoChRaBaBgCo)}

(* CalculateSize gives this device three ranks. *)
ThreeRanks == Ini("DDR3", TRUE, 1, 8, 16384, 1024, 8, 8, 64, 3072, 2, 64, RoRaBgBaCoCh)

Start(ini, trace, stream_type, cycles) ==
  [ini |-> ini, trace |-> trace, stream_type |-> stream_type, cycles |-> cycles,
   resets |-> FALSE]

Line(addr, mem_op, added_cycle) == [addr |-> addr, mem_op |-> mem_op, added_cycle |-> added_cycle]
File(lines, newline) == [given |-> TRUE, lines |-> lines, newline |-> newline]
NoTrace == [given |-> FALSE, lines |-> <<>>, newline |-> FALSE]

(* Of addresses 0 and 64 the first goes to channel 0, the second to 1. *)
Mixed == File(<<Line(64, "WRITE", 0), Line(0, "PIM", 0), Line(0, "P_MEM_WR", 2)>>, TRUE)
Late == File(<<Line(0, "write", 1), Line(64, "BOFF", 1)>>, TRUE)
Reads == File(<<Line(0, "WRITE", 0), Line(64, "READ", 0), Line(0, "WRITE", 1)>>, TRUE)
Unterminated == File(<<Line(0, "WRITE", 0), Line(64, "WRITE", 1)>>, FALSE)

TwoPhases == {[Start(ThreeRanks, NoTrace, "random", 3) EXCEPT !.resets = TRUE]}

Everything ==
  {Start(ini, NoTrace, "random", 0) : ini \in Shipped}
    \cup {Start(ThreeRanks, NoTrace, "random", 4), Start(ThreeRanks, NoTrace, "stream", 4),
          Start(ThreeRanks, Mixed, "stream", 5), Start(ThreeRanks, Late, "", 4)}
    \cup TwoPhases
ReadTrace == {Start(ThreeRanks, Reads, "", 4)}
LastLine == {Start(ThreeRanks, Unterminated, "", 4)}
PimTrace == {Start(ThreeRanks, Mixed, "", 5)}

OneTriple == {<<0, 64, 128>>}

SmallHistograms ==
  [read_latency |-> [start_val |-> 0, end_val |-> 4, num_bins |-> 2],
   interarrival_latency |-> [start_val |-> 0, end_val |-> 2, num_bins |-> 2]]
=============================================================================
