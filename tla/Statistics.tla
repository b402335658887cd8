----------------------------- MODULE Statistics -----------------------------
(***************************************************************************)
(* The statistics of one channel (src/src/simple_stats.cc): counters and   *)
(* latency histograms collected per epoch and folded into overall ones.    *)
(* The per-rank vector counters are folded in the same loop as the plain   *)
(* ones, so a counter here is either.  An energy is its counter times a    *)
(* constant of the device; it is represented by the counter's value.       *)
(***************************************************************************)
EXTENDS Integers, Sequences, FiniteSetsExt, Bags

CONSTANTS Counters,     \* names of the counters in play
          Histograms    \* name -> [start_val, end_val, num_bins]

(* The counters an energy is computed from. *)
TotalEnergies ==
  Counters \cap {"num_act_cmds", "num_read_cmds", "num_write_cmds", "num_ref_cmds",
                 "num_refb_cmds", "rank_active_cycles", "all_bank_idle_cycles", "sref_cycles"}
PimEnergies == Counters \cap {"num_lh_read_cmds", "num_gh_read_cmds", "num_pim_write_cmds"}
Energies == TotalEnergies \cup PimEnergies

Bins(h) == 0 .. Histograms[h].num_bins + 1
bin_width(h) == (Histograms[h].end_val - Histograms[h].start_val) \div Histograms[h].num_bins

EmptyBins == [h \in DOMAIN Histograms |-> [b \in Bins(h) |-> 0]]
NoValues == [h \in DOMAIN Histograms |-> EmptyBag]

InitStats ==
  [counters |-> [n \in Counters |-> 0], epoch_counters |-> [n \in Counters |-> 0],
   doubles |-> [n \in Energies |-> 0],
   histo_counts |-> NoValues, epoch_histo_counts |-> NoValues,
   histo_bins |-> EmptyBins, epoch_histo_bins |-> EmptyBins]

Increment(s, name) == [s EXCEPT !.epoch_counters[name] = @ + 1]

AddValue(s, name, value) ==
  [s EXCEPT !.epoch_histo_counts[name] = @ (+) SetToBag({value})]

-----------------------------------------------------------------------------
UpdateCounters(s) ==
  [s EXCEPT !.counters = [n \in Counters |-> @[n] + s.epoch_counters[n]]]

(* Bin 0 lies below the range; the last one holds end_val and above. *)
BinIndex(h, value) ==
  CASE value < Histograms[h].start_val -> 0
    [] value > Histograms[h].end_val -> Histograms[h].num_bins + 1
    [] OTHER -> (value - Histograms[h].start_val) \div bin_width(h) + 1

BinsOf(counts) ==
  [h \in DOMAIN Histograms |-> [b \in Bins(h) |->
     MapThenSumSet(LAMBDA v : CopiesIn(v, counts[h]),
                   {v \in BagToSet(counts[h]) : BinIndex(h, v) = b})]]

UpdateHistoBins(s) ==
  LET Fold(bins) ==
        [s EXCEPT !.epoch_histo_bins = bins,
                  !.histo_counts = [h \in DOMAIN Histograms |->
                                      @[h] (+) s.epoch_histo_counts[h]],
                  !.histo_bins = [h \in DOMAIN Histograms |-> [b \in Bins(h) |->
                                    @[h][b] + bins[h][b]]]]
  IN Fold(BinsOf(s.epoch_histo_counts))

(* GetHistoAvg, as the two numbers it divides. *)
HistoSum(counts) ==
  [sum |-> MapThenSumSet(LAMBDA v : v * CopiesIn(v, counts), BagToSet(counts)),
   count |-> BagCardinality(counts)]

(* UpdatePrints: what goes to the JSON and text outputs. *)
Printed(s, counters, bins, values) ==
  [counters |-> counters, epoch_num |-> s.counters["epoch_num"], bins |-> bins,
   doubles |-> s.doubles, total_energy |-> MapThenSumSet(LAMBDA n : s.doubles[n], Energies),
   average |-> [h \in DOMAIN Histograms |-> HistoSum(values[h])]]

(* Mutant: the values of the epoch stay for the next one. *)
UpdateEpochStatsKept(s) ==
  LET Report(t) ==
        [out |-> Printed(t, t.epoch_counters, t.epoch_histo_bins, t.epoch_histo_counts),
         stats |-> [t EXCEPT !.epoch_counters = [n \in Counters |-> 0]]]
  IN Report(UpdateHistoBins(UpdateCounters(
       [s EXCEPT !.doubles = [n \in Energies |-> s.epoch_counters[n]]])))

UpdateEpochStats(s) ==
  LET Report(t) ==
        [out |-> Printed(t, t.epoch_counters, t.epoch_histo_bins, t.epoch_histo_counts),
         stats |-> [t EXCEPT !.epoch_counters = [n \in Counters |-> 0],
                             !.epoch_histo_counts = NoValues]]
  IN Report(UpdateHistoBins(UpdateCounters(
       [s EXCEPT !.doubles = [n \in Energies |-> s.epoch_counters[n]]])))

(* The overall values; the epoch's own ones are left as they are. *)
UpdateFinalStats(s) ==
  LET Report(t) ==
        [out |-> Printed(t, t.counters, t.histo_bins, t.histo_counts), stats |-> t]
      Energy(t) ==
        [t EXCEPT !.doubles = [n \in Energies |->
           IF n \in TotalEnergies THEN t.counters[n] ELSE t.epoch_counters[n]]]
  IN Report(UpdateHistoBins(Energy(UpdateCounters(s))))

(* Reset leaves both sets of bins alone. *)
Reset(s) == [InitStats EXCEPT !.histo_bins = s.histo_bins,
                              !.epoch_histo_bins = s.epoch_histo_bins]
=============================================================================
