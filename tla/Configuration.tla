--------------------------- MODULE Configuration ----------------------------
(***************************************************************************)
(* From the .ini file to the device, and from a byte address to a location *)
(* of the device and back (src/src/configuration.cc).  Shifts and masks    *)
(* are divisions and remainders by powers of two.                          *)
(*                                                                         *)
(* An ini record has the entries of the file that decide the structure;    *)
(* its address_mapping is the string as a sequence of fields.              *)
(***************************************************************************)
EXTENDS Integers, Sequences, FiniteSetsExt, TLC

GDDR == {"GDDR5", "GDDR5X", "GDDR6"}
HBM == {"HBM", "HBM2"}

(* Half-cycles per burst element: GDDR transfers 4, 8 or 16 of them in a    *)
(* cycle, the others two.                                                   *)
burst_rate(protocol) ==
  CASE protocol = "GDDR5" -> 4
    [] protocol = "GDDR5X" -> 8
    [] protocol = "GDDR6" -> 16
    [] OTHER -> 2

(* A column of the file is a burst of GDDR and a prefetch of HBM. *)
DeviceColumns(ini, burst) ==
  IF ini.protocol \in GDDR THEN ini.columns * burst
  ELSE IF ini.protocol \in HBM THEN ini.columns * 2
  ELSE ini.columns

(* InitDRAMParams: BL = 0 asks for perfect bandwidth, but the capacity      *)
(* still needs a burst.                                                     *)
InitDRAMParams(ini) ==
  LET BL == IF ini.protocol = "HMC" THEN (ini.block_size * 8) \div ini.device_width ELSE ini.BL
      burst == IF BL # 0 THEN BL ELSE IF ini.protocol \in HBM THEN 4 ELSE 8
  IN [ini EXCEPT !.bankgroups = IF ini.bankgroup_enable THEN @ ELSE 1,
                 !.banks_per_group = IF ini.bankgroup_enable THEN @ ELSE @ * ini.bankgroups,
                 !.BL = burst,
                 !.columns = DeviceColumns(ini, burst)]
     @@ [burst_cycle |-> BL \div burst_rate(ini.protocol)]

(* CalculateSize: sizes are whole megabytes.  The number of ranks need not  *)
(* be a power of two.                                                       *)
CalculateSize(d) ==
  LET page_size == (d.columns * d.device_width) \div 8
      megs_per_bank == (page_size * (d.rows \div 1024)) \div 1024
      megs_per_rank == megs_per_bank * d.bankgroups * d.banks_per_group
                         * (d.bus_width \div d.device_width)
      ranks == IF megs_per_rank > d.channel_size THEN 1 ELSE d.channel_size \div megs_per_rank
  IN [d EXCEPT !.channel_size = ranks * megs_per_rank] @@ [ranks |-> ranks]

Device(ini) == CalculateSize(InitDRAMParams(ini))

-----------------------------------------------------------------------------
Fields == {"ch", "ra", "bg", "ba", "ro", "co"}

(* Mutant: rounded up. *)
LogBase2Up(power_of_two) ==
  CHOOSE i \in 0 .. 29 : 2^i >= power_of_two /\ \A j \in 0 .. i - 1 : 2^j < power_of_two

LogBase2(power_of_two) ==
  CHOOSE i \in 0 .. 29 : 2^i <= power_of_two /\ power_of_two < 2^(i + 1)

(* Mutant: the bytes of one beat only. *)
shift_bitsBeat(d) == LogBase2(d.bus_width \div 8)

shift_bits(d) == LogBase2((d.bus_width \div 8) * d.BL)

field_width(d, f) ==
  CASE f = "ch" -> LogBase2(d.channels)
    [] f = "ra" -> LogBase2(d.ranks)
    [] f = "bg" -> LogBase2(d.bankgroups)
    [] f = "ba" -> LogBase2(d.banks_per_group)
    [] f = "ro" -> LogBase2(d.rows)
    [] f = "co" -> LogBase2(d.columns) - LogBase2(d.BL)

BitsOf(d, fields) == MapThenSumSet(LAMBDA f : field_width(d, f), fields)

(* Fields are taken from the back of the string: a field lies above all     *)
(* those that follow it.                                                    *)
field_pos(d, f) ==
  BitsOf(d, {d.address_mapping[i] : i \in {i \in 1 .. 6 :
    i > CHOOSE j \in 1 .. 6 : d.address_mapping[j] = f}})

FieldOf(d, request, f) == (request \div 2^field_pos(d, f)) % 2^field_width(d, f)

(* AddressMapping, of the address without its shift_bits lowest bits. *)
Location(d, request) == [f \in Fields |-> FieldOf(d, request, f)]

(* AddressUnmapping, likewise. *)
RequestAt(d, addr) == MapThenSumSet(LAMBDA f : addr[f] * 2^field_pos(d, f), Fields)

(* BaseDRAMSystem::GetChannel. *)
GetChannel(d, hex_addr) == FieldOf(d, hex_addr \div 2^shift_bits(d), "ch")

-----------------------------------------------------------------------------
(* The requests looked at: one or two bits set, or all bits below one.  The *)
(* mapping moves bits, so these show where every bit goes.                  *)
SampleRequests(d) ==
  LET bits == 0 .. BitsOf(d, Fields) - 1
  IN {2^i - 1 : i \in bits} \cup {2^i : i \in bits}
     \cup {2^i + 2^j : <<i, j>> \in {<<i, j>> \in bits \X bits : i # j}}

(* A location determines its request: unmapping the location of an address  *)
(* gives the address back, so two requests of the device never share a      *)
(* location, in any order of the fields.                                    *)
LocationUnique(d) == \A r \in SampleRequests(d) : RequestAt(d, Location(d, r)) = r

(* Every component is an index that exists (ctrls_, bank_states_ and the    *)
(* per-rank vectors are indexed with it unchecked), also when a count, such *)
(* as the number of ranks, is not a power of two.                           *)
LocationExists(d) ==
  \A r \in SampleRequests(d) :
    LET addr == Location(d, r)
    IN /\ addr["ch"] < d.channels /\ addr["ra"] < d.ranks
       /\ addr["bg"] < d.bankgroups /\ addr["ba"] < d.banks_per_group
       /\ addr["ro"] < d.rows /\ addr["co"] * d.BL < d.columns

(* The addresses reach the whole device: as many megabytes as CalculateSize *)
(* says the channels have, unless the number of ranks was rounded down.     *)
AddressesWholeDevice(d) ==
  2^LogBase2(d.ranks) = d.ranks =>
    2^(BitsOf(d, Fields) + shift_bits(d) - 20) = d.channels * d.channel_size
=============================================================================
