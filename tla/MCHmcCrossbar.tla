--------------------------- MODULE MCHmcCrossbar ----------------------------
(* Two links and two quads of one vault each, buffers of one packet, three *)
(* logic cycles per two DRAM cycles.                                       *)
EXTENDS HmcCrossbar

TwoVaults == [a \in Addr |-> IF a = "B" THEN 1 ELSE 0]

(* Every address is either read or written. *)
OneKindEach == {<<"A", FALSE>>, <<"A2", TRUE>>, <<"B", FALSE>>}

ReadAndWrite == {<<"A", FALSE>>, <<"A", TRUE>>}
=============================================================================
