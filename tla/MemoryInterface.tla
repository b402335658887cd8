-------------------------- MODULE MemoryInterface ---------------------------
(***************************************************************************)
(* What the memory system promises its client (memory_system.h): every     *)
(* transaction it accepts is answered by one callback with its address and *)
(* kind.  No callback comes that nobody waits for, no accepted transaction *)
(* is forgotten; any number of callbacks may come in one cycle.            *)
(***************************************************************************)
EXTENDS Naturals

CONSTANT Addr

Kinds == Addr \X BOOLEAN            \* <<addr, is_write>>

VARIABLES outstanding,              \* kind -> accepted and not yet answered
          callbacks                 \* kind -> callbacks made by the last step

ivars == <<outstanding, callbacks>>

Init ==
  /\ outstanding = [k \in Kinds |-> 0]
  /\ callbacks = [k \in Kinds |-> 0]

Accept ==
  /\ callbacks' = [k \in Kinds |-> 0]
  /\ DOMAIN outstanding' = Kinds
  /\ \E k \in Kinds :
       /\ outstanding'[k] = outstanding[k] + 1
       /\ \A j \in Kinds \ {k} : outstanding'[j] = outstanding[j]

Answer ==
  /\ DOMAIN callbacks' = Kinds /\ DOMAIN outstanding' = Kinds
  /\ \A k \in Kinds : /\ callbacks'[k] \in Nat
                       /\ outstanding'[k] \in Nat
                       /\ outstanding'[k] + callbacks'[k] = outstanding[k]

Next == Accept \/ Answer

Spec == Init /\ [][Next]_ivars
=============================================================================
