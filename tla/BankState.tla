----------------------------- MODULE BankState ------------------------------
(***************************************************************************)
(* One bank (src/src/bankstate.cc): the row-buffer state machine and, per  *)
(* command type, how many cycles the bank must still wait before it may    *)
(* take a command of that type.  A bank is a record; the operations are    *)
(* operators from bank to bank.                                            *)
(***************************************************************************)
EXTENDS DramCommon

RowHitLimit == 4   \* only `row_hit_count_ >= 4' is ever asked: saturate there

InitBank ==
  [state |-> "CLOSED", open_row |-> -1, row_hit_count |-> 0,
   cmd_timing |-> [t \in CommandType |-> 0]]

BankTypeOK(b) ==
  /\ b.state \in {"CLOSED", "OPEN", "SREF", "ABRUPT_EXIT"}
  /\ b.open_row \in Nat \cup {-1}
  /\ b.row_hit_count \in 0 .. RowHitLimit
  /\ b.cmd_timing \in [CommandType -> Nat]

IsRowOpen(b) == b.state = "OPEN"

(* Mutant: a refresh or self-refresh entry does not close the open row. *)
RequiredTypeNoPrecharge(b, cmd) ==
  IF cmd.cmd_type \in RefreshTypes \cup {"SREF_ENTER"} THEN cmd.cmd_type
  ELSE IF b.state = "CLOSED"
  THEN IF cmd.cmd_type \in ReadWriteTypes THEN "ACTIVATE" ELSE "PIM_ACTIVATE"
  ELSE IF b.state = "SREF" THEN "SREF_EXIT"
  ELSE IF cmd.addr.row = b.open_row THEN cmd.cmd_type ELSE "PRECHARGE"

(* The command the bank needs next in order to serve cmd. *)
RequiredType(b, cmd) ==
  LET column_access == cmd.cmd_type \in ReadWriteTypes \cup PimReadWriteTypes
      row_maintenance == cmd.cmd_type \in RefreshTypes \cup {"SREF_ENTER"}
  IN CASE b.state = "CLOSED" /\ cmd.cmd_type \in ReadWriteTypes -> "ACTIVATE"
       [] b.state = "CLOSED" /\ cmd.cmd_type \in PimReadWriteTypes -> "PIM_ACTIVATE"
       [] b.state = "CLOSED" /\ row_maintenance -> cmd.cmd_type
       [] b.state = "OPEN" /\ column_access ->
            IF cmd.addr.row = b.open_row THEN cmd.cmd_type ELSE "PRECHARGE"
       [] b.state = "OPEN" /\ row_maintenance -> "PRECHARGE"
       [] b.state = "SREF" /\ column_access -> "SREF_EXIT"
       [] OTHER -> "ABRUPT_EXIT"

(* required_type, once its time has come. *)
CommandIfDue(b, cmd, required_type) ==
  IF required_type = "ABRUPT_EXIT" THEN AbruptExit
  ELSE IF b.cmd_timing[required_type] = 0
  THEN Command(required_type, cmd.addr, cmd.hex_addr)
  ELSE NoCommand

BankReadyCommand(b, cmd) == CommandIfDue(b, cmd, RequiredType(b, cmd))

BankUpdateState(b, cmd) ==
  LET t == cmd.cmd_type
  IN CASE b.state = "OPEN"
            /\ t \in {"READ", "WRITE", "LH_READ", "GH_READ", "PIM_WRITE"} ->
            [b EXCEPT !.row_hit_count = IF @ = RowHitLimit THEN @ ELSE @ + 1]
       [] b.state = "OPEN"
            /\ t \in {"READ_PRECHARGE", "WRITE_PRECHARGE", "LH_READ_PRECHARGE",
                      "GH_READ_PRECHARGE", "PIM_WRITE_PRECHARGE", "PRECHARGE"} ->
            [b EXCEPT !.state = "CLOSED", !.open_row = -1, !.row_hit_count = 0]
       [] b.state = "CLOSED" /\ t \in RefreshTypes -> b
       [] b.state = "CLOSED" /\ t \in ActivateTypes ->
            [b EXCEPT !.state = "OPEN", !.open_row = cmd.addr.row]
       [] b.state = "CLOSED" /\ t = "SREF_ENTER" -> [b EXCEPT !.state = "SREF"]
       [] b.state = "SREF" /\ t = "SREF_EXIT" -> [b EXCEPT !.state = "CLOSED"]
       [] OTHER -> [b EXCEPT !.state = "ABRUPT_EXIT"]

(* UpdateTiming for every entry of a timing list: the later of the two      *)
(* deadlines stands, and a delay of zero or less moves nothing.             *)
BankUpdateTiming(b, cmd_timing_list) ==
  [b EXCEPT !.cmd_timing =
    [t \in CommandType |->
      LET delays == {p[2] : p \in {q \in cmd_timing_list : q[1] = t}}
      IN CHOOSE m \in delays \cup {@[t]} : \A d \in delays \cup {@[t]} : d <= m]]

BankAged(b) ==
  [b EXCEPT !.cmd_timing = [t \in CommandType |-> Aged(@[t])]]
=============================================================================
