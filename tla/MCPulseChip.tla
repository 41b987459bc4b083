------------------------------ MODULE MCPulseChip ------------------------------
(***************************************************************************)
(* PulseChip on a small instance: the settings the program is born with,   *)
(* and some with a gain the chip does not have and a delay that leaves its *)
(* byte with the adjust; a measurement that asks for an adjust, and one    *)
(* that does not.                                                          *)
(***************************************************************************)
EXTENDS PulseChip

MCDefault == [gain |-> 5, coarse |-> 8, medium |-> 17, fine |-> 1]
MCChoices == { MCDefault, [gain |-> 8, coarse |-> 8, medium |-> 250, fine |-> 1] }
MCAdjusts == { [coarse |-> 0, medium |-> 0, fine |-> 0],
               [coarse |-> 0, medium |-> 7, fine |-> 3] }
=============================================================================
