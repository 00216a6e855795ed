-------------------------------- MODULE Config --------------------------------
(***************************************************************************)
(* The settings of struct Config (lib/include/config.h) that the roles     *)
(* share: every process of a deployment reads the same file.               *)
(***************************************************************************)
EXTENDS Message

CONSTANTS
  NumAcceptors,  \* NUM_ACCEPTORS
  MaxInst,       \* MAXINST
  Vlen           \* VLEN

ASSUME ConfigAssumption == /\ NumAcceptors \in 1 .. 31  \* bits of an int mask
                           /\ MaxInst \in Int32 /\ MaxInst > 0
                           /\ Vlen \in Nat /\ Vlen > 0

\* Acceptors are started with the ids 0, 1, 2...; instances index states[].
Acceptors == 0 .. NumAcceptors - 1
Insts     == 0 .. MaxInst - 1

=============================================================================
