--------------------------- MODULE MCPairingAdmin ----------------------------
(***************************************************************************)
(* PairingAdmin on small sets.  The requests of interest differ from run   *)
(* to run; the rest of the constants are given in the .cfg files.          *)
(***************************************************************************)
EXTENDS PairingAdmin, TLC

\* Every request.
AllOps == Operations

\* The requests that move a session through the slot.
SlotOps == {"start", "wait", "complete"}

\* Phones, and keys, are interchangeable.
Symmetric == Permutations(Phone) \cup Permutations(Key)

=============================================================================
