--------------------------- MODULE MCConfigStore ---------------------------
(* Small instances of ConfigStore. *)
EXTENDS ConfigStore, TLC

\* Keypairs are interchangeable, and so are phones.
StoreSymmetry == Permutations(Key) \cup Permutations(Phone)

=============================================================================
