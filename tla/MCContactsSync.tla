--------------------------- MODULE MCContactsSync ---------------------------
(* ContactsSync for TLC. *)
EXTENDS ContactsSync, TLC

DeviceSymmetry == Permutations(Device)
=============================================================================
