--------------------------- MODULE MCDeviceStore ---------------------------
(* Small instances of DeviceStore.                                         *)
EXTENDS DeviceStore, TLC

Alike == Permutations(Creds) \cup Permutations(Reqs)
=============================================================================
