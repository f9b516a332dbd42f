--------------------------- MODULE MCPcieEndpoint ---------------------------
(* Small instances of PcieEndpoint for TLC. *)
EXTENDS PcieEndpoint
CONSTANTS d1, d2, f1, f2
OneDevice  == {d1}
TwoDevices == {d1, d2}
OneFile    == {f1}
TwoFiles   == {f1, f2}
=============================================================================
