------------------------------ MODULE MCAcuCan ------------------------------
(* Constants of AcuCan that a cfg cannot write: the order of the periods   *)
(* is that of ams_config_temp.hpp, and a scan exceeds the FIFO.            *)
EXTENDS AcuCan
MCPeriod == [fast |-> 1, mid |-> 2, slow |-> 3, scan |-> 6, health |-> 6]
MCTxFrames == [fast |-> 1, mid |-> 2, slow |-> 1, scan |-> 3, health |-> 1]
=============================================================================
