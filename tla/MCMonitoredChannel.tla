------------------------- MODULE MCMonitoredChannel -------------------------
(* Instances of MonitoredChannel for TLC.                                  *)
EXTENDS MonitoredChannel, TLC
=============================================================================
