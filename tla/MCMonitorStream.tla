-------------------------- MODULE MCMonitorStream --------------------------
(* Instances of MonitorStream: one tab with room for two streams at once.   *)
EXTENDS MonitorStream

CONSTANTS s1, s2

MCStreams == {s1, s2}
=============================================================================
