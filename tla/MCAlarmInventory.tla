-------------------------- MODULE MCAlarmInventory --------------------------
(* Small instances of AlarmInventory for TLC.                              *)
EXTENDS AlarmInventory, TLC

\* Interchangeable alarms, silences and calls; only for runs without liveness.
Symmetric == Permutations(Alarms) \cup Permutations(Silences) \cup Permutations(Calls)
=============================================================================
