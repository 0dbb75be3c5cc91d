----------------------------- MODULE MCOcppCore -----------------------------
(* Small instances of OcppCore for TLC.  The request types cover one     *)
(* member of every class the code tells apart: BootNotification (never  *)
(* dropped, never evicted), StartTransaction (transaction-related,       *)
(* never evicted), MeterValues (transaction-related but evictable) and   *)
(* DataTransfer (droppable).                                             *)
EXTENDS OcppCore

CONSTANTS c1, c2    \* ids of central-system CALLs, model values

MCCentralIds == {c1}
MCRequestTypes == {"BootNotification", "StartTransaction", "MeterValues", "DataTransfer"}
MCCentralTypes == {"RemoteStartTransaction"}
MCNoIds == {}       \* the liveness runs without central-system CALLs
=============================================================================
