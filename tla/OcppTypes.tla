------------------------------ MODULE OcppTypes ------------------------------
(***************************************************************************)
(* The type registry of src/src/ocpp.c: the table get_typestr_array()     *)
(* of OCPP 1.6 action names indexed by ocpp_message_t, its lookup         *)
(* ocpp_stringify_type() and its linear search ocpp_get_type_from_string().*)
(* The enum itself lives in ocpp/type.h, which is not in the repository;  *)
(* its values are taken as 0 .. MsgMax - 1 in the order of spec.md        *)
(* section 6, the order the table's designated initialisers list.         *)
(*                                                                         *)
(* A caller of the registry is modelled as a state machine that picks an  *)
(* enum value and a string to convert, so that the laws of spec.md        *)
(* section 8 are checked over every input.                                *)
(***************************************************************************)
EXTENDS Naturals, Sequences

(* get_typestr_array(): msgstr[] with the designated initialisers in    *)
(* enum order; MsgStr[t + 1] is msgstr[t].                              *)
MsgStr ==
  << "Authorize", "BootNotification", "ChangeAvailability",
     "ChangeConfiguration", "ClearCache", "DataTransfer", "GetConfiguration",
     "Heartbeat", "MeterValues", "RemoteStartTransaction",
     "RemoteStopTransaction", "Reset", "StartTransaction",
     "StatusNotification", "StopTransaction", "UnlockConnector",
     "DiagnosticsStatusNotification", "FirmwareStatusNotification",
     "GetDiagnostics", "UpdateFirmware", "GetLocalListVersion",
     "SendLocalList", "CancelReservation", "ReserveNow",
     "ClearChargingProfile", "GetCompositeSchedule", "SetChargingProfile",
     "TriggerMessage", "CertificateSigned", "DeleteCertificate",
     "ExtendedTriggerMessage", "GetInstalledCertificateIds", "GetLog",
     "InstallCertificate", "LogStatusNotification",
     "SecurityEventNotification", "SignCertificate",
     "SignedFirmwareStatusNotification", "SignedUpdateFirmware" >>

MsgMax == Len(MsgStr)                  \* OCPP_MSG_MAX
MsgTypes == 0 .. MsgMax - 1            \* the values of ocpp_message_t
Names == {MsgStr[t + 1] : t \in MsgTypes}

(* ocpp_stringify_type(): out-of-range values map to "UnknownMessage". *)
StringifyType(t) == IF t >= MsgMax THEN "UnknownMessage" ELSE MsgStr[t + 1]

(* The loop of ocpp_get_type_from_string() from index i on: strcmp()   *)
(* is an exact, case-sensitive comparison.                               *)
RECURSIVE SearchFrom(_, _)
SearchFrom(s, i) ==
  IF i >= MsgMax THEN MsgMax
  ELSE IF MsgStr[i + 1] = s THEN i ELSE SearchFrom(s, i + 1)

(* Mutant: the search starts one entry late.                            *)
GetTypeFromStringFromOne(s) == SearchFrom(s, 1)

GetTypeFromString(s) == SearchFrom(s, 0)

(* Reference definition: the enum value whose name is s, else the      *)
(* sentinel.                                                             *)
ParseRef(s) == IF s \in Names THEN CHOOSE t \in MsgTypes : MsgStr[t + 1] = s
               ELSE MsgMax

-----------------------------------------------------------------------------
(* Inputs: every enum value and two past the end; every action name and *)
(* strings that are not one: the sentinel's own name, another case, a   *)
(* prefix, an extension and the empty string.                           *)
NonNames == {"UnknownMessage", "heartbeat", "Boot", "StartTransactionX", ""}

VARIABLES t, s
vars == <<t, s>>

Init == t \in 0 .. MsgMax + 1 /\ s \in Names \cup NonNames

(* The application converts another pair of values.                     *)
Convert == \E t2 \in 0 .. MsgMax + 1, s2 \in Names \cup NonNames :
             t' = t2 /\ s' = s2

Spec == Init /\ [][Convert]_vars

(* ocpp_get_type_from_string() agrees with the reference definition, and *)
(* the round-trip laws of spec.md section 8 hold: parse(stringify(t)) = t*)
(* for every value below OCPP_MSG_MAX, stringify(parse(s)) = s for every *)
(* action name, and nothing else (the sentinel's name included) parses.  *)
RegistryRoundTrip ==
  /\ GetTypeFromString(s) = ParseRef(s)
  /\ t < MsgMax => GetTypeFromString(StringifyType(t)) = t
  /\ s \in Names => StringifyType(GetTypeFromString(s)) = s
  /\ GetTypeFromString(StringifyType(t)) = IF t < MsgMax THEN t ELSE MsgMax

=============================================================================
