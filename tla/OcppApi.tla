------------------------------- MODULE OcppApi -------------------------------
(***************************************************************************)
(* The engine of OcppCore together with an application thread that uses  *)
(* the rest of the public API of src/src/ocpp.c:                          *)
(*   - ocpp_get_type_from_idstr(), whose lookup runs under the lock and   *)
(*     whose read of the slot's type runs after ocpp_unlock(), so the     *)
(*     engine and other callers may run in between;                       *)
(*   - ocpp_count_pending_requests(), atomic under the lock;              *)
(*   - ocpp_init() called again while messages are pending.               *)
(***************************************************************************)
EXTENDS OcppCore

VARIABLE
  app   \* the application thread inside ocpp_get_type_from_idstr()

apiVars == <<vars, app>>

(* A type the thread may return: a message type, the type of a zeroed   *)
(* slot, or OCPP_MSG_MAX when no request carries the id.                *)
MsgMaxResult == "MsgMax"

AppIdle == [st |-> "idle"]

(* ocpp_get_type_from_idstr(), first half: find_msg_by_idstr() on the  *)
(* wait list under the lock; req == NULL returns OCPP_MSG_MAX at once.  *)
(* want is the type the request had when it was found.                   *)
GetTypeFromIdstrLookup(id) ==
  /\ app = AppIdle
  /\ LET i == FindMsgByIdstr(W, "wait", id)
     IN app' = IF i = 0
               THEN [st |-> "done", want |-> MsgMaxResult, got |-> MsgMaxResult]
               ELSE [st |-> "unlocked", slot |-> i, want |-> pool[i].type]
  /\ freed' = {} /\ heartbeat' = FALSE
  /\ UNCHANGED <<engine, pc, net, delivered, inbox>>

(* Second half: return req->body.type, read after ocpp_unlock().        *)
GetTypeFromIdstrRead ==
  /\ app.st = "unlocked"
  /\ app' = [st |-> "done", want |-> app.want, got |-> pool[app.slot].type]
  /\ freed' = {} /\ heartbeat' = FALSE
  /\ UNCHANGED <<engine, pc, net, delivered, inbox>>

(* The application is done with the result and may call again.          *)
GetTypeFromIdstrReturn ==
  /\ app.st = "done"
  /\ app' = AppIdle
  /\ freed' = {} /\ heartbeat' = FALSE
  /\ UNCHANGED <<engine, pc, net, delivered, inbox>>

(* ocpp_init() again, between steps: memset(&m, 0) zeroes every slot   *)
(* and list without free_message(), so no MESSAGE_FREE event fires, and *)
(* both timestamps are set to now.  A freed CALL's id never matches     *)
(* again, as in free_message().                                          *)
OcppInit ==
  /\ pc = "idle"
  /\ pool' = [i \in Slots |-> FreeSlot]
  /\ ready' = <<>> /\ wait' = <<>> /\ timer' = <<>>
  /\ txElapsed' = 0 /\ rxElapsed' = 0
  /\ net' = {[f EXCEPT !.id = IF @ \in CallIds THEN Stale ELSE @] : f \in net}
  /\ delivered' = {Stale : d \in delivered}
  /\ freed' = {} /\ heartbeat' = FALSE
  /\ UNCHANGED <<pc, inbox, app>>

ApiInit == Init /\ app = AppIdle

ApiNext ==
  \/ Next /\ UNCHANGED app
  \/ \E id \in CallIds : GetTypeFromIdstrLookup(id)
  \/ GetTypeFromIdstrRead
  \/ GetTypeFromIdstrReturn

ApiSpec == ApiInit /\ [][ApiNext]_apiVars

(* The same application, which may also initialise the engine again.    *)
ReinitSpec == ApiInit /\ [][ApiNext \/ OcppInit]_apiVars

-----------------------------------------------------------------------------

(* ocpp_get_type_from_idstr() (ocpp.h: "Type of message"): the type it  *)
(* returns is the type of the waiting request that carried the id when  *)
(* the call was made, even if the engine answers, drops or reuses the   *)
(* slot while the caller is between the unlock and the read.            *)
TypeFromIdstrStable == app.st = "done" => app.got = app.want

(* MESSAGE_FREE contract (ocpp.h, spec.md section 6): a slot is never   *)
(* zeroed without the MESSAGE_FREE event that lets the application      *)
(* release the message's payload buffer, re-initialisation included.    *)
PayloadReleasedOnFree ==
  [][\A i \in Slots : pool[i].role # "NONE" /\ pool'[i].role = "NONE"
                        => \E f \in freed' : f.slot = i]_apiVars

=============================================================================
