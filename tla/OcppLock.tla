------------------------------ MODULE OcppLock ------------------------------
(***************************************************************************)
(* The lock discipline of src/src/ocpp.c: where ocpp_step() and the       *)
(* public API take and release the engine lock, and which callouts run    *)
(* with it held.  Only control is modelled; what the engine does under    *)
(* the lock is OcppCore.  ocpp_lock() is a port function outside src/,    *)
(* taken here as a mutex that blocks whoever does not hold it.            *)
(*                                                                         *)
(* Two threads: the driver, which calls ocpp_step() and on which the      *)
(* application's event callback runs (and may call the API again), and an *)
(* application thread calling any public entry point that takes the lock *)
(* (ocpp_push_request, ocpp_push_request_defer, ocpp_push_response,       *)
(* ocpp_count_pending_requests, ocpp_get_type_from_idstr).                *)
(***************************************************************************)
EXTENDS Naturals

VARIABLES
  lock,    \* the thread holding the engine lock, or "none"
  drv,     \* where the driver thread is in ocpp_step()
  ret,     \* the phase of ocpp_step() a callout returns to
  app      \* where the application thread is in its API call
vars == <<lock, drv, ret, app>>

(* Phases of ocpp_step() that run with the lock held: "queued" is        *)
(* process_queued_messages(), "rest" is the rest of                       *)
(* process_incoming_messages() and process_periodic_messages(), which may *)
(* send a Heartbeat, and process_timer_messages().                        *)
Locked == {"queued", "rest"}

Init == lock = "none" /\ drv = "idle" /\ ret = "idle" /\ app = "idle"

(* ocpp_step() takes the lock before process_queued_messages().          *)
StepLock ==
  /\ drv = "idle" /\ lock = "none"
  /\ lock' = "driver" /\ drv' = "queued"
  /\ UNCHANGED <<ret, app>>

(* send_message() calls ocpp_send() from either locked phase, without    *)
(* releasing the lock.                                                    *)
CallSend ==
  /\ drv \in Locked
  /\ drv' = "send" /\ ret' = drv
  /\ UNCHANGED <<lock, app>>

SendReturns ==
  /\ drv = "send"
  /\ drv' = ret
  /\ UNCHANGED <<lock, ret, app>>

(* dispatch_event() (from free_message() or for an incoming message)     *)
(* releases the lock around the application callback.                     *)
DispatchEvent ==
  /\ drv \in Locked
  /\ lock' = "none" /\ drv' = "event" /\ ret' = drv
  /\ UNCHANGED app

(* The callback calls a public entry point, which takes the lock itself. *)
CallbackApi ==
  /\ drv = "event" /\ lock = "none"
  /\ lock' = "driver" /\ drv' = "event_api"
  /\ UNCHANGED <<ret, app>>

CallbackApiReturns ==
  /\ drv = "event_api"
  /\ lock' = "none" /\ drv' = "event"
  /\ UNCHANGED <<ret, app>>

(* dispatch_event() takes the lock again when the callback returns.      *)
EventReturns ==
  /\ drv = "event" /\ lock = "none"
  /\ lock' = "driver" /\ drv' = ret
  /\ UNCHANGED <<ret, app>>

(* process_incoming_messages() releases the lock around ocpp_recv() and  *)
(* takes it again afterwards.                                            *)
RecvUnlock ==
  /\ drv = "queued"
  /\ lock' = "none" /\ drv' = "recv"
  /\ UNCHANGED <<ret, app>>

RecvRelock ==
  /\ drv = "recv" /\ lock = "none"
  /\ lock' = "driver" /\ drv' = "rest"
  /\ UNCHANGED <<ret, app>>

(* ocpp_step() releases the lock after process_timer_messages().         *)
StepUnlock ==
  /\ drv = "rest"
  /\ lock' = "none" /\ drv' = "idle"
  /\ UNCHANGED <<ret, app>>

(* The application thread enters a public entry point, waits for the     *)
(* lock, runs the body and releases the lock.                             *)
AppCall ==
  /\ app = "idle" /\ app' = "wait"
  /\ UNCHANGED <<lock, drv, ret>>

AppLock ==
  /\ app = "wait" /\ lock = "none"
  /\ lock' = "app" /\ app' = "in"
  /\ UNCHANGED <<drv, ret>>

AppReturns ==
  /\ app = "in"
  /\ lock' = "none" /\ app' = "idle"
  /\ UNCHANGED <<drv, ret>>

Next ==
  \/ StepLock \/ CallSend \/ SendReturns \/ DispatchEvent
  \/ CallbackApi \/ CallbackApiReturns \/ EventReturns
  \/ RecvUnlock \/ RecvRelock \/ StepUnlock
  \/ AppCall \/ AppLock \/ AppReturns

Spec == Init /\ [][Next]_vars

-----------------------------------------------------------------------------
(* spec.md section 5: the lock is released across the transport calls    *)
(* send and recv "to permit blocking I/O", so an application thread that *)
(* calls the API while ocpp_step() is blocked in the transport is not     *)
(* kept waiting by the engine.                                            *)
ApiNotBlockedByTransport ==
  (app = "wait" /\ drv \in {"send", "recv"}) => lock = "none"

=============================================================================
