------------------------------ MODULE OcppClock ------------------------------
(***************************************************************************)
(* The clock and configuration arithmetic of src/src/ocpp.c at machine    *)
(* width.  OcppCore keeps time as small relative counters, which cannot   *)
(* wrap; here the operands are absolute time() values and configuration   *)
(* values as the code reads them, and the conversions to uint32_t are     *)
(* reductions modulo 2^Width.  TLC's integers stop at 2^31, so the width  *)
(* is a constant: a run uses a narrow word, in which the same products    *)
(* and differences wrap as they do at 32 bits.                            *)
(*                                                                         *)
(* The engine evaluates should_send_heartbeat() and get_next_period() on  *)
(* whatever the clock and the configuration return at that moment         *)
(* (spec.md section 5: configuration may change between reads).  A state *)
(* is one such evaluation; a step is the next one, on new inputs.         *)
(***************************************************************************)
EXTENDS Integers

CONSTANTS
  Width,          \* bits of uint32_t in the model
  TimeMax,        \* largest time() value considered
  TxTimeout,      \* OCPP_DEFAULT_TX_TIMEOUT_SEC
  TxMsgAttempts   \* the configured TransactionMessageAttempts

UMax == 2 ^ Width
UInt == 0 .. UMax - 1          \* the values of a uint32_t

(* A conversion to uint32_t: reduction modulo 2^Width.                  *)
U32(x) == x % UMax

(* The three branches of get_next_period(): a transaction message backs  *)
(* off TransactionMessageRetryInterval * attempts, computed in uint32_t;  *)
(* BootNotification and Heartbeat wait HeartbeatInterval; the others the *)
(* default timeout.  The interval is added to the time_t now unwrapped.  *)
MsgClasses == {"transaction", "boot_or_heartbeat", "other"}
GetNextPeriod(class, attempts, now, retryCfg, hbCfg) ==
  now + CASE class = "transaction"       -> U32(retryCfg * attempts)
          [] class = "boot_or_heartbeat" -> hbCfg
          [] OTHER                       -> TxTimeout

(* should_send_heartbeat(): idle means the ready and wait lists are      *)
(* empty.  elapsed is (uint32_t)(now - m.tx.timestamp).                   *)
ShouldSendHeartbeat(now, stamp, interval, idle) ==
  /\ interval # 0
  /\ U32(now - stamp) >= interval
  /\ idle

-----------------------------------------------------------------------------
(* Inputs.  stamp is m.tx.timestamp: the now of ocpp_init() or of the   *)
(* step that received the last answer (update_last_tx_timestamp).  A     *)
(* stamp later than now is a clock that time() reports as set back since.*)
(* Configuration values are any uint32_t the central system may set; the *)
(* reads succeed.  A CALLERROR back-off happens for attempts in           *)
(* 1 .. TransactionMessageAttempts - 1 (process_central_response).        *)
VARIABLES now, stamp, hbCfg, retryCfg, attempts, idle, class
vars == <<now, stamp, hbCfg, retryCfg, attempts, idle, class>>

Inputs ==
  /\ now \in 0 .. TimeMax
  /\ stamp \in 0 .. TimeMax
  /\ hbCfg \in UInt
  /\ retryCfg \in UInt
  /\ attempts \in 1 .. TxMsgAttempts - 1
  /\ idle \in BOOLEAN
  /\ class \in MsgClasses

Init == Inputs

(* The next ocpp_step() reads the clock and the configuration again.     *)
Evaluate == Inputs'

Spec == Init /\ [][Evaluate]_vars

(* The intervals the code computes with in this evaluation.               *)
NextPeriod(a) == GetNextPeriod(class, a, now, retryCfg, hbCfg)
HeartbeatDecision == ShouldSendHeartbeat(now, stamp, hbCfg, idle)

-----------------------------------------------------------------------------
(* spec.md section 5 promises a linear back-off, TransactionMessage-     *)
(* RetryInterval x attempts, for a transaction message answered with      *)
(* CALLERROR: the next back-off of get_next_period() is never shorter    *)
(* than this one.                                                        *)
BackoffNeverShrinks ==
  (class = "transaction" /\ attempts + 1 < TxMsgAttempts) =>
    NextPeriod(attempts) <= NextPeriod(attempts + 1)

(* should_send_heartbeat() creates a Heartbeat only once HeartbeatInterval*)
(* seconds have passed on the clock since the last answer (spec.md        *)
(* section 8, scenario 3: elapsed >= H), also after the clock is set back.*)
HeartbeatOnlyWhenDue ==
  HeartbeatDecision => now - stamp >= hbCfg

=============================================================================
