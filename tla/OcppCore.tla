------------------------------ MODULE OcppCore ------------------------------
(***************************************************************************)
(* The client-side OCPP message engine of src/src/ocpp.c: the fixed pool  *)
(* of message slots, the ready / wait / timer lists threaded through it,  *)
(* the dispatcher ocpp_step() with its ingress router, and the public     *)
(* push API.  The environment is an unreliable transport (send may fail,  *)
(* frames may be lost or reordered) and a central system that answers    *)
(* delivered CALLs late, never, or with a CALLERROR, and sends CALLs of   *)
(* its own.                                                               *)
(*                                                                         *)
(* Time is kept relative: a slot's expiry is the number of seconds left   *)
(* until its deadline (expiry - now in the code) and the two timestamps  *)
(* are the seconds elapsed since them, capped at HeartbeatInterval, the   *)
(* only value they are compared with.  Tick advances the clock by one    *)
(* second between steps; several steps may run within one second.       *)
(*                                                                         *)
(* Message ids: the id of an outbound CALL is abstracted as the number of *)
(* the slot it was generated for.  Ids are unique among live slots (the   *)
(* code draws 20 random characters), and when a CALL slot is freed every *)
(* reference to its id still in the network becomes Stale, an id that    *)
(* matches no slot: exactly the fate of an id that is never drawn again. *)
(***************************************************************************)
EXTENDS Integers, Sequences, SequencesExt, FiniteSets

CONSTANTS
  PoolLen,            \* OCPP_TX_POOL_LEN
  TxRetries,          \* OCPP_DEFAULT_TX_RETRIES
  TxTimeout,          \* OCPP_DEFAULT_TX_TIMEOUT_SEC
  HeartbeatInterval,  \* configuration "HeartbeatInterval"
  TxMsgAttempts,      \* configuration "TransactionMessageAttempts"
  TxMsgRetryInterval, \* configuration "TransactionMessageRetryInterval"
  RequestTypes,       \* action types the application pushes
  CentralTypes,       \* action types of CALLs sent by the central system
  CentralIds,         \* ids the central system gives its CALLs
  DeferTimes,         \* timer_sec values passed to ocpp_push_request_defer
  NetCap              \* bound on frames travelling towards the client

ASSUME /\ PoolLen \in Nat \ {0}
       /\ TxRetries \in Nat /\ TxTimeout \in Nat \ {0}
       /\ HeartbeatInterval \in Nat
       /\ TxMsgAttempts \in Nat /\ TxMsgRetryInterval \in Nat
       /\ DeferTimes \subseteq Nat /\ NetCap \in Nat \ {0}

Slots == 1 .. PoolLen

(* Message roles of ocpp_message_role_t; ALLOC never outlives the locked  *)
(* new_message() that sets it, so no state shows it.                      *)
Roles == {"NONE", "CALL", "CALLRESULT", "CALLERROR"}

BootNotification == "BootNotification"
Heartbeat        == "Heartbeat"
NoType           == "None"     \* the type of a zeroed slot
TransactionTypes == {"StartTransaction", "StopTransaction", "MeterValues"}
Types == RequestTypes \cup CentralTypes \cup {BootNotification, Heartbeat}

Stale == 0                     \* an id no live slot carries
EmptyId == -1                  \* an id of length 0, as in a zeroed frame
CallIds == Slots
Ids == CallIds \cup {Stale} \cup CentralIds

(* The counter attempts only ever meets TxRetries and TxMsgAttempts, and  *)
(* past both of them every comparison has the same outcome, so it         *)
(* saturates there; below the cap it is exact (it also scales the         *)
(* CALLERROR back-off, which is only taken below TxMsgAttempts).          *)
AttemptsCap == IF TxRetries > TxMsgAttempts THEN TxRetries ELSE TxMsgAttempts
MaxExpiry == LET ds == DeferTimes \cup {TxTimeout, HeartbeatInterval,
                                       TxMsgRetryInterval * AttemptsCap}
             IN CHOOSE d \in ds : \A e \in ds : d >= e

Frame(role, id, type) == [role |-> role, id |-> id, type |-> type]
FreeSlot == [role |-> "NONE", type |-> NoType, id |-> Stale,
             attempts |-> 0, expiry |-> 0]

VARIABLES
  pool,       \* m.tx.pool: the message slots
  ready,      \* m.tx.ready: slot numbers in list order
  wait,       \* m.tx.wait
  timer,      \* m.tx.timer
  txElapsed,  \* now - m.tx.timestamp, capped at HeartbeatInterval
  rxElapsed,  \* now - m.rx.timestamp, capped at HeartbeatInterval
  pc,         \* "idle": no step running; "recv": step blocked in ocpp_recv
  net,        \* frames sent by the central system not yet received
  delivered,  \* ids of CALLs the central system received and not answered
  inbox,      \* central CALLs handed to the application, not yet answered
  freed,      \* history: the MESSAGE_FREE events of the last action
  heartbeat   \* history: whether the last action created a Heartbeat

engine == <<pool, ready, wait, timer, txElapsed, rxElapsed>>
vars == <<engine, pc, net, delivered, inbox, freed, heartbeat>>

(* The working state a step threads through the functions it calls.     *)
W == [pool |-> pool, ready |-> ready, wait |-> wait, timer |-> timer,
      txElapsed |-> txElapsed, rxElapsed |-> rxElapsed, net |-> net,
      delivered |-> delivered, inbox |-> inbox, freed |-> {}, hb |-> FALSE]

(* The result of a step becomes the next state; it is bound once, so   *)
(* that the function chain is evaluated once and not per variable.      *)
Commit(result) ==
  \E w \in {result} :
    /\ pool' = w.pool /\ ready' = w.ready /\ wait' = w.wait /\ timer' = w.timer
    /\ txElapsed' = w.txElapsed /\ rxElapsed' = w.rxElapsed
    /\ net' = w.net /\ delivered' = w.delivered /\ inbox' = w.inbox
    /\ freed' = w.freed /\ heartbeat' = w.hb

-----------------------------------------------------------------------------
(* Pool, lists and message classification                                *)

NULL == "NULL"                 \* the id argument of new_message() for a CALL

IsTransactionRelated(msg) == msg.type \in TransactionTypes

(* BootNotification and transaction-related messages are never dropped. *)
IsDroppable(msg) == ~IsTransactionRelated(msg) /\ msg.type # BootNotification

(* Mutant: the drop decision forgets the message class.                 *)
ShouldDropAnyClass(msg) == msg.attempts >= TxRetries

ShouldDrop(msg) == IsDroppable(msg) /\ msg.attempts >= TxRetries

(* alloc_message(): the first slot whose role is NONE, 0 when none is.   *)
AllocMessage(w) ==
  LET free == {i \in Slots : w.pool[i].role = "NONE"}
  IN IF free = {} THEN 0 ELSE Min(free)

(* free_message(): MESSAGE_FREE goes to the application, then the slot  *)
(* is zeroed.  A freed CALL's id can never match again.                 *)
FreeMessage(w, i, cause) ==
  LET msg == w.pool[i]
      gone(id) == IF msg.role = "CALL" /\ id = msg.id THEN Stale ELSE id
  IN [w EXCEPT !.pool[i] = FreeSlot,
               !.net = {[f EXCEPT !.id = gone(f.id)] : f \in @},
               !.delivered = {gone(d) : d \in @},
               !.freed = @ \cup {[slot |-> i, role |-> msg.role,
                                  type |-> msg.type, cause |-> cause]}]

(* new_message(): a CALL gets a fresh id, a response the request's id.  *)
NewMessage(w, id, type, err) ==
  LET i == AllocMessage(w)
      role == IF id = NULL THEN "CALL"
              ELSE IF err THEN "CALLERROR" ELSE "CALLRESULT"
  IN IF i = 0 THEN [w |-> w, slot |-> 0]
     ELSE [w |-> [w EXCEPT !.pool[i] =
                    [role |-> role, type |-> type, attempts |-> 0, expiry |-> 0,
                     id |-> IF id = NULL THEN i ELSE id]],
           slot |-> i]

(* put_msg_ready / put_msg_wait / put_msg_timer: add_last_to_list() on  *)
(* the list named by the field list.                                     *)
PutMsg(w, list, i) == [w EXCEPT ![list] = Append(@, i)]

(* del_msg_ready / del_msg_wait / del_msg_timer: del_from_list().       *)
DelMsg(w, list, i) == [w EXCEPT ![list] = Remove(@, i)]

(* count_messages_ready / count_messages_waiting / count_messages_ticking.*)
CountMessages(w, list) == Len(w[list])

(* Mutant: a retried message goes to the head of the ready list, as the  *)
(* name add_first_to_list() and spec.md section 9 suggest.              *)
PutMsgReadyAtHead(w, i) == [w EXCEPT !.ready = <<i>> \o @]

(* put_msg_ready_infront(): add_first_to_list() calls list_add_tail(). *)
PutMsgReadyInfront(w, i) == [w EXCEPT !.ready = Append(@, i)]

(* push_message(): list is the field of the list put_msg_* appends to.  *)
PushMessage(w, id, type, expiry, list, err) ==
  LET n == NewMessage(w, id, type, err)
  IN IF n.slot = 0 THEN [w |-> w, rc |-> "ENOMEM"]
     ELSE [w |-> PutMsg([n.w EXCEPT !.pool[n.slot].expiry = expiry], list, n.slot),
           rc |-> "OK"]

(* The comparison of find_msg_by_idstr(): memcmp() over strlen() of the *)
(* incoming id, so the empty id matches every stored id; distinct ids of *)
(* full length never match.                                              *)
IdPrefixMatches(incoming, stored) == incoming = EmptyId \/ incoming = stored

(* find_msg_by_idstr(): the first slot of the list the id matches.      *)
FindMsgByIdstr(w, list, id) ==
  LET k == SelectInSeq(w[list], LAMBDA j : IdPrefixMatches(id, w.pool[j].id))
  IN IF k = 0 THEN 0 ELSE w[list][k]

-----------------------------------------------------------------------------
(* Dispatcher: the functions ocpp_step() calls, as state transformers   *)

(* get_retry_interval(): seconds until an unanswered send is retried.   *)
GetRetryInterval(msg) == TxTimeout

(* get_next_period(): seconds until a message the central system       *)
(* rejected is sent again; linear back-off for transaction messages.    *)
GetNextPeriod(msg) ==
  CASE IsTransactionRelated(msg) -> TxMsgRetryInterval * msg.attempts
    [] msg.type \in {BootNotification, Heartbeat} -> HeartbeatInterval
    [] OTHER -> TxTimeout

SendMessage(w, i, ok) ==
  LET msg == [w.pool[i] EXCEPT !.attempts = IF @ < AttemptsCap THEN @ + 1 ELSE @,
                               !.expiry = GetRetryInterval(w.pool[i])]
      w1 == DelMsg([w EXCEPT !.pool[i] = msg], "ready", i)
  IN IF ok
     THEN IF msg.role = "CALL"
          THEN [PutMsg(w1, "wait", i) EXCEPT !.delivered = @ \cup {msg.id}]
          ELSE FreeMessage(w1, i, "sent")
     ELSE IF \/ msg.attempts < TxRetries
             \/ IsTransactionRelated(msg)
             \/ msg.type = BootNotification
          THEN PutMsg(w1, "wait", i)
          ELSE FreeMessage(w1, i, "sendfail")

(* Mutant: a timed-out message is always retried, should_drop() unused.*)
ProcessTxTimeoutNoDrop(w) ==
  LET sweep(acc, i) ==
        IF acc.pool[i].expiry > 0 THEN acc
        ELSE PutMsgReadyInfront(DelMsg(acc, "wait", i), i)
  IN FoldLeft(sweep, w, w.wait)

ProcessTxTimeout(w) ==
  LET sweep(acc, i) ==
        IF acc.pool[i].expiry > 0 THEN acc
        ELSE LET a == DelMsg(acc, "wait", i)
             IN IF ShouldDrop(a.pool[i]) THEN FreeMessage(a, i, "timeout")
                ELSE PutMsgReadyInfront(a, i)
  IN FoldLeft(sweep, w, w.wait)

(* Mutant: the -EBUSY gate on a waiting CALL is missing.                *)
ProcessQueuedMessagesNoGate(w, ok) ==
  LET t == ProcessTxTimeout(w)
  IN IF CountMessages(t, "ready") = 0 THEN t ELSE SendMessage(t, Head(t.ready), ok)

(* Mutant: the -EBUSY gate is checked before the timeout sweep.        *)
ProcessQueuedMessagesGateFirst(w, ok) ==
  IF CountMessages(w, "wait") > 0 THEN w
  ELSE LET t == ProcessTxTimeout(w)
       IN IF CountMessages(t, "ready") = 0 THEN t ELSE SendMessage(t, Head(t.ready), ok)

(* Timeout sweep, then at most one send, and none while a CALL waits.   *)
ProcessQueuedMessages(w, ok) ==
  LET t == ProcessTxTimeout(w)
  IN IF CountMessages(t, "wait") > 0 \/ CountMessages(t, "ready") = 0 THEN t
     ELSE SendMessage(t, Head(t.ready), ok)

(* Mutant: elapsed must exceed the interval, not reach it.              *)
ShouldSendHeartbeatStrict(w) ==
  /\ HeartbeatInterval # 0
  /\ w.txElapsed > HeartbeatInterval
  /\ CountMessages(w, "ready") = 0
  /\ CountMessages(w, "wait") = 0

ShouldSendHeartbeat(w) ==
  /\ HeartbeatInterval # 0
  /\ w.txElapsed >= HeartbeatInterval
  /\ CountMessages(w, "ready") = 0
  /\ CountMessages(w, "wait") = 0

ProcessPeriodicMessages(w, ok) ==
  IF ~ShouldSendHeartbeat(w) THEN w
  ELSE LET n == NewMessage(w, NULL, Heartbeat, FALSE)
       IN IF n.slot = 0 THEN w
          ELSE ProcessQueuedMessages([PutMsg(n.w, "ready", n.slot) EXCEPT !.hb = TRUE], ok)

(* Mutant: a due deferred message jumps the ready list.                 *)
ProcessTimerMessagesAtHead(w) ==
  LET promote(acc, i) ==
        IF acc.pool[i].expiry > 0 THEN acc
        ELSE [DelMsg(acc, "timer", i) EXCEPT !.ready = <<i>> \o @]
  IN FoldLeft(promote, w, w.timer)

ProcessTimerMessages(w) ==
  LET promote(acc, i) ==
        IF acc.pool[i].expiry > 0 THEN acc
        ELSE PutMsg(DelMsg(acc, "timer", i), "ready", i)
  IN IF CountMessages(w, "timer") = 0 THEN w ELSE FoldLeft(promote, w, w.timer)

-----------------------------------------------------------------------------
(* Ingress router                                                        *)

ProcessCentralResponse(w, f, i) ==
  LET a == DelMsg(w, "wait", i)
      msg == a.pool[i]
  IN IF /\ f.role = "CALLERROR"
        /\ IsTransactionRelated(msg)
        /\ msg.attempts < TxMsgAttempts
     THEN PutMsg([a EXCEPT !.pool[i].expiry = GetNextPeriod(msg)], "wait", i)
     ELSE FreeMessage(a, i, "answered")

(* update_last_tx_timestamp / update_last_rx_timestamp: the timestamp  *)
(* becomes now, so the elapsed time becomes 0.                           *)
UpdateLastTxTimestamp(w) == [w EXCEPT !.txElapsed = 0]
UpdateLastRxTimestamp(w) == [w EXCEPT !.rxElapsed = 0]

(* Mutant: CALLRESULT and CALLERROR fall into the CALL case and go to  *)
(* the application as requests, unmatched.                              *)
ProcessIncomingMessagesAsRequests(w, f) ==
  IF f.role \in {"CALL", "CALLRESULT", "CALLERROR"}
  THEN [w EXCEPT !.rxElapsed = 0, !.inbox = @ \cup {f}]
  ELSE w

(* f is what ocpp_recv() produced: a frame, or ENOMSG / EIO / a frame   *)
(* of invalid role, after which only the error event is dispatched.  The *)
(* RX timestamp is updated when the switch leaves err = 0: on a CALL and  *)
(* on a matched answer, not on -ENOLINK.                                  *)
ProcessIncomingMessages(w, f) ==
  CASE f.role = "CALL" ->
         UpdateLastRxTimestamp([w EXCEPT !.inbox = @ \cup {f}])
    [] f.role \in {"CALLRESULT", "CALLERROR"} ->
         LET i == FindMsgByIdstr(w, "wait", f.id)
         IN IF i = 0 THEN w      \* -ENOLINK
            ELSE UpdateLastRxTimestamp(
                   UpdateLastTxTimestamp(ProcessCentralResponse(w, f, i)))
    [] OTHER -> w

NoMessage    == Frame("ENOMSG", Stale, NoType)
RecvError    == Frame("EIO", Stale, NoType)
InvalidFrame == Frame("INVALID", Stale, NoType)

-----------------------------------------------------------------------------
(* Actions.  ocpp_step() holds the lock except inside ocpp_recv() (and  *)
(* the event callback), so it is two atomic halves: StepBegin runs      *)
(* process_queued_messages() and StepEnd the rest.  The application's   *)
(* calls take the lock, so they run between the halves or between steps.*)

StepBegin ==
  /\ pc = "idle"
  /\ pc' = "recv"
  /\ \E ok \in BOOLEAN : Commit(ProcessQueuedMessages(W, ok))

StepEnd ==
  /\ pc = "recv"
  /\ pc' = "idle"
  /\ \E f \in net \cup {NoMessage, RecvError, InvalidFrame}, ok \in BOOLEAN :
       LET w1 == ProcessIncomingMessages([W EXCEPT !.net = @ \ {f}], f)
       IN Commit(ProcessTimerMessages(ProcessPeriodicMessages(w1, ok)))

EvictionProtected == {BootNotification, "StartTransaction", "StopTransaction"}

(* Mutant: the evicted message is freed but not unlinked from ready.    *)
RemoveOldestNoDel(w) ==
  LET k == SelectInSeq(w.ready, LAMBDA j : w.pool[j].type \notin EvictionProtected)
  IN IF k = 0 THEN w ELSE FreeMessage(w, w.ready[k], "evict")

(* remove_oldest(): free the first ready message not protected.          *)
RemoveOldest(w) ==
  LET k == SelectInSeq(w.ready, LAMBDA j : w.pool[j].type \notin EvictionProtected)
  IN IF k = 0 THEN w
     ELSE FreeMessage(DelMsg(w, "ready", w.ready[k]), w.ready[k], "evict")

PushRequest(type, force) ==
  LET r == PushMessage(W, NULL, type, 0, "ready", FALSE)
  IN /\ Commit(IF r.rc = "OK" \/ ~force THEN r.w
               ELSE PushMessage(RemoveOldest(W), NULL, type, 0, "ready", FALSE).w)
     /\ UNCHANGED pc

PushRequestDefer(type, sec) ==
  /\ Commit(PushMessage(W, NULL, type, sec,
                        IF sec = 0 THEN "ready" ELSE "timer", FALSE).w)
  /\ UNCHANGED pc

PushResponse(req, err) ==
  LET r == PushMessage(W, req.id, req.type, 0, "ready", err)
  IN /\ Commit([r.w EXCEPT !.inbox = IF r.rc = "OK" THEN @ \ {req} ELSE @])
     /\ UNCHANGED pc

CapElapsed(e) == IF e < HeartbeatInterval THEN e + 1 ELSE HeartbeatInterval

(* One second of wall-clock time passes between two steps.              *)
Tick ==
  /\ pc = "idle"
  /\ pool' = [i \in Slots |-> [pool[i] EXCEPT !.expiry = IF @ > 0 THEN @ - 1 ELSE 0]]
  /\ txElapsed' = CapElapsed(txElapsed)
  /\ rxElapsed' = CapElapsed(rxElapsed)
  /\ freed' = {} /\ heartbeat' = FALSE
  /\ UNCHANGED <<ready, wait, timer, pc, net, delivered, inbox>>

(* The central system and the transport between it and the client.      *)
Environment(netNext, deliveredNext) ==
  /\ net' = netNext /\ delivered' = deliveredNext
  /\ freed' = {} /\ heartbeat' = FALSE
  /\ UNCHANGED <<engine, pc, inbox>>

ServerRespond(id, role) ==
  /\ Cardinality(net) < NetCap
  /\ Environment(net \cup {Frame(role, id, NoType)}, delivered \ {id})

ServerIgnore(id) == Environment(net, delivered \ {id})

ServerCall(cid, type) ==
  /\ Cardinality(net) < NetCap
  /\ \A f \in net \cup inbox : f.id # cid
  /\ Environment(net \cup {Frame("CALL", cid, type)}, delivered)

FrameLost(f) == Environment(net \ {f}, delivered)

-----------------------------------------------------------------------------

Init ==
  /\ pool = [i \in Slots |-> FreeSlot]
  /\ ready = <<>> /\ wait = <<>> /\ timer = <<>>
  /\ txElapsed = 0 /\ rxElapsed = 0
  /\ pc = "idle"
  /\ net = {} /\ delivered = {} /\ inbox = {}
  /\ freed = {} /\ heartbeat = FALSE

Next ==
  \/ StepBegin
  \/ StepEnd
  \/ Tick
  \/ \E type \in RequestTypes, force \in BOOLEAN : PushRequest(type, force)
  \/ \E type \in RequestTypes, sec \in DeferTimes : PushRequestDefer(type, sec)
  \/ \E req \in inbox, err \in BOOLEAN : PushResponse(req, err)
  \/ \E id \in delivered, role \in {"CALLRESULT", "CALLERROR"} : ServerRespond(id, role)
  \/ \E id \in delivered : ServerIgnore(id)
  \/ \E cid \in CentralIds, type \in CentralTypes : ServerCall(cid, type)
  \/ \E f \in net : FrameLost(f)

(* The host calls ocpp_step() periodically and ocpp_recv() returns, so  *)
(* both halves are weakly fair; time passes whatever the program does,  *)
(* so Tick, enabled again after every step, is strongly fair.  Nothing  *)
(* obliges the application or the central system to act.               *)
(* StepEnd is the only action that leaves pc = "recv" and it is enabled *)
(* in every state with pc = "recv" (ocpp_recv() may return ENOMSG), so  *)
(* its weak fairness is stated through that change of pc, which TLC     *)
(* decides without evaluating the step.                                 *)
RecvReturns == pc = "recv" /\ pc' = "idle"

Spec == Init /\ [][Next]_vars /\ WF_vars(StepBegin) /\ WF_pc(RecvReturns) /\ SF_vars(Tick)

-----------------------------------------------------------------------------
(* Properties                                                            *)

Slot == [role : Roles, type : Types \cup {NoType}, id : Ids,
         attempts : 0 .. AttemptsCap, expiry : 0 .. MaxExpiry]

TypeOK ==
  /\ pool \in [Slots -> Slot]
  /\ \A l \in {ready, wait, timer} : l \in Seq(Slots)
  /\ txElapsed \in 0 .. HeartbeatInterval /\ rxElapsed \in 0 .. HeartbeatInterval
  /\ pc \in {"idle", "recv"}
  /\ delivered \subseteq CallIds \cup {Stale}
  /\ Cardinality(net) <= NetCap
  /\ inbox \subseteq [role : {"CALL"}, id : CentralIds, type : CentralTypes]
  /\ freed \subseteq [slot : Slots, role : Roles \ {"NONE"}, type : Types,
                     cause : {"sent", "sendfail", "timeout", "answered", "evict"}]
  /\ heartbeat \in BOOLEAN

(* Serialisation (process_queued_messages): at most one CALL is ever    *)
(* in flight, across the timeout sweep, the heartbeat path that sends   *)
(* from inside ocpp_step() a second time, and the CALLERROR back-off    *)
(* that puts a transaction message back into the wait list.             *)
SerializedInFlight == Len(wait) <= 1

(* Pool and lists agree (alloc_message / free_message / the list moves): *)
(* a slot is live exactly when it sits in exactly one of the ready, wait *)
(* and timer lists, and no list holds a slot twice; otherwise a slot    *)
(* leaks, or a zeroed slot is still sent or handed out twice.  It is    *)
(* stated for the states this module has: between engine calls, with    *)
(* the lock free.  Inside free_message(), dispatch_event() unlocks       *)
(* around the MESSAGE_FREE callback while the slot is live and already   *)
(* unlinked (ocpp.c:150-152); that window is not a state here, and there *)
(* this property does not hold.                                           *)
PoolListsConsistent ==
  LET lists == <<ready, wait, timer>>
  IN /\ \A k \in 1 .. 3 : Len(lists[k]) = Cardinality(ToSet(lists[k]))
     /\ \A i \in Slots :
          (pool[i].role # "NONE") <=> (Cardinality({k \in 1 .. 3 : i \in ToSet(lists[k])}) = 1)

(* Retry and eviction policy (send_message / process_tx_timeout /       *)
(* should_drop / remove_oldest): a BootNotification or transaction-       *)
(* related request is never dropped because its sends failed or its     *)
(* answer timed out, however many attempts it has made; and the eviction*)
(* of a forced push never frees a BootNotification, StartTransaction or *)
(* StopTransaction (spec.md invariant 6), even when one is at the head  *)
(* of ready and everything behind it is a response or another request.  *)
NeverDropsUndroppable ==
  \A f \in freed :
     /\ f.role = "CALL" /\ f.cause \in {"timeout", "sendfail"} => IsDroppable(f)
     /\ f.cause = "evict" => f.type \notin EvictionProtected

(* The data model of spec.md (section 3, invariant 5): BootNotification *)
(* and transaction-related requests are never freed except on an answer *)
(* from the central system, in particular not by the eviction of a      *)
(* forced ocpp_push_request().  spec.md section 4.5, invariant 6 and the *)
(* note in ocpp.h give remove_oldest() a narrower exemption, so the     *)
(* spec disagrees with itself about MeterValues.                         *)
UndroppableOnlyFreedWhenAnswered ==
  \A f \in freed : f.role = "CALL" /\ ~IsDroppable(f) => f.cause = "answered"

(* The heartbeat tests of core_test.cpp (ShouldNotSendHeartBeat_When-   *)
(* ReceivedMessageWithinInterval): a Heartbeat is only created when     *)
(* nothing has been received for HeartbeatInterval seconds either.      *)
HeartbeatRespectsRx == heartbeat => rxElapsed >= HeartbeatInterval

(* No starvation (put_msg_ready_infront / process_queued_messages): a    *)
(* request in the ready list is eventually sent or evicted, even while  *)
(* a BootNotification ahead of it fails to be sent for ever.  A forced  *)
(* push may evict it and reuse its slot within one step, so being freed *)
(* counts as leaving.                                                   *)
FreedNow(i) == \E f \in freed : f.slot = i

ReadyEventuallyLeaves ==
  \A i \in Slots : (i \in ToSet(ready)) ~> (i \notin ToSet(ready) \/ FreedNow(i))

(* The busy gate reopens (process_tx_timeout / process_queued_messages /*)
(* send_message / process_central_response): a CALL in the wait list,    *)
(* which keeps every other request from being sent, does not stay there *)
(* untouched: it is eventually answered, dropped, moved back to ready,  *)
(* or sent again or backed off with a new deadline; also after a        *)
(* CALLERROR has put a transaction message back into wait without       *)
(* resending it, and whether or not the central system ever answers.    *)
WaitProgress(i) ==
  \/ i \notin ToSet(wait')
  \/ \E f \in freed' : f.slot = i
  \/ pool'[i].expiry > pool[i].expiry

InFlightEventuallyResolved ==
  \A i \in Slots : []<><<i \notin ToSet(wait) \/ WaitProgress(i)>>_vars

(* Drop policy (should_drop / send_message / process_central_response): *)
(* every droppable request is eventually freed, so it gives its slot    *)
(* back, whether or not the central system ever answers.  The run has   *)
(* no central CALLs, so responses are not in its reach.                 *)
DroppableEventuallyFreed ==
  \A i \in Slots : (pool[i].role # "NONE" /\ IsDroppable(pool[i]))
                     ~> FreedNow(i)


(* Heartbeat duty (should_send_heartbeat / process_periodic_messages):  *)
(* once HeartbeatInterval has passed with the ready and wait lists      *)
(* empty, a Heartbeat is eventually created, unless a request enters    *)
(* the lists first.  A pool filled with deferred messages makes         *)
(* new_message() fail with -ENOMEM; this only delays the Heartbeat       *)
(* until the timer list drains.                                          *)
HeartbeatEventuallyWhenIdle ==
  (HeartbeatInterval # 0 /\ txElapsed >= HeartbeatInterval
     /\ ready = <<>> /\ wait = <<>>)
    ~> (heartbeat \/ ready # <<>> \/ wait # <<>>)

=============================================================================
