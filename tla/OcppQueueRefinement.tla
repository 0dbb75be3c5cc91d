------------------------- MODULE OcppQueueRefinement -------------------------
(***************************************************************************)
(* OcppCore implements RequestQueue.  The refinement mapping reads the    *)
(* service order of the requests off the engine: the wait list (the CALL  *)
(* in flight, or waiting to be retried) followed by the ready list, CALLs *)
(* only; responses, deferred requests in the timer list and free slots    *)
(* are not in the queue.  A request departs when free_message() fires    *)
(* MESSAGE_FREE for its slot.                                             *)
(***************************************************************************)
EXTENDS OcppCore

ServiceOrder == SelectSeq(wait \o ready, LAMBDA i : pool[i].role = "CALL")

Departed == {f.slot : f \in {g \in freed : g.role = "CALL"}}

(* The queue discipline of the code: add_first_to_list() appends, so a  *)
(* retried request goes behind the others.                               *)
Code == INSTANCE RequestQueue
          WITH Items <- Slots, RetryAtTail <- TRUE,
               queue <- ServiceOrder, gone <- Departed

(* The discipline of spec.md section 5: "retries that are reinserted via *)
(* push_head take priority over fresh Ready entries".                    *)
Documented == INSTANCE RequestQueue
                WITH Items <- Slots, RetryAtTail <- FALSE,
                     queue <- ServiceOrder, gone <- Departed

(* FIFO service (put_msg_ready, put_msg_ready_infront, process_queued_  *)
(* messages, process_timer_messages, remove_oldest): requests are sent *)
(* in the order they joined the ready list, a retried request goes to   *)
(* the back, and a request only leaves through MESSAGE_FREE.             *)
ServesInPushOrder == Code!Spec

(* spec.md section 5: a retried request keeps its place at the front.   *)
RetryKeepsPriority == Documented!Spec

=============================================================================
