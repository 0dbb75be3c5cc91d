----------------------------- MODULE RequestQueue -----------------------------
(***************************************************************************)
(* What the OCPP engine promises about the order in which it serves the   *)
(* requests (CALLs) the application pushes, stated without pool, lists,   *)
(* clocks or transport (spec.md section 5, "Ordering guarantees").        *)
(*                                                                         *)
(* queue holds the outstanding requests in the order they will be served, *)
(* the one in flight first.  A step of the engine may                     *)
(*   - let requests depart (answered, dropped or evicted), from anywhere; *)
(*   - send the one in flight to the back of the queue when it is retried *)
(*     (RetryAtTail) or leave it at the front (otherwise);                *)
(*   - let new requests join at the back, in any order among themselves. *)
(* Nothing else reorders the queue, and no request vanishes without a     *)
(* departure.  gone records the departures of the last step, so that an  *)
(* item that departed may join again as a new request.                    *)
(***************************************************************************)
EXTENDS Sequences, SequencesExt, FiniteSets

CONSTANTS
  Items,        \* identities of requests
  RetryAtTail   \* whether a retried request goes behind the others

VARIABLES queue, gone

vars == <<queue, gone>>

Init == queue = <<>> /\ gone = {}

(* The orders a step may start from: as is, or with the request in      *)
(* flight moved to the back for a retry.                                 *)
Retried(q) == Tail(q) \o <<Head(q)>>
Orders(q) == IF RetryAtTail /\ q # <<>> THEN {q, Retried(q)} ELSE {q}

(* kept is what stays of base, in base's order.                          *)
KeptInOrder(kept, base) == kept = SelectSeq(base, LAMBDA x : x \in ToSet(kept))

(* One step of the engine: departures, at most one retry, then joins.   *)
Step ==
  /\ gone' \subseteq Items
  /\ queue' \in Seq(Items)
  /\ IsInjective(queue')
  /\ \E base \in Orders(queue), k \in 0 .. Len(queue') :
       LET kept  == SubSeq(queue', 1, k)
           fresh == SubSeq(queue', k + 1, Len(queue'))
       IN /\ KeptInOrder(kept, base)
          /\ ToSet(queue) \ ToSet(kept) \subseteq gone'
          /\ ToSet(fresh) \cap (ToSet(queue) \ gone') = {}

Spec == Init /\ [][Step]_vars

=============================================================================
