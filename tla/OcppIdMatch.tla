------------------------------ MODULE OcppIdMatch ------------------------------
(***************************************************************************)
(* The engine of OcppCore with a transport that may hand ocpp_step() a   *)
(* response whose id is empty: process_incoming_messages() starts from a *)
(* zeroed struct ocpp_message, so a CALLRESULT or CALLERROR whose id the *)
(* transport did not fill in (a malformed frame, or one the central      *)
(* system sent without a unique id) reaches find_msg_by_idstr() with     *)
(* id "".                                                                 *)
(***************************************************************************)
EXTENDS OcppCore

(* A response with an empty id arrives from the link.                   *)
ServerRespondEmptyId(role) ==
  /\ Cardinality(net) < NetCap
  /\ Environment(net \cup {Frame(role, EmptyId, NoType)}, delivered)

IdMatchNext ==
  \/ Next
  \/ \E role \in {"CALLRESULT", "CALLERROR"} : ServerRespondEmptyId(role)

IdMatchSpec == Init /\ [][IdMatchNext]_vars

(* spec.md section 4.4 ("the stored id is the authoritative length") and *)
(* section 9: a response only completes the request whose id it carries; *)
(* a response with an empty id matches no request and is discarded with  *)
(* ENOLINK, instead of freeing whatever request is waiting.              *)
OnlyOwnResponseAnswers ==
  [][\A f \in net \ net' : f.id = EmptyId =>
                             \A g \in freed' : g.cause # "answered"]_vars

=============================================================================
