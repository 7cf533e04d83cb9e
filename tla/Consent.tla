------------------------------ MODULE Consent ------------------------------
(***************************************************************************)
(* What a support request promises, without database, clock or handlers.  *)
(*                                                                         *)
(* A request is a ticket with a current phase and the acts recorded for it *)
(* in the audit log.  Two promises are stated over the same two variables: *)
(*                                                                         *)
(*   StrictSpec  the phase moves only along Follows: a refusal, an expiry  *)
(*               or an end is final.                                       *)
(*   LedgerSpec  weaker: every phase a request ever takes was recorded, and *)
(*               only after the phase it has to follow was recorded.  Two  *)
(*               concurrent handlers may overwrite each other's phase.     *)
(***************************************************************************)
EXTENDS Naturals

CONSTANT Requests

VARIABLES phase, acts

Phases == {"none", "pending", "accepted", "denied", "expired", "ended"}

Follows ==
  { <<"none", "pending">>, <<"pending", "accepted">>, <<"pending", "denied">>,
    <<"pending", "expired">>, <<"accepted", "ended">> }

Init ==
  /\ phase = [r \in Requests |-> "none"]
  /\ acts = [r \in Requests |-> {"none"}]

\* The request takes phase p and the act is recorded with it.
Record(r, p) ==
  /\ phase' = [phase EXCEPT ![r] = p]
  /\ acts' = [acts EXCEPT ![r] = @ \cup {p}]

StrictNext ==
  \E r \in Requests, p \in Phases :
    <<phase[r], p>> \in Follows /\ Record(r, p)

LedgerNext ==
  \E r \in Requests, p \in Phases :
    (\E q \in acts[r] : <<q, p>> \in Follows) /\ Record(r, p)

StrictSpec == Init /\ [][StrictNext]_<<phase, acts>>

LedgerSpec == Init /\ [][LedgerNext]_<<phase, acts>>
============================================================================
