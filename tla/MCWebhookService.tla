-------------------------- MODULE MCWebhookService --------------------------
(***************************************************************************)
(* The instances of WebhookService that TLC checks.                        *)
(***************************************************************************)
EXTENDS WebhookServiceInv, TLC

CONSTANTS r1, r2    \* two runs of a delivery

MCSlots == {r1, r2}

(* The runs of one delivery can be told apart by what they do only.        *)
MCRunsAlike == Permutations(MCSlots)

(* One answer of each class: success, permanent, retryable below and from  *)
(* 500.  The classes are what the model can tell apart.                    *)
MCStatusCodes == {200, 404, 429, 500}

(* One answer that is final and one that is retried, for the liveness runs. *)
MCTwoCodes == {200, 500}

MCOneCode == {200}
=============================================================================
