-------------------------- MODULE MCRecipientDelivery --------------------------
(* Small instances of the recipient deliveries for TLC. *)
EXTENDS RecipientDelivery, RetryPolicy

\* Two attempts more than one backoff step apart, capped at 2.
ScaledRetryDelay == [n \in 1..MaxAttempts |-> RetryDelayMinutes(n, 2)]
=============================================================================
