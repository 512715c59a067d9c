------------------------------ MODULE RetryPolicy ------------------------------
(* The delay before each attempt of a delivery, in minutes.  *)
EXTENDS Integers

\* recipientDeliveryRetryDelayMs: doubles from one minute up to the cap.
RetryDelayMinutes(attempt, cap) ==
    LET doubled == 2 ^ (attempt - 1) IN IF doubled < cap THEN doubled ELSE cap
=============================================================================
