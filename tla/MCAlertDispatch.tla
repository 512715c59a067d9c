----------------------------- MODULE MCAlertDispatch -----------------------------
(* Small instances of the shared-chat outbox for TLC. *)
EXTENDS AlertDispatch
=============================================================================
