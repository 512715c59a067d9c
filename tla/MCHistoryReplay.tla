----------------------------- MODULE MCHistoryReplay -----------------------------
(* Small instances of the replay for TLC. *)
EXTENDS HistoryReplay

TwoTiers == <<2, 1>>
OneTier == <<1>>
=============================================================================
