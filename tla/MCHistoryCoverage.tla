---------------------------- MODULE MCHistoryCoverage ----------------------------
(* Small instances of the coverage for TLC. *)
EXTENDS HistoryCoverage

TwoFetches == <<3, 2>>
\* One slot for each lane, as by default, or both for the backlog.
TwoSlots == {<<"RECENT_TAIL", "CONTIGUOUS_BACKLOG">>, <<"CONTIGUOUS_BACKLOG", "CONTIGUOUS_BACKLOG">>}
OneEach == {<<"RECENT_TAIL", "CONTIGUOUS_BACKLOG">>}
OneBackfill == {<<1, 0, 1>>}
=============================================================================
