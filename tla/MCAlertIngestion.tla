--------------------------- MODULE MCAlertIngestion ---------------------------
(***************************************************************************)
(* Small instances of the alert pipeline for TLC.  Position 0 is in the    *)
(* city (limit 1) and positions from 1 on are outside it (limit 3).        *)
(***************************************************************************)
EXTENDS AlertReplay

Limits(city, outside) ==
    [z \in {"CITY", "OUTSIDE_CITY"} |-> IF z = "CITY" THEN city ELSE outside]

\* Speeding alone: the second consecutive sample confirms.
SpeedPolicy ==
    [speedOn |-> TRUE, limit |-> Limits(1, 3), confirm |-> 2,
     fence |-> TRUE, city |-> {0},
     idleOn |-> FALSE, dist |-> 2, dur |-> 2]

\* What an administrator may change of it.
SpeedOffPolicy    == [SpeedPolicy EXCEPT !.speedOn = FALSE]

NoFencePolicy(s)  == [s EXCEPT !.fence = FALSE]

\* Inactivity alone: less than 2 travelled in the last 3 units of time.
IdlePolicy == [SpeedPolicy EXCEPT !.speedOn = FALSE, !.idleOn = TRUE, !.dur = 3]

\* Both rules, with a window of 2.
BothPolicy      == [SpeedPolicy EXCEPT !.idleOn = TRUE]

\* Stricter in one way and laxer in another: samples count from a lower limit
\* but more are needed, and a longer window allows more movement.
OtherPolicy == [BothPolicy EXCEPT !.limit = Limits(0, 2), !.confirm = 3, !.dist = 3, !.dur = 3]

\* The first sample confirms, and more movement still counts as inactive.
QuickPolicy == [BothPolicy EXCEPT !.confirm = 1, !.dist = 3]

\* Slow and above the limit in the city; above the limit outside it.
CityPayloads == {[kph |-> 1, pos |-> 0], [kph |-> 2, pos |-> 0]}
ZonePayloads == CityPayloads \cup {[kph |-> 4, pos |-> 1]}

\* Parked at one of two places a distance 1 apart.
ParkPayloads == {[kph |-> 0, pos |-> 0], [kph |-> 0, pos |-> 1]}

\* In the city above the limit or near it, and within the limit 2 away.
MixedPayloads == CityPayloads \cup {[kph |-> 1, pos |-> 2]}

InOrderFixes(policy, choices, payloads, last, faults) ==
    [policy |-> policy, choices |-> choices, payloads |-> payloads, last |-> last,
     late |-> FALSE, faults |-> faults, changes |-> IF choices = {} THEN 0 ELSE 1]

AnyOrderFixes(policy, choices, payloads, last, faults) ==
    [InOrderFixes(policy, choices, payloads, last, faults) EXCEPT !.late = TRUE]

\* Fixed settings: failures with fixes in order, or late fixes without failures.
FixedSettings ==
    {InOrderFixes(SpeedPolicy, {}, ZonePayloads, 4, 2),
     InOrderFixes(IdlePolicy, {}, ParkPayloads, 6, 2),
     AnyOrderFixes(BothPolicy, {}, MixedPayloads, 4, 0)}

\* The same, smaller, for liveness.
FixedSettingsShort ==
    {InOrderFixes(SpeedPolicy, {}, CityPayloads, 4, 2),
     InOrderFixes(BothPolicy, {}, ParkPayloads, 3, 1),
     AnyOrderFixes(BothPolicy, {}, CityPayloads, 3, 0)}

\* Late fixes, failures and a settings change.
QuickPolicies == {BothPolicy, QuickPolicy, SpeedOffPolicy, NoFencePolicy(QuickPolicy)}
Anything == {AnyOrderFixes(QuickPolicy, QuickPolicies, MixedPayloads, 3, 2)}

\* Fixes in order, a failure and a settings change.
RulePolicies == {BothPolicy, OtherPolicy, SpeedOffPolicy, NoFencePolicy(OtherPolicy)}
Ordered == {InOrderFixes(OtherPolicy, RulePolicies, MixedPayloads, 4, 1)}

AllPolicies == {SpeedPolicy, IdlePolicy} \cup QuickPolicies \cup RulePolicies
AllSettings == FixedSettings \cup Anything \cup Ordered

\* A late fix while a failed row waits for its retry.
LateDuringRetry == {AnyOrderFixes(SpeedPolicy, {}, CityPayloads, 3, 1)}
=============================================================================
