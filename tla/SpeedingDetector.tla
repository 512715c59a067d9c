--------------------------- MODULE SpeedingDetector ---------------------------
(***************************************************************************)
(* The speeding rule for one vehicle as a function from (detector state,   *)
(* observation, settings) to (next state, result).                         *)
(* Source: modules/speeding-detector/speeding-detector.state-machine.ts    *)
(* and speeding-detector.service.ts.                                       *)
(*                                                                         *)
(* An observation is [at, kph, pos].  Times are positive integers and 0 is *)
(* the code's null.  A settings record has the fields the rule reads:      *)
(*   speedOn  speedRuleEnabled             limit  zone -> effective kph    *)
(*   confirm  speedingConfirmationUpdates  fence  a geofence is configured *)
(*   city     the positions in the geofence                                *)
(***************************************************************************)
EXTENDS Integers

\* No zone is known while no geofence is configured.
Zone(s, pos) ==
    IF ~s.fence THEN "UNKNOWN" ELSE IF pos \in s.city THEN "CITY" ELSE "OUTSIDE_CITY"

\* The hash of exactly the settings that can change a classification.
Fingerprint(s) ==
    [speedOn |-> s.speedOn, limit |-> s.limit, confirm |-> s.confirm,
     fence |-> s.fence, city |-> s.city]

Context(s, pos) ==
    [zone |-> Zone(s, pos), threshold |-> s.limit[Zone(s, pos)], confirm |-> s.confirm]

NoContext == [zone |-> "NONE", threshold |-> 0, confirm |-> 0]

\* A vehicle the detector knows only the ordering frontier of.
Blank(last, fp) ==
    [last |-> last, fp |-> fp, count |-> 0, confirmed |-> FALSE,
     ctx |-> NoContext, streak |-> 0, confirmedAt |-> 0]

\* A vehicle the detector knows nothing of (no entry in its map); it stays
\* unknown when it is invalidated, and any observation is newer than 0.
NoFingerprint ==
    [speedOn |-> FALSE, limit |-> [z \in {"CITY", "OUTSIDE_CITY"} |-> 0],
     confirm |-> 0, fence |-> FALSE, city |-> {}]

NoSpeeding == Blank(0, NoFingerprint)

\* invalidateContextsPreservingOrdering: the fingerprint and the frontier stay.
Invalidated(st) == Blank(st.last, st.fp)

SpeedingStatuses == {"IGNORED", "CLEAR", "PENDING", "CONFIRMED", "ACTIVE"}

Outcome(st, status) == [state |-> st, status |-> status]

\* Mutant: any running streak is taken on.
ContinuesRegardless(st, ctx, fp) == st.ctx # NoContext

\* A streak continues only in the same context under the same settings.
Continues(st, ctx, fp) == st.ctx = ctx /\ st.fp = fp

\* A disabled rule and an unknown zone forget the streak and accept the time.
Skipped(st, obs, fp) == Blank(obs.at, fp)

DetectSpeeding(st, obs, s) ==
    LET fp         == Fingerprint(s)
        ctx        == Context(s, obs.pos)
        continuing == Continues(st, ctx, fp)
        count      == IF continuing THEN st.count + 1 ELSE 1
        was        == continuing /\ st.confirmed
        newly      == ~was /\ count >= s.confirm
        next       == [last |-> obs.at, fp |-> fp, count |-> count,
                       confirmed |-> was \/ newly, ctx |-> ctx,
                       streak |-> IF continuing /\ st.streak # 0 THEN st.streak ELSE obs.at,
                       confirmedAt |-> CASE newly -> obs.at
                                         [] was   -> st.confirmedAt
                                         [] OTHER -> 0]
    IN  IF obs.at <= st.last THEN Outcome(st, "IGNORED")
        ELSE IF ~s.speedOn \/ Zone(s, obs.pos) = "UNKNOWN"
        THEN Outcome(Skipped(st, obs, fp), "IGNORED")
        ELSE IF obs.kph <= ctx.threshold
        THEN Outcome([Blank(obs.at, fp) EXCEPT !.ctx = ctx], "CLEAR")
        ELSE Outcome(next, IF newly THEN "CONFIRMED" ELSE IF was THEN "ACTIVE" ELSE "PENDING")
=============================================================================
