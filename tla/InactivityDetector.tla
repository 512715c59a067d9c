-------------------------- MODULE InactivityDetector --------------------------
(***************************************************************************)
(* The inactivity rule for one vehicle: a vehicle is inactive when the     *)
(* distance it travelled in the last `dur` units of time stays below       *)
(* `dist`.  Source: inactivity-detector/inactivity-detector.state-machine  *)
(* .ts.  Positions are points of a line.  The settings fields read here:   *)
(*   idleOn inactivityRuleEnabled, dist inactivityDistanceMeters,          *)
(*   dur inactivityDurationMinutes.                                        *)
(***************************************************************************)
EXTENDS Integers, Sequences, FiniteSets

\* No entry for the vehicle: never seen, reset, or the rule was disabled.
NoInactivity == [last |-> 0, history |-> <<>>, active |-> FALSE, dist |-> 0, dur |-> 0]

InactivityStatuses == {"IGNORED", "COLLECTING", "CLEAR", "CONFIRMED", "ACTIVE"}

Distance(a, b) == IF a < b THEN b - a ELSE a - b

\* Keep one point before the cutoff only when a segment crosses the cutoff.
TrimHistory(history, cutoff) ==
    LET inside == {i \in DOMAIN history : history[i].at >= cutoff}
        first  == CHOOSE i \in inside : \A j \in inside : i <= j
    IN  IF first = 1 THEN history
        ELSE IF history[first].at = cutoff THEN SubSeq(history, first, Len(history))
        ELSE SubSeq(history, first - 1, Len(history))

\* Whether the distance travelled since the cutoff reaches d.  Only the first
\* segment of a trimmed history can cross the cutoff; the share of it inside
\* the window is the fraction (to - cutoff) / (to - from), so both sides are
\* multiplied by (to - from).
TravelledReaches(history, cutoff, d) ==
    LET n       == Len(history)
        segment(i) == Distance(history[i-1].pos, history[i].pos)
        sum[i \in 0..n] == IF i <= 2 THEN 0 ELSE sum[i-1] + segment(i)
        span    == history[2].at - history[1].at
        inside  == IF history[1].at >= cutoff THEN span ELSE history[2].at - cutoff
    IN  sum[n] * span + segment(2) * inside >= d * span

StartWindow(obs, s) ==
    [last |-> obs.at, history |-> <<[at |-> obs.at, pos |-> obs.pos]>>,
     active |-> FALSE, dist |-> s.dist, dur |-> s.dur]

OutOfOrder(st, obs) == obs.at <= st.last

DetectInactivity(st, obs, s) ==
    LET cutoff  == obs.at - s.dur
        history == TrimHistory(Append(st.history, [at |-> obs.at, pos |-> obs.pos]), cutoff)
        next(active) == [st EXCEPT !.last = obs.at, !.history = history, !.active = active]
        result(state, status) == [state |-> state, status |-> status]
    IN  IF ~s.idleOn THEN result(NoInactivity, "IGNORED")
        ELSE IF OutOfOrder(st, obs) THEN result(st, "IGNORED")
        ELSE IF \/ st = NoInactivity
                \/ <<st.dist, st.dur>> # <<s.dist, s.dur>>
                \/ obs.at - st.last >= s.dur
        THEN result(StartWindow(obs, s), "COLLECTING")
        ELSE IF history[1].at > cutoff THEN result(next(st.active), "COLLECTING")
        ELSE IF TravelledReaches(history, cutoff, s.dist) THEN result(next(FALSE), "CLEAR")
        ELSE result(next(TRUE), IF st.active THEN "ACTIVE" ELSE "CONFIRMED")
=============================================================================
