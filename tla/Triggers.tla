------------------------------ MODULE Triggers ------------------------------
(***************************************************************************)
(* How the scale-down watcher turns the triggers of an ElastiService into  *)
(* a scale direction: calculateScaleDirection of                           *)
(* pkg/scaling/scale_handler.go over the Prometheus scaler of              *)
(* pkg/scaling/scalers/prometheus_scaler.go.  A trigger is represented by  *)
(* what its two queries return when they are made.                         *)
(***************************************************************************)
EXTENDS Integers, Sequences, FiniteSetsExt

(* What executePromQuery returns for the uptime query and for the trigger's *)
(* query.  "error" stands for every error return; "minusOne" is the value   *)
(* of a null sample, or a metric that is really -1; "atOrAbove" is every    *)
(* value that is not below the threshold, NaN included.  A response is      *)
(* decoded into a variable of the package that still has the last one in it *)
(* (promQueryResponse): a value that stems from a field the response lacks  *)
(* is one of these too.                                                     *)
Uptimes == {"error", "up", "down"}
Metrics == {"error", "minusOne", "below", "atOrAbove"}

(* `supported` is false when createScalerForTrigger fails: an unsupported   *)
(* type or metadata that does not parse.                                    *)
Trigger == [supported : BOOLEAN, uptime : Uptimes, metric : Metrics]

(* ShouldScaleToZero, when the query does not fail. *)
ShouldScaleToZero(t) == t.metric = "below"

(* Mutant: a null sample counts as no traffic. *)
VerdictNullIsIdle(t) ==
    IF ~t.supported                THEN "error"
    ELSE IF t.uptime = "error"     THEN "noscale"
    ELSE IF t.uptime = "down"      THEN "error"
    ELSE IF t.metric = "error"     THEN "error"
    ELSE IF t.metric = "atOrAbove" THEN "scaleup"
    ELSE "idle"

(* Mutant: the error of the trigger's query is not looked at, and its false *)
(* result is taken as traffic.                                              *)
VerdictIgnoresQueryError(t) ==
    IF ~t.supported                THEN "error"
    ELSE IF t.uptime = "error"     THEN "noscale"
    ELSE IF t.uptime = "down"      THEN "error"
    ELSE IF ~ShouldScaleToZero(t)  THEN "scaleup"
    ELSE "idle"

(* The body of the loop over the triggers: what one trigger makes the       *)
(* function return, or "idle" to go on with the next.                       *)
Verdict(t) ==
    IF ~t.supported                THEN "error"
    ELSE IF t.uptime = "error"     THEN "noscale"
    ELSE IF t.uptime = "down"      THEN "error"
    ELSE IF t.metric = "error"     THEN "error"
    ELSE IF ~ShouldScaleToZero(t)  THEN "scaleup"
    ELSE "idle"

Deciding(ts) == {i \in 1..Len(ts) : Verdict(ts[i]) # "idle"}

(* calculateScaleDirection: the first trigger that is not idle decides. *)
Direction(ts, oldEnough) ==
    IF ts = <<>>                   THEN "error"
    ELSE IF ~oldEnough             THEN "noscale"
    ELSE IF Deciding(ts) # {}      THEN Verdict(ts[Min(Deciding(ts))])
    ELSE "scaledown"

-----------------------------------------------------------------------------
Idle(t) == t.supported /\ t.uptime = "up" /\ t.metric = "below"

AllIdle(ts) == ts # <<>> /\ \A i \in 1..Len(ts) : Idle(ts[i])

(* A trigger whose two queries were answered without an error, and not with a value *)
(* below the threshold: one at or above it, or none (a null sample, or -1), which   *)
(* ShouldScaleToZero takes for traffic.                                             *)
AnsweredNotIdle(t) == t.supported /\ t.uptime = "up" /\ t.metric \in {"minusOne", "atOrAbove"}

FirstNotIdleAnswered(ts) == \E i \in 1..Len(ts) : AnsweredNotIdle(ts[i]) /\ \A j \in 1..(i - 1) : Idle(ts[j])
=============================================================================
