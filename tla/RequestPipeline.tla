-------------------------- MODULE RequestPipeline --------------------------
(***************************************************************************)
(* The way of a request through the middlewares of app/core/middleware.py  *)
(* and what the metrics registry (app/core/metrics.py) records of it.      *)
(*                                                                         *)
(* RequestContextMiddleware is the outermost layer: it counts a request    *)
(* when it arrives, and its latency and outcome when the answer comes back *)
(* through it.  Inside are the body-size check, the rate limiter and the   *)
(* application.  A request may be suspended between any two layers.        *)
(***************************************************************************)
EXTENDS RateLimiter, FiniteSets, FiniteSetsExt, SequencesExt

CONSTANTS Handlers,     \* the request tasks that may run at once
          MaxSamples,   \* latencies_ms keeps this many samples (2000)
          ReportsPerSecond, \* the steps of a reported latency: hundredths of
                        \* a millisecond, 100000 to the second
          MaxRequests   \* how many requests arrive (a bound of the model)

ASSUME SamplesAssumption == MaxSamples \in Nat \ {0}
ASSUME ReportsAssumption == ReportsPerSecond \in Nat \ {0}

Outcomes == {"ok", "4xx", "5xx", "raised"}

Counted == {"http_requests_total", "http_4xx_total", "http_5xx_total",
            "http_unhandled_errors_total"}

(* An API call, a call of a health endpoint, or one with a body that is    *)
(* too large or whose length is no number.                                 *)
Kinds == {"api", "health", "oversized"}

Request == [from : Addresses, kind : Kinds, since : Instants]

VARIABLES
    stage,      \* stage[h]: "idle", "arrived", "inside", or the outcome on
                \* its way back to the outermost layer
    request,    \* request[h]: what h is about
    counters,   \* counters of the registry
    latencies,  \* latencies_ms, oldest first
    succeeded   \* answers without an error (a history)

pipelineVars == <<stage, request, counters, latencies, succeeded>>
vars == <<limiterVars, pipelineVars>>

Busy == {h \in Handlers : stage[h] # "idle"}

TypeOK ==
    /\ LimiterTypeOK
    /\ stage \in [Handlers -> {"idle", "arrived", "inside"} \cup Outcomes]
    /\ \A h \in Busy : request[h] \in Request
    /\ counters \in [Counted -> Nat]
    /\ latencies \in Seq(Nat) /\ Len(latencies) <= MaxSamples
    /\ succeeded \in Nat

NoRequest == [since |-> Start]

Init ==
    /\ LimiterInit
    /\ stage = [h \in Handlers |-> "idle"]
    /\ request = [h \in Handlers |-> NoRequest]
    /\ counters = [c \in Counted |-> 0]
    /\ latencies = <<>>
    /\ succeeded = 0

Arrive(h, a, kind) ==
    /\ stage[h] = "idle"
    /\ counters["http_requests_total"] < MaxRequests
    /\ stage' = [stage EXCEPT ![h] = "arrived"]
    /\ request' = [request EXCEPT
                     ![h] = [from |-> a, kind |-> kind, since |-> now]]
    /\ counters' = [counters EXCEPT !["http_requests_total"] = @ + 1]
    /\ UNCHANGED <<limiterVars, latencies, succeeded>>

Proceed(h, to) ==
    /\ stage' = [stage EXCEPT ![h] = to]
    /\ UNCHANGED <<request, counters, latencies, succeeded>>

(* A body is refused before the rate limiter sees the request. *)
RefuseBody(h) ==
    /\ stage[h] = "arrived"
    /\ request[h].kind = "oversized"
    /\ Proceed(h, "4xx")
    /\ UNCHANGED limiterVars

(* The health endpoints are not limited. *)
PassHealth(h) ==
    /\ stage[h] = "arrived"
    /\ request[h].kind = "health"
    /\ Proceed(h, "inside")
    /\ UNCHANGED limiterVars

PassLimiter(h) ==
    /\ stage[h] = "arrived"
    /\ request[h].kind = "api"
    /\ Admit(request[h].from)
    /\ Proceed(h, "inside")

RefuseRate(h) ==
    /\ stage[h] = "arrived"
    /\ request[h].kind = "api"
    /\ Refuse(request[h].from)
    /\ Proceed(h, "4xx")

(* The application answers, or raises what no exception handler knows. *)
Handle(h, outcome) ==
    /\ stage[h] = "inside"
    /\ Proceed(h, outcome)
    /\ UNCHANGED limiterVars

CounterOf == [o \in Outcomes \ {"ok"} |->
                 CASE o = "4xx" -> "http_4xx_total"
                   [] o = "5xx" -> "http_5xx_total"
                   [] o = "raised" -> "http_unhandled_errors_total"]

(* A bounded deque: the oldest sample falls out. *)
Observed(samples, duration) ==
    LET longer == Append(samples, duration)
    IN  IF Len(longer) > MaxSamples THEN Tail(longer) ELSE longer

(* Mutant of Answer: an unhandled error is counted as a server error, too. *)
AnswerCountsTwice(h) ==
    /\ stage[h] \in Outcomes
    /\ stage' = [stage EXCEPT ![h] = "idle"]
    /\ latencies' = Observed(latencies, now - request[h].since)
    /\ counters' =
           IF stage[h] = "ok" THEN counters
           ELSE [counters EXCEPT
                   ![CounterOf[stage[h]]] = @ + 1,
                   !["http_5xx_total"] = IF stage[h] = "raised" THEN @ + 1 ELSE @]
    /\ succeeded' = IF stage[h] = "ok" THEN succeeded + 1 ELSE succeeded
    /\ request' = [request EXCEPT ![h] = NoRequest]
    /\ UNCHANGED limiterVars

(* The answer reaches the outermost layer, which records it. *)
Answer(h) ==
    /\ stage[h] \in Outcomes
    /\ stage' = [stage EXCEPT ![h] = "idle"]
    /\ latencies' = Observed(latencies, now - request[h].since)
    /\ counters' =
           IF stage[h] = "ok" THEN counters
           ELSE [counters EXCEPT ![CounterOf[stage[h]]] = @ + 1]
    /\ succeeded' = IF stage[h] = "ok" THEN succeeded + 1 ELSE succeeded
    /\ request' = [request EXCEPT ![h] = NoRequest]
    /\ UNCHANGED limiterVars

PassTime == LaterOn /\ UNCHANGED pipelineVars

(* The requests of the model are used up and all of them are answered.     *)
Rest ==
    /\ Busy = {}
    /\ counters["http_requests_total"] = MaxRequests
    /\ UNCHANGED vars

Next ==
    \/ PassTime
    \/ Rest
    \/ \E h \in Handlers :
          \/ \E a \in Addresses, kind \in Kinds : Arrive(h, a, kind)
          \/ RefuseBody(h) \/ PassHealth(h) \/ PassLimiter(h) \/ RefuseRate(h)
          \/ \E outcome \in Outcomes : Handle(h, outcome)
          \/ Answer(h)

Spec == Init /\ [][Next]_vars

-----------------------------------------------------------------------------
(* What /api/metrics reports (snapshot).                                   *)

(* round, halves to even, of (n / d). *)
Rounded(n, d) ==
    LET whole == n \div d
        rest == 2 * (n % d)
    IN  IF rest > d \/ (rest = d /\ whole % 2 = 1) THEN whole + 1 ELSE whole

(* round(..., 2) of a latency in milliseconds.  A latency half way between *)
(* two steps goes to the even one here; in the code the last bit of the    *)
(* float decides, and the property below leaves room for either.           *)
Reported(ticks) == Rounded(ticks * ReportsPerSecond, TicksPerSecond)

(* The place of a sample in order: how many there are up to it, those of   *)
(* the same value taken in the order they came in.                         *)
Place(samples, i) ==
    Cardinality({j \in DOMAIN samples :
                    \/ samples[j] < samples[i]
                    \/ samples[j] = samples[i] /\ j <= i})

Sorted(samples) ==
    [k \in DOMAIN samples |->
        samples[CHOOSE i \in DOMAIN samples : Place(samples, i) = k]]

(* Mutant of Percentile: the samples are read in the order they came in. *)
PercentileUnsorted(samples, percent) ==
    IF samples = <<>> THEN 0
    ELSE Reported(samples[Min({Rounded((Len(samples) - 1) * percent, 100),
                               Len(samples) - 1}) + 1])

Percentile(samples, percent) ==
    IF samples = <<>> THEN 0
    ELSE Reported(Sorted(samples)[Min({Rounded((Len(samples) - 1) * percent, 100),
                                       Len(samples) - 1}) + 1])

Largest(samples) == IF samples = <<>> THEN 0 ELSE Reported(Max(ToSet(samples)))

-----------------------------------------------------------------------------
(* Properties.                                                             *)

(* Every request that arrived is under way or was counted exactly once     *)
(* under the outcome it had, whichever layer answered it.                  *)
RequestsAccounted ==
    counters["http_requests_total"] =
        Cardinality(Busy) + succeeded + counters["http_4xx_total"]
            + counters["http_5xx_total"] + counters["http_unhandled_errors_total"]

(* What the snapshot reports is in order although it is rounded, and half  *)
(* of the samples or more lie on either side of the reported median, up to *)
(* the half step that rounding may have moved it.                          *)
AtMost(ticks, report) ==
    2 * (ticks * ReportsPerSecond) <= (2 * report + 1) * TicksPerSecond

AtLeast(ticks, report) ==
    2 * (ticks * ReportsPerSecond) >= (2 * report - 1) * TicksPerSecond

SnapshotIsOrdered ==
    LET p50 == Percentile(latencies, 50)
        below == {i \in DOMAIN latencies : AtMost(latencies[i], p50)}
        above == {i \in DOMAIN latencies : AtLeast(latencies[i], p50)}
    IN  /\ p50 <= Percentile(latencies, 95)
        /\ Percentile(latencies, 95) <= Largest(latencies)
        /\ 2 * Cardinality(below) >= Len(latencies)
        /\ 2 * Cardinality(above) >= Len(latencies)

=============================================================================
