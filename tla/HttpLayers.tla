----------------------------- MODULE HttpLayers -----------------------------
(***************************************************************************)
(* The layers around the handlers of `jiaclaw serve`                       *)
(* (build_router_with_body_limit in crates/jiaclaw-host/src/main.rs), from *)
(* the outside in: request id, CORS, metrics, rate limit, the JSON form of *)
(* refused bodies, the declared length, the handler with its credentials.  *)
(*                                                                         *)
(* Time is counted in ticks, so that seconds have parts.  The limiter is   *)
(* the governor crate's: a bucket that is full when its theoretical        *)
(* arrival time is over.  It is external.                                  *)
(***************************************************************************)
EXTENDS Integers, Sequences

CONSTANTS Second,    \* ticks of a second
          Minute,    \* ticks of the period the quota is for
          PerMinute, \* rate_limit_per_minute, 0 for no limit
          MaxBody,   \* max_body_bytes
          ApiToken   \* the api_token, or NoHeader if none is configured

CONSTANT NoHeader    \* a header or an origin that is not there

ASSUME LayersAssumption ==
    /\ {Second, Minute} \subseteq Nat \ {0}
    /\ PerMinute \in 0 .. Minute
    /\ MaxBody \in Nat

Later(a, b) == IF a < b THEN b ELSE a

\* Division that rounds up.
CeilDiv(a, b) == (a + b - 1) \div b

-----------------------------------------------------------------------------

Hooks == {"/hooks/inbound", "/hooks/telegram", "/hooks/slack", "/hooks/discord"}
ApiPaths == {"/api/chat", "/api/sessions", "/api/tools"}

IsRateLimitedPath(path) == path \in ApiPaths \cup Hooks
IsBodyLimitExemptPath(path) == path \in {"/health", "/metrics"}

\* classify_http_path
Family(path) == IF path \in {"/api/sessions", "/api/tools"} THEN "other" ELSE path

(***************************************************************************)
(* The quota: PerMinute requests at once, replenished one by one.  tat is  *)
(* when the bucket will be full again.                                     *)
(***************************************************************************)
Burst == PerMinute
Replenish == Minute \div PerMinute

Admits(now, tat) == now >= tat - (Burst - 1) * Replenish
Charge(now, tat) == Later(now, tat) + Replenish
Remaining(now, tat) == (Burst * Replenish - (tat - now)) \div Replenish

Unix(now) == now \div Second

\* rate_limit_reset_unix
ResetUnix(now, remaining) == Unix(now) + CeilDiv((Burst - remaining) * Replenish, Second)

\* The seconds of Retry-After: rounded down, but at least one.
RetryAfter(now, tat) == Later(1, (tat - (Burst - 1) * Replenish - now) \div Second)

QuotaHeaders(now, remaining, retry) ==
    [limit |-> Burst, remaining |-> remaining, reset |-> ResetUnix(now, remaining), retry |-> retry]

-----------------------------------------------------------------------------

\* check_api_auth: a bearer token decides, another Authorization does not.
Authorized(request) ==
    \/ ApiToken = NoHeader
    \/ request.bearer = ApiToken
    \/ request.bearer = NoHeader /\ request.apiToken = ApiToken

NeedsAuth(path) == path \in ApiPaths

\* The methods a path is routed for: HEAD goes with GET.
Methods(path) ==
    CASE path \in {"/health", "/metrics", "/api/tools"} -> {"GET", "HEAD"}
      [] path = "/api/sessions" -> {"GET", "HEAD", "POST"}
      [] OTHER -> {"POST"}

(***************************************************************************)
(* The router has no handler for another method; a handler reads the body, *)
(* if it takes one, before it looks at the token.                          *)
(***************************************************************************)
Handler(request) ==
    IF request.method \notin Methods(request.path)
    THEN [status |-> 405, json |-> FALSE, handled |-> FALSE]
    ELSE IF request.takesBody /\ request.body > MaxBody
    THEN [status |-> 413, json |-> FALSE, handled |-> FALSE]
    ELSE IF NeedsAuth(request.path) /\ ~Authorized(request)
    THEN [status |-> 401, json |-> TRUE, handled |-> FALSE]
    ELSE [status |-> 200, json |-> TRUE, handled |-> TRUE]

PayloadTooLarge == [status |-> 413, json |-> TRUE, handled |-> FALSE]

\* max_body_bytes_middleware looks at the declared length only.
BodyLimited(request) ==
    IF /\ ~IsBodyLimitExemptPath(request.path)
       /\ request.declared # NoHeader /\ request.declared > MaxBody
    THEN PayloadTooLarge ELSE Handler(request)

\* jsonify_payload_too_large
Jsonified(response) == IF response.status = 413 /\ ~response.json THEN PayloadTooLarge ELSE response

TooManyRequests == [status |-> 429, json |-> TRUE, handled |-> FALSE]

\* A limiter inside of the size check, which large requests do not reach.
RateLimited_AfterBody(request, now, tat) ==
    LET inner == Jsonified(BodyLimited(request))
    IN  IF PerMinute = 0 \/ ~IsRateLimitedPath(request.path) \/ inner.status = 413
        THEN [response |-> inner, quota |-> NoHeader, tat |-> tat]
        ELSE IF Admits(now, tat)
        THEN [response |-> inner, tat |-> Charge(now, tat),
              quota |-> QuotaHeaders(now, Remaining(now, Charge(now, tat)), NoHeader)]
        ELSE [response |-> TooManyRequests, tat |-> tat,
              quota |-> QuotaHeaders(now, 0, RetryAfter(now, tat))]

\* rate_limit_middleware: the answer, its headers, and the bucket.
RateLimited(request, now, tat) ==
    IF PerMinute = 0 \/ ~IsRateLimitedPath(request.path)
    THEN [response |-> Jsonified(BodyLimited(request)), quota |-> NoHeader, tat |-> tat]
    ELSE IF Admits(now, tat)
    THEN [response |-> Jsonified(BodyLimited(request)), tat |-> Charge(now, tat),
          quota |-> QuotaHeaders(now, Remaining(now, Charge(now, tat)), NoHeader)]
    ELSE [response |-> TooManyRequests, tat |-> tat,
          quota |-> QuotaHeaders(now, 0, RetryAfter(now, tat))]

(***************************************************************************)
(* CORS answers a preflight by itself; a request of an allowed origin has  *)
(* its origin, or any, named in the answer.                                *)
(***************************************************************************)
AllowOrigin(cors, origin) ==
    IF ~cors.enabled THEN NoHeader
    ELSE IF "*" \in cors.origins THEN "*"
    ELSE IF origin \in cors.origins THEN origin ELSE NoHeader

Preflight(cors, request) == cors.enabled /\ request.method = "OPTIONS"

\* All layers: the answer, the bucket, and what the metrics count.
Serve(cors, request, now, tat) ==
    LET inner == IF Preflight(cors, request)
                 THEN [response |-> [status |-> 200, json |-> FALSE, handled |-> FALSE],
                       quota |-> NoHeader, tat |-> tat]
                 ELSE RateLimited(request, now, tat)
    IN  [status |-> inner.response.status, json |-> inner.response.json,
         handled |-> inner.response.handled, quota |-> inner.quota, tat |-> inner.tat,
         id |-> IF request.id = NoHeader THEN "generated" ELSE request.id,
         origin |-> AllowOrigin(cors, request.origin),
         counted |-> IF Preflight(cors, request) THEN {}
                     ELSE {<<Family(request.path), request.method, inner.response.status>>}]

\* The bucket after requests at the given times, from when it was full.
Bucket(times) ==
    LET after[n \in 0 .. Len(times)] ==
            IF n = 0 THEN 0
            ELSE IF Admits(times[n], after[n - 1]) THEN Charge(times[n], after[n - 1]) ELSE after[n - 1]
    IN  after

-----------------------------------------------------------------------------

(***************************************************************************)
(* The limiter's headers tell the truth but for one second: a refused      *)
(* client that waits a second more than Retry-After says is admitted, the  *)
(* quota is full a second after X-RateLimit-Reset, and it is never full    *)
(* before the second before (rate_limit_middleware).  The clock is cut to  *)
(* seconds before the wait is added, so the exact second may be wrong.     *)
(***************************************************************************)
HeadersAreHonest(times) ==
    LET bucket == Bucket(times)
    IN  \A n \in 1 .. Len(times) :
            LET now == times[n]
                tat == bucket[n]
            IN  IF Admits(now, bucket[n - 1])
                THEN LET reset == ResetUnix(now, Remaining(now, tat))
                     IN  tat \in (reset - 1) * Second - Replenish .. (reset + 1) * Second - 1
                ELSE /\ Admits(now + (RetryAfter(now, tat) + 1) * Second, tat)
                     /\ tat < (ResetUnix(now, 0) + 1) * Second

(***************************************************************************)
(* Whatever refuses a request, its quota is charged before its size and    *)
(* its method are looked at, a body longer than the limit is not handled,  *)
(* a size refused is refused in JSON, whether the length was declared or   *)
(* not, and every answer but that of a preflight is counted with its       *)
(* status.                                                                 *)
(***************************************************************************)
LayersNest(cors, request, now, tat) ==
    LET served == Serve(cors, request, now, tat)
    IN  Preflight(cors, request) \/
        /\ IsRateLimitedPath(request.path) /\ PerMinute # 0 => (served.status = 429 <=> served.tat = tat)
        /\ served.handled => ~request.takesBody \/ request.body <= MaxBody
        /\ served.status = 413 => served.json
        /\ served.counted = {<<Family(request.path), request.method, served.status>>}
=============================================================================
