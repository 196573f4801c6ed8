-------------------------- MODULE AlgorithmsProofs --------------------------
(***************************************************************************)
(* What the algorithms compute, for every input.  MCAlgorithms checks the  *)
(* same properties on small inputs.  Induction over an input goes by the   *)
(* least counterexample (LeastNatural); a recursive function is defined    *)
(* for every length by KeptRecursion, which proves at once what holds      *)
(* after each of its steps.                                                *)
(***************************************************************************)
EXTENDS MCAlgorithms, SessionHistoryProofs

-----------------------------------------------------------------------------
(* Arithmetic of the limiter *)

\* Division rounds down.
LEMMA DivisionIs ==
    ASSUME NEW a \in Int, NEW b \in Nat \ {0}
    PROVE  a \div b \in Int /\ (a \div b) * b <= a /\ a < (a \div b) * b + b
OBVIOUS

\* CeilDiv rounds up.
LEMMA CeilDivIs ==
    ASSUME NEW a \in Int, NEW b \in Nat \ {0}
    PROVE  CeilDiv(a, b) \in Int /\ a <= CeilDiv(a, b) * b /\ CeilDiv(a, b) * b < a + b
<1>1. a + b - 1 \in Int
  OBVIOUS
<1>2. (a + b - 1) \div b \in Int /\ ((a + b - 1) \div b) * b <= a + b - 1 /\ a + b - 1 < ((a + b - 1) \div b) * b + b
  BY <1>1, DivisionIs
<1>3. QED
  BY <1>2 DEF CeilDiv

\* Products are integers, monotonic and distributive.
LEMMA ProductsAreInts == \A a, b \in Int : a * b \in Int
OBVIOUS

LEMMA ProductsGrow ==
    ASSUME NEW a \in Int, NEW b \in Int, NEW c \in Nat, a <= b
    PROVE  a * c <= b * c
OBVIOUS

LEMMA Distributes ==
    ASSUME NEW a \in Int, NEW b \in Int, NEW c \in Int
    PROVE  (a + b) * c = a * c + b * c /\ (a - b) * c = a * c - b * c
OBVIOUS

LEMMA ReplenishType ==
    ASSUME PerMinute # 0
    PROVE  Replenish \in Nat \ {0} /\ Burst \in Nat \ {0}
<1>1. Minute \in Nat \ {0} /\ PerMinute \in 1 .. Minute
  BY LayersAssumption
<1>2. /\ Minute \div PerMinute \in Int
      /\ Minute < (Minute \div PerMinute) * PerMinute + PerMinute
  BY <1>1, DivisionIs
<1>3. ASSUME Minute \div PerMinute <= 0 PROVE FALSE
  <2>1. (Minute \div PerMinute) * PerMinute <= 0 * PerMinute
    BY <1>1, <1>2, <1>3, ProductsGrow
  <2>2. QED
    BY <1>1, <1>2, <2>1
<1>4. QED
  BY <1>1, <1>2, <1>3 DEF Replenish, Burst

-----------------------------------------------------------------------------
(* The bucket *)

\* One request at the bucket.
Charged(now, tat) == IF Admits(now, tat) THEN Charge(now, tat) ELSE tat

LEMMA ChargedType ==
    ASSUME PerMinute # 0, NEW now \in Int, NEW tat \in Int
    PROVE  /\ Charged(now, tat) \in Int
           /\ Admits(now, tat) \in BOOLEAN
           /\ Charge(now, tat) >= tat + Replenish
           /\ Charge(now, tat) >= now + Replenish
<1>1. Replenish \in Nat \ {0} /\ Burst \in Nat
  BY ReplenishType
<1>2. Later(now, tat) \in Int /\ Later(now, tat) >= now /\ Later(now, tat) >= tat
  BY DEF Later
<1>3. QED
  BY <1>1, <1>2 DEF Charged, Admits, Charge

\* The bucket after the first n requests is what its recursive definition says.
LEMMA BucketIs ==
    ASSUME PerMinute # 0, NEW times \in Seq(Int)
    PROVE  /\ \A n \in 0 .. Len(times) : Bucket(times)[n] \in Int
           /\ Bucket(times)[0] = 0
           /\ \A n \in 1 .. Len(times) : Bucket(times)[n] = Charged(times[n], Bucket(times)[n - 1])
<1> DEFINE Next_(b, n) == IF n = 0 THEN 0 ELSE Charged(times[n], b[n - 1])
           Has(k) == \E b : b = [n \in 0 .. k |-> Next_(b, n)]
           without == {k \in 0 .. Len(times) : ~Has(k)}
<1>1. Len(times) \in Nat /\ \A n \in 1 .. Len(times) : times[n] \in Int
  BY LenProperties, ElementOfSeq
<1>2. Has(0)
  <2> DEFINE b == [n \in 0 .. 0 |-> 0]
  <2>1. b = [n \in 0 .. 0 |-> Next_(b, n)]
    OBVIOUS
  <2>2. QED
    BY <2>1
<1>3. ASSUME NEW k \in Nat, Has(k) PROVE Has(k + 1)
  <2>1. PICK b : b = [n \in 0 .. k |-> Next_(b, n)]
    BY <1>3
  <2> DEFINE c == [n \in 0 .. k + 1 |-> IF n = k + 1 THEN Next_(b, k + 1) ELSE b[n]]
  <2>2. ASSUME NEW n \in 0 .. k + 1 PROVE c[n] = Next_(c, n)
    <3>1. CASE n = 0
      <4>1. c[n] = b[0] /\ 0 \in 0 .. k
        BY <3>1
      <4>2. QED
        BY <2>1, <3>1, <4>1
    <3>2. CASE n # 0
      <4>1. n - 1 \in 0 .. k /\ c[n - 1] = b[n - 1]
        BY <3>2
      <4>2. c[n] = Next_(b, n)
        <5>1. CASE n = k + 1
          BY <5>1
        <5>2. CASE n # k + 1
          <6>1. n \in 0 .. k /\ c[n] = b[n]
            BY <5>2
          <6>2. QED
            BY <2>1, <6>1
        <5>3. QED
          BY <5>1, <5>2
      <4>3. QED
        BY <3>2, <4>1, <4>2
    <3>3. QED
      BY <3>1, <3>2
  <2> HIDE DEF c
  <2>3. c = [n \in 0 .. k + 1 |-> Next_(c, n)]
    <3>1. c = [n \in 0 .. k + 1 |-> c[n]]
      BY DEF c
    <3>2. QED
      BY <2>2, <3>1
  <2>4. QED
    BY <2>3
<1>4. Has(Len(times))
  <2>1. SUFFICES ASSUME without # {} PROVE FALSE
    BY <1>1
  <2> HIDE DEF Has
  <2>2. without \subseteq Nat
    BY <1>1
  <2>3. PICK k \in without : \A j \in without : k <= j
    BY <2>1, <2>2, LeastNatural
  <2>4. k # 0 /\ k - 1 \in 0 .. Len(times) /\ k - 1 \in Nat /\ k \in Nat
    BY <1>1, <1>2, <2>3
  <2>5. Has(k - 1)
    BY <2>3, <2>4
  <2>6. Has(k - 1 + 1)
    BY <1>3, <2>4, <2>5
  <2>7. QED
    BY <2>3, <2>4, <2>6
<1>5. Bucket(times) = [n \in 0 .. Len(times) |-> Next_(Bucket(times), n)]
  <2> DEFINE Solves(b) == b = [n \in 0 .. Len(times) |-> Next_(b, n)]
  <2>1. Bucket(times) = CHOOSE b : Solves(b)
    BY DEF Bucket, Charged
  <2>2. \E b : Solves(b)
    BY <1>4
  <2> HIDE DEF Solves
  <2>3. Solves(Bucket(times))
    BY <2>1, <2>2
  <2>4. QED
    BY <2>3 DEF Solves
<1> DEFINE bucket == Bucket(times)
<1> HIDE DEF bucket
<1>6. /\ bucket[0] = 0
      /\ \A n \in 1 .. Len(times) : bucket[n] = Charged(times[n], bucket[n - 1])
  <2>1. \A n \in 0 .. Len(times) : bucket[n] = Next_(bucket, n)
    BY <1>5 DEF bucket
  <2>2. QED
    BY <1>1, <2>1
<1>7. \A n \in 0 .. Len(times) : bucket[n] \in Int
  <2> DEFINE bad == {n \in 0 .. Len(times) : bucket[n] \notin Int}
  <2>1. SUFFICES ASSUME bad # {} PROVE FALSE
    OBVIOUS
  <2>0. bad \subseteq Nat
    BY <1>1
  <2>2. PICK n \in bad : \A m \in bad : n <= m
    <3> HIDE DEF bad
    <3>1. QED
      BY <2>0, <2>1, LeastNatural
  <2>3. n \in 1 .. Len(times) /\ n - 1 \in 0 .. Len(times) /\ n - 1 \notin bad
    BY <1>1, <1>6, <2>2
  <2>4. bucket[n - 1] \in Int /\ times[n] \in Int
    BY <1>1, <2>3
  <2>5. bucket[n] \in Int
    BY <1>6, <2>3, <2>4, ChargedType
  <2>6. QED
    BY <2>2, <2>5
<1>8. QED
  BY <1>6, <1>7 DEF bucket

\* The times of requests on a clock that does not go back.
Timely(times) ==
    times \in Seq(Nat) /\ \A i \in 2 .. Len(times) : times[i - 1] <= times[i]

\* After a request the bucket is full again at the latest after all its cells are.
LEMMA BucketIsNear ==
    ASSUME PerMinute # 0, NEW times, Timely(times), NEW n \in 1 .. Len(times)
    PROVE  /\ times[n] \in Nat
           /\ Bucket(times)[n] \in Int /\ Bucket(times)[n - 1] \in Int
           /\ Bucket(times)[n] = Charged(times[n], Bucket(times)[n - 1])
           /\ Bucket(times)[n - 1] <= times[n] + Burst * Replenish
           /\ Bucket(times)[n] <= times[n] + Burst * Replenish
<1> DEFINE bucket == Bucket(times)
<1>1. times \in Seq(Int) /\ Len(times) \in Nat /\ \A k \in 1 .. Len(times) : times[k] \in Nat
  <2>1. times \in Seq(Nat)
    BY DEF Timely
  <2>2. Len(times) \in Nat /\ \A k \in 1 .. Len(times) : times[k] \in Nat
    BY <2>1, LenProperties, ElementOfSeq
  <2>3. QED
    BY <2>1, <2>2
<1>2. /\ \A k \in 0 .. Len(times) : bucket[k] \in Int
      /\ bucket[0] = 0
      /\ \A k \in 1 .. Len(times) : bucket[k] = Charged(times[k], bucket[k - 1])
  BY <1>1, BucketIs
<1> HIDE DEF bucket
<1>3. Replenish \in Nat \ {0} /\ Burst \in Nat \ {0} /\ Burst * Replenish \in Nat
      /\ (Burst - 1) * Replenish = Burst * Replenish - Replenish
  <2>1. Replenish \in Nat \ {0} /\ Burst \in Nat \ {0}
    BY ReplenishType
  <2>2. Burst * Replenish \in Nat
    BY <2>1
  <2>3. (Burst - 1) * Replenish = Burst * Replenish - 1 * Replenish
    BY <2>1, Distributes
  <2>4. QED
    BY <2>1, <2>2, <2>3
<1>4. ASSUME NEW k \in 1 .. Len(times), bucket[k - 1] <= times[k] + Burst * Replenish
      PROVE  bucket[k] <= times[k] + Burst * Replenish
  <2>1. times[k] \in Nat /\ bucket[k - 1] \in Int /\ bucket[k] = Charged(times[k], bucket[k - 1])
    BY <1>1, <1>2
  <2>2. CASE Admits(times[k], bucket[k - 1])
    <3>1. bucket[k - 1] - (Burst * Replenish - Replenish) <= times[k]
      BY <1>3, <2>1, <2>2 DEF Admits
    <3>2. Replenish <= Burst * Replenish
      <4>1. 1 * Replenish <= Burst * Replenish
        BY <1>3, ProductsGrow
      <4>2. QED
        BY <1>3, <4>1
    <3>3. QED
      BY <1>3, <2>1, <2>2, <3>1, <3>2, SMTT(40) DEF Charged, Charge, Later
  <2>3. CASE ~Admits(times[k], bucket[k - 1])
    BY <1>4, <2>1, <2>3 DEF Charged
  <2>4. QED
    BY <2>2, <2>3
<1>5. ASSUME NEW k \in 1 .. Len(times) PROVE bucket[k - 1] <= times[k] + Burst * Replenish
  <2> DEFINE bad == {m \in 1 .. Len(times) : ~(bucket[m - 1] <= times[m] + Burst * Replenish)}
  <2>1. SUFFICES ASSUME bad # {} PROVE FALSE
    OBVIOUS
  <2>2. bad \subseteq Nat
    OBVIOUS
  <2>3. PICK m \in bad : \A j \in bad : m <= j
    <3> HIDE DEF bad
    <3>1. QED
      BY <2>1, <2>2, LeastNatural
  <2>4. m # 1
    BY <1>1, <1>2, <1>3, <2>3
  <2>5. m \in 1 .. Len(times) /\ m - 1 \in 1 .. Len(times) /\ m - 1 \notin bad
    BY <2>3, <2>4
  <2>6. bucket[m - 1 - 1] <= times[m - 1] + Burst * Replenish
    BY <2>5
  <2>7. bucket[m - 1] <= times[m - 1] + Burst * Replenish
    BY <1>4, <2>5, <2>6
  <2>8. times[m - 1] <= times[m] /\ times[m - 1] \in Nat /\ times[m] \in Nat /\ bucket[m - 1] \in Int
    <3>1. m \in 2 .. Len(times) /\ m - 1 \in 0 .. Len(times)
      BY <1>1, <2>5
    <3>2. times[m - 1] <= times[m]
      BY <3>1 DEF Timely
    <3>3. QED
      BY <1>1, <1>2, <2>5, <3>1, <3>2
  <2>9. bucket[m - 1] <= times[m] + Burst * Replenish
    BY <1>3, <2>7, <2>8
  <2>10. QED
    BY <2>3, <2>9
<1>6. QED
  BY <1>1, <1>2, <1>4, <1>5 DEF bucket

(***************************************************************************)
(* rate_limit_middleware: whatever the quota and whenever requests come,   *)
(* Retry-After and X-RateLimit-Reset are wrong by less than a second and,  *)
(* for the latter, one replenishment.                                      *)
(***************************************************************************)
THEOREM LimiterIsHonest ==
    ASSUME PerMinute # 0, NEW times, Timely(times)
    PROVE  HeadersAreHonest(times)
<1> DEFINE bucket == Bucket(times)
<1>1. Second \in Nat \ {0} /\ Replenish \in Nat \ {0} /\ Burst \in Nat \ {0}
  BY LayersAssumption, ReplenishType
<1>2. Burst * Replenish \in Nat /\ (Burst - 1) * Replenish = Burst * Replenish - Replenish
  <2>1. Burst * Replenish \in Nat
    BY <1>1
  <2>2. (Burst - 1) * Replenish = Burst * Replenish - 1 * Replenish
    BY <1>1, Distributes
  <2>3. QED
    BY <1>1, <2>1, <2>2
<1>3. ASSUME NEW now \in Nat, NEW tat \in Int, NEW remaining \in Int
      PROVE  LET reset == ResetUnix(now, remaining)
                 missing == (Burst - remaining) * Replenish
             IN  /\ reset \in Int /\ missing \in Int
                 /\ (reset - 1) * Second <= now + missing - 1
                 /\ (reset + 1) * Second > now + missing
  <2> DEFINE reset == ResetUnix(now, remaining)
             missing == (Burst - remaining) * Replenish
             unix == now \div Second
             wait == CeilDiv(missing, Second)
  <2>1. missing \in Int
    BY <1>1, ProductsAreInts
  <2>2. unix \in Int /\ unix * Second <= now /\ now < unix * Second + Second
    BY <1>1, DivisionIs
  <2> HIDE DEF missing, unix
  <2>3. wait \in Int /\ missing <= wait * Second /\ wait * Second < missing + Second
    BY <1>1, <2>1, CeilDivIs
  <2>4. reset = unix + wait
    BY DEF ResetUnix, Unix, unix, missing
  <2> HIDE DEF wait, reset
  <2>5. unix * Second \in Int /\ wait * Second \in Int
    BY <1>1, <2>2, <2>3, ProductsAreInts
  <2>6. (reset - 1) * Second = unix * Second + wait * Second - Second
        /\ (reset + 1) * Second = unix * Second + wait * Second + Second
    <3>1. (unix + wait) * Second = unix * Second + wait * Second
      BY <1>1, <2>2, <2>3, Distributes
    <3>2. (reset - 1) * Second = reset * Second - 1 * Second
          /\ (reset + 1) * Second = reset * Second + 1 * Second
      BY <1>1, <2>2, <2>3, <2>4, Distributes
    <3>3. QED
      BY <1>1, <2>2, <2>3, <2>4, <2>5, <3>1, <3>2
  <2>7. reset \in Int
    BY <2>2, <2>3, <2>4
  <2>8. QED
    BY <1>1, <2>1, <2>2, <2>3, <2>5, <2>6, <2>7 DEF reset, missing
<1>4. ASSUME NEW n \in 1 .. Len(times), Admits(times[n], bucket[n - 1])
      PROVE  LET reset == ResetUnix(times[n], Remaining(times[n], bucket[n]))
             IN  bucket[n] \in (reset - 1) * Second - Replenish .. (reset + 1) * Second - 1
  <2> DEFINE now == times[n]
             tat == bucket[n]
             free == Burst * Replenish - (tat - now)
             remaining == free \div Replenish
             reset == ResetUnix(now, remaining)
  <2>1. now \in Nat /\ tat \in Int
    BY BucketIsNear
  <2> HIDE DEF now, tat, bucket
  <2>2. free \in Int
    BY <1>2, <2>1
  <2> HIDE DEF free
  <2>3. remaining \in Int /\ remaining * Replenish <= free /\ free < remaining * Replenish + Replenish
    BY <1>1, <2>2, DivisionIs
  <2>4. remaining = Remaining(now, tat)
    BY DEF Remaining, free
  <2> HIDE DEF remaining
  <2>5. remaining * Replenish \in Int
        /\ (Burst - remaining) * Replenish = Burst * Replenish - remaining * Replenish
    BY <1>1, <2>3, ProductsAreInts, Distributes
  <2>6. /\ reset \in Int
        /\ (reset - 1) * Second <= now + (Burst - remaining) * Replenish - 1
        /\ (reset + 1) * Second > now + (Burst - remaining) * Replenish
    BY <1>3, <2>1, <2>3
  <2> HIDE DEF reset
  <2>7. (reset - 1) * Second \in Int /\ (reset + 1) * Second \in Int
    BY <1>1, <2>6, ProductsAreInts
  <2>8. /\ now + (Burst - remaining) * Replenish >= tat
        /\ now + (Burst - remaining) * Replenish < tat + Replenish
    BY <1>1, <1>2, <2>1, <2>3, <2>5 DEF free
  <2>9. /\ (reset - 1) * Second - Replenish <= tat
        /\ tat <= (reset + 1) * Second - 1
    BY <1>1, <1>2, <2>1, <2>5, <2>6, <2>7, <2>8
  <2>10. tat \in (reset - 1) * Second - Replenish .. (reset + 1) * Second - 1
    BY <1>1, <2>1, <2>7, <2>9
  <2>11. QED
    BY <2>4, <2>10 DEF reset, now, tat, bucket
<1>5. ASSUME NEW n \in 1 .. Len(times), ~Admits(times[n], bucket[n - 1])
      PROVE  /\ Admits(times[n] + (RetryAfter(times[n], bucket[n]) + 1) * Second, bucket[n])
             /\ bucket[n] < (ResetUnix(times[n], 0) + 1) * Second
  <2> DEFINE now == times[n]
             tat == bucket[n]
             wait == tat - (Burst - 1) * Replenish - now
             secs == wait \div Second
             retry == RetryAfter(now, tat)
  <2>1. now \in Nat /\ tat \in Int /\ tat <= now + Burst * Replenish
    BY BucketIsNear
  <2> HIDE DEF now, tat, bucket
  <2>2. wait \in Int
    BY <1>1, <1>2, <2>1
  <2> HIDE DEF wait
  <2>3. secs \in Int /\ secs * Second <= wait /\ wait < secs * Second + Second
    BY <1>1, <2>2, DivisionIs
  <2>4. retry = Later(1, secs)
    BY DEF RetryAfter, wait
  <2> HIDE DEF secs, retry
  <2>5. retry \in Int /\ secs <= retry
    BY <2>3, <2>4 DEF Later
  <2>6. (retry + 1) * Second >= (secs + 1) * Second /\ (secs + 1) * Second = secs * Second + Second
    <3>1. (secs + 1) * Second <= (retry + 1) * Second
      BY <1>1, <2>3, <2>5, ProductsGrow
    <3>2. (secs + 1) * Second = secs * Second + 1 * Second
      BY <1>1, <2>3, Distributes
    <3>3. (secs + 1) * Second \in Int /\ (retry + 1) * Second \in Int
      BY <1>1, <2>3, <2>5, ProductsAreInts
    <3>4. QED
      BY <1>1, <3>1, <3>2, <3>3
  <2>7. (retry + 1) * Second \in Int /\ secs * Second \in Int
    BY <1>1, <2>3, <2>5, ProductsAreInts
  <2>8. now + (retry + 1) * Second >= tat - (Burst - 1) * Replenish
    BY <1>1, <1>2, <2>1, <2>2, <2>3, <2>6, <2>7 DEF wait
  <2>9. tat < (ResetUnix(now, 0) + 1) * Second
    <3>1. /\ ResetUnix(now, 0) \in Int
          /\ (ResetUnix(now, 0) + 1) * Second > now + (Burst - 0) * Replenish
      BY <1>3, <2>1
    <3>2. Burst - 0 = Burst
      BY <1>1
    <3>3. (ResetUnix(now, 0) + 1) * Second \in Int
      BY <1>1, <3>1, ProductsAreInts
    <3>4. QED
      BY <1>1, <1>2, <2>1, <3>1, <3>2, <3>3
  <2>10. QED
    BY <2>8, <2>9 DEF Admits, retry, now, tat, bucket
<1>6. ASSUME NEW n \in 1 .. Len(times)
      PROVE  LET now == times[n]
                 tat == bucket[n]
             IN  IF Admits(now, bucket[n - 1])
                 THEN LET reset == ResetUnix(now, Remaining(now, tat))
                      IN  tat \in (reset - 1) * Second - Replenish .. (reset + 1) * Second - 1
                 ELSE /\ Admits(now + (RetryAfter(now, tat) + 1) * Second, tat)
                      /\ tat < (ResetUnix(now, 0) + 1) * Second
  <2>1. CASE Admits(times[n], bucket[n - 1])
    BY <1>4, <2>1
  <2>2. CASE ~Admits(times[n], bucket[n - 1])
    BY <1>5, <2>2
  <2>3. QED
    BY <2>1, <2>2
<1>7. QED
  BY <1>6 DEF HeadersAreHonest

(***************************************************************************)
(* build_router_with_body_limit: the layers are nested as they should be,  *)
(* for every limit and token, every request, and whatever the bucket has.  *)
(***************************************************************************)
THEOREM LayersAlwaysNest ==
    ASSUME NEW cors, NEW request, NEW now \in Int, NEW tat \in Int, request.body \in Int
    PROVE  LayersNest(cors, request, now, tat)
<1> DEFINE inner == Jsonified(BodyLimited(request))
           served == Serve(cors, request, now, tat)
           limited == RateLimited(request, now, tat)
<1>1. /\ inner.status \in {200, 401, 405, 413}
      /\ inner.status = 413 => inner.json
      /\ inner.handled => ~request.takesBody \/ request.body <= MaxBody
  <2>1. LET h == Handler(request)
        IN  /\ h.status \in {200, 401, 405, 413}
            /\ h.handled => ~request.takesBody \/ request.body <= MaxBody
    BY LayersAssumption DEF Handler
  <2>2. LET b == BodyLimited(request)
        IN  /\ b.status \in {200, 401, 405, 413}
            /\ b.handled => ~request.takesBody \/ request.body <= MaxBody
    BY <2>1 DEF BodyLimited, PayloadTooLarge
  <2> QED
    BY <2>2 DEF Jsonified, PayloadTooLarge
<1> HIDE DEF inner
<1>2. CASE Preflight(cors, request)
  BY <1>2 DEF LayersNest
<1>3. CASE ~Preflight(cors, request)
  <2>1. /\ served.status = limited.response.status /\ served.json = limited.response.json
        /\ served.handled = limited.response.handled /\ served.tat = limited.tat
        /\ served.counted = {<<Family(request.path), request.method, limited.response.status>>}
    BY <1>3 DEF Serve
  <2>2. /\ limited.response.handled => ~request.takesBody \/ request.body <= MaxBody
        /\ limited.response.status = 413 => limited.response.json
    BY <1>1 DEF RateLimited, TooManyRequests, inner
  <2>3. ASSUME IsRateLimitedPath(request.path), PerMinute # 0
        PROVE  limited.response.status = 429 <=> limited.tat = tat
    <3>1. Charge(now, tat) # tat
      BY <2>3, ReplenishType DEF Charge, Later
    <3>2. CASE Admits(now, tat)
      <4>1. limited.response = inner /\ limited.tat = Charge(now, tat)
        BY <2>3, <3>2 DEF RateLimited, inner
      <4>2. QED
        BY <1>1, <3>1, <4>1
    <3>3. CASE ~Admits(now, tat)
      BY <2>3, <3>3 DEF RateLimited, TooManyRequests
    <3>4. QED
      BY <3>2, <3>3
  <2> HIDE DEF served, limited
  <2>4. QED
    BY <2>1, <2>2, <2>3 DEF LayersNest, served
<1>4. QED
  BY <1>2, <1>3

-----------------------------------------------------------------------------
(* Compaction *)

\* Without system messages truncation is a cut.
LEMMA TruncationCuts ==
    ASSUME NEW h \in History, Len(h) > MaxMessages, SystemPositions(h) = {}
    PROVE  HardTruncate(h) = SubSeq(h, Len(h) - MaxMessages + 1, Len(h))
<1> DEFINE rest == DOMAIN h \ {}
           slots == SaturatingSub(MaxMessages, Cardinality({}))
           newest == {i \in rest : Cardinality({j \in rest : j >= i}) <= slots}
           first == Len(h) - MaxMessages + 1
<1>1. MaxMessages \in Nat \ {0} /\ Len(h) \in Nat /\ DOMAIN h = 1 .. Len(h) /\ h \in Seq(Message)
  BY HistoryAssumption, LenProperties DEF History
<1>2. slots = MaxMessages
  BY <1>1, FS_EmptySet DEF SaturatingSub
<1>3. newest = first .. Len(h)
  <2>1. ASSUME NEW i \in 1 .. Len(h)
        PROVE  Cardinality({j \in rest : j >= i}) = Len(h) - i + 1
    <3>1. {j \in rest : j >= i} = i .. Len(h)
      BY <1>1
    <3>2. i \in Int /\ Len(h) \in Int /\ i <= Len(h) + 1
      BY <1>1
    <3>3. Cardinality(i .. Len(h)) = Len(h) - i + 1
      BY <3>2, IntervalCount
    <3>4. QED
      BY <3>1, <3>3
  <2>2. newest = {i \in 1 .. Len(h) : Len(h) - i + 1 <= MaxMessages}
    BY <1>1, <1>2, <2>1
  <2> HIDE DEF newest
  <2>3. QED
    BY <1>1, <2>2
<1>4. HardTruncate(h) = KeepPositions(h, {}) \o KeepPositions(h, newest)
  BY <1>1 DEF HardTruncate
<1> HIDE DEF newest
<1>5. Cardinality(newest) = MaxMessages
  BY <1>1, <1>3, IntervalCount
<1>6. ASSUME NEW k \in 1 .. MaxMessages PROVE Nth(newest, k) = first + k - 1
  <2> DEFINE i == first + k - 1
  <2>1. i \in newest /\ newest \in SUBSET (1 .. Len(h))
    BY <1>1, <1>3
  <2>2. {j \in newest : j <= i} = first .. i
    BY <1>1, <1>3
  <2>3. CountUpTo(newest, i) = k
    <3>1. first \in Int /\ i \in Int /\ first <= i + 1 /\ i - first + 1 = k
      BY <1>1
    <3> HIDE DEF first, i
    <3>2. Cardinality(first .. i) = k
      BY <3>1, IntervalCount
    <3>3. QED
      BY <2>2, <3>2 DEF CountUpTo
  <2>4. QED
    BY <1>1, <2>1, <2>3, ElementIsNth
<1>7. KeepPositions(h, newest) = [k \in 1 .. MaxMessages |-> h[first + k - 1]]
  BY <1>5, <1>6 DEF KeepPositions
<1>8. KeepPositions(h, {}) = <<>>
  <2>1. 1 .. Cardinality({}) = {}
    BY FS_EmptySet
  <2>2. QED
    BY <2>1 DEF KeepPositions
<1>9. SubSeq(h, first, Len(h)) = [k \in 1 .. MaxMessages |-> h[first + k - 1]]
  BY <1>1 DEF SubSeq
<1>10. KeepPositions(h, newest) \in Seq(Message)
  BY <1>1, <1>3, KeepPositionsType
<1>11. QED
  BY <1>4, <1>7, <1>8, <1>9, <1>10, ConcatEmptySeq

(***************************************************************************)
(* compact_session_history and compact_imported_session_messages: the      *)
(* newest KeepRecent messages of a history without system messages survive *)
(* at its end, word for word, and the result fits the limit unless it is   *)
(* nothing but system messages; for every limit and every history.         *)
(***************************************************************************)
THEOREM RecentSurvive ==
    ASSUME NEW h \in History, NEW c \in Compactions(h) \cup {ImportCompaction(h)}
    PROVE  /\ Len(c) <= MaxMessages \/ Len(c) = Cardinality(SystemPositions(c))
           /\ SystemPositions(h) = {} /\ KeepRecent <= Len(h) =>
                 SubSeq(c, Len(c) - KeepRecent + 1, Len(c)) = SubSeq(h, Len(h) - KeepRecent + 1, Len(h))
<1>1. MaxMessages \in Nat /\ KeepRecent \in 1 .. MaxMessages - 1 /\ Len(h) \in Nat /\ h \in Seq(Message)
  BY HistoryAssumption, LenProperties DEF History
<1>2. c \in History /\ FitsLimit(c)
  BY CompactionFits
<1>3. Len(c) \in Nat /\ c \in Seq(Message) /\ DOMAIN c = 1 .. Len(c)
  BY <1>2, LenProperties DEF History
<1>4. Len(c) <= MaxMessages \/ Len(c) = Cardinality(SystemPositions(c))
  <2>1. SystemPositions(c) \in SUBSET (1 .. Len(c))
    BY <1>3 DEF SystemPositions
  <2>2. IsFiniteSet(1 .. Len(c)) /\ Cardinality(1 .. Len(c)) = Len(c)
    BY <1>3, FS_Interval
  <2>3. Cardinality(SystemPositions(c)) <= Len(c) /\ Cardinality(SystemPositions(c)) \in Nat
    <3>1. Cardinality(SystemPositions(c)) <= Cardinality(1 .. Len(c))
      BY <2>1, <2>2, FS_Subset
    <3>2. Cardinality(SystemPositions(c)) \in Nat
      BY <1>3, <2>1, PositionsFinite
    <3>3. QED
      BY <2>2, <3>1, <3>2
  <2>4. QED
    BY <1>1, <1>2, <1>3, <2>3 DEF FitsLimit
<1>5. ASSUME SystemPositions(h) = {}, KeepRecent <= Len(h)
      PROVE  SubSeq(c, Len(c) - KeepRecent + 1, Len(c)) = SubSeq(h, Len(h) - KeepRecent + 1, Len(h))
  <2>1. CASE c = h
    BY <2>1
  <2>2. CASE Len(h) > MaxMessages /\ c = HardTruncate(h)
    <3> DEFINE cut == Len(h) - MaxMessages + 1
    <3>1. c = SubSeq(h, cut, Len(h))
      BY <1>5, <2>2, TruncationCuts
    <3>2. cut \in 1 .. Len(h) /\ Len(h) \in 1 .. Len(h) /\ Len(h) - cut + 1 = MaxMessages
      BY <1>1, <2>2
    <3>3. Len(c) = MaxMessages
      <4>1. \A i \in cut .. Len(h) : h[i] \in Message
        BY <1>1, <3>2, ElementOfSeq
      <4>2. cut \in Int /\ Len(h) \in Int /\ cut <= Len(h)
        BY <3>2, <1>1
      <4>3. Len(c) = Len(h) - cut + 1
        BY <3>1, <4>1, <4>2, SubSeqProperties
      <4>4. QED
        BY <3>2, <4>3
    <3>4. MaxMessages - KeepRecent + 1 \in 1 .. Len(h) - cut + 1 /\ MaxMessages \in 1 .. Len(h) - cut + 1
      BY <1>1, <3>2
    <3>5. /\ cut + (MaxMessages - KeepRecent + 1) - 1 = Len(h) - KeepRecent + 1
          /\ cut + MaxMessages - 1 = Len(h)
      BY <1>1
    <3> HIDE DEF cut
    <3>6. SubSeq(c, MaxMessages - KeepRecent + 1, MaxMessages)
              = SubSeq(h, cut + (MaxMessages - KeepRecent + 1) - 1, cut + MaxMessages - 1)
      BY <1>1, <3>1, <3>2, <3>4, SubSeqOfSubSeq
    <3>7. QED
      BY <3>3, <3>5, <3>6
  <2>3. CASE Len(h) > MaxMessages /\ c = SummarizeOverflow(h)
    <3> DEFINE recent == SubSeq(h, Len(h) - KeepRecent + 1, Len(h))
    <3>1. recent \in Seq(Message) /\ Len(recent) = KeepRecent
      <4>1. Len(h) - KeepRecent + 1 \in Int /\ Len(h) \in Int /\ Len(h) - KeepRecent + 1 <= Len(h)
            /\ Len(h) - (Len(h) - KeepRecent + 1) + 1 = KeepRecent
        BY <1>1
      <4>2. \A i \in Len(h) - KeepRecent + 1 .. Len(h) : h[i] \in Message
        BY <1>1, <1>5, ElementOfSeq
      <4>3. QED
        BY <4>1, <4>2, SubSeqProperties
    <3>2. <<Summary>> \in Seq(Message) /\ Len(<<Summary>>) = 1
      BY DEF Summary, Message, Role
    <3>3. c = <<Summary>> \o recent
      BY <2>3 DEF SummarizeOverflow
    <3> HIDE DEF recent
    <3>4. Len(c) = KeepRecent + 1
      BY <1>1, <3>1, <3>2, <3>3, ConcatProperties
    <3>5. SubSeq(c, 2, KeepRecent + 1) = SubSeq(recent, 1, KeepRecent)
      <4>1. 2 \in 1 + 1 .. 1 + KeepRecent /\ KeepRecent + 1 \in 1 + 1 .. 1 + KeepRecent
        BY <1>1
      <4>2. SubSeq(c, 2, KeepRecent + 1) = SubSeq(recent, 2 - 1, KeepRecent + 1 - 1)
        BY <3>1, <3>2, <3>3, <4>1, SubSeqOfConcat2
      <4>3. 2 - 1 = 1 /\ KeepRecent + 1 - 1 = KeepRecent
        BY <1>1
      <4>4. QED
        BY <4>2, <4>3
    <3>6. SubSeq(recent, 1, KeepRecent) = recent
      BY <3>1, SubSeqFull
    <3>7. Len(c) - KeepRecent + 1 = 2
      BY <1>1, <3>4
    <3>8. QED
      BY <3>4, <3>5, <3>6, <3>7 DEF recent
  <2>4. QED
    BY <1>1, <2>1, <2>2, <2>3 DEF Compactions, ImportCompaction
<1>6. QED
  BY <1>4, <1>5

-----------------------------------------------------------------------------
(* The truncation of the code *)

\* A selection that ends with position n.
LEMMA KeepOneMore ==
    ASSUME NEW S, NEW h \in Seq(S), NEW n \in 1 .. Len(h), NEW J \in SUBSET (1 .. n - 1)
    PROVE  KeepPositions(h, J \cup {n}) = Append(KeepPositions(h, J), h[n])
<1> DEFINE c == Cardinality(J)
           I == J \cup {n}
           f == [k \in 1 .. c + 1 |-> IF k <= c THEN Nth(J, k) ELSE n]
           K == KeepPositions(h, J)
<1>1. Len(h) \in Nat /\ DOMAIN h = 1 .. Len(h) /\ n - 1 \in Nat /\ n \in Nat
  BY LenProperties
<1>2. J \in SUBSET (1 .. Len(h)) /\ I \in SUBSET (1 .. Len(h)) /\ \A i \in J : i < n
  BY <1>1
<1>3. c \in Nat
  BY <1>1, PositionsFinite
<1>4. \A k \in 1 .. c : Nth(J, k) \in J
  BY <1>1, NthIsElement
<1>5. \A k, l \in 1 .. c : k < l => Nth(J, k) < Nth(J, l)
  BY <1>1, NthOrdered
<1>6. K \in Seq(S) /\ Len(K) = c /\ \A k \in 1 .. c : K[k] = h[Nth(J, k)]
  <2>1. J \in SUBSET DOMAIN h
    BY <1>1, <1>2
  <2>2. K \in Seq(S) /\ Len(K) = c
    BY <2>1, KeepPositionsType
  <2>3. \A k \in 1 .. c : K[k] = h[Nth(J, k)]
    BY DEF KeepPositions
  <2>4. QED
    BY <2>2, <2>3
<1>7. \A i \in J : \E k \in 1 .. c : Nth(J, k) = i
  BY <1>1, ElementIsNth
<1>8. h[n] \in S
  BY ElementOfSeq
<1> HIDE DEF c, K
<1>9. /\ \A k \in 1 .. c : k \in 1 .. c + 1 /\ f[k] = Nth(J, k)
      /\ c + 1 \in 1 .. c + 1 /\ f[c + 1] = n
  BY <1>3
<1>10. \A k \in 1 .. c + 1 : k \in 1 .. c \/ k = c + 1
  BY <1>3
<1>11. f \in [1 .. c + 1 -> I]
  <2>1. \A k \in 1 .. c + 1 : f[k] \in I
    <3> HIDE DEF f
    <3>1. QED
      BY <1>4, <1>9, <1>10
  <2>2. f = [k \in 1 .. c + 1 |-> f[k]]
    OBVIOUS
  <2> HIDE DEF f, I
  <2>3. QED
    BY <2>1, <2>2
<1> HIDE DEF f
<1>12. \A k, l \in 1 .. c + 1 : k < l => f[k] < f[l]
  <2> SUFFICES ASSUME NEW k \in 1 .. c + 1, NEW l \in 1 .. c + 1, k < l PROVE f[k] < f[l]
    OBVIOUS
  <2>1. k \in 1 .. c
    BY <1>3
  <2>2. CASE l \in 1 .. c
    BY <1>5, <1>9, <2>1, <2>2
  <2>3. CASE l = c + 1
    BY <1>2, <1>4, <1>9, <2>1, <2>3
  <2>4. QED
    BY <1>10, <2>2, <2>3
<1>13. \A i \in I : \E k \in 1 .. c + 1 : f[k] = i
  <2>1. \A i \in J : \E k \in 1 .. c + 1 : f[k] = i
    BY <1>7, <1>9
  <2>2. QED
    BY <1>9, <2>1
<1> HIDE DEF I
<1>14. c + 1 = Cardinality(I) /\ \A k \in 1 .. c + 1 : Nth(I, k) = f[k]
  <2> DEFINE m == c + 1
             len == Len(h)
  <2>1. m \in Nat /\ len \in Nat /\ I \in SUBSET (1 .. len) /\ f \in [1 .. m -> I]
    BY <1>1, <1>2, <1>3, <1>11
  <2>2. (\A k, l \in 1 .. m : k < l => f[k] < f[l]) /\ \A i \in I : \E k \in 1 .. m : f[k] = i
    BY <1>12, <1>13
  <2> HIDE DEF m, len
  <2>3. m = Cardinality(I) /\ \A k \in 1 .. m : Nth(I, k) = f[k]
    BY <2>1, <2>2, SelectionIs, ZenonT(60)
  <2>4. QED
    BY <2>3 DEF m
<1>15. KeepPositions(h, I) = [k \in 1 .. c + 1 |-> h[f[k]]]
  BY <1>14 DEF KeepPositions
<1>16. Append(K, h[n]) = [k \in 1 .. c + 1 |-> IF k <= c THEN K[k] ELSE h[n]]
  <2>1. /\ Append(K, h[n]) \in Seq(S) /\ Len(Append(K, h[n])) = c + 1
        /\ \A k \in 1 .. c : Append(K, h[n])[k] = K[k]
        /\ Append(K, h[n])[c + 1] = h[n]
    BY <1>6, <1>8, AppendProperties
  <2>2. Append(K, h[n]) = [k \in 1 .. c + 1 |-> Append(K, h[n])[k]]
    BY <2>1, LenProperties
  <2>3. \A k \in 1 .. c + 1 : Append(K, h[n])[k] = IF k <= c THEN K[k] ELSE h[n]
    BY <1>3, <2>1
  <2>4. QED
    BY <2>2, <2>3
<1>17. \A k \in 1 .. c + 1 : h[f[k]] = IF k <= c THEN K[k] ELSE h[n]
  BY <1>3, <1>6, <1>9, <1>10
<1>18. QED
  BY <1>15, <1>16, <1>17 DEF I, K

\* A filter selects.
LEMMA FilterKeeps ==
    ASSUME NEW S, NEW h \in Seq(S), NEW I \in SUBSET (1 .. Len(h))
    PROVE  Filtered(h, I) = KeepPositions(h, I)
<1> DEFINE len == Len(h)
           Step(t, n) == IF n = 0 THEN <<>> ELSE IF n \in I THEN Append(t[n - 1], h[n]) ELSE t[n - 1]
           Solves(t) == t = [n \in 0 .. len |-> Step(t, n)]
           upTo == CHOOSE t : Solves(t)
           kept == [n \in 0 .. len |-> KeepPositions(h, {i \in I : i <= n})]
<1>1. len \in Nat
  BY LenProperties
<1>2. ASSUME NEW n \in 0 .. len PROVE kept[n] = Step(kept, n)
  <2>1. CASE n = 0
    <3>1. {i \in I : i <= n} = {}
      <4>1. \A i \in I : ~(i <= n)
        BY <1>1, <2>1
      <4>2. QED
        BY <4>1
    <3>2. KeepPositions(h, {}) = <<>>
      BY KeepAllOrNone
    <3>3. kept[n] = KeepPositions(h, {i \in I : i <= n})
      OBVIOUS
    <3> HIDE DEF kept
    <3>4. QED
      BY <2>1, <3>1, <3>2, <3>3
  <2>2. CASE n # 0
    <3> DEFINE J == {i \in I : i <= n - 1}
    <3>1. n \in 1 .. Len(h) /\ n - 1 \in 0 .. len /\ J \in SUBSET (1 .. n - 1)
      <4>1. n \in 1 .. Len(h) /\ n - 1 \in 0 .. len
        BY <1>1, <2>2
      <4>2. \A i \in I : i <= n - 1 => i \in 1 .. n - 1
        BY <1>1, <4>1
      <4>3. QED
        BY <4>1, <4>2
    <3>2. {i \in I : i <= n} = IF n \in I THEN J \cup {n} ELSE J
      <4>1. \A i \in I : i <= n <=> i <= n - 1 \/ i = n
        BY <3>1
      <4>2. QED
        BY <4>1
    <3>3. kept[n] = KeepPositions(h, {i \in I : i <= n}) /\ kept[n - 1] = KeepPositions(h, J)
      BY <3>1
    <3> HIDE DEF kept, J
    <3>4. n \in I => KeepPositions(h, J \cup {n}) = Append(KeepPositions(h, J), h[n])
      BY <3>1, KeepOneMore
    <3>5. QED
      BY <2>2, <3>2, <3>3, <3>4
  <2>3. QED
    BY <2>1, <2>2
<1>3. Solves(kept)
  <2>1. kept = [n \in 0 .. len |-> kept[n]]
    OBVIOUS
  <2> HIDE DEF kept, Step
  <2>2. QED
    BY <1>2, <2>1
<1>4. Solves(upTo)
  <2> HIDE DEF Solves, kept
  <2>1. QED
    BY <1>3
<1>5. Filtered(h, I) = upTo[len]
  BY DEF Filtered
<1>6. \A n \in 0 .. len : upTo[n] = Step(upTo, n) /\ kept[n] = Step(kept, n)
  <2> HIDE DEF upTo, kept, Step
  <2>1. QED
    BY <1>2, <1>4
<1> HIDE DEF upTo, kept, len, Solves
<1> DEFINE wrongs == {n \in 0 .. len : upTo[n] # kept[n]}
<1>7. wrongs = {}
  <2> SUFFICES ASSUME wrongs # {} PROVE FALSE
    OBVIOUS
  <2>1. wrongs \subseteq Nat
    BY <1>1
  <2>2. PICK n \in wrongs : \A m \in wrongs : n <= m
    BY <2>1, LeastNatural
  <2>3. n \in 0 .. len /\ upTo[n] # kept[n]
    BY <2>2
  <2>4. CASE n = 0
    BY <1>6, <2>3, <2>4
  <2>5. CASE n # 0
    <3>1. n - 1 \in 0 .. len /\ ~(n <= n - 1)
      BY <1>1, <2>3, <2>5
    <3>2. upTo[n - 1] = kept[n - 1]
      BY <2>2, <3>1
    <3>3. QED
      BY <1>6, <2>3, <2>5, <3>2
  <2>6. QED
    BY <2>4, <2>5
<1>8. len \in 0 .. len
  BY <1>1
<1>9. upTo[len] = kept[len]
  BY <1>7, <1>8
<1>10. kept[len] = KeepPositions(h, {i \in I : i <= len})
  BY <1>8 DEF kept
<1>11. {i \in I : i <= len} = I
  <2>1. \A i \in I : i <= len
    BY <1>1 DEF len
  <2>2. QED
    BY <2>1
<1>12. QED
  BY <1>5, <1>9, <1>10, <1>11

\* The end of a sequence is the selection of its last positions.
LEMMA KeepTheEnd ==
    ASSUME NEW S, NEW h \in Seq(S), NEW skip \in 0 .. Len(h)
    PROVE  KeepPositions(h, skip + 1 .. Len(h)) = SubSeq(h, skip + 1, Len(h))
<1> DEFINE len == Len(h)
           I == skip + 1 .. len
           m == len - skip
           f == [k \in 1 .. m |-> skip + k]
<1>1. len \in Nat /\ skip \in Nat /\ m \in Nat /\ I \in SUBSET (1 .. len)
  BY LenProperties
<1>2. /\ f \in [1 .. m -> I] /\ \A k, l \in 1 .. m : k < l => f[k] < f[l]
  BY <1>1
<1>3. \A i \in I : \E k \in 1 .. m : f[k] = i
  <2> SUFFICES ASSUME NEW i \in I PROVE \E k \in 1 .. m : f[k] = i
    OBVIOUS
  <2>1. i - skip \in 1 .. m /\ skip + (i - skip) = i
    BY <1>1
  <2>2. f[i - skip] = i
    BY <2>1
  <2>3. QED
    BY <2>1, <2>2
<1>4. m = Cardinality(I) /\ \A k \in 1 .. m : Nth(I, k) = f[k]
  <2> HIDE DEF f, m, I, len
  <2>1. QED
    BY <1>1, <1>2, <1>3, SelectionIs, ZenonT(60)
<1>5. KeepPositions(h, I) = [k \in 1 .. m |-> h[skip + k]]
  <2> HIDE DEF I, m
  <2>1. KeepPositions(h, I) = [k \in 1 .. m |-> h[Nth(I, k)]]
    BY <1>4 DEF KeepPositions
  <2>2. \A k \in 1 .. m : Nth(I, k) = skip + k
    BY <1>4
  <2>3. QED
    BY <2>1, <2>2
<1>6. SubSeq(h, skip + 1, len) = [k \in 1 .. m |-> h[skip + k]]
  <2>1. SubSeq(h, skip + 1, len) = [k \in 1 .. (1 + len - (skip + 1)) |-> h[k + (skip + 1) - 1]]
    BY DEF SubSeq
  <2>2. 1 + len - (skip + 1) = m /\ \A k \in 1 .. m : k + (skip + 1) - 1 = skip + k
    BY <1>1
  <2>3. QED
    BY <2>1, <2>2
<1>7. QED
  BY <1>5, <1>6

(***************************************************************************)
(* hard_truncate_session_messages: the truncation by positions is the one  *)
(* of the code, by filters and a skip, for every limit and history.        *)
(***************************************************************************)
THEOREM TruncationIsTheCodes ==
    ASSUME NEW h \in History
    PROVE  HardTruncate(h) = ReferenceTruncate(h)
<1> DEFINE sys == SystemPositions(h)
           I == Conversation(h)
           n == Len(h)
           v == Cardinality(I)
           system == Filtered(h, {i \in DOMAIN h : IsSystem(h[i])})
           others == Filtered(h, {i \in DOMAIN h : ~IsSystem(h[i])})
           skip == SaturatingSub(Len(others), SaturatingSub(MaxMessages, Len(system)))
           room == Room(Cardinality(sys))
<1>1. /\ h \in Seq(Message) /\ n \in Nat /\ DOMAIN h = 1 .. n /\ sys \in SUBSET (1 .. n) /\ I \in SUBSET (1 .. n)
      /\ Cardinality(sys) \in Nat /\ v \in Nat /\ MaxMessages \in Nat
  BY PositionsType, HistoryAssumption
<1>2. {i \in DOMAIN h : IsSystem(h[i])} = sys /\ {i \in DOMAIN h : ~IsSystem(h[i])} = I
  BY DEF SystemPositions, Conversation
<1>3. system = KeepPositions(h, sys) /\ others = KeepPositions(h, I)
  BY <1>1, <1>2, FilterKeeps
<1>4. ReferenceTruncate(h) = IF n <= MaxMessages THEN h ELSE system \o SubSeq(others, skip + 1, Len(others))
  BY DEF ReferenceTruncate
<1> HIDE DEF system, others
<1>5. /\ system \in Seq(Message) /\ Len(system) = Cardinality(sys)
      /\ others \in Seq(Message) /\ Len(others) = v
  <2>1. sys \in SUBSET DOMAIN h /\ I \in SUBSET DOMAIN h
    BY <1>1
  <2> HIDE DEF sys, I
  <2>2. QED
    BY <1>1, <1>3, <2>1, KeepPositionsType
<1>6. skip = SaturatingSub(v, room)
  BY <1>5 DEF Room
<1> HIDE DEF skip
<1>7. room \in Nat
  BY <1>1 DEF Room, SaturatingSub
<1> HIDE DEF room
<1>8. skip \in 0 .. v /\ \A k \in 1 .. v : v - k + 1 <= room <=> k \in skip + 1 .. v
  BY <1>1, <1>6, <1>7 DEF SaturatingSub
<1> DEFINE J == skip + 1 .. v
           chosen == {Nth(I, k) : k \in J}
<1>9. SubSeq(others, skip + 1, Len(others)) = KeepPositions(others, J)
  <2>1. skip \in 0 .. Len(others)
    BY <1>5, <1>8
  <2>2. QED
    BY <1>5, <2>1, KeepTheEnd
<1>10. J \in SUBSET (1 .. v)
  BY <1>1, <1>8
<1>11. KeepPositions(KeepPositions(h, I), J) = KeepPositions(h, chosen)
  <2> HIDE DEF J, I
  <2>1. QED
    BY <1>1, <1>10, KeepKeep
<1> HIDE DEF v, I, J
<1>12. chosen = NewestAt(h, room)
  <2>1. \A k \in 1 .. v : Nth(I, k) \in I /\ CountFrom(I, Nth(I, k)) = v - k + 1
    BY <1>1, NthIsElement, CountFromNth DEF v
  <2>2. \A k \in 1 .. v : k \in J <=> CountFrom(I, Nth(I, k)) <= room
    BY <1>8, <2>1 DEF J
  <2>3. ASSUME NEW k \in J PROVE Nth(I, k) \in NewestAt(h, room)
    <3>1. k \in 1 .. v
      BY <1>10
    <3>2. QED
      BY <2>1, <2>2, <3>1 DEF NewestAt, I
  <2>4. ASSUME NEW i \in NewestAt(h, room) PROVE i \in chosen
    <3>1. i \in I /\ CountFrom(I, i) <= room
      BY DEF NewestAt, I
    <3> DEFINE k == CountUpTo(I, i)
    <3>2. k \in 1 .. v /\ Nth(I, k) = i
      BY <1>1, <3>1, ElementIsNth DEF v
    <3> HIDE DEF k
    <3>3. k \in J
      BY <2>2, <3>1, <3>2
    <3>4. QED
      BY <3>2, <3>3
  <2>5. QED
    BY <2>3, <2>4
<1> HIDE DEF chosen
<1>13. CASE n > MaxMessages
  <2>1. HardTruncate(h) = SystemPart(h) \o NewestPart(h, room)
    BY <1>13, TruncationParts DEF room, n, sys
  <2>2. SystemPart(h) = system
    BY <1>3 DEF SystemPart, sys
  <2>3. NewestPart(h, room) = SubSeq(others, skip + 1, Len(others))
    BY <1>3, <1>9, <1>11, <1>12 DEF NewestPart
  <2>4. ~(n <= MaxMessages)
    BY <1>1, <1>13
  <2>5. QED
    BY <1>4, <2>1, <2>2, <2>3, <2>4
<1>14. CASE n <= MaxMessages
  BY <1>4, <1>14 DEF HardTruncate, n
<1>15. QED
  BY <1>1, <1>13, <1>14

-----------------------------------------------------------------------------
(* Globs *)

(***************************************************************************)
(* What the parts of a pattern from g on mean of a text from t on: n parts *)
(* and len elements, of which wild are the parts that stand for any        *)
(* stretch, and fits says which of the others stand for which element.     *)
(***************************************************************************)
Cuts(cut, len, wild, fits, g, n, t) ==
    /\ cut[g - 1] = t - 1 /\ cut[n] = len
    /\ \A i \in g .. n :
          IF i \in wild THEN cut[i - 1] <= cut[i]
          ELSE cut[i] = cut[i - 1] + 1 /\ <<i, cut[i]>> \in fits

Means(n, len, wild, fits, g, t) ==
    \E cut \in [g - 1 .. n -> 0 .. len] : Cuts(cut, len, wild, fits, g, n, t)

\* Part g stands for the text from t up to k.
Joins(wild, fits, g, t, k) == IF g \in wild THEN t <= k ELSE k = t + 1 /\ <<g, t>> \in fits

\* Behind the pattern, nothing may be left of the text.
LEMMA NothingLeft ==
    ASSUME NEW n \in Nat, NEW len \in Nat, NEW wild, NEW fits, NEW t \in 1 .. len + 1
    PROVE  Means(n, len, wild, fits, n + 1, t) <=> t = len + 1
<1>1. ASSUME t = len + 1 PROVE Means(n, len, wild, fits, n + 1, t)
  <2> DEFINE cut == [i \in n + 1 - 1 .. n |-> len]
  <2>1. cut \in [n + 1 - 1 .. n -> 0 .. len] /\ cut[n + 1 - 1] = t - 1 /\ cut[n] = len /\ n + 1 .. n = {}
    BY <1>1
  <2> HIDE DEF cut
  <2>2. Cuts(cut, len, wild, fits, n + 1, n, t)
    BY <2>1 DEF Cuts
  <2>3. QED
    BY <2>1, <2>2 DEF Means
<1>2. QED
  BY <1>1 DEF Means, Cuts

\* At the end of the text, all that is left of the pattern is wild.
LEMMA OnlyWildLeft ==
    ASSUME NEW n \in Nat, NEW len \in Nat, NEW wild, NEW fits, NEW g \in 1 .. n + 1
    PROVE  Means(n, len, wild, fits, g, len + 1) => \A i \in g .. n : i \in wild
<1> SUFFICES ASSUME Means(n, len, wild, fits, g, len + 1), {i \in g .. n : i \notin wild} # {} PROVE FALSE
  OBVIOUS
<1>1. PICK cut \in [g - 1 .. n -> 0 .. len] : Cuts(cut, len, wild, fits, g, n, len + 1)
  BY DEF Means
<1> DEFINE others == {i \in g .. n : i \notin wild}
<1>2. others \subseteq Nat
  OBVIOUS
<1>3. PICK first \in others : \A i \in others : first <= i
  BY <1>2, LeastNatural
<1> DEFINE short == {i \in g - 1 .. first - 1 : cut[i] # len}
<1>4. short = {}
  <2> SUFFICES ASSUME short # {} PROVE FALSE
    OBVIOUS
  <2>1. short \subseteq Nat
    OBVIOUS
  <2>2. PICK i \in short : \A j \in short : i <= j
    BY <2>1, LeastNatural
  <2>3. i # g - 1 /\ i \in g .. n /\ i - 1 \in g - 1 .. first - 1 /\ i - 1 \notin short
    BY <1>1, <2>2 DEF Cuts
  <2>4. i \in wild
    BY <1>3, <2>3
  <2>5. cut[i - 1] = len
    BY <2>3
  <2>6. cut[i - 1] <= cut[i]
    BY <1>1, <2>3, <2>4 DEF Cuts
  <2>7. i \in g - 1 .. n
    BY <2>3
  <2>8. cut[i] \in 0 .. len
    BY <2>7
  <2>9. QED
    BY <2>2, <2>5, <2>6, <2>8
<1>5. first \in g .. n /\ first \notin wild /\ first - 1 \in g - 1 .. first - 1 /\ first \in g - 1 .. n
  OBVIOUS
<1>6. cut[first - 1] = len
  BY <1>4, <1>5
<1>7. cut[first] = cut[first - 1] + 1 /\ cut[first] \in 0 .. len
  BY <1>1, <1>5 DEF Cuts
<1>8. QED
  BY <1>6, <1>7

\* A pattern of which only wild parts are left matches the rest, whatever it is.
LEMMA WildIsEnough ==
    ASSUME NEW n \in Nat, NEW len \in Nat, NEW wild, NEW fits, NEW g \in 1 .. n + 1, \A i \in g .. n : i \in wild
    PROVE  Means(n, len, wild, fits, g, len + 1)
<1> DEFINE cut == [i \in g - 1 .. n |-> len]
<1>1. cut \in [g - 1 .. n -> 0 .. len] /\ \A i \in g - 1 .. n : cut[i] = len
  OBVIOUS
<1>2. g - 1 \in g - 1 .. n /\ n \in g - 1 .. n /\ \A i \in g .. n : i \in g - 1 .. n /\ i - 1 \in g - 1 .. n
  OBVIOUS
<1> HIDE DEF cut
<1>3. Cuts(cut, len, wild, fits, g, n, len + 1)
  BY <1>1, <1>2 DEF Cuts
<1>4. QED
  BY <1>1, <1>3 DEF Means

\* What a cut of the parts from g + 1 on becomes with one for part g.
LEMMA CutsExtend ==
    ASSUME NEW n \in Nat, NEW len \in Nat, NEW wild, NEW fits, NEW g \in 1 .. n, NEW t \in 1 .. len + 1,
           NEW k \in 1 .. len + 1, Means(n, len, wild, fits, g + 1, k),
           Joins(wild, fits, g, t, k)
    PROVE  Means(n, len, wild, fits, g, t)
<1>1. PICK rest \in [g + 1 - 1 .. n -> 0 .. len] : Cuts(rest, len, wild, fits, g + 1, n, k)
  BY DEF Means
<1> DEFINE cut == [i \in g - 1 .. n |-> IF i = g - 1 THEN t - 1 ELSE rest[i]]
<1>2. g + 1 - 1 = g /\ t - 1 \in 0 .. len /\ rest[g] = k - 1
  BY <1>1 DEF Cuts
<1>3. cut \in [g - 1 .. n -> 0 .. len] /\ cut[g - 1] = t - 1 /\ \A i \in g .. n : cut[i] = rest[i]
  BY <1>2
<1> HIDE DEF cut
<1>4. ASSUME NEW i \in g .. n
      PROVE  IF i \in wild THEN cut[i - 1] <= cut[i] ELSE cut[i] = cut[i - 1] + 1 /\ <<i, cut[i]>> \in fits
  <2>1. CASE i = g
    <3>1. cut[i - 1] = t - 1 /\ cut[i] = k - 1
      BY <1>2, <1>3, <2>1
    <3>2. (t <= k => t - 1 <= k - 1) /\ (k = t + 1 => k - 1 = t - 1 + 1 /\ k - 1 = t)
      OBVIOUS
    <3>3. CASE i \in wild
      BY <2>1, <3>1, <3>2, <3>3 DEF Joins
    <3>4. CASE i \notin wild
      BY <2>1, <3>1, <3>2, <3>4 DEF Joins
    <3>5. QED
      BY <3>3, <3>4
  <2>2. CASE i # g
    <3>1. i \in g + 1 .. n /\ i - 1 \in g .. n /\ cut[i - 1] = rest[i - 1] /\ cut[i] = rest[i]
      BY <1>3, <2>2
    <3>2. QED
      BY <1>1, <3>1 DEF Cuts
  <2>3. QED
    BY <2>1, <2>2
<1>5. cut[n] = len
  BY <1>1, <1>3 DEF Cuts
<1>6. QED
  BY <1>3, <1>4, <1>5 DEF Means, Cuts

\* What a cut of the parts from g on is without part g.
LEMMA CutsShrink ==
    ASSUME NEW n \in Nat, NEW len \in Nat, NEW wild, NEW fits, NEW g \in 1 .. n, NEW t \in 1 .. len + 1,
           Means(n, len, wild, fits, g, t)
    PROVE  \E k \in 1 .. len + 1 :
              /\ Means(n, len, wild, fits, g + 1, k)
              /\ Joins(wild, fits, g, t, k)
<1>1. PICK cut \in [g - 1 .. n -> 0 .. len] : Cuts(cut, len, wild, fits, g, n, t)
  BY DEF Means
<1> DEFINE rest == [i \in g .. n |-> cut[i]]
           k == cut[g] + 1
<1>2. k \in 1 .. len + 1 /\ cut[g - 1] = t - 1 /\ cut[n] = len /\ g + 1 - 1 = g /\ k - 1 = cut[g]
  BY <1>1 DEF Cuts
<1>3. rest \in [g + 1 - 1 .. n -> 0 .. len] /\ \A i \in g .. n : rest[i] = cut[i]
  BY <1>2
<1> HIDE DEF rest, k
<1>4. Cuts(rest, len, wild, fits, g + 1, n, k)
  <2>1. rest[g + 1 - 1] = k - 1 /\ rest[n] = len
    BY <1>2, <1>3
  <2>2. ASSUME NEW i \in g + 1 .. n
        PROVE  IF i \in wild THEN rest[i - 1] <= rest[i] ELSE rest[i] = rest[i - 1] + 1 /\ <<i, rest[i]>> \in fits
    <3>1. i \in g .. n /\ rest[i - 1] = cut[i - 1] /\ rest[i] = cut[i]
      BY <1>3
    <3>2. QED
      BY <1>1, <3>1 DEF Cuts
  <2>3. QED
    BY <2>1, <2>2 DEF Cuts
<1>5. Joins(wild, fits, g, t, k)
  <2>1. IF g \in wild THEN cut[g - 1] <= cut[g] ELSE cut[g] = cut[g - 1] + 1 /\ <<g, cut[g]>> \in fits
    BY <1>1 DEF Cuts
  <2>2. QED
    BY <1>2, <2>1 DEF k, Joins
<1>6. Means(n, len, wild, fits, g + 1, k)
  BY <1>3, <1>4 DEF Means
<1>7. QED
  BY <1>2, <1>5, <1>6

\* A wild part takes any stretch; the others take one element that fits.
LEMMA WildTakesAny ==
    ASSUME NEW n \in Nat, NEW len \in Nat, NEW wild, NEW fits, NEW g \in 1 .. n, NEW t \in 1 .. len + 1, g \in wild
    PROVE  Means(n, len, wild, fits, g, t) <=> \E k \in t .. len + 1 : Means(n, len, wild, fits, g + 1, k)
<1>1. ASSUME NEW k \in t .. len + 1, Means(n, len, wild, fits, g + 1, k) PROVE Means(n, len, wild, fits, g, t)
  <2>1. k \in 1 .. len + 1 /\ Joins(wild, fits, g, t, k)
    BY DEF Joins
  <2>2. QED
    BY <1>1, <2>1, CutsExtend
<1>2. ASSUME Means(n, len, wild, fits, g, t) PROVE \E k \in t .. len + 1 : Means(n, len, wild, fits, g + 1, k)
  <2>1. PICK k \in 1 .. len + 1 :
          Means(n, len, wild, fits, g + 1, k) /\ Joins(wild, fits, g, t, k)
    BY <1>2, CutsShrink
  <2>2. k \in t .. len + 1
    BY <2>1 DEF Joins
  <2>3. QED
    BY <2>1, <2>2
<1>3. QED
  BY <1>1, <1>2

LEMMA OthersTakeOne ==
    ASSUME NEW n \in Nat, NEW len \in Nat, NEW wild, NEW fits, NEW g \in 1 .. n, NEW t \in 1 .. len + 1, g \notin wild
    PROVE  Means(n, len, wild, fits, g, t)
              <=> t <= len /\ <<g, t>> \in fits /\ Means(n, len, wild, fits, g + 1, t + 1)
<1>1. ASSUME t <= len, <<g, t>> \in fits, Means(n, len, wild, fits, g + 1, t + 1)
      PROVE  Means(n, len, wild, fits, g, t)
  <2>1. t + 1 \in 1 .. len + 1 /\ Joins(wild, fits, g, t, t + 1)
    BY <1>1 DEF Joins
  <2>2. QED
    BY <1>1, <2>1, CutsExtend
<1>2. ASSUME Means(n, len, wild, fits, g, t)
      PROVE  t <= len /\ <<g, t>> \in fits /\ Means(n, len, wild, fits, g + 1, t + 1)
  <2>1. PICK k \in 1 .. len + 1 :
          Means(n, len, wild, fits, g + 1, k) /\ Joins(wild, fits, g, t, k)
    BY <1>2, CutsShrink
  <2>2. k = t + 1 /\ <<g, t>> \in fits
    BY <2>1 DEF Joins
  <2>3. t <= len
    BY <2>2
  <2>4. QED
    BY <2>1, <2>2, <2>3
<1>3. QED
  BY <1>1, <1>2

-----------------------------------------------------------------------------
(* The loop of a segment *)

WildIn(glob) == {i \in 1 .. Len(glob) : glob[i] = "*"}
FitsIn(glob, text) == {p \in (1 .. Len(glob)) \X (1 .. Len(text)) : glob[p[1]] \in {"?", text[p[2]]}}

\* What glob means from g on of text from t on.
Rest(glob, text, g, t) == Means(Len(glob), Len(text), WildIn(glob), FitsIn(glob, text), g, t)

\* What a segment means is what its characters from the first on mean.
LEMMA SegmentMeaning ==
    ASSUME NEW Char, NEW glob \in Seq(Char), NEW text \in Seq(Char)
    PROVE  SegmentMeans(glob, text) <=> Rest(glob, text, 1, 1)
<1> DEFINE n == Len(glob)
           len == Len(text)
           Fine(cut) == /\ cut[0] = 0 /\ cut[n] = len
                        /\ \A i \in 1 .. n :
                              IF glob[i] = "*" THEN cut[i - 1] <= cut[i]
                              ELSE cut[i] = cut[i - 1] + 1 /\ glob[i] \in {"?", text[cut[i]]}
<1>1. SegmentMeans(glob, text) <=> \E cut \in [0 .. n -> 0 .. len] : Fine(cut)
  BY DEF SegmentMeans, Aligns
<1>2. n \in Nat /\ len \in Nat
  BY LenProperties
<1> HIDE DEF n, len
<1>3. ASSUME NEW cut \in [0 .. n -> 0 .. len], NEW i \in 1 .. n
      PROVE  i - 1 \in 0 .. n /\ cut[i] \in 0 .. len /\ cut[i - 1] \in 0 .. len
  BY <1>2
<1>4. ASSUME NEW cut \in [0 .. n -> 0 .. len]
      PROVE  Fine(cut) <=> Cuts(cut, len, WildIn(glob), FitsIn(glob, text), 1, n, 1)
  <2>1. ASSUME NEW i \in 1 .. n, cut[i] = cut[i - 1] + 1
        PROVE  glob[i] \in {"?", text[cut[i]]} <=> <<i, cut[i]>> \in FitsIn(glob, text)
    <3>1. cut[i] \in 1 .. len
      BY <1>2, <1>3, <2>1
    <3>2. QED
      BY <3>1 DEF FitsIn, n, len
  <2>2. \A i \in 1 .. n : glob[i] = "*" <=> i \in WildIn(glob)
    BY DEF WildIn, n
  <2>3. \A i \in 1 .. n :
          (IF glob[i] = "*" THEN cut[i - 1] <= cut[i] ELSE cut[i] = cut[i - 1] + 1 /\ glob[i] \in {"?", text[cut[i]]})
            <=> (IF i \in WildIn(glob) THEN cut[i - 1] <= cut[i]
                 ELSE cut[i] = cut[i - 1] + 1 /\ <<i, cut[i]>> \in FitsIn(glob, text))
    BY <2>1, <2>2
  <2>4. 1 - 1 = 0
    OBVIOUS
  <2>5. QED
    BY <2>3, <2>4 DEF Cuts
<1>5. 1 - 1 = 0
  OBVIOUS
<1>6. (\E cut \in [0 .. n -> 0 .. len] : Fine(cut)) <=> Means(n, len, WildIn(glob), FitsIn(glob, text), 1, 1)
  BY <1>4, <1>5 DEF Means
<1>7. QED
  BY <1>1, <1>6 DEF Rest, n, len

(***************************************************************************)
(* The loop keeps the last star and where it began.  Whatever the pattern  *)
(* means of the text, it means with the last star taking more, or from     *)
(* here on; and a longer stretch for that star only leads behind here.     *)
(***************************************************************************)
Keeps(glob, text, g, t, star, from, failed) ==
    LET len == Len(text)
        Longer(k) == Rest(glob, text, star + 1, k)
    IN  /\ from <= t
        /\ star # 0 => star \in WildIn(glob) /\ t - from = g - star - 1 /\ star < g
        /\ star # 0 =>
              \A k \in from + 1 .. len + 1 :
                  Longer(k) => k + (g - star - 1) <= len + 1 /\ Rest(glob, text, g, k + (g - star - 1))
        /\ Rest(glob, text, 1, 1)
              <=> ~failed /\ (Rest(glob, text, g, t) \/ (star # 0 /\ \E k \in from + 1 .. len + 1 : Longer(k)))

LoopInv(glob, text, at) ==
    /\ at \in [g : 1 .. Len(glob) + 1, t : 1 .. Len(text) + 1, star : 0 .. Len(glob), from : 0 .. Len(text) + 1,
               failed : BOOLEAN]
    /\ Keeps(glob, text, at.g, at.t, at.star, at.from, at.failed)

\* What the lemmas on Means say of Rest.
LEMMA RestIs ==
    ASSUME NEW Char, NEW glob \in Seq(Char), NEW text \in Seq(Char)
    PROVE  /\ \A g \in 1 .. Len(glob), t \in 1 .. Len(text) + 1 :
                 g \in WildIn(glob) =>
                    (Rest(glob, text, g, t) <=> \E k \in t .. Len(text) + 1 : Rest(glob, text, g + 1, k))
           /\ \A g \in 1 .. Len(glob), t \in 1 .. Len(text) + 1 :
                 g \notin WildIn(glob) =>
                    (Rest(glob, text, g, t)
                        <=> t <= Len(text) /\ <<g, t>> \in FitsIn(glob, text) /\ Rest(glob, text, g + 1, t + 1))
           /\ \A t \in 1 .. Len(text) + 1 : Rest(glob, text, Len(glob) + 1, t) <=> t = Len(text) + 1
           /\ \A g \in 1 .. Len(glob) + 1 :
                 Rest(glob, text, g, Len(text) + 1) <=> \A i \in g .. Len(glob) : i \in WildIn(glob)
<1>1. Len(glob) \in Nat /\ Len(text) \in Nat
  BY LenProperties
<1>2. ASSUME NEW g \in 1 .. Len(glob), NEW t \in 1 .. Len(text) + 1, g \in WildIn(glob)
      PROVE  Rest(glob, text, g, t) <=> \E k \in t .. Len(text) + 1 : Rest(glob, text, g + 1, k)
  BY <1>1, <1>2, WildTakesAny DEF Rest
<1>3. ASSUME NEW g \in 1 .. Len(glob), NEW t \in 1 .. Len(text) + 1, g \notin WildIn(glob)
      PROVE  Rest(glob, text, g, t)
                <=> t <= Len(text) /\ <<g, t>> \in FitsIn(glob, text) /\ Rest(glob, text, g + 1, t + 1)
  BY <1>1, <1>3, OthersTakeOne DEF Rest
<1>4. ASSUME NEW t \in 1 .. Len(text) + 1 PROVE Rest(glob, text, Len(glob) + 1, t) <=> t = Len(text) + 1
  BY <1>1, NothingLeft DEF Rest
<1>5. ASSUME NEW g \in 1 .. Len(glob) + 1
      PROVE  Rest(glob, text, g, Len(text) + 1) <=> \A i \in g .. Len(glob) : i \in WildIn(glob)
  BY <1>1, OnlyWildLeft, WildIsEnough DEF Rest
<1>6. QED
  BY <1>2, <1>3, <1>4, <1>5

\* The loop starts with what the whole pattern means of the whole text.
LEMMA LoopStarts ==
    ASSUME NEW Char, NEW glob \in Seq(Char), NEW text \in Seq(Char)
    PROVE  LoopInv(glob, text, GlobStart)
<1>1. Len(glob) \in Nat /\ Len(text) \in Nat
  BY LenProperties
<1>2. QED
  BY <1>1 DEF LoopInv, Keeps, GlobStart

\* A turn that matches an element.
LEMMA KeptByMatch ==
    ASSUME NEW Char, NEW glob \in Seq(Char), NEW text \in Seq(Char), NEW g \in 1 .. Len(glob), NEW t \in 1 .. Len(text),
           NEW star \in 0 .. Len(glob), NEW from \in 0 .. Len(text) + 1, NEW failed,
           g \notin WildIn(glob), <<g, t>> \in FitsIn(glob, text), Keeps(glob, text, g, t, star, from, failed)
    PROVE  Keeps(glob, text, g + 1, t + 1, star, from, failed)
<1> DEFINE n == Len(glob)
           len == Len(text)
           M(i, k) == Rest(glob, text, i, k)
<1>1. n \in Nat /\ len \in Nat
  BY LenProperties
<1>2. \A k \in 1 .. len + 1 : M(g, k) <=> k <= len /\ <<g, k>> \in FitsIn(glob, text) /\ M(g + 1, k + 1)
  BY RestIs
<1>3. M(g, t) <=> M(g + 1, t + 1)
  <2>1. t \in 1 .. len + 1 /\ t <= len
    BY <1>1
  <2>2. QED
    BY <1>2, <2>1
<1>4. ASSUME star # 0, NEW k \in from + 1 .. len + 1, M(star + 1, k)
      PROVE  k + (g + 1 - star - 1) <= len + 1 /\ M(g + 1, k + (g + 1 - star - 1))
  <2> DEFINE at == k + (g - star - 1)
  <2>1. at <= len + 1 /\ M(g, at) /\ t - from = g - star - 1 /\ from <= t
    BY <1>4 DEF Keeps
  <2>2. at \in 1 .. len + 1 /\ at + 1 = k + (g + 1 - star - 1)
    BY <1>1, <2>1
  <2> HIDE DEF at, M
  <2>3. at <= len /\ M(g + 1, at + 1)
    BY <1>2, <2>1, <2>2
  <2>4. QED
    BY <1>1, <2>2, <2>3
<1>5. from <= t + 1 /\ (star # 0 => star \in WildIn(glob) /\ t + 1 - from = g + 1 - star - 1 /\ star < g + 1)
  BY <1>1 DEF Keeps
<1>6. M(1, 1) <=> ~failed /\ (M(g + 1, t + 1) \/ (star # 0 /\ \E k \in from + 1 .. len + 1 : M(star + 1, k)))
  BY <1>3 DEF Keeps
<1>7. QED
  BY <1>4, <1>5, <1>6 DEF Keeps

\* A turn that meets a star.
LEMMA KeptByStar ==
    ASSUME NEW Char, NEW glob \in Seq(Char), NEW text \in Seq(Char), NEW g \in 1 .. Len(glob), NEW t \in 1 .. Len(text),
           NEW star \in 0 .. Len(glob), NEW from \in 0 .. Len(text) + 1, NEW failed,
           g \in WildIn(glob), Keeps(glob, text, g, t, star, from, failed)
    PROVE  Keeps(glob, text, g + 1, t, g, t, failed)
<1> DEFINE n == Len(glob)
           len == Len(text)
           M(i, k) == Rest(glob, text, i, k)
<1>1. n \in Nat /\ len \in Nat
  BY LenProperties
<1>2. \A k \in 1 .. len + 1 : M(g, k) <=> \E l \in k .. len + 1 : M(g + 1, l)
  BY RestIs
<1>3. M(g, t) <=> M(g + 1, t) \/ \E k \in t + 1 .. len + 1 : M(g + 1, k)
  <2>1. t \in 1 .. len + 1 /\ \A l : l \in t .. len + 1 <=> l = t \/ l \in t + 1 .. len + 1
    BY <1>1
  <2> HIDE DEF M
  <2>2. QED
    BY <1>2, <2>1
<1>4. ASSUME star # 0, NEW k \in from + 1 .. len + 1, M(star + 1, k) PROVE M(g, t)
  <2> DEFINE at == k + (g - star - 1)
  <2>1. at <= len + 1 /\ M(g, at) /\ t - from = g - star - 1 /\ from <= t
    BY <1>4 DEF Keeps
  <2>2. at \in 1 .. len + 1 /\ t \in 1 .. len + 1 /\ t <= at
    BY <1>1, <2>1
  <2> HIDE DEF at, M
  <2>3. PICK l \in at .. len + 1 : M(g + 1, l)
    BY <1>2, <2>1, <2>2
  <2>4. l \in t .. len + 1
    BY <1>1, <2>2, <2>3
  <2>5. QED
    BY <1>2, <2>2, <2>3, <2>4
<1>5. M(1, 1) <=> ~failed /\ (M(g + 1, t) \/ (g # 0 /\ \E k \in t + 1 .. len + 1 : M(g + 1, k)))
  BY <1>3, <1>4 DEF Keeps
<1>6. \A k \in t + 1 .. len + 1 : M(g + 1, k) => k + (g + 1 - g - 1) <= len + 1 /\ M(g + 1, k + (g + 1 - g - 1))
  <2>1. \A k \in t + 1 .. len + 1 : k + (g + 1 - g - 1) = k /\ k <= len + 1
    BY <1>1
  <2> HIDE DEF M
  <2>2. QED
    BY <2>1
<1>7. t <= t /\ t - t = g + 1 - g - 1 /\ g < g + 1
  BY <1>1
<1>8. QED
  BY <1>5, <1>6, <1>7 DEF Keeps

\* A turn that goes back to the last star.
LEMMA KeptByRetry ==
    ASSUME NEW Char, NEW glob \in Seq(Char), NEW text \in Seq(Char), NEW g \in 1 .. Len(glob) + 1, NEW t \in 1 .. Len(text),
           NEW star \in 1 .. Len(glob), NEW from \in 0 .. Len(text) + 1, NEW failed,
           ~Rest(glob, text, g, t), Keeps(glob, text, g, t, star, from, failed)
    PROVE  Keeps(glob, text, star + 1, from + 1, star, from + 1, failed)
<1> DEFINE len == Len(text)
           M(i, k) == Rest(glob, text, i, k)
<1>1. len \in Nat /\ from <= t
  BY LenProperties DEF Keeps
<1>2. \A k : k \in from + 1 .. len + 1 <=> k = from + 1 \/ k \in from + 1 + 1 .. len + 1
  BY <1>1
<1>3. M(1, 1) <=> ~failed /\ (M(star + 1, from + 1) \/ \E k \in from + 1 + 1 .. len + 1 : M(star + 1, k))
  BY <1>2 DEF Keeps
<1>4. \A k \in from + 1 + 1 .. len + 1 :
        M(star + 1, k) => k + (star + 1 - star - 1) <= len + 1 /\ M(star + 1, k + (star + 1 - star - 1))
  <2>1. \A k \in from + 1 + 1 .. len + 1 : k + (star + 1 - star - 1) = k /\ k <= len + 1
    BY <1>1
  <2> HIDE DEF M
  <2>2. QED
    BY <2>1
<1>5. from + 1 - (from + 1) = star + 1 - star - 1 /\ star < star + 1 /\ from + 1 <= from + 1 /\ star \in WildIn(glob)
  BY DEF Keeps
<1>6. QED
  BY <1>3, <1>4, <1>5 DEF Keeps

\* Every turn of the loop keeps the invariant.
LEMMA LoopSteps ==
    ASSUME NEW Char, NEW glob \in Seq(Char), NEW text \in Seq(Char), NEW at, LoopInv(glob, text, at)
    PROVE  LoopInv(glob, text, GlobStep(glob, text, at))
<1> DEFINE n == Len(glob)
           len == Len(text)
           next == GlobStep(glob, text, at)
<1>1. n \in Nat /\ len \in Nat
  BY LenProperties
<1>2. PICK g \in 1 .. n + 1, t \in 1 .. len + 1, star \in 0 .. n, from \in 0 .. len + 1, failed \in BOOLEAN :
        at = [g |-> g, t |-> t, star |-> star, from |-> from, failed |-> failed]
  BY DEF LoopInv
<1>3. Keeps(glob, text, g, t, star, from, failed)
  BY <1>2 DEF LoopInv
<1> DEFINE State(a, b, c, d, e) == [g |-> a, t |-> b, star |-> c, from |-> d, failed |-> e]
<1>11. at.g = g /\ at.t = t /\ at.star = star /\ at.from = from /\ at.failed = failed
  BY <1>2
<1>12. ASSUME NEW a \in 1 .. n + 1, NEW b \in 1 .. len + 1, NEW c \in 0 .. n, NEW d \in 0 .. len + 1, NEW e \in BOOLEAN,
              Keeps(glob, text, a, b, c, d, e)
       PROVE  LoopInv(glob, text, State(a, b, c, d, e))
  BY <1>12 DEF LoopInv
<1> HIDE DEF n, len
<1>4. \A i \in 1 .. n, k \in 1 .. len : <<i, k>> \in FitsIn(glob, text) <=> glob[i] \in {"?", text[k]}
  BY DEF FitsIn, n, len
<1>5. \A i \in 1 .. n : i \in WildIn(glob) <=> glob[i] = "*"
  BY DEF WildIn, n
<1> DEFINE matches == g <= n /\ glob[g] # "*" /\ glob[g] \in {"?", text[t]}
           starts == g <= n /\ glob[g] = "*"
<1>6. CASE failed \/ t > len
  <2>1. next = at
    BY <1>11, <1>6 DEF GlobStep, len
  <2>2. QED
    BY <2>1
<1>7. CASE ~failed /\ t <= len /\ matches
  <2>1. next = State(g + 1, t + 1, star, from, failed)
    <3>1. next = [at EXCEPT !.g = g + 1, !.t = t + 1]
      BY <1>1, <1>11, <1>7 DEF GlobStep, n, len
    <3>2. QED
      BY <1>2, <3>1
  <2>2. g \in 1 .. n /\ t \in 1 .. len /\ g \notin WildIn(glob) /\ <<g, t>> \in FitsIn(glob, text)
    BY <1>1, <1>4, <1>5, <1>7
  <2>3. Keeps(glob, text, g + 1, t + 1, star, from, failed)
    BY <1>3, <2>2, KeptByMatch DEF n, len
  <2>4. g + 1 \in 1 .. n + 1 /\ t + 1 \in 1 .. len + 1
    BY <1>1, <2>2
  <2>5. QED
    BY <1>12, <2>1, <2>3, <2>4
<1>8. CASE ~failed /\ t <= len /\ starts
  <2>1. next = State(g + 1, t, g, t, failed)
    <3>1. next = [at EXCEPT !.g = g + 1, !.star = g, !.from = t]
      BY <1>1, <1>11, <1>8 DEF GlobStep, n, len
    <3>2. QED
      BY <1>2, <3>1
  <2>2. g \in 1 .. n /\ t \in 1 .. len /\ g \in WildIn(glob)
    BY <1>1, <1>5, <1>8
  <2>3. Keeps(glob, text, g + 1, t, g, t, failed)
    BY <1>3, <2>2, KeptByStar DEF n, len
  <2>4. g + 1 \in 1 .. n + 1 /\ g \in 0 .. n /\ t \in 0 .. len + 1
    BY <1>1, <2>2
  <2>5. QED
    BY <1>12, <2>1, <2>3, <2>4
<1>9. CASE ~failed /\ t <= len /\ ~matches /\ ~starts
  <2>1. ~Rest(glob, text, g, t)
    <3>1. CASE g = n + 1
      BY <1>1, <1>9, <3>1, RestIs DEF n, len
    <3>2. CASE g # n + 1
      <4>1. g \in 1 .. n /\ t \in 1 .. len /\ g \notin WildIn(glob) /\ <<g, t>> \notin FitsIn(glob, text)
        BY <1>1, <1>4, <1>5, <1>9, <3>2
      <4>2. QED
        BY <4>1, RestIs DEF n, len
    <3>3. QED
      BY <3>1, <3>2
  <2>2. t \in 1 .. len
    BY <1>1, <1>9
  <2>3. CASE star # 0
    <3>1. next = State(star + 1, from + 1, star, from + 1, failed)
      <4>1. next = [at EXCEPT !.g = star + 1, !.t = from + 1, !.from = from + 1]
        BY <1>1, <1>11, <1>9, <2>3 DEF GlobStep, n, len
      <4>2. QED
        BY <1>2, <4>1
    <3>2. Keeps(glob, text, star + 1, from + 1, star, from + 1, failed)
      <4>1. star \in 1 .. n
        BY <1>1, <2>3
      <4>2. QED
        BY <1>3, <2>1, <2>2, <4>1, KeptByRetry DEF n, len
    <3>3. from <= t
      BY <1>3 DEF Keeps
    <3>4. star + 1 \in 1 .. n + 1 /\ from + 1 \in 1 .. len + 1 /\ from + 1 \in 0 .. len + 1
      BY <1>1, <2>2, <3>3
    <3>5. QED
      BY <1>12, <3>1, <3>2, <3>4
  <2>4. CASE star = 0
    <3>1. next = State(g, t, star, from, TRUE)
      <4>1. next = [at EXCEPT !.failed = TRUE]
        BY <1>1, <1>11, <1>9, <2>4 DEF GlobStep, n, len
      <4>2. QED
        BY <1>2, <4>1
    <3>2. Keeps(glob, text, g, t, star, from, TRUE)
      BY <1>3, <1>9, <2>1, <2>4 DEF Keeps
    <3>3. QED
      BY <1>12, <3>1, <3>2
  <2>5. QED
    BY <2>3, <2>4
<1>10. QED
  BY <1>1, <1>6, <1>7, <1>8, <1>9

\* The run is the loop turn by turn, and the invariant holds at each.
LEMMA RunIs ==
    ASSUME NEW glob, NEW text, GlobSteps(glob, text) \in Nat
    PROVE  LET at == GlobRun(glob, text)
           IN  at[0] = GlobStart /\ \A n \in 1 .. GlobSteps(glob, text) : at[n] = GlobStep(glob, text, at[n - 1])
<1> DEFINE Turn(b, n) == IF n = 0 THEN GlobStart ELSE GlobStep(glob, text, b[n - 1])
           all == GlobSteps(glob, text)
           Has(k) == \E b : b = [n \in 0 .. k |-> Turn(b, n)]
           without == {k \in 0 .. all : ~Has(k)}
           Solves(b) == b = [n \in 0 .. all |-> Turn(b, n)]
<1>1. all \in Nat
  OBVIOUS
<1>2. Has(0)
  <2> DEFINE b == [n \in 0 .. 0 |-> GlobStart]
  <2>1. b = [n \in 0 .. 0 |-> Turn(b, n)]
    OBVIOUS
  <2>2. QED
    BY <2>1
<1>3. ASSUME NEW k \in Nat, Has(k) PROVE Has(k + 1)
  <2>1. PICK b : b = [n \in 0 .. k |-> Turn(b, n)]
    BY <1>3
  <2> DEFINE c == [n \in 0 .. k + 1 |-> IF n = k + 1 THEN Turn(b, k + 1) ELSE b[n]]
  <2>2. ASSUME NEW n \in 0 .. k + 1 PROVE c[n] = Turn(c, n)
    <3>1. CASE n = 0
      <4>1. c[n] = b[0] /\ 0 \in 0 .. k
        BY <3>1
      <4>2. QED
        BY <2>1, <3>1, <4>1
    <3>2. CASE n # 0
      <4>1. n - 1 \in 0 .. k /\ c[n - 1] = b[n - 1]
        BY <3>2
      <4>2. c[n] = Turn(b, n)
        <5>1. CASE n = k + 1
          BY <5>1
        <5>2. CASE n # k + 1
          <6>1. n \in 0 .. k /\ c[n] = b[n]
            BY <5>2
          <6>2. QED
            BY <2>1, <6>1
        <5>3. QED
          BY <5>1, <5>2
      <4>3. QED
        BY <3>2, <4>1, <4>2
    <3>3. QED
      BY <3>1, <3>2
  <2> HIDE DEF c
  <2>3. c = [n \in 0 .. k + 1 |-> Turn(c, n)]
    <3>1. c = [n \in 0 .. k + 1 |-> c[n]]
      BY DEF c
    <3>2. QED
      BY <2>2, <3>1
  <2>4. QED
    BY <2>3
<1>4. Has(all)
  <2>1. SUFFICES ASSUME without # {} PROVE FALSE
    BY <1>1
  <2> HIDE DEF Has
  <2>2. without \subseteq Nat
    BY <1>1
  <2>3. PICK k \in without : \A j \in without : k <= j
    BY <2>1, <2>2, LeastNatural
  <2>4. k # 0 /\ k - 1 \in 0 .. all /\ k - 1 \in Nat /\ k \in Nat
    BY <1>1, <1>2, <2>3
  <2>5. Has(k - 1)
    BY <2>3, <2>4
  <2>6. Has(k - 1 + 1)
    BY <1>3, <2>4, <2>5
  <2>7. QED
    BY <2>3, <2>4, <2>6
<1>5. GlobRun(glob, text) = CHOOSE b : Solves(b)
  BY DEF GlobRun
<1>6. \E b : Solves(b)
  BY <1>4
<1>7. Solves(GlobRun(glob, text))
  <2> HIDE DEF Solves
  <2>1. QED
    BY <1>5, <1>6
<1> HIDE DEF all
<1>8. \A n \in 0 .. all : GlobRun(glob, text)[n] = Turn(GlobRun(glob, text), n)
  BY <1>7
<1>9. 0 \in 0 .. all /\ \A n \in 1 .. all : n \in 0 .. all /\ n # 0
  BY <1>1 DEF all
<1>10. QED
  BY <1>8, <1>9 DEF all

-----------------------------------------------------------------------------
(* The loop ends *)

GoesOn(text, at) == ~at.failed /\ at.t <= Len(text)

\* What every turn makes greater: a star or its stretch counts for more than the text.
Progress(text, at) == (at.from + at.star) * (Len(text) + 2) + at.t

\* A turn that does not end the loop makes progress.
LEMMA TurnsProgress ==
    ASSUME NEW Char, NEW glob \in Seq(Char), NEW text \in Seq(Char), NEW at, LoopInv(glob, text, at)
    PROVE  /\ Progress(text, at) \in 1 .. GlobSteps(glob, text) - 1
           /\ ~GoesOn(text, at) => GlobStep(glob, text, at) = at
           /\ GoesOn(text, GlobStep(glob, text, at)) => Progress(text, at) < Progress(text, GlobStep(glob, text, at))
<1> DEFINE n == Len(glob)
           len == Len(text)
           next == GlobStep(glob, text, at)
<1>1. n \in Nat /\ len \in Nat
  BY LenProperties
<1>2. at.g \in 1 .. n + 1 /\ at.t \in 1 .. len + 1 /\ at.star \in 0 .. n /\ at.from \in 0 .. len + 1 /\ at.from <= at.t
      /\ (at.star # 0 => at.star < at.g)
      /\ at \in [g : 1 .. n + 1, t : 1 .. len + 1, star : 0 .. n, from : 0 .. len + 1, failed : BOOLEAN]
  BY DEF LoopInv, Keeps
<1> DEFINE sum == at.from + at.star
<1>3. sum \in Nat /\ sum <= n + len + 1 /\ len + 2 \in Nat
  BY <1>1, <1>2
<1> HIDE DEF n, len, sum
<1>4. Progress(text, at) = sum * (len + 2) + at.t /\ sum * (len + 2) \in Nat
  BY <1>1, <1>3 DEF Progress, sum, len
<1>5. sum * (len + 2) <= (n + len + 1) * (len + 2)
  BY <1>1, <1>3, ProductsGrow
<1>6. GlobSteps(glob, text) = (n + len + 1) * (len + 2) + (len + 2) /\ (n + len + 1) * (len + 2) \in Int
  <2>1. (n + len + 1 + 1) * (len + 2) = (n + len + 1) * (len + 2) + 1 * (len + 2)
    BY <1>1, Distributes
  <2>2. n + len + 1 + 1 = n + len + 2 /\ 1 * (len + 2) = len + 2 /\ (n + len + 1) * (len + 2) \in Int
    BY <1>1
  <2>3. QED
    BY <2>1, <2>2 DEF GlobSteps, n, len
<1>7. Progress(text, at) \in 1 .. GlobSteps(glob, text) - 1
  BY <1>1, <1>2, <1>4, <1>5, <1>6
<1>8. ~GoesOn(text, at) => next = at
  BY <1>1, <1>2 DEF GoesOn, GlobStep, len
<1>9. ASSUME NEW later, later.from + later.star >= sum + 1, later.from + later.star \in Nat, later.t \in 1 .. len + 1
      PROVE  at.t <= len => Progress(text, at) < Progress(text, later)
  <2>1. (sum + 1) * (len + 2) <= (later.from + later.star) * (len + 2)
    BY <1>1, <1>3, <1>9, ProductsGrow, SMTT(30)
  <2>2. (sum + 1) * (len + 2) = sum * (len + 2) + 1 * (len + 2) /\ 1 * (len + 2) = len + 2
    BY <1>1, <1>3, Distributes
  <2>3. Progress(text, later) = (later.from + later.star) * (len + 2) + later.t
        /\ (later.from + later.star) * (len + 2) \in Int
    BY <1>1, <1>9 DEF Progress, len
  <2> DEFINE a == sum * (len + 2)
             b == (later.from + later.star) * (len + 2)
  <2>4. a \in Int /\ b \in Int /\ a + (len + 2) <= b /\ Progress(text, at) = a + at.t /\ Progress(text, later) = b + later.t
    BY <1>3, <1>4, <2>1, <2>2, <2>3
  <2> HIDE DEF a, b
  <2>5. QED
    BY <1>1, <1>2, <1>9, <2>4, SMTT(30)
<1>10. ASSUME GoesOn(text, next) PROVE Progress(text, at) < Progress(text, next)
  <2>1. GoesOn(text, at) /\ ~at.failed /\ at.t <= len
    BY <1>8, <1>10 DEF GoesOn, len
  <2>2. CASE next = [at EXCEPT !.g = at.g + 1, !.t = at.t + 1]
    <3>1. next.t = at.t + 1 /\ next.from = at.from /\ next.star = at.star
      BY <1>2, <2>2
    <3>2. QED
      BY <1>2, <1>3, <1>4, <3>1, SMTT(30) DEF Progress, sum, len
  <2>3. CASE next = [at EXCEPT !.g = at.g + 1, !.star = at.g, !.from = at.t] /\ at.g <= n
    <3>1. next.t = at.t /\ next.from = at.t /\ next.star = at.g
      BY <1>2, <2>3
    <3>2. next.from + next.star >= sum + 1 /\ next.from + next.star \in Nat /\ next.t \in 1 .. len + 1
      BY <1>1, <1>2, <3>1 DEF sum
    <3>3. QED
      BY <1>9, <2>1, <3>2
  <2>4. CASE next = [at EXCEPT !.g = at.star + 1, !.t = at.from + 1, !.from = at.from + 1]
    <3>1. next.t = at.from + 1 /\ next.from = at.from + 1 /\ next.star = at.star
      BY <1>2, <2>4
    <3>2. next.from + next.star >= sum + 1 /\ next.from + next.star \in Nat /\ next.t \in 1 .. len + 1
      BY <1>1, <1>2, <2>1, <3>1 DEF sum
    <3>3. QED
      BY <1>9, <2>1, <3>2
  <2>5. CASE next = [at EXCEPT !.failed = TRUE]
    BY <1>2, <1>10, <2>5 DEF GoesOn
  <2>6. QED
    BY <1>1, <1>2, <2>1, <2>2, <2>3, <2>4, <2>5 DEF GlobStep, n, len
<1>11. QED
  BY <1>7, <1>8, <1>10

\* After GlobSteps turns the loop has ended.
LEMMA RunEnds ==
    ASSUME NEW Char, NEW glob \in Seq(Char), NEW text \in Seq(Char)
    PROVE  LET end == GlobRun(glob, text)[GlobSteps(glob, text)]
           IN  LoopInv(glob, text, end) /\ ~GoesOn(text, end)
<1> DEFINE all == GlobSteps(glob, text)
           at(k) == GlobRun(glob, text)[k]
           Good(k) == LoopInv(glob, text, at(k)) /\ (GoesOn(text, at(k)) => Progress(text, at(k)) >= k + 1)
           bad == {k \in 0 .. all : ~Good(k)}
<1>1. all \in Nat /\ all > 0
  <2>1. Len(glob) \in Nat /\ Len(text) \in Nat
    BY LenProperties
  <2>2. Progress(text, GlobStart) \in 1 .. all - 1
    BY LoopStarts, TurnsProgress
  <2>3. all \in Int
    BY <2>1 DEF GlobSteps
  <2>4. QED
    BY <2>2, <2>3
<1>2. at(0) = GlobStart /\ \A k \in 1 .. all : at(k) = GlobStep(glob, text, at(k - 1))
  BY <1>1, RunIs
<1>3. Good(0)
  <2>1. LoopInv(glob, text, at(0))
    BY <1>2, LoopStarts
  <2>2. Progress(text, at(0)) \in 1 .. all - 1
    BY <2>1, TurnsProgress
  <2>3. QED
    BY <1>1, <2>1, <2>2
<1>4. ASSUME NEW k \in 1 .. all, Good(k - 1) PROVE Good(k)
  <2>1. at(k) = GlobStep(glob, text, at(k - 1)) /\ LoopInv(glob, text, at(k - 1))
    BY <1>2, <1>4
  <2>2. LoopInv(glob, text, at(k))
    BY <2>1, LoopSteps
  <2>3. ASSUME GoesOn(text, at(k)) PROVE Progress(text, at(k)) >= k + 1
    <3>1. Progress(text, at(k - 1)) < Progress(text, at(k)) /\ GoesOn(text, at(k - 1))
      BY <2>1, <2>3, TurnsProgress
    <3>2. Progress(text, at(k - 1)) \in 1 .. all - 1 /\ Progress(text, at(k)) \in 1 .. all - 1
      BY <2>1, <2>2, TurnsProgress
    <3>3. Progress(text, at(k - 1)) >= k - 1 + 1
      BY <1>4, <3>1
    <3> HIDE DEF at
    <3>4. QED
      BY <1>1, <3>1, <3>2, <3>3
  <2>4. QED
    BY <2>2, <2>3
<1> HIDE DEF Good, all
<1>5. bad = {}
  <2> SUFFICES ASSUME bad # {} PROVE FALSE
    OBVIOUS
  <2>1. bad \subseteq Nat
    BY <1>1
  <2>2. PICK k \in bad : \A j \in bad : k <= j
    BY <2>1, LeastNatural
  <2>3. k \in 1 .. all /\ k - 1 \in 0 .. all /\ k - 1 \notin bad
    BY <1>1, <1>3, <2>2
  <2>4. QED
    BY <1>4, <2>2, <2>3
<1>6. Good(all)
  BY <1>1, <1>5
<1>7. Progress(text, at(all)) \in 1 .. all - 1
  BY <1>6, TurnsProgress DEF Good, all
<1>8. ~GoesOn(text, at(all))
  BY <1>1, <1>6, <1>7 DEF Good
<1>9. QED
  BY <1>6, <1>8 DEF Good, all

(***************************************************************************)
(* glob_match_segment, which goes back to the last star only, accepts      *)
(* exactly the texts the pattern means, whatever pattern and text.         *)
(***************************************************************************)
THEOREM SegmentsMatchMeaning ==
    ASSUME NEW Char, NEW glob \in Seq(Char), NEW text \in Seq(Char)
    PROVE  SegmentMatchesMeaning(glob, text)
<1> DEFINE end == GlobRun(glob, text)[GlobSteps(glob, text)]
           n == Len(glob)
           len == Len(text)
<1>1. LoopInv(glob, text, end) /\ ~GoesOn(text, end)
  BY RunEnds
<1>2. GlobSegment(glob, text) <=> ~end.failed /\ end.t > len /\ \A k \in end.g .. n : glob[k] = "*"
  BY DEF GlobSegment
<1>3. n \in Nat /\ len \in Nat
  BY LenProperties
<1> HIDE DEF end, n, len
<1>4. /\ end.g \in 1 .. n + 1 /\ end.t \in 1 .. len + 1 /\ end.star \in 0 .. n /\ end.from \in 0 .. len + 1
      /\ end.failed \in BOOLEAN /\ (end.failed \/ end.t > len)
  BY <1>1 DEF LoopInv, GoesOn, n, len
<1>5. Keeps(glob, text, end.g, end.t, end.star, end.from, end.failed)
  BY <1>1 DEF LoopInv
<1>6. CASE end.failed
  <2>1. ~GlobSegment(glob, text) /\ ~Rest(glob, text, 1, 1)
    BY <1>2, <1>5, <1>6 DEF Keeps
  <2>2. QED
    BY <2>1, SegmentMeaning DEF SegmentMatchesMeaning, GlobSegment, SegmentMeans, Aligns
<1>7. CASE ~end.failed
  <2>1. end.t = len + 1
    BY <1>3, <1>4, <1>7
  <2>2. ASSUME end.star # 0, NEW k \in end.from + 1 .. len + 1, Rest(glob, text, end.star + 1, k) PROVE FALSE
    <3>1. k + (end.g - end.star - 1) <= len + 1 /\ end.t - end.from = end.g - end.star - 1
      BY <1>5, <2>2 DEF Keeps, len
    <3>2. QED
      BY <1>3, <1>4, <2>1, <3>1
  <2>3. Rest(glob, text, 1, 1) <=> Rest(glob, text, end.g, len + 1)
    BY <1>5, <1>7, <2>1, <2>2 DEF Keeps, len
  <2>4. Rest(glob, text, end.g, len + 1) <=> \A i \in end.g .. n : i \in WildIn(glob)
    BY <1>4, RestIs DEF n, len
  <2>5. \A i \in end.g .. n : i \in WildIn(glob) <=> glob[i] = "*"
    BY <1>3, <1>4 DEF WildIn, n
  <2>6. GlobSegment(glob, text) <=> Rest(glob, text, 1, 1)
    BY <1>2, <1>3, <1>7, <2>1, <2>3, <2>4, <2>5
  <2>7. QED
    BY <2>6, SegmentMeaning DEF SegmentMatchesMeaning, GlobSegment, SegmentMeans, Aligns
<1>8. QED
  BY <1>4, <1>6, <1>7

-----------------------------------------------------------------------------
(* Paths *)

WildSegments(segments) == {i \in 1 .. Len(segments) : segments[i] = <<"*", "*">>}
FittingNames(segments, path) ==
    {p \in (1 .. Len(segments)) \X (1 .. Len(path)) : GlobSegment(segments[p[1]], path[p[2]])}

RestOfPath(segments, path, g, t) ==
    Means(Len(segments), Len(path), WildSegments(segments), FittingNames(segments, path), g, t)

MeansTable(segments, path) ==
    [at \in PartPlaces(segments, path) |-> RestOfPath(segments, path, at[1], at[2])]

\* The recursion of glob_match_parts at one place.
PartsRule(segments, path, match, at) ==
    LET g == at[1]
        t == at[2]
    IN  IF g > Len(segments) THEN t > Len(path)
        ELSE IF segments[g] = <<"*", "*">>
        THEN match[<<g + 1, t>>] \/ (t <= Len(path) /\ match[<<g, t + 1>>])
        ELSE t <= Len(path) /\ GlobSegment(segments[g], path[t]) /\ match[<<g + 1, t + 1>>]

\* A wild segment takes no name, or the next one and then any.
LEMMA WildUnfolds ==
    ASSUME NEW n \in Nat, NEW len \in Nat, NEW wild, NEW fits, NEW g \in 1 .. n, NEW t \in 1 .. len + 1, g \in wild
    PROVE  Means(n, len, wild, fits, g, t)
              <=> Means(n, len, wild, fits, g + 1, t) \/ (t <= len /\ Means(n, len, wild, fits, g, t + 1))
<1> DEFINE M(i, k) == Means(n, len, wild, fits, i, k)
<1>1. M(g, t) <=> \E k \in t .. len + 1 : M(g + 1, k)
  BY WildTakesAny
<1>2. \A k : k \in t .. len + 1 <=> k = t \/ k \in t + 1 .. len + 1
  OBVIOUS
<1>3. CASE t <= len
  <2>1. t + 1 \in 1 .. len + 1
    BY <1>3
  <2>2. M(g, t + 1) <=> \E k \in t + 1 .. len + 1 : M(g + 1, k)
    BY <2>1, WildTakesAny
  <2> HIDE DEF M
  <2>3. M(g, t) <=> M(g + 1, t) \/ M(g, t + 1)
    BY <1>1, <1>2, <2>2
  <2>4. QED
    BY <1>3, <2>3 DEF M
<1>4. CASE ~(t <= len)
  <2>1. t + 1 .. len + 1 = {}
    BY <1>4
  <2> HIDE DEF M
  <2>2. M(g, t) <=> M(g + 1, t)
    BY <1>1, <1>2, <2>1
  <2>3. QED
    BY <1>4, <2>2 DEF M
<1>5. QED
  BY <1>3, <1>4

\* What the segments mean solves the recursion of glob_match_parts.
LEMMA MeaningSolvesParts ==
    ASSUME NEW Char, NEW segments \in Seq(Seq(Char)), NEW path \in Seq(Seq(Char)),
           NEW g \in 1 .. Len(segments) + 1, NEW t \in 1 .. Len(path) + 1
    PROVE  RestOfPath(segments, path, g, t) <=> PartsRule(segments, path, MeansTable(segments, path), <<g, t>>)
<1> DEFINE n == Len(segments)
           len == Len(path)
           means == MeansTable(segments, path)
           M(i, k) == RestOfPath(segments, path, i, k)
           P == PartsRule(segments, path, means, <<g, t>>)
<1>1. n \in Nat /\ len \in Nat
  BY LenProperties
<1>2. \A i \in 1 .. n + 1, k \in 1 .. len + 1 : means[<<i, k>>] <=> M(i, k)
  BY DEF MeansTable, PartPlaces
<1>3. P <=> IF g > n THEN t > len
            ELSE IF segments[g] = <<"*", "*">> THEN means[<<g + 1, t>>] \/ (t <= len /\ means[<<g, t + 1>>])
            ELSE t <= len /\ GlobSegment(segments[g], path[t]) /\ means[<<g + 1, t + 1>>]
  BY DEF PartsRule
<1> HIDE DEF n, len, means, P, M
<1>4. CASE g = n + 1
  <2>1. M(g, t) <=> t = len + 1
    BY <1>1, <1>4, NothingLeft DEF RestOfPath, M, n, len
  <2>2. t = len + 1 <=> t > len
    BY <1>1 DEF len
  <2>3. g > n
    BY <1>1, <1>4
  <2>4. M(g, t) <=> P
    BY <1>3, <2>1, <2>2, <2>3
  <2>5. QED
    BY <2>4 DEF M, P, means
<1>5. CASE g # n + 1 /\ segments[g] = <<"*", "*">>
  <2>1. g \in 1 .. n /\ g \in WildSegments(segments) /\ ~(g > n) /\ g + 1 \in 1 .. n + 1 /\ g \in 1 .. n + 1
    BY <1>1, <1>5 DEF WildSegments, n, len
  <2>2. M(g, t) <=> M(g + 1, t) \/ (t <= len /\ M(g, t + 1))
    BY <1>1, <2>1, WildUnfolds DEF RestOfPath, M, n, len
  <2>3. (t <= len => t + 1 \in 1 .. len + 1) /\ t \in 1 .. len + 1
    BY <1>1 DEF len
  <2>4. (means[<<g + 1, t>>] <=> M(g + 1, t)) /\ (t <= len => (means[<<g, t + 1>>] <=> M(g, t + 1)))
    BY <1>2, <2>1, <2>3
  <2>5. M(g, t) <=> P
    BY <1>3, <1>5, <2>1, <2>2, <2>4
  <2>6. QED
    BY <2>5 DEF M, P, means
<1>6. CASE g # n + 1 /\ segments[g] # <<"*", "*">>
  <2>1. g \in 1 .. n /\ g \notin WildSegments(segments) /\ ~(g > n) /\ g + 1 \in 1 .. n + 1
    BY <1>1, <1>6 DEF WildSegments, n, len
  <2>2. M(g, t) <=> t <= len /\ <<g, t>> \in FittingNames(segments, path) /\ M(g + 1, t + 1)
    BY <1>1, <2>1, OthersTakeOne DEF RestOfPath, M, n, len
  <2>3. t <= len => t + 1 \in 1 .. len + 1 /\ (<<g, t>> \in FittingNames(segments, path) <=> GlobSegment(segments[g], path[t]))
    BY <1>1, <2>1, SMTT(30) DEF FittingNames, n, len
  <2>4. t <= len => (means[<<g + 1, t + 1>>] <=> M(g + 1, t + 1))
    BY <1>2, <2>1, <2>3
  <2>5. M(g, t) <=> P
    BY <1>3, <1>6, <2>1, <2>2, <2>3, <2>4
  <2>6. QED
    BY <2>5 DEF M, P, means
<1>7. QED
  BY <1>4, <1>5, <1>6

\* Nothing but the meaning solves the recursion.
LEMMA PartsMean ==
    ASSUME NEW Char, NEW segments \in Seq(Seq(Char)), NEW path \in Seq(Seq(Char))
    PROVE  GlobParts(segments, path) = RestOfPath(segments, path, 1, 1)
<1> DEFINE n == Len(segments)
           len == Len(path)
           means == MeansTable(segments, path)
           table == PartsTable(segments, path)
           Solves(match) == match = [at \in PartPlaces(segments, path) |-> PartsRule(segments, path, match, at)]
<1>1. n \in Nat /\ len \in Nat
  BY LenProperties
<1>2. Solves(means)
  <2>1. ASSUME NEW at \in PartPlaces(segments, path)
        PROVE  RestOfPath(segments, path, at[1], at[2]) = PartsRule(segments, path, means, at)
    <3>1. PICK g \in 1 .. n + 1, t \in 1 .. len + 1 : at = <<g, t>>
      BY DEF PartPlaces
    <3>2. RestOfPath(segments, path, g, t) <=> PartsRule(segments, path, means, at)
      BY <3>1, MeaningSolvesParts
    <3>3. RestOfPath(segments, path, g, t) \in BOOLEAN
      BY DEF RestOfPath, Means
    <3> HIDE DEF means
    <3>4. PartsRule(segments, path, means, at) \in BOOLEAN
      <4>1. CASE at[1] > Len(segments)
        <5>1. PartsRule(segments, path, means, at) = (t > Len(path))
          BY <3>1, <4>1 DEF PartsRule
        <5>2. (t > Len(path)) \in BOOLEAN
          BY <1>1
        <5>3. QED
          BY <5>1, <5>2
      <4>2. CASE ~(at[1] > Len(segments)) /\ segments[at[1]] = <<"*", "*">>
        BY <4>2 DEF PartsRule
      <4>3. CASE ~(at[1] > Len(segments)) /\ segments[at[1]] # <<"*", "*">>
        BY <4>3 DEF PartsRule
      <4>4. QED
        BY <4>1, <4>2, <4>3
    <3>5. RestOfPath(segments, path, g, t) = PartsRule(segments, path, means, at)
      BY <3>2, <3>3, <3>4
    <3>6. at[1] = g /\ at[2] = t
      BY <3>1
    <3>7. QED
      BY <3>5, <3>6
  <2>2. means = [at \in PartPlaces(segments, path) |-> RestOfPath(segments, path, at[1], at[2])]
    BY DEF MeansTable
  <2> HIDE DEF means
  <2>3. QED
    BY <2>1, <2>2
<1>3. table = CHOOSE match : Solves(match)
  BY DEF PartsTable, PartsRule
<1>4. Solves(table)
  <2> HIDE DEF Solves
  <2>1. QED
    BY <1>2, <1>3
<1> DEFINE Wrong(r) == \E g \in 1 .. n + 1, t \in 1 .. len + 1 :
                         r = n + 1 - g + (len + 1 - t) /\ ~(table[<<g, t>>] <=> means[<<g, t>>])
           wrongs == {r \in Nat : Wrong(r)}
<1>5. \A g \in 1 .. n + 1, t \in 1 .. len + 1 :
        /\ <<g, t>> \in PartPlaces(segments, path)
        /\ table[<<g, t>>] = PartsRule(segments, path, table, <<g, t>>)
        /\ means[<<g, t>>] = PartsRule(segments, path, means, <<g, t>>)
  <2>1. \A g \in 1 .. n + 1, t \in 1 .. len + 1 : <<g, t>> \in PartPlaces(segments, path)
    BY DEF PartPlaces
  <2> HIDE DEF table, means
  <2>2. QED
    BY <1>2, <1>4, <2>1
<1> HIDE DEF table, means, n, len
<1>6. wrongs = {}
  <2> SUFFICES ASSUME wrongs # {} PROVE FALSE
    OBVIOUS
  <2>1. wrongs \subseteq Nat
    OBVIOUS
  <2>2. PICK r \in wrongs : \A q \in wrongs : r <= q
    BY <2>1, LeastNatural
  <2>3. PICK g \in 1 .. n + 1, t \in 1 .. len + 1 :
          r = n + 1 - g + (len + 1 - t) /\ ~(table[<<g, t>>] <=> means[<<g, t>>])
    BY <2>2
  <2>4. ASSUME NEW i \in 1 .. n + 1, NEW k \in 1 .. len + 1, i + k > g + t
        PROVE  table[<<i, k>>] <=> means[<<i, k>>]
    <3>1. n + 1 - i + (len + 1 - k) \in Nat /\ n + 1 - i + (len + 1 - k) < r
      BY <1>1, <2>3, <2>4, SMTT(30)
    <3>2. n + 1 - i + (len + 1 - k) \notin wrongs
      <4> HIDE DEF wrongs
      <4>1. r \in Nat /\ \A q \in wrongs : r <= q
        BY <2>1, <2>2
      <4>2. QED
        BY <3>1, <4>1
    <3>3. QED
      BY <3>1, <3>2
  <2>5. g > n \/ g + 1 \in 1 .. n + 1
    BY <1>1
  <2>6. t <= len => t + 1 \in 1 .. len + 1
    BY <1>1
  <2>7. /\ g + 1 \in 1 .. n + 1 => (table[<<g + 1, t>>] <=> means[<<g + 1, t>>])
        /\ t <= len => (table[<<g, t + 1>>] <=> means[<<g, t + 1>>])
        /\ g + 1 \in 1 .. n + 1 /\ t <= len => (table[<<g + 1, t + 1>>] <=> means[<<g + 1, t + 1>>])
    BY <1>1, <2>4, <2>6
  <2>8. <<g, t>>[1] = g /\ <<g, t>>[2] = t
    OBVIOUS
  <2>9. PartsRule(segments, path, table, <<g, t>>) <=> PartsRule(segments, path, means, <<g, t>>)
    BY <2>5, <2>6, <2>7, <2>8 DEF PartsRule, n, len
  <2>10. QED
    BY <1>5, <2>3, <2>9
<1>7. 1 \in 1 .. n + 1 /\ 1 \in 1 .. len + 1 /\ n + 1 - 1 + (len + 1 - 1) \in Nat
  BY <1>1
<1>8. table[<<1, 1>>] <=> means[<<1, 1>>]
  BY <1>6, <1>7
<1>9. means[<<1, 1>>] = RestOfPath(segments, path, 1, 1)
  BY <1>5, <1>7 DEF MeansTable, means
<1>10. PartsRule(segments, path, table, <<1, 1>>) \in BOOLEAN
  <2>1. <<1, 1>>[1] = 1 /\ <<1, 1>>[2] = 1
    OBVIOUS
  <2>2. CASE 1 > n
    <3>1. PartsRule(segments, path, table, <<1, 1>>) = (1 > len)
      BY <2>1, <2>2 DEF PartsRule, n, len
    <3>2. (1 > len) \in BOOLEAN
      BY <1>1
    <3>3. QED
      BY <3>1, <3>2
  <2>3. CASE ~(1 > n) /\ segments[1] = <<"*", "*">>
    BY <2>1, <2>3 DEF PartsRule, n
  <2>4. CASE ~(1 > n) /\ segments[1] # <<"*", "*">>
    BY <2>1, <2>4 DEF PartsRule, n
  <2>5. QED
    BY <2>2, <2>3, <2>4
<1>11. table[<<1, 1>>] \in BOOLEAN
  BY <1>5, <1>7, <1>10
<1>12. RestOfPath(segments, path, 1, 1) \in BOOLEAN
  BY DEF RestOfPath, Means
<1>13. QED
  BY <1>8, <1>9, <1>11, <1>12 DEF GlobParts, table

(***************************************************************************)
(* A pattern with a slash matches exactly the paths it means: each segment *)
(* a name it means, and ** any number of directories.  One without matches *)
(* the files whose names it means.                                         *)
(***************************************************************************)
THEOREM PathsMatchMeaning ==
    ASSUME NEW Char, NEW segments \in Seq(Seq(Char)), NEW slash \in BOOLEAN,
           NEW path \in Seq(Seq(Char)), path # <<>>
    PROVE  PathMatchesMeaning(segments, slash, path)
<1> DEFINE n == Len(segments)
           len == Len(path)
           Means_(cut) ==
               /\ cut[0] = 0 /\ cut[n] = len
               /\ \A i \in 1 .. n :
                     IF segments[i] = <<"*", "*">> THEN cut[i - 1] <= cut[i]
                     ELSE cut[i] = cut[i - 1] + 1 /\ SegmentMeans(segments[i], path[cut[i]])
           meaning == Aligns(segments, path, LAMBDA s : s = <<"*", "*">>, LAMBDA s, name : SegmentMeans(s, name))
<1>1. n \in Nat /\ len \in Nat
  BY LenProperties
<1>2. meaning <=> \E cut \in [0 .. n -> 0 .. len] : Means_(cut)
  BY DEF Aligns
<1>3. \A i \in 1 .. n, k \in 1 .. len : GlobSegment(segments[i], path[k]) <=> SegmentMeans(segments[i], path[k])
  <2> SUFFICES ASSUME NEW i \in 1 .. n, NEW k \in 1 .. len
               PROVE  GlobSegment(segments[i], path[k]) <=> SegmentMeans(segments[i], path[k])
    OBVIOUS
  <2>1. segments[i] \in Seq(Char) /\ path[k] \in Seq(Char)
    BY ElementOfSeq
  <2>2. SegmentMatchesMeaning(segments[i], path[k])
    BY <2>1, SegmentsMatchMeaning
  <2>3. QED
    BY <2>2 DEF SegmentMatchesMeaning
<1> HIDE DEF n, len, meaning
<1>4. ASSUME NEW cut \in [0 .. n -> 0 .. len]
      PROVE  Means_(cut) <=> Cuts(cut, len, WildSegments(segments), FittingNames(segments, path), 1, n, 1)
  <2>1. ASSUME NEW i \in 1 .. n, cut[i] = cut[i - 1] + 1
        PROVE  SegmentMeans(segments[i], path[cut[i]]) <=> <<i, cut[i]>> \in FittingNames(segments, path)
    <3>1. i - 1 \in 0 .. n /\ i \in 0 .. n
      BY <1>1
    <3>2. cut[i] \in 1 .. len
      BY <1>1, <2>1, <3>1
    <3>3. <<i, cut[i]>> \in FittingNames(segments, path) <=> GlobSegment(segments[i], path[cut[i]])
      BY <3>2 DEF FittingNames, n, len
    <3>4. QED
      BY <1>3, <3>2, <3>3
  <2>2. \A i \in 1 .. n : segments[i] = <<"*", "*">> <=> i \in WildSegments(segments)
    BY DEF WildSegments, n
  <2>3. \A i \in 1 .. n :
          (IF segments[i] = <<"*", "*">> THEN cut[i - 1] <= cut[i]
           ELSE cut[i] = cut[i - 1] + 1 /\ SegmentMeans(segments[i], path[cut[i]]))
            <=> (IF i \in WildSegments(segments) THEN cut[i - 1] <= cut[i]
                 ELSE cut[i] = cut[i - 1] + 1 /\ <<i, cut[i]>> \in FittingNames(segments, path))
    BY <2>1, <2>2
  <2>4. 1 - 1 = 0
    OBVIOUS
  <2>5. QED
    BY <2>3, <2>4 DEF Cuts
<1>5. 1 - 1 = 0
  OBVIOUS
<1>6. (\E cut \in [0 .. n -> 0 .. len] : Means_(cut)) <=> RestOfPath(segments, path, 1, 1)
  BY <1>4, <1>5 DEF RestOfPath, Means, n, len
<1>7. GlobParts(segments, path) <=> meaning
  BY <1>2, <1>6, PartsMean
<1>8. meaning \in BOOLEAN
  BY DEF meaning, Aligns
<1>9. GlobParts(segments, path) \in BOOLEAN
  <2>1. GlobParts(segments, path) = RestOfPath(segments, path, 1, 1)
    BY PartsMean
  <2>2. QED
    BY <2>1 DEF RestOfPath, Means
<1>10. GlobParts(segments, path) = meaning
  BY <1>7, <1>8, <1>9
<1>11. CASE slash
  <2>1. GlobMatches(segments, slash, path) = meaning
    BY <1>10, <1>11 DEF GlobMatches
  <2>2. QED
    BY <1>11, <2>1 DEF PathMatchesMeaning, meaning
<1>12. CASE ~slash /\ segments = <<>>
  BY <1>12 DEF PathMatchesMeaning, GlobMatches
<1>13. CASE ~slash /\ segments # <<>>
  <2>1. 1 \in 1 .. n /\ len \in 1 .. len
    <3>1. n # 0 /\ len # 0
      BY <1>13, EmptySeq DEF n, len
    <3>2. QED
      BY <1>1, <3>1
  <2>2. GlobSegment(segments[1], path[len]) = SegmentMeans(segments[1], path[len])
    <3>1. segments[1] \in Seq(Char) /\ path[len] \in Seq(Char)
      BY <2>1, ElementOfSeq DEF n, len
    <3>2. SegmentMatchesMeaning(segments[1], path[len])
      BY <3>1, SegmentsMatchMeaning
    <3>3. QED
      BY <3>2 DEF SegmentMatchesMeaning
  <2>3. Last(path) = path[len]
    BY DEF Last, len
  <2>4. QED
    BY <1>13, <2>2, <2>3, Zenon DEF PathMatchesMeaning, GlobMatches
<1>14. QED
  BY <1>11, <1>12, <1>13

-----------------------------------------------------------------------------
(* The properties that TLC checks on small inputs *)

\* The characters of patterns and names.
Symbols == {"a", "b", "?", "*"}

\* The inputs of MCAlgorithms are inputs of the theorems.
CallIsTyped ==
    /\ Asks("conversation") => call.history \in History
    /\ Asks("arrivals") => Timely(call.times)
    /\ Asks("request") => call.request.body \in Int /\ call.tat \in Int
    /\ Asks("glob") => call.glob \in Seq(Symbols) /\ call.text \in Seq(Symbols)
    /\ Asks("path") => /\ call.glob \in Seq(Seq(Symbols)) /\ call.slash \in BOOLEAN
                       /\ call.text \in Seq(Seq(Symbols)) \ {<<>>}

LEMMA ConversationsAreHistories == Conversations \subseteq History
<1> SUFFICES ASSUME NEW roles \in SeqsOf({"user", "assistant", "system"}, 0 .. 7)
             PROVE  [i \in DOMAIN roles |-> [role |-> roles[i], turn |-> i]] \in History
  BY DEF Conversations
<1>1. PICK n \in 0 .. 7 : roles \in [1 .. n -> {"user", "assistant", "system"}]
  BY DEF SeqsOf
<1>2. n \in Nat /\ DOMAIN roles = 1 .. n
  BY <1>1
<1>3. \A i \in 1 .. n : [role |-> roles[i], turn |-> i] \in Message
  BY <1>1, <1>2 DEF Message, Role
<1>4. [i \in 1 .. n |-> [role |-> roles[i], turn |-> i]] \in [1 .. n -> Message]
  BY <1>3
<1>5. QED
  BY <1>2, <1>4, SeqDef DEF History

LEMMA ArrivalsAreTimely == \A times \in Arrivals : Timely(times)
<1> SUFFICES ASSUME NEW times \in Arrivals PROVE Timely(times)
  OBVIOUS
<1>1. PICK n \in 1 .. 5 : times \in [1 .. n -> 0 .. 6]
  BY DEF Arrivals, SeqsOf
<1>2. n \in Nat /\ times \in [1 .. n -> Nat]
  BY <1>1
<1>3. times \in Seq(Nat)
  BY <1>2, SeqDef
<1>4. QED
  BY <1>3 DEF Arrivals, Timely

\* SeqsOf gives sequences.
LEMMA SeqsAreSeqs ==
    ASSUME NEW S, NEW T, S \subseteq T, NEW lengths \in SUBSET Nat
    PROVE  SeqsOf(S, lengths) \subseteq Seq(T)
<1> SUFFICES ASSUME NEW s \in SeqsOf(S, lengths) PROVE s \in Seq(T)
  OBVIOUS
<1>1. PICK n \in lengths : s \in [1 .. n -> S]
  BY DEF SeqsOf
<1>2. n \in Nat /\ s \in [1 .. n -> T]
  BY <1>1
<1>3. QED
  BY <1>2, SeqDef

LEMMA GlobsAreSeqs ==
    /\ Globs \subseteq Seq(Symbols) /\ Names \subseteq Seq(Symbols)
    /\ PathGlobs \subseteq Seq(Seq(Symbols)) /\ PathsOf \subseteq Seq(Seq(Symbols)) \ {<<>>}
<1>1. 0 .. 4 \in SUBSET Nat /\ 0 .. 3 \in SUBSET Nat /\ 1 .. 3 \in SUBSET Nat
  OBVIOUS
<1>2. {"a", "b", "?", "*"} \subseteq Symbols /\ {"a", "b"} \subseteq Symbols
  BY DEF Symbols
<1>3. \A a, b \in Symbols : <<a>> \in Seq(Symbols) /\ <<a, b>> \in Seq(Symbols)
  <2> SUFFICES ASSUME NEW a \in Symbols, NEW b \in Symbols PROVE <<a>> \in Seq(Symbols) /\ <<a, b>> \in Seq(Symbols)
    OBVIOUS
  <2>1. <<a>> \in [1 .. 1 -> Symbols] /\ <<a, b>> \in [1 .. 2 -> Symbols] /\ 1 \in Nat /\ 2 \in Nat
    OBVIOUS
  <2>2. QED
    BY <2>1, SeqDef
<1>4. {<<"a">>, <<"*">>, <<"*", "*">>, <<"a", "*">>} \subseteq Seq(Symbols)
  <2>1. {<<"a">>, <<"*">>} \subseteq Seq(Symbols)
    BY <1>2, <1>3
  <2>2. <<"*", "*">> \in Seq(Symbols) /\ <<"a", "*">> \in Seq(Symbols)
    BY <1>2, <1>3
  <2>3. QED
    BY <2>1, <2>2
<1>5. {<<"a">>, <<"b">>, <<"a", "b">>} \subseteq Seq(Symbols)
  BY <1>2, <1>3
<1>6. <<>> \notin PathsOf
  <2>1. ASSUME NEW n \in 1 .. 3, NEW p \in [1 .. n -> {<<"a">>, <<"b">>, <<"a", "b">>}] PROVE p # <<>>
    <3>1. DOMAIN p = 1 .. n /\ 1 \in 1 .. n
      OBVIOUS
    <3>2. QED
      BY <3>1
  <2>2. QED
    BY <2>1 DEF PathsOf, SeqsOf
<1>7. QED
  BY <1>1, <1>2, <1>4, <1>5, <1>6, SeqsAreSeqs DEF Globs, Names, PathGlobs, PathsOf

LEMMA CallsAreTyped == Spec => []CallIsTyped
<1>1. Init => CallIsTyped
  BY DEF Init, CallIsTyped, Asks
<1>2. CallIsTyped /\ [Next]_call => CallIsTyped'
  <2> SUFFICES ASSUME CallIsTyped, [Next]_call PROVE CallIsTyped'
    OBVIOUS
  <2>1. CASE HistoryCalls
    BY <2>1, ConversationsAreHistories DEF HistoryCalls, CallIsTyped, Asks
  <2>2. CASE LayerCalls
    <3>1. \A request \in Requests : request.body \in Int
      BY DEF Requests
    <3>2. QED
      BY <2>2, <3>1, ArrivalsAreTimely DEF LayerCalls, CallIsTyped, Asks
  <2>6. CASE SearchCalls
    <3>1. CASE \E glob \in Globs, name \in Names : call' = [kind |-> "glob", glob |-> glob, text |-> name]
      BY <3>1, GlobsAreSeqs DEF CallIsTyped, Asks
    <3>2. CASE \E glob \in PathGlobs, slash \in BOOLEAN, path \in PathsOf :
                  (~slash => Len(glob) <= 1) /\ call' = [kind |-> "path", glob |-> glob, slash |-> slash, text |-> path]
      BY <3>2, GlobsAreSeqs DEF CallIsTyped, Asks
    <3>6. CASE \E lines \in FileLines, offset \in 1 .. 6, limit \in 1 .. 5 :
                  call' = [kind |-> "lines", lines |-> lines, offset |-> offset, limit |-> limit]
      BY <3>6 DEF CallIsTyped, Asks
    <3>3. CASE \E tree \in Trees : call' = [kind |-> "tree", tree |-> tree]
      BY <3>3 DEF CallIsTyped, Asks
    <3>4. CASE \E files \in SearchedFiles, override \in SeqsOf({"memory", "notes"}, 0 .. 3), max \in 1 .. 3 :
                  call' = [kind |-> "memory", files |-> files, override |-> override, max |-> max]
      BY <3>4 DEF CallIsTyped, Asks
    <3>5. QED
      BY <2>6, <3>1, <3>2, <3>3, <3>4, <3>6, Zenon DEF SearchCalls
  <2>3. CASE ToolCalls \/ SettingCalls \/ FileCalls \/ TransferCalls \/ AnswerCalls
    <3> SUFFICES call'.kind \notin {"conversation", "arrivals", "request", "glob", "path"}
      BY DEF CallIsTyped, Asks
    <3>2. CASE ToolCalls
      BY <3>2 DEF ToolCalls
    <3>3. CASE SettingCalls
      BY <3>3 DEF SettingCalls
    <3>4. CASE FileCalls
      BY <3>4 DEF FileCalls
    <3>5. CASE TransferCalls
      <4>1. PICK sessions \in SomeSessions, body \in Bodies, asked \in AtMostOne({"blank", " s1 ", "s3"}),
                 format \in AtMostOne({"json"}), type \in BodyTypes, overwrite \in BOOLEAN :
              call' = [kind |-> "import", sessions |-> sessions, body |-> body, asked |-> asked, format |-> format,
                       type |-> type, overwrite |-> overwrite]
        BY <3>5, Zenon DEF TransferCalls
      <4>2. QED
        BY <4>1
    <3>6. CASE AnswerCalls
      <4>1. CASE \E authorised \in BOOLEAN, field \in BOOLEAN,
                    accept \in AtMostOne({"Text/Event-Stream;q=0.9", "*/*"}),
                    session \in AtMostOne({"s1"}), outcome \in Outcomes :
                   call' = [kind |-> "stream", authorised |-> authorised, field |-> field, accept |-> accept,
                            session |-> session, outcome |-> outcome]
        <5>1. PICK authorised \in BOOLEAN, field \in BOOLEAN,
                   accept \in AtMostOne({"Text/Event-Stream;q=0.9", "*/*"}),
                   session \in AtMostOne({"s1"}), outcome \in Outcomes :
                call' = [kind |-> "stream", authorised |-> authorised, field |-> field, accept |-> accept,
                         session |-> session, outcome |-> outcome]
          BY <4>1, Zenon
        <5>2. QED
          BY <5>1
      <4>2. CASE \E inputs \in SeqsOf(Inputs, 0 .. 4) : call' = [kind |-> "repl", inputs |-> inputs]
        BY <4>2
      <4>3. CASE \E words \in SUBSET Keywords, quoted \in CallsWritten, output \in {{}, {"list", "files", "block"}}, limit \in 1 .. 3 :
                   call' = [kind |-> "stub", messages |-> <<Asked({"time"}), [role |-> "assistant", words |-> {}], Asked(words)>>,
                            quoted |-> quoted, output |-> output, limit |-> limit]
        BY <4>3
      <4>4. QED
        BY <3>6, <4>1, <4>2, <4>3, Zenon DEF AnswerCalls
    <3>7. QED
      BY <2>3, <3>2, <3>3, <3>4, <3>5, <3>6
  <2>4. CASE call' = call
    BY <2>4 DEF CallIsTyped, Asks
  <2>5. QED
    BY <2>1, <2>2, <2>3, <2>4, <2>6 DEF Next
<1>3. QED
  BY <1>1, <1>2, PTL DEF Spec

(***************************************************************************)
(* What MCAlgorithms checks of the layers and of the limiter on its inputs *)
(* holds under every limit and quota, as LayersAlwaysNest and              *)
(* LimiterIsHonest hold of every input.                                    *)
(***************************************************************************)
THEOREM LayersNestInCalls ==
    ASSUME PerMinute # 0
    PROVE  Spec => []LayersAreNested
<1>1. CallIsTyped => LayersAreNested
  <2> SUFFICES ASSUME CallIsTyped PROVE LayersAreNested
    OBVIOUS
  <2>1. Asks("request") => LayersNest(call.cors, call.request, 0, call.tat)
    BY LayersAlwaysNest DEF CallIsTyped
  <2>2. Asks("arrivals") => HeadersAreHonest(call.times)
    BY LimiterIsHonest DEF CallIsTyped
  <2>3. QED
    BY <2>1, <2>2 DEF LayersAreNested
<1>2. QED
  BY <1>1, CallsAreTyped, PTL

(***************************************************************************)
(* What MCAlgorithms checks of compaction on its conversations holds under *)
(* every limit, as RecentSurvive holds of every conversation.              *)
(***************************************************************************)
THEOREM RecentSurviveInCalls == Spec => []CompactionKeepsRecent
<1>1. CallIsTyped => CompactionKeepsRecent
  BY RecentSurvive DEF CallIsTyped, CompactionKeepsRecent
<1>2. QED
  BY <1>1, CallsAreTyped, PTL

(***************************************************************************)
(* What MCAlgorithms checks of globs on its small inputs holds, as         *)
(* SegmentsMatchMeaning and PathsMatchMeaning hold of every input.         *)
(***************************************************************************)
THEOREM GlobsMatchInCalls == Spec => []GlobsMatchMeaning
<1>1. CallIsTyped => GlobsMatchMeaning
  BY SegmentsMatchMeaning, PathsMatchMeaning DEF CallIsTyped, GlobsMatchMeaning
<1>2. QED
  BY <1>1, CallsAreTyped, PTL

(***************************************************************************)
(* What MCAlgorithms checks of truncation on its conversations holds under *)
(* every limit, as TruncationIsTheCodes and TruncatingAgainLosesNothing    *)
(* hold of every conversation.                                             *)
(***************************************************************************)
THEOREM TruncationComposesInCalls == Spec => []TruncationComposes
<1>1. CallIsTyped => TruncationComposes
  <2> SUFFICES ASSUME call.history \in History
               PROVE  /\ HardTruncate(call.history) = ReferenceTruncate(call.history)
                      /\ \A n \in 0 .. Len(call.history) :
                            LET earlier == SubSeq(call.history, 1, n)
                                later == SubSeq(call.history, n + 1, Len(call.history))
                            IN  HardTruncate(HardTruncate(earlier) \o later) = HardTruncate(call.history)
    BY DEF CallIsTyped, TruncationComposes
  <2> DEFINE h == call.history
  <2>1. HardTruncate(h) = ReferenceTruncate(h)
    BY TruncationIsTheCodes
  <2>2. ASSUME NEW n \in 0 .. Len(h)
        PROVE  HardTruncate(HardTruncate(SubSeq(h, 1, n)) \o SubSeq(h, n + 1, Len(h))) = HardTruncate(h)
    <3>1. h \in Seq(Message) /\ Len(h) \in Nat
      BY LenProperties DEF History
    <3> HIDE DEF h
    <3>2. SubSeq(h, 1, n) \in History /\ SubSeq(h, n + 1, Len(h)) \in History
      <4>1. \A i \in 1 .. n : i \in 1 .. Len(h)
        BY <3>1
      <4>2. \A i \in n + 1 .. Len(h) : i \in 1 .. Len(h)
        BY <3>1
      <4>3. n \in Int /\ n + 1 \in Int /\ 1 \in Int /\ Len(h) \in Int
        BY <3>1
      <4>4. \A i \in 1 .. Len(h) : h[i] \in Message
        BY <3>1, ElementOfSeq, SMTT(30)
      <4>5. QED
        BY <3>1, <4>1, <4>2, <4>3, <4>4, SubSeqProperties DEF History
    <3>3. SubSeq(h, 1, n) \o SubSeq(h, n + 1, Len(h)) = h
      <4>1. 1 \in 1 .. Len(h) + 1 /\ n \in 1 - 1 .. Len(h) /\ Len(h) \in n .. Len(h)
        BY <3>1
      <4>2. SubSeq(h, 1, n) \o SubSeq(h, n + 1, Len(h)) = SubSeq(h, 1, Len(h))
        BY <3>1, <4>1, ConcatAdjacentSubSeq
      <4>3. SubSeq(h, 1, Len(h)) = h
        BY <3>1, SubSeqFull
      <4>4. QED
        BY <4>2, <4>3
    <3>4. QED
      BY <3>2, <3>3, TruncatingAgainLosesNothing, ZenonT(60)
  <2>3. QED
    BY <2>1, <2>2
<1>2. QED
  BY <1>1, CallsAreTyped, PTL

-----------------------------------------------------------------------------
(* Recursion and induction over an interval *)

\* What holds of 0 and of the successor of every number it holds of, holds up to N.
LEMMA Reaches ==
    ASSUME NEW N \in Nat, NEW good, 0 \in good, \A n \in 0 .. N - 1 : n \in good => n + 1 \in good
    PROVE  0 .. N \subseteq good
<1> DEFINE bad == {n \in 0 .. N : n \notin good}
<1>1. SUFFICES ASSUME bad # {} PROVE FALSE
  OBVIOUS
<1>2. bad \subseteq Nat
  OBVIOUS
<1>3. PICK n \in bad : \A m \in bad : n <= m
  <2> HIDE DEF bad
  <2>1. QED
    BY <1>1, <1>2, LeastNatural
<1>4. n \in 1 .. N /\ n - 1 \in 0 .. N - 1 /\ n - 1 \notin bad /\ n - 1 + 1 = n
  BY <1>3
<1>5. QED
  BY <1>3, <1>4

\* A recursive definition whose steps stay in a set has a solution.
StepsOf(N, S) == [(1 .. N) \X S -> S]
RunsOf(N, S) == [0 .. N -> S]
Recurs(f, N, start, step) == f[0] = start /\ \A n \in 1 .. N : f[n] = step[<<n, f[n - 1]>>]

LEMMA Recursion ==
    ASSUME NEW N \in Nat, NEW S, NEW start \in S, NEW step \in StepsOf(N, S)
    PROVE  \E f \in RunsOf(N, S) : Recurs(f, N, start, step)
<1> USE DEF StepsOf, RunsOf, Recurs
<1> DEFINE Solves(f, k) == f[0] = start /\ \A n \in 1 .. k : f[n] = step[<<n, f[n - 1]>>]
           good == {k \in 0 .. N : \E f \in [0 .. k -> S] : Solves(f, k)}
<1>1. 0 \in good
  <2> DEFINE f == [n \in 0 .. 0 |-> start]
  <2>1. f \in [0 .. 0 -> S] /\ Solves(f, 0)
    OBVIOUS
  <2> HIDE DEF f
  <2>2. 0 \in 0 .. N
    OBVIOUS
  <2>3. QED
    BY <2>1, <2>2
<1>2. ASSUME NEW k \in 0 .. N - 1, k \in good PROVE k + 1 \in good
  <2>1. PICK f \in [0 .. k -> S] : Solves(f, k)
    BY <1>2
  <2> DEFINE g == [n \in 0 .. k + 1 |-> IF n = k + 1 THEN step[<<k + 1, f[k]>>] ELSE f[n]]
  <2>2. f[k] \in S /\ step[<<k + 1, f[k]>>] \in S
    OBVIOUS
  <2>3. g \in [0 .. k + 1 -> S]
    BY <2>2
  <2>4. g[0] = start
    BY <2>1
  <2>5. ASSUME NEW n \in 1 .. k + 1 PROVE g[n] = step[<<n, g[n - 1]>>]
    <3>1. n - 1 \in 0 .. k /\ g[n - 1] = f[n - 1]
      OBVIOUS
    <3>2. CASE n = k + 1
      <4>1. g[n] = step[<<k + 1, f[k]>>] /\ n - 1 = k
        BY <3>2
      <4>2. QED
        BY <3>1, <3>2, <4>1
    <3>3. CASE n # k + 1
      <4>1. g[n] = f[n] /\ n \in 1 .. k
        BY <3>3
      <4>2. QED
        BY <2>1, <3>1, <4>1
    <3>4. QED
      BY <3>2, <3>3
  <2>6. k + 1 \in 0 .. N
    OBVIOUS
  <2> HIDE DEF g
  <2>7. QED
    BY <2>3, <2>4, <2>5, <2>6
<1>3. N \in good
  <2> HIDE DEF good
  <2>1. 0 .. N \subseteq good
    BY <1>1, <1>2, Reaches
  <2>2. QED
    BY <2>1
<1>4. QED
  BY <1>3

-----------------------------------------------------------------------------
(* Fetches(W) *)

\* What the code tells apart of a URL is made of words W.
Urls(W) == [scheme : W, host : W, port : Int, path : Seq(W)]

LocationsOf(W) ==
    [kind : {"none"}] \cup [kind : {"url", "host"}, url : Urls(W)] \cup [kind : {"root", "beside"}, path : Seq(W)]

RepliesOf(W) == [status : {"ok", "error", "redirect"}, location : LocationsOf(W), found : W, lookup : Nat, takes : Nat]

AskedOf(W) == [url : Urls(W), found : W, at : Nat, until : Nat]

Fetches(W) == [url : Urls(W), asked : Seq(AskedOf(W)), elapsed : Nat, outcome : {"going", "ok", "failed"}]

\* The seconds a request has left, in ticks, end at most one after the deadline.
LEMMA RemainingIs ==
    ASSUME NEW elapsed \in Nat
    PROVE  /\ RemainingSecs(elapsed) \in Nat
           /\ RemainingSecs(elapsed) # 0 =>
                 /\ elapsed < FetchTimeout * Tick
                 /\ elapsed + RemainingSecs(elapsed) * Tick <= (FetchTimeout + 1) * Tick
<1> DEFINE limit == FetchTimeout * Tick
           remaining == limit - elapsed
<1>1. Tick \in Nat \ {0} /\ FetchTimeout \in Nat \ {0} /\ limit \in Nat /\ (FetchTimeout + 1) * Tick = limit + Tick
  <2>1. Tick \in Nat \ {0} /\ FetchTimeout \in Nat \ {0}
    BY FetchAssumption
  <2>2. limit \in Int /\ limit >= 0
    <3>1. 0 * Tick <= FetchTimeout * Tick
      BY <2>1, ProductsGrow
    <3>2. QED
      BY <2>1, <3>1
  <2>3. (FetchTimeout + 1) * Tick = FetchTimeout * Tick + 1 * Tick
    BY <2>1, Distributes
  <2>4. QED
    BY <2>1, <2>2, <2>3
<1> HIDE DEF limit
<1>2. RemainingSecs(elapsed) = IF remaining <= 0 THEN 0 ELSE IF remaining < Tick THEN 1 ELSE remaining \div Tick
  BY DEF RemainingSecs, limit
<1>3. remaining \in Int
  BY <1>1
<1> DEFINE whole == remaining \div Tick
<1>4. whole \in Int /\ whole * Tick <= remaining /\ remaining < whole * Tick + Tick
  BY <1>1, <1>3, DivisionIs
<1> HIDE DEF remaining, whole
<1>5. CASE remaining <= 0
  BY <1>2, <1>5
<1>6. CASE remaining > 0 /\ remaining < Tick
  <2>1. RemainingSecs(elapsed) = 1
    BY <1>2, <1>3, <1>6
  <2>2. QED
    BY <2>1, <1>1, <1>3, <1>6 DEF remaining, limit
<1>7. CASE remaining > 0 /\ remaining >= Tick
  <2>1. RemainingSecs(elapsed) = whole
    BY <1>1, <1>2, <1>3, <1>7 DEF whole
  <2>2. whole >= 0
    <3>1. SUFFICES ASSUME whole < 0 PROVE FALSE
      BY <1>4
    <3>2. (whole + 1) * Tick = whole * Tick + 1 * Tick /\ whole * Tick \in Int
      BY <1>1, <1>4, Distributes, ProductsAreInts
    <3>3. (whole + 1) * Tick <= 0 * Tick
      BY <1>1, <1>4, <3>1, ProductsGrow
    <3>4. QED
      BY <1>1, <1>3, <1>4, <1>7, <3>2, <3>3
  <2>3. elapsed + whole * Tick <= limit
    BY <1>1, <1>3, <1>4, ProductsAreInts DEF remaining
  <2>4. elapsed < limit
    BY <1>1, <1>7 DEF remaining
  <2>5. limit <= limit + Tick /\ whole * Tick \in Int
    BY <1>1, <1>4, ProductsAreInts
  <2>6. QED
    BY <1>1, <1>4, <2>1, <2>2, <2>3, <2>4, <2>5 DEF limit
<1>8. QED
  BY <1>1, <1>3, <1>5, <1>6, <1>7

\* A URL that has been parsed is a URL.
LEMMA ParsedType ==
    ASSUME NEW W, NEW url \in Urls(W), ~Refuses(ParseUrl(url))
    PROVE  ParseUrl(url) \in Urls(W)
<1>1. \/ ParseUrl(url) = [refused |-> TRUE]
      \/ ParseUrl(url) = [scheme |-> url.scheme, host |-> url.host, port |-> url.port, path |-> url.path]
  BY Zenon DEF ParseUrl
<1>2. Refuses([refused |-> TRUE])
  BY DEF Refuses
<1>3. ParseUrl(url) = [scheme |-> url.scheme, host |-> url.host, port |-> url.port, path |-> url.path]
  BY <1>1, <1>2
<1>4. QED
  BY <1>3 DEF Urls

LEMMA BesideType ==
    ASSUME NEW W, NEW url \in Urls(W), ~Refuses(ParseUrl(url)), NEW path \in Seq(W)
    PROVE  Beside(url, path) \in Urls(W)
<1> DEFINE here == ParseUrl(url)
<1>1. here \in Urls(W) /\ here.path \in Seq(W)
  BY ParsedType DEF Urls
<1>2. Beside(url, path) = [here EXCEPT !.path = Front(here.path) \o path]
  BY DEF Beside
<1> HIDE DEF here
<1>3. Front(here.path) \in Seq(W)
  <2>1. Len(here.path) \in Nat
    BY <1>1, LenProperties
  <2>2. \A i \in 1 .. Len(here.path) - 1 : here.path[i] \in W
    BY <1>1, <2>1, ElementOfSeq
  <2>3. QED
    BY <1>1, <2>1, <2>2, SubSeqProperties DEF Front
<1>4. Front(here.path) \o path \in Seq(W)
  BY <1>3, ConcatProperties
<1>5. QED
  BY <1>1, <1>2, <1>4 DEF Urls

\* A redirect leads to a URL.
LEMMA ResolveType ==
    ASSUME NEW W, NEW url \in Urls(W), ~Refuses(ParseUrl(url)), NEW location \in LocationsOf(W), location.kind # "none"
    PROVE  Resolve(url, location) \in Urls(W)
<1>1. ParseUrl(url) \in Urls(W)
  BY ParsedType
<1>2. CASE location \in [kind : {"url", "host"}, url : Urls(W)]
  <2>1. CASE location.kind = "url"
    <3>1. CASE location.url.scheme \in {"http", "https"}
      <4>1. Resolve(url, location) = location.url
        BY <2>1, <3>1 DEF Resolve
      <4>2. QED
        BY <1>2, <4>1
    <3>2. CASE location.url.scheme \notin {"http", "https"}
      <4>1. Resolve(url, location) = Beside(url, <<location.url.scheme, location.url.host>> \o location.url.path)
        BY <2>1, <3>2 DEF Resolve
      <4>2. location.url.scheme \in W /\ location.url.host \in W /\ location.url.path \in Seq(W)
        BY <1>2 DEF Urls
      <4>3. <<location.url.scheme, location.url.host>> \in Seq(W)
        BY <4>2
      <4>4. <<location.url.scheme, location.url.host>> \o location.url.path \in Seq(W)
        BY <4>2, <4>3, ConcatProperties
      <4>5. QED
        BY <4>1, <4>4, BesideType
    <3>3. QED
      BY <3>1, <3>2
  <2>2. CASE location.kind = "host"
    <3>1. Resolve(url, location) = [location.url EXCEPT !.scheme = ParseUrl(url).scheme]
      BY <2>2 DEF Resolve
    <3>2. location.url \in Urls(W) /\ ParseUrl(url).scheme \in W
      BY <1>1, <1>2 DEF Urls
    <3>3. QED
      BY <3>1, <3>2 DEF Urls
  <2>3. QED
    BY <1>2, <2>1, <2>2
<1>3. CASE location \in [kind : {"root", "beside"}, path : Seq(W)]
  <2> DEFINE here == ParseUrl(url)
  <2>1. CASE location.kind = "root"
    <3>1. Resolve(url, location) = [here EXCEPT !.path = location.path]
      BY <2>1 DEF Resolve
    <3>2. QED
      BY <1>1, <1>3, <3>1 DEF Urls
  <2>2. CASE location.kind = "beside"
    <3>1. Resolve(url, location) = Beside(url, location.path)
      BY <2>2 DEF Resolve
    <3>2. QED
      BY <1>3, <3>1, BesideType
  <2>3. QED
    BY <1>3, <2>1, <2>2
<1>4. QED
  BY <1>2, <1>3 DEF LocationsOf

(***************************************************************************)
(* What every turn of the loop keeps: the requests so far were allowed and *)
(* in time, there is at most one to each redirect followed and one more,   *)
(* and a fetch that has succeeded has what it asked for last.              *)
(***************************************************************************)
FetchInv(W, allowPrivate, f) ==
    /\ f \in Fetches(W)
    /\ Len(f.asked) <= MaxRedirects + 1
    /\ f.outcome = "going" => Len(f.asked) <= MaxRedirects
    /\ \A n \in DOMAIN f.asked :
          /\ Validated(f.asked[n].url, f.asked[n].found, allowPrivate)
          /\ f.asked[n].at < FetchTimeout * Tick
          /\ f.asked[n].until <= (FetchTimeout + 1) * Tick
    /\ f.outcome = "ok" => f.asked # <<>> /\ f.url = Last(f.asked).url

LEMMA FetchStarts ==
    ASSUME NEW W, NEW allowPrivate, NEW start \in Urls(W)
    PROVE  FetchInv(W, allowPrivate, FetchStart(start))
<1> DEFINE f == FetchStart(start)
<1>1. f = [url |-> start, asked |-> <<>>, elapsed |-> 0, outcome |-> "going"]
  BY DEF FetchStart
<1> HIDE DEF f
<1>2. f \in Fetches(W) /\ f.asked = <<>> /\ f.outcome = "going"
  BY <1>1 DEF Fetches
<1>3. Len(f.asked) = 0 /\ DOMAIN f.asked = {}
  BY <1>2
<1>4. QED
  BY <1>2, <1>3, FetchAssumption DEF FetchInv, f

\* g is f with one more request.
HasAsked(W, allowPrivate, f, g) ==
    /\ g \in Fetches(W)
    /\ g.outcome = "going" /\ g.url = f.url
    /\ Len(g.asked) = Len(f.asked) + 1
    /\ \A n \in DOMAIN g.asked :
          /\ Validated(g.asked[n].url, g.asked[n].found, allowPrivate)
          /\ g.asked[n].at < FetchTimeout * Tick
          /\ g.asked[n].until <= (FetchTimeout + 1) * Tick
    /\ g.asked # <<>> /\ g.url = Last(g.asked).url

LEMMA RequestedKeeps ==
    ASSUME NEW W, NEW allowPrivate, NEW f, FetchInv(W, allowPrivate, f), f.outcome = "going",
           NEW reply \in RepliesOf(W), Validated(f.url, reply.found, allowPrivate),
           RemainingSecs(f.elapsed + reply.lookup) # 0
    PROVE  HasAsked(W, allowPrivate, f, Requested(f, reply, RemainingSecs(f.elapsed + reply.lookup)))
<1> DEFINE begun == f.elapsed + reply.lookup
           secs == RemainingSecs(begun)
           most == secs * Tick
           ended == begun + (IF reply.takes > most THEN most ELSE reply.takes)
           request == [url |-> f.url, found |-> reply.found, at |-> begun, until |-> ended]
           g == Requested(f, reply, secs)
<1>1. /\ f \in Fetches(W) /\ f.elapsed \in Nat /\ f.url \in Urls(W) /\ f.asked \in Seq(AskedOf(W))
      /\ reply.lookup \in Nat /\ reply.takes \in Nat /\ reply.found \in W /\ begun \in Nat
  BY DEF FetchInv, Fetches, RepliesOf
<1>2. /\ secs \in Nat /\ begun < FetchTimeout * Tick /\ begun + most <= (FetchTimeout + 1) * Tick
  <2> HIDE DEF begun
  <2>1. QED
    BY <1>1, RemainingIs DEF begun
<1>3. most \in Nat
  <2>1. Tick \in Nat
    BY FetchAssumption
  <2>2. 0 * Tick <= secs * Tick /\ secs * Tick \in Int
    BY <1>2, <2>1, ProductsGrow, ProductsAreInts
  <2>3. QED
    BY <2>1, <2>2
<1>4. g = [f EXCEPT !.elapsed = ended, !.asked = Append(@, request)]
  BY DEF Requested
<1> HIDE DEF begun, secs, most
<1> DEFINE limit == (FetchTimeout + 1) * Tick
           deadline == FetchTimeout * Tick
<1>5. limit \in Int /\ deadline \in Int
  BY FetchAssumption, ProductsAreInts
<1> HIDE DEF limit, deadline
<1>6. ended \in Nat /\ ended <= limit /\ begun < deadline
  <2>1. begun + most <= limit /\ begun < deadline
    BY <1>2 DEF limit, deadline, most
  <2>2. QED
    BY <1>1, <1>3, <1>5, <2>1
<1> HIDE DEF ended
<1>7. request \in AskedOf(W)
  BY <1>1, <1>6 DEF AskedOf
<1> HIDE DEF request
<1>8. /\ Append(f.asked, request) \in Seq(AskedOf(W))
      /\ Len(Append(f.asked, request)) = Len(f.asked) + 1
      /\ \A n \in 1 .. Len(f.asked) : Append(f.asked, request)[n] = f.asked[n]
      /\ Append(f.asked, request)[Len(f.asked) + 1] = request
  BY <1>1, <1>7, AppendProperties
<1>9. f.asked \in Seq(AskedOf(W)) /\ Len(f.asked) \in Nat /\ DOMAIN f.asked = 1 .. Len(f.asked)
  BY <1>1, LenProperties
<1>10. g.asked = Append(f.asked, request) /\ g.outcome = f.outcome /\ g.url = f.url /\ g.elapsed = ended
  BY <1>1, <1>4 DEF Fetches
<1>11. g \in Fetches(W)
  BY <1>1, <1>4, <1>6, <1>8 DEF Fetches
<1> HIDE DEF g
<1>12. DOMAIN g.asked = 1 .. Len(f.asked) + 1
  BY <1>8, <1>10, LenProperties
<1>13. ASSUME NEW n \in DOMAIN g.asked
       PROVE  /\ Validated(g.asked[n].url, g.asked[n].found, allowPrivate)
              /\ g.asked[n].at < deadline
              /\ g.asked[n].until <= limit
  <2>1. CASE n \in 1 .. Len(f.asked)
    <3>1. g.asked[n] = f.asked[n] /\ n \in DOMAIN f.asked
      BY <1>8, <1>9, <1>10, <2>1
    <3>2. QED
      BY <3>1 DEF FetchInv, limit, deadline
  <2>2. CASE n = Len(f.asked) + 1
    <3>1. g.asked[n] = request
      BY <1>8, <1>10, <2>2
    <3>2. request.url = f.url /\ request.found = reply.found /\ request.at = begun /\ request.until = ended
      BY DEF request
    <3>3. QED
      BY <1>6, <3>1, <3>2
  <2>3. QED
    BY <1>9, <1>12, <2>1, <2>2
<1>14. g.asked # <<>> /\ g.url = Last(g.asked).url
  <2>1. Len(g.asked) = Len(f.asked) + 1 /\ g.asked[Len(f.asked) + 1] = request
    BY <1>8, <1>10
  <2>2. g.asked # <<>>
    <3>1. Len(<<>>) = 0
      OBVIOUS
    <3>2. QED
      BY <1>9, <2>1, <3>1
  <2>3. Last(g.asked) = request
    BY <2>1 DEF Last
  <2>4. QED
    BY <1>10, <2>2, <2>3 DEF request
<1>15. g.outcome = "going" /\ g.url = f.url /\ Len(g.asked) = Len(f.asked) + 1
  BY <1>8, <1>10
<1>16. QED
  BY <1>11, <1>13, <1>14, <1>15 DEF HasAsked, g, secs, begun, limit, deadline

LEMMA FetchStepKeeps ==
    ASSUME NEW W, NEW allowPrivate, NEW f, FetchInv(W, allowPrivate, f), NEW reply \in RepliesOf(W)
    PROVE  FetchInv(W, allowPrivate, FetchStep(allowPrivate, f, reply))
<1> DEFINE secs == RemainingSecs(f.elapsed + reply.lookup)
           asked == Requested(f, reply, secs)
           next == FetchStep(allowPrivate, f, reply)
           limit == (FetchTimeout + 1) * Tick
           deadline == FetchTimeout * Tick
           InTime(g) == \A n \in DOMAIN g.asked :
                            /\ Validated(g.asked[n].url, g.asked[n].found, allowPrivate)
                            /\ g.asked[n].at < deadline
                            /\ g.asked[n].until <= limit
<1>1. f \in Fetches(W) /\ InTime(f) /\ Len(f.asked) <= MaxRedirects + 1 /\ MaxRedirects \in Nat
  BY FetchAssumption DEF FetchInv
<1>2. CASE f.outcome # "going"
  BY <1>2 DEF FetchStep
<1>3. CASE f.outcome = "going" /\ (~Validated(f.url, reply.found, allowPrivate) \/ secs = 0)
  <2>1. next = [f EXCEPT !.outcome = "failed"]
    BY <1>3 DEF FetchStep, Fails
  <2>2. next \in Fetches(W) /\ next.asked = f.asked /\ next.outcome = "failed"
    BY <1>1, <2>1 DEF Fetches
  <2> HIDE DEF next
  <2>3. FetchInv(W, allowPrivate, next)
    BY <1>1, <2>2 DEF FetchInv
  <2>4. QED
    BY <2>3 DEF next
<1>4. CASE f.outcome = "going" /\ Validated(f.url, reply.found, allowPrivate) /\ secs # 0
  <2>1. /\ asked \in Fetches(W) /\ asked.outcome = "going" /\ asked.url = f.url
        /\ Len(asked.asked) = Len(f.asked) + 1 /\ InTime(asked)
        /\ asked.asked # <<>> /\ asked.url = Last(asked.asked).url
    <3>1. HasAsked(W, allowPrivate, f, asked)
      BY <1>4, RequestedKeeps
    <3>2. QED
      BY <3>1 DEF HasAsked
  <2>2. Len(f.asked) <= MaxRedirects /\ Len(f.asked) \in Nat
    BY <1>1, <1>4, LenProperties DEF FetchInv, Fetches
  <2>3. CASE reply.takes > secs * Tick
    <3>1. next = Fails(asked)
      BY <1>4, <2>3 DEF FetchStep
    <3> HIDE DEF asked, next, InTime, secs
    <3>2. next \in Fetches(W) /\ next.asked = asked.asked /\ next.outcome = "failed"
      BY <2>1, <3>1 DEF Fetches, Fails
    <3>3. FetchInv(W, allowPrivate, next)
      BY <1>1, <2>1, <2>2, <3>2 DEF FetchInv, InTime
    <3>4. QED
      BY <3>3 DEF next
  <2>4. CASE ~(reply.takes > secs * Tick) /\ reply.status = "ok"
    <3>1. next = [asked EXCEPT !.outcome = "ok"]
      BY <1>4, <2>4 DEF FetchStep
    <3> HIDE DEF asked, next, InTime, secs
    <3>2. next \in Fetches(W) /\ next.asked = asked.asked /\ next.outcome = "ok" /\ next.url = asked.url
      BY <2>1, <3>1 DEF Fetches
    <3>3. FetchInv(W, allowPrivate, next)
      BY <1>1, <2>1, <2>2, <3>2 DEF FetchInv, InTime
    <3>4. QED
      BY <3>3 DEF next
  <2>5. CASE ~(reply.takes > secs * Tick) /\ reply.status # "ok"
             /\ (reply.status = "error" \/ Len(asked.asked) > MaxRedirects \/ reply.location.kind = "none")
    <3>1. next = Fails(asked)
      BY <1>4, <2>5 DEF FetchStep
    <3> HIDE DEF asked, next, InTime, secs
    <3>2. next \in Fetches(W) /\ next.asked = asked.asked /\ next.outcome = "failed"
      BY <2>1, <3>1 DEF Fetches, Fails
    <3>3. FetchInv(W, allowPrivate, next)
      BY <1>1, <2>1, <2>2, <3>2 DEF FetchInv, InTime
    <3>4. QED
      BY <3>3 DEF next
  <2>6. CASE ~(reply.takes > secs * Tick) /\ reply.status # "ok"
             /\ ~(reply.status = "error" \/ Len(asked.asked) > MaxRedirects \/ reply.location.kind = "none")
    <3>1. next = [asked EXCEPT !.url = Resolve(f.url, reply.location)]
      BY <1>4, <2>6 DEF FetchStep
    <3>2. Resolve(f.url, reply.location) \in Urls(W)
      <4>1. f.url \in Urls(W) /\ reply.location \in LocationsOf(W) /\ ~Refuses(ParseUrl(f.url))
        BY <1>1, <1>4 DEF Fetches, RepliesOf, Validated
      <4>2. QED
        BY <2>6, <4>1, ResolveType
    <3> HIDE DEF asked, next, InTime, secs
    <3>3. next \in Fetches(W) /\ next.asked = asked.asked /\ next.outcome = "going"
      BY <2>1, <3>1, <3>2 DEF Fetches
    <3>4. Len(next.asked) <= MaxRedirects
      BY <1>1, <2>1, <2>2, <2>6, <3>3
    <3>5. FetchInv(W, allowPrivate, next)
      BY <1>1, <2>1, <3>3, <3>4 DEF FetchInv, InTime
    <3>6. QED
      BY <3>5 DEF next
  <2>7. QED
    BY <2>3, <2>4, <2>5, <2>6
<1>5. QED
  BY <1>2, <1>3, <1>4

\* The fetch after the first n replies is what its recursive definition says.
LEMMA FetchRunIs ==
    ASSUME NEW W, NEW start \in Urls(W), NEW allowPrivate, NEW replies \in Seq(RepliesOf(W))
    PROVE  /\ FetchRun(start, allowPrivate, replies)[0] = FetchStart(start)
           /\ \A n \in 1 .. Len(replies) :
                 FetchRun(start, allowPrivate, replies)[n] =
                 FetchStep(allowPrivate, FetchRun(start, allowPrivate, replies)[n - 1], replies[n])
<1> DEFINE N == Len(replies)
           S == {f \in Fetches(W) : FetchInv(W, allowPrivate, f)}
           Solves(after) == after = [n \in 0 .. N |->
               IF n = 0 THEN FetchStart(start) ELSE FetchStep(allowPrivate, after[n - 1], replies[n])]
           step == [p \in (1 .. N) \X S |-> FetchStep(allowPrivate, p[2], replies[p[1]])]
<1>1. N \in Nat /\ \A n \in 1 .. N : replies[n] \in RepliesOf(W)
  BY LenProperties, ElementOfSeq
<1>2. FetchStart(start) \in S
  BY FetchStarts DEF FetchInv
<1>3. step \in StepsOf(N, S)
  <2>1. ASSUME NEW p \in (1 .. N) \X S PROVE FetchStep(allowPrivate, p[2], replies[p[1]]) \in S
    <3>1. p[1] \in 1 .. N /\ p[2] \in S
      OBVIOUS
    <3>2. FetchInv(W, allowPrivate, FetchStep(allowPrivate, p[2], replies[p[1]]))
      BY <1>1, <3>1, FetchStepKeeps
    <3>3. QED
      BY <3>2 DEF FetchInv
  <2>2. QED
    BY <2>1 DEF StepsOf
<1>4. PICK f \in [0 .. N -> S] : f[0] = FetchStart(start) /\ \A n \in 1 .. N : f[n] = step[<<n, f[n - 1]>>]
  <2> DEFINE first == FetchStart(start)
  <2>1. first \in S
    BY <1>2
  <2> HIDE DEF N, S, step, first
  <2>2. \E f \in RunsOf(N, S) : Recurs(f, N, first, step)
    BY <1>1, <2>1, <1>3, Recursion
  <2>3. QED
    BY <2>2 DEF first, RunsOf, Recurs
<1>5. Solves(f)
  <2>1. ASSUME NEW n \in 1 .. N PROVE f[n] = FetchStep(allowPrivate, f[n - 1], replies[n])
    <3>1. n - 1 \in 0 .. N
      BY <1>1
    <3>2. <<n, f[n - 1]>> \in (1 .. N) \X S
      BY <3>1
    <3>3. QED
      BY <1>4, <3>2
  <2>2. \A n \in 0 .. N : n # 0 => n \in 1 .. N
    BY <1>1
  <2>3. f = [n \in 0 .. N |-> f[n]]
    BY <1>4
  <2>4. QED
    BY <1>4, <2>1, <2>2, <2>3
<1>6. FetchRun(start, allowPrivate, replies) = CHOOSE after : Solves(after)
  BY DEF FetchRun
<1> HIDE DEF Solves
<1>7. Solves(FetchRun(start, allowPrivate, replies))
  BY <1>5, <1>6
<1> DEFINE run == FetchRun(start, allowPrivate, replies)
<1>8. run = [n \in 0 .. N |-> IF n = 0 THEN FetchStart(start) ELSE FetchStep(allowPrivate, run[n - 1], replies[n])]
  BY <1>7 DEF Solves
<1> HIDE DEF run
<1>9. \A n \in 0 .. N : run[n] = IF n = 0 THEN FetchStart(start) ELSE FetchStep(allowPrivate, run[n - 1], replies[n])
  BY <1>8
<1>10. 0 \in 0 .. N /\ \A n \in 1 .. N : n \in 0 .. N /\ n # 0
  BY <1>1
<1>11. QED
  BY <1>9, <1>10 DEF run, N

(***************************************************************************)
(* A fetch asks no host its own check has not found to be one to ask,      *)
(* redirected or not, asks at most once more than it follows redirects,    *)
(* begins no request after the deadline and ends none more than a second   *)
(* after it, for all replies, however long they take and whatever lookups  *)
(* find (perform_web_fetch).                                               *)
(***************************************************************************)
THEOREM FetchIsAlwaysBounded ==
    ASSUME NEW W, NEW start \in Urls(W), NEW allowPrivate, NEW replies \in Seq(RepliesOf(W))
    PROVE  FetchStaysBounded(start, allowPrivate, replies)
<1> DEFINE run == FetchRun(start, allowPrivate, replies)
           N == Len(replies)
           good == {n \in 0 .. N : FetchInv(W, allowPrivate, run[n])}
<1>1. N \in Nat /\ \A n \in 1 .. N : replies[n] \in RepliesOf(W)
  BY LenProperties, ElementOfSeq
<1>2. run[0] = FetchStart(start) /\ \A n \in 1 .. N : run[n] = FetchStep(allowPrivate, run[n - 1], replies[n])
  BY FetchRunIs
<1>3. FetchInv(W, allowPrivate, FetchStart(start))
  BY FetchStarts
<1> HIDE DEF run, N
<1>4. 0 \in good
  BY <1>1, <1>2, <1>3
<1>5. ASSUME NEW n \in 0 .. N - 1, n \in good PROVE n + 1 \in good
  <2>1. n + 1 \in 1 .. N /\ n + 1 \in 0 .. N /\ n + 1 - 1 = n
    BY <1>1
  <2>2. run[n + 1] = FetchStep(allowPrivate, run[n], replies[n + 1]) /\ replies[n + 1] \in RepliesOf(W)
    BY <1>1, <1>2, <2>1
  <2>3. FetchInv(W, allowPrivate, run[n + 1])
    BY <1>5, <2>2, FetchStepKeeps
  <2>4. QED
    BY <2>1, <2>3
<1>6. FetchInv(W, allowPrivate, run[N])
  <2> HIDE DEF good
  <2>1. 0 .. N \subseteq good
    BY <1>1, <1>4, <1>5, Reaches
  <2>2. N \in good
    BY <1>1, <2>1
  <2>3. QED
    BY <2>2 DEF good
<1>7. FetchInv(W, allowPrivate, Fetch(start, allowPrivate, replies))
  BY <1>6 DEF Fetch, run, N
<1>8. QED
  BY <1>7 DEF FetchInv, FetchStaysBounded

\* The beginning of a sequence, up to a length.
LEMMA BeginningIs ==
    ASSUME NEW T, NEW s \in Seq(T), NEW n \in Nat, n <= Len(s)
    PROVE  /\ SubSeq(s, 1, n) \in Seq(T)
           /\ Len(SubSeq(s, 1, n)) = n
           /\ \A i \in 1 .. n : SubSeq(s, 1, n)[i] = s[i]
           /\ IsPrefix(SubSeq(s, 1, n), s)
<1>1. Len(s) \in Nat /\ \A i \in 1 .. Len(s) : s[i] \in T
  BY LenProperties, ElementOfSeq
<1>2. \A i \in 1 .. n : i \in 1 .. Len(s)
  BY <1>1
<1>3. \A i \in 1 .. n : s[i] \in T
  BY <1>1, <1>2
<1>4. /\ SubSeq(s, 1, n) \in Seq(T)
      /\ Len(SubSeq(s, 1, n)) = IF 1 <= n THEN n - 1 + 1 ELSE 0
      /\ \A i \in 1 .. n - 1 + 1 : SubSeq(s, 1, n)[i] = s[1 + i - 1]
  BY <1>3, SubSeqProperties
<1>5. Len(SubSeq(s, 1, n)) = n /\ \A i \in 1 .. n : SubSeq(s, 1, n)[i] = s[i]
  <2>1. \A i \in 1 .. n : i \in 1 .. n - 1 + 1 /\ 1 + i - 1 = i
    OBVIOUS
  <2>2. QED
    BY <1>4, <2>1
<1>6. IsPrefix(SubSeq(s, 1, n), s)
  BY <1>1, <1>4, <1>5 DEF IsPrefix
<1>7. QED
  BY <1>4, <1>5, <1>6

(***************************************************************************)
(* web_search shows the first hits up to what was asked for, and http_get  *)
(* the beginning of a body up to its limit, for every list of hits and     *)
(* every body; both say nothing else, and http_get says so if it has cut   *)
(* the body (perform_brave_search, http_get).                              *)
(***************************************************************************)
THEOREM AnswersAreAlwaysBounded ==
    ASSUME NEW T, NEW hits \in Seq(T), NEW max \in Nat, NEW widths \in Seq(Int), NEW limit \in Int
    PROVE  AnswersAreBounded(hits, max, widths, limit)
<1> DEFINE found == Search(TRUE, "ok", hits, max)
           got == HttpGet(widths, limit)
           all == Len(widths)
           bytes == Bytes(widths)
           shown(n) == Bytes(SubSeq(widths, 1, n))
           cuts == {n \in 0 .. all : shown(n) = limit}
<1>1. Len(found.hits) <= max /\ IsPrefix(found.hits, hits) /\ (Len(found.hits) < max => found.hits = hits)
  <2> DEFINE n == IF Len(hits) > max THEN max ELSE Len(hits)
  <2>1. Len(hits) \in Nat /\ n \in Nat /\ n <= Len(hits) /\ n <= max
    BY LenProperties
  <2>2. found.hits = SubSeq(hits, 1, n)
    BY DEF Search
  <2>3. Len(found.hits) = n /\ IsPrefix(found.hits, hits)
    <3> HIDE DEF n, found
    <3>1. QED
      BY <2>1, <2>2, BeginningIs
  <2>4. n < max => found.hits = hits
    <3>1. ASSUME n < max PROVE SubSeq(hits, 1, n) = hits
      <4>1. n = Len(hits)
        BY <2>1, <3>1
      <4>2. QED
        BY <4>1, SubSeqFull
    <3> HIDE DEF n, found
    <3>2. QED
      BY <2>2, <3>1
  <2> HIDE DEF n, found
  <2>5. QED
    BY <2>1, <2>3, <2>4
<1>2. all \in Nat /\ shown(all) = bytes
  BY LenProperties, SubSeqFull
<1>3. HttpGet(widths, limit) = IF bytes <= limit THEN [shown |-> all, cut |-> FALSE]
                               ELSE IF cuts = {} THEN [failed |-> TRUE]
                               ELSE [shown |-> Least(cuts), cut |-> TRUE]
  BY DEF HttpGet
<1>4. bytes <= limit => got = [shown |-> all, cut |-> FALSE]
  BY <1>3
<1>5. "cut" \in DOMAIN got => shown(got.shown) <= limit /\ (got.cut <=> got.shown < all)
  <2>1. CASE bytes <= limit
    <3>1. got.shown = all /\ got.cut = FALSE
      BY <1>4, <2>1
    <3> HIDE DEF got, shown, all, bytes
    <3>2. QED
      BY <1>2, <2>1, <3>1
  <2>2. CASE ~(bytes <= limit) /\ cuts = {}
    <3>1. got = [failed |-> TRUE]
      BY <1>3, <2>2
    <3>2. "cut" \notin DOMAIN got
      BY <3>1
    <3>3. QED
      BY <3>2
  <2>3. CASE ~(bytes <= limit) /\ cuts # {}
    <3> DEFINE least == Least(cuts)
    <3>1. got.shown = least /\ got.cut = TRUE
      <4> HIDE DEF bytes, all, cuts
      <4>1. got = [shown |-> least, cut |-> TRUE]
        BY <1>3, <2>3
      <4> HIDE DEF got, least
      <4>2. QED
        BY <4>1
    <3>2. least \in cuts
      <4>1. cuts \subseteq Nat
        BY <1>2
      <4> HIDE DEF cuts
      <4>2. \E n \in cuts : \A k \in cuts : n <= k
        BY <2>3, <4>1, LeastNatural
      <4>3. QED
        BY <4>2 DEF Least
    <3> HIDE DEF got, least, bytes
    <3>3. least \in 0 .. all /\ shown(least) = limit
      BY <3>2
    <3> HIDE DEF shown, all, cuts
    <3>4. least # all
      BY <1>2, <2>3, <3>3
    <3>5. QED
      BY <1>2, <3>1, <3>3, <3>4
  <2>4. QED
    BY <2>1, <2>2, <2>3
<1> HIDE DEF found, got
<1>6. QED
  BY <1>1, <1>4, <1>5 DEF AnswersAreBounded, found, got

\* The kinds of the calls that each part of Next makes.
KindsOf ==
    [history |-> {"conversation"}, layers |-> {"arrivals", "request"}, searches |-> {"glob", "path", "lines", "tree", "memory"},
     tools |-> {"tool", "fetch", "page", "answer"}, settings |-> {"setting", "agent"},
     files |-> {"write", "prompt", "init"}, transfers |-> {"import"}, answers |-> {"stream", "repl", "stub"}]

LEMMA KindsAreOf ==
    /\ HistoryCalls => call'.kind \in KindsOf.history
    /\ LayerCalls => call'.kind \in KindsOf.layers
    /\ SearchCalls => call'.kind \in KindsOf.searches
    /\ ToolCalls => call'.kind \in KindsOf.tools
    /\ SettingCalls => call'.kind \in KindsOf.settings
    /\ FileCalls => call'.kind \in KindsOf.files
    /\ TransferCalls => call'.kind \in KindsOf.transfers
    /\ AnswerCalls => call'.kind \in KindsOf.answers
<1>1. HistoryCalls => call'.kind \in KindsOf.history
  BY DEF HistoryCalls, KindsOf
<1>2. LayerCalls => call'.kind \in KindsOf.layers
  BY DEF LayerCalls, KindsOf
<1>3. SearchCalls => call'.kind \in KindsOf.searches
  <2>1. ASSUME SearchCalls PROVE call'.kind \in {"glob", "path", "lines", "tree", "memory"}
    <3>1. CASE \E glob \in Globs, name \in Names : call' = [kind |-> "glob", glob |-> glob, text |-> name]
      BY <3>1
    <3>2. CASE \E glob \in PathGlobs, slash \in BOOLEAN, path \in PathsOf :
                  (~slash => Len(glob) <= 1) /\ call' = [kind |-> "path", glob |-> glob, slash |-> slash, text |-> path]
      BY <3>2
    <3>6. CASE \E lines \in FileLines, offset \in 1 .. 6, limit \in 1 .. 5 :
                  call' = [kind |-> "lines", lines |-> lines, offset |-> offset, limit |-> limit]
      BY <3>6
    <3>3. CASE \E tree \in Trees : call' = [kind |-> "tree", tree |-> tree]
      BY <3>3
    <3>4. CASE \E files \in SearchedFiles, override \in SeqsOf({"memory", "notes"}, 0 .. 3), max \in 1 .. 3 :
                  call' = [kind |-> "memory", files |-> files, override |-> override, max |-> max]
      BY <3>4
    <3>5. QED
      BY <2>1, <3>1, <3>2, <3>3, <3>4, <3>6, Zenon DEF SearchCalls
  <2>2. QED
    BY <2>1 DEF KindsOf
<1>4. ToolCalls => call'.kind \in KindsOf.tools
  BY DEF ToolCalls, KindsOf
<1>5. SettingCalls => call'.kind \in KindsOf.settings
  BY DEF SettingCalls, KindsOf
<1>6. FileCalls => call'.kind \in KindsOf.files
  BY DEF FileCalls, KindsOf
<1>7. TransferCalls => call'.kind \in KindsOf.transfers
  <2>1. ASSUME TransferCalls PROVE call'.kind = "import"
    <3>1. PICK sessions \in SomeSessions, body \in Bodies, asked \in AtMostOne({"blank", " s1 ", "s3"}),
               format \in AtMostOne({"json"}), type \in BodyTypes, overwrite \in BOOLEAN :
            call' = [kind |-> "import", sessions |-> sessions, body |-> body, asked |-> asked, format |-> format,
                     type |-> type, overwrite |-> overwrite]
      BY <2>1, Zenon DEF TransferCalls
    <3>2. QED
      BY <3>1
  <2>2. QED
    BY <2>1 DEF KindsOf
<1>8. AnswerCalls => call'.kind \in KindsOf.answers
  <2>1. ASSUME AnswerCalls PROVE call'.kind \in {"stream", "repl", "stub"}
    <3>1. CASE \E authorised \in BOOLEAN, field \in BOOLEAN,
                  accept \in AtMostOne({"Text/Event-Stream;q=0.9", "*/*"}),
                  session \in AtMostOne({"s1"}), outcome \in Outcomes :
                 call' = [kind |-> "stream", authorised |-> authorised, field |-> field, accept |-> accept,
                          session |-> session, outcome |-> outcome]
      <4>1. PICK authorised \in BOOLEAN, field \in BOOLEAN,
                 accept \in AtMostOne({"Text/Event-Stream;q=0.9", "*/*"}),
                 session \in AtMostOne({"s1"}), outcome \in Outcomes :
              call' = [kind |-> "stream", authorised |-> authorised, field |-> field, accept |-> accept,
                       session |-> session, outcome |-> outcome]
        BY <3>1, Zenon
      <4>2. QED
        BY <4>1
    <3>2. CASE \E inputs \in SeqsOf(Inputs, 0 .. 4) : call' = [kind |-> "repl", inputs |-> inputs]
      BY <3>2
    <3>3. CASE \E words \in SUBSET Keywords, quoted \in CallsWritten, output \in {{}, {"list", "files", "block"}}, limit \in 1 .. 3 :
                 call' = [kind |-> "stub", messages |-> <<Asked({"time"}), [role |-> "assistant", words |-> {}], Asked(words)>>,
                          quoted |-> quoted, output |-> output, limit |-> limit]
      BY <3>3
    <3>4. QED
      BY <2>1, <3>1, <3>2, <3>3, Zenon DEF AnswerCalls
  <2>2. QED
    BY <2>1 DEF KindsOf
<1>9. QED
  BY <1>1, <1>2, <1>3, <1>4, <1>5, <1>6, <1>7, <1>8

-----------------------------------------------------------------------------
WebWords == {"https", "http", "ftp", "", "public", "private", "name", "nothing", "dir", "page", "top", "other"}

WebCallIsTyped ==
    /\ Asks("fetch") => call.start \in Urls(WebWords) /\ call.replies \in Seq(RepliesOf(WebWords))
    /\ Asks("answer") => call.hits \in Seq(Int) /\ call.widths \in Seq(Int)

LEMMA ShortSeqs == \A S : \A a, b \in S : <<a>> \in Seq(S) /\ <<a, b>> \in Seq(S)
OBVIOUS

LEMMA WebInputs ==
    /\ Starts \subseteq Urls(WebWords)
    /\ SeqsOf(Replies, 0 .. 3) \subseteq Seq(RepliesOf(WebWords))
    /\ SeqsOf(1 .. 3, 0 .. 4) \subseteq Seq(Int)
    /\ \A hits \in 0 .. 3 : [i \in 1 .. hits |-> i] \in Seq(Int)
<1> DEFINE W == WebWords
<1>0. /\ "https" \in W /\ "http" \in W /\ "ftp" \in W /\ "" \in W /\ "public" \in W /\ "private" \in W
      /\ "dir" \in W /\ "page" \in W /\ "top" \in W /\ "other" \in W /\ "name" \in W /\ "nothing" \in W
  BY DEF WebWords
<1> HIDE DEF W
<1>1. \A scheme, host \in W, port \in Int : Url(scheme, host, port) \in Urls(W)
  <2>1. <<"dir", "page">> \in Seq(W)
    BY <1>0, ShortSeqs, Zenon
  <2>2. QED
    BY <2>1 DEF Url, Urls
<1>2. Starts \subseteq Urls(W)
  <2>1. MaxPort + 1 \in Int
    BY DEF MaxPort
  <2>2. NoPort \in Int
    BY DEF NoPort
  <2>3. QED
    BY <1>0, <1>1, <2>1, <2>2, Zenon DEF Starts
<1>3. Locations \subseteq LocationsOf(W)
  <2>1. <<"top">> \in Seq(W) /\ <<"other">> \in Seq(W)
    BY <1>0, ShortSeqs, Zenon
  <2>2. /\ Url("http", "public", 81) \in Urls(W) /\ Url("ftp", "public", NoPort) \in Urls(W)
        /\ Url("", "private", NoPort) \in Urls(W) /\ Url("", "name", NoPort) \in Urls(W)
    <3>1. NoPort \in Int /\ 81 \in Int
      BY DEF NoPort
    <3>2. QED
      BY <1>0, <1>1, <3>1, Zenon
  <2>3. \A path \in Seq(W), url \in Urls(W) :
           /\ [kind |-> "none"] \in LocationsOf(W)
           /\ [kind |-> "root", path |-> path] \in LocationsOf(W) /\ [kind |-> "beside", path |-> path] \in LocationsOf(W)
           /\ [kind |-> "url", url |-> url] \in LocationsOf(W) /\ [kind |-> "host", url |-> url] \in LocationsOf(W)
    BY DEF LocationsOf
  <2>4. QED
    BY <2>1, <2>2, <2>3, Zenon DEF Locations
<1>4. Replies \subseteq RepliesOf(W)
  <2>1. [kind |-> "none"] \in LocationsOf(W)
    BY DEF LocationsOf
  <2>2. [kind |-> "root", path |-> <<"top">>] \in Locations
    BY DEF Locations
  <2>3. ASSUME NEW S \in SUBSET {"ok", "error", "redirect"}, NEW L \in SUBSET LocationsOf(W), NEW F \in SUBSET W,
               NEW K \in SUBSET Nat, NEW T \in SUBSET Nat
        PROVE  [status : S, location : L, found : F, lookup : K, takes : T] \subseteq RepliesOf(W)
    BY DEF RepliesOf
  <2>4. /\ {"ok"} \in SUBSET {"ok", "error", "redirect"} /\ {"error"} \in SUBSET {"ok", "error", "redirect"}
        /\ {"redirect"} \in SUBSET {"ok", "error", "redirect"}
    OBVIOUS
  <2>5. /\ {[kind |-> "none"]} \in SUBSET LocationsOf(W) /\ Locations \in SUBSET LocationsOf(W)
        /\ {[kind |-> "root", path |-> <<"top">>]} \in SUBSET LocationsOf(W)
    BY <1>3, <2>1, <2>2
  <2>6. {"public"} \in SUBSET W /\ {"public", "private", "nothing"} \in SUBSET W
    BY <1>0
  <2>7. {0} \in SUBSET Nat /\ {1} \in SUBSET Nat /\ {2} \in SUBSET Nat /\ {0, 3} \in SUBSET Nat /\ {1, 3, 4} \in SUBSET Nat
    OBVIOUS
  <2>8. [status : {"ok"}, location : {[kind |-> "none"]}, found : {"public", "private", "nothing"}, lookup : {0}, takes : {1}]
        \subseteq RepliesOf(W)
    BY <2>3, <2>4, <2>5, <2>6, <2>7, Zenon
  <2>9. [status : {"error"}, location : {[kind |-> "none"]}, found : {"public"}, lookup : {0}, takes : {1}]
         \subseteq RepliesOf(W)
    BY <2>3, <2>4, <2>5, <2>6, <2>7, Zenon
  <2>10. [status : {"redirect"}, location : Locations, found : {"public"}, lookup : {0}, takes : {2}] \subseteq RepliesOf(W)
    BY <2>3, <2>4, <2>5, <2>6, <2>7, Zenon
  <2>11. [status : {"redirect"}, location : {[kind |-> "root", path |-> <<"top">>]}, found : {"public"},
          lookup : {0, 3}, takes : {1, 3, 4}]
         \subseteq RepliesOf(W)
    BY <2>3, <2>4, <2>5, <2>6, <2>7, Zenon
  <2>12. QED
    BY <2>8, <2>9, <2>10, <2>11, Zenon DEF Replies
<1>5. 0 .. 3 \in SUBSET Nat /\ 0 .. 4 \in SUBSET Nat /\ 1 .. 3 \subseteq Int
  OBVIOUS
<1>6. \A hits \in 0 .. 3 : [i \in 1 .. hits |-> i] \in Seq(Int)
  <2>1. \A hits \in 0 .. 3 : hits \in Nat /\ [i \in 1 .. hits |-> i] \in [1 .. hits -> Int]
    OBVIOUS
  <2>2. QED
    BY <2>1, SeqDef
<1>7. QED
  <2>1. SeqsOf(Replies, 0 .. 3) \subseteq Seq(RepliesOf(W)) /\ SeqsOf(1 .. 3, 0 .. 4) \subseteq Seq(Int)
    BY <1>4, <1>5, SeqsAreSeqs
  <2>2. QED
    BY <1>2, <1>6, <2>1 DEF W

LEMMA WebCallsAreTyped == Spec => []WebCallIsTyped
<1>1. Init => WebCallIsTyped
  BY DEF Init, WebCallIsTyped, Asks
<1>2. WebCallIsTyped /\ [Next]_call => WebCallIsTyped'
  <2> SUFFICES ASSUME WebCallIsTyped, [Next]_call PROVE WebCallIsTyped'
    OBVIOUS
  <2>1. CASE ToolCalls
    <3>1. CASE \E tool \in DOMAIN Schemas : \E args \in ArgumentsOf(tool) :
                  call' = [kind |-> "tool", tool |-> tool, args |-> args]
      BY <3>1 DEF WebCallIsTyped, Asks
    <3>2. CASE \E start \in Starts, allowPrivate \in BOOLEAN, replies \in SeqsOf(Replies, 0 .. 3) :
                  call' = [kind |-> "fetch", start |-> start, allowPrivate |-> allowPrivate, replies |-> replies]
      BY <3>2, WebInputs DEF WebCallIsTyped, Asks
    <3>3. CASE \E parts \in Pages : call' = [kind |-> "page", parts |-> parts]
      BY <3>3 DEF WebCallIsTyped, Asks
    <3>4. CASE \E hits \in 0 .. 3, widths \in SeqsOf(1 .. 3, 0 .. 4) :
                  call' = [kind |-> "answer", hits |-> [i \in 1 .. hits |-> i], widths |-> widths]
      BY <3>4, WebInputs DEF WebCallIsTyped, Asks
    <3>5. QED
      BY <2>1, <3>1, <3>2, <3>3, <3>4, Zenon DEF ToolCalls
  <2>2. CASE Next /\ ~ToolCalls
    BY <2>2, KindsAreOf DEF KindsOf, Next, WebCallIsTyped, Asks
  <2>3. CASE call' = call
    BY <2>3 DEF WebCallIsTyped, Asks
  <2>4. QED
    BY <2>1, <2>2, <2>3
<1>3. QED
  BY <1>1, <1>2, PTL DEF Spec

(***************************************************************************)
(* What MCAlgorithms checks of the web's answers holds in every state, by  *)
(* FetchIsAlwaysBounded and AnswersAreAlwaysBounded, which hold of every   *)
(* address, chain of replies, list of hits and limit.                      *)
(***************************************************************************)
THEOREM WebIsBoundedInCalls == Spec => []WebAnswersAreBounded
<1>1. WebCallIsTyped => WebAnswersAreBounded
  BY FetchIsAlwaysBounded, AnswersAreAlwaysBounded DEF WebCallIsTyped, WebAnswersAreBounded
<1>2. QED
  BY <1>1, WebCallsAreTyped, PTL

-----------------------------------------------------------------------------
(* Settings and their reports *)

\* An optional value.
IsOptional(value) == \A x, y \in value : x = y

\* The rules of the settings whose variable counts as their source as soon as it is set.
RulesSet == {"verbatim", "limit", "amount", "iterations", "flag", "public", "list"}

\* The rule of a setting goes with how its source is told.
IsTold(s, setting) ==
    /\ \/ setting.rule \in {"secret", "level"} /\ setting.told = "filled"
       \/ setting.rule = "format" /\ setting.told = "reads"
       \/ setting.rule \in RulesSet /\ setting.told = "set"
    /\ setting.rule = "level" <=> s = "log_level"
    /\ IsOptional(setting.default)

ToldAsRuled(settings) == \A s \in DOMAIN settings : IsTold(s, settings[s])

LEMMA TellingIs ==
    ASSUME NEW s, NEW rule, NEW default, NEW told,
           \/ rule \in {"secret", "level"} /\ told = "filled"
           \/ rule = "format" /\ told = "reads"
           \/ rule \in RulesSet /\ told = "set",
           rule = "level" <=> s = "log_level", IsOptional(default)
    PROVE  IsTold(s, Setting(rule, default, told))
<1> DEFINE setting == Setting(rule, default, told)
<1>1. setting.rule = rule /\ setting.default = default /\ setting.told = told
  BY DEF Setting
<1> HIDE DEF setting
<1>2. IsTold(s, setting)
  BY <1>1 DEF IsTold
<1>3. QED
  BY <1>2 DEF setting

\* The settings whose variable counts as soon as it is set, and the secrets.
LEMMA TellingSet ==
    ASSUME NEW s, s # "log_level", NEW default, IsOptional(default)
    PROVE  /\ \A rule \in RulesSet : IsTold(s, Setting(rule, default, "set"))
           /\ IsTold(s, Setting("secret", default, "filled")) /\ IsTold(s, Setting("format", default, "reads"))
<1>1. \A rule \in RulesSet : rule # "level"
  BY DEF RulesSet
<1>2. QED
  BY <1>1, TellingIs

LEMMA OneIsOptional == IsOptional({}) /\ \A x : IsOptional({x})
BY DEF IsOptional

LEMMA SectionsAreTold == \A section \in Sections : ToldAsRuled(section)
<1>1. ToldAsRuled(HeartbeatSettings)
  <2> DEFINE all == HeartbeatSettings
  <2>1. DOMAIN all = {"heartbeat_interval"}
    BY DEF HeartbeatSettings
  <2>2. IsTold("heartbeat_interval", all["heartbeat_interval"])
    <3>1. all["heartbeat_interval"] = Setting("amount", {3600}, "set")
      BY DEF HeartbeatSettings
    <3>2. IsTold("heartbeat_interval", Setting("amount", {3600}, "set"))
      BY OneIsOptional, TellingSet DEF RulesSet
    <3>3. QED
      BY <3>1, <3>2
  <2> HIDE DEF all
  <2>3. ToldAsRuled(all)
    BY <2>1, <2>2 DEF ToldAsRuled
  <2>4. QED
    BY <2>3 DEF all
<1>2. ToldAsRuled(SessionSettings)
  <2> DEFINE all == SessionSettings
  <2>1. DOMAIN all = {"summarize_on_overflow"}
    BY DEF SessionSettings
  <2>2. IsTold("summarize_on_overflow", all["summarize_on_overflow"])
    <3>1. all["summarize_on_overflow"] = Setting("flag", {FALSE}, "set")
      BY DEF SessionSettings
    <3>2. IsTold("summarize_on_overflow", Setting("flag", {FALSE}, "set"))
      BY OneIsOptional, TellingSet DEF RulesSet
    <3>3. QED
      BY <3>1, <3>2
  <2> HIDE DEF all
  <2>3. ToldAsRuled(all)
    BY <2>1, <2>2 DEF ToldAsRuled
  <2>4. QED
    BY <2>3 DEF all
<1>3. ToldAsRuled(LoggingSettings)
  <2> DEFINE all == LoggingSettings
  <2>1. DOMAIN all = {"log_format", "log_level"}
    BY DEF LoggingSettings
  <2>2. IsTold("log_format", all["log_format"])
    <3>1. all["log_format"] = Setting("format", {"text"}, "reads")
      BY DEF LoggingSettings
    <3>2. IsTold("log_format", Setting("format", {"text"}, "reads"))
      BY OneIsOptional, TellingSet
    <3>3. QED
      BY <3>1, <3>2
  <2>3. IsTold("log_level", all["log_level"])
    <3>1. all["log_level"] = Setting("level", {}, "filled")
      BY DEF LoggingSettings
    <3>2. IsTold("log_level", Setting("level", {}, "filled"))
      BY OneIsOptional, TellingIs
    <3>3. QED
      BY <3>1, <3>2
  <2> HIDE DEF all
  <2>4. ToldAsRuled(all)
    BY <2>1, <2>2, <2>3 DEF ToldAsRuled
  <2>5. QED
    BY <2>4 DEF all
<1>4. ToldAsRuled(ToolSettings)
  <2> DEFINE all == ToolSettings
  <2>1. DOMAIN all = {"brave_api_key"}
    BY DEF ToolSettings
  <2>2. IsTold("brave_api_key", all["brave_api_key"])
    <3>1. all["brave_api_key"] = Setting("secret", {}, "filled")
      BY DEF ToolSettings
    <3>2. IsTold("brave_api_key", Setting("secret", {}, "filled"))
      BY OneIsOptional, TellingSet
    <3>3. QED
      BY <3>1, <3>2
  <2> HIDE DEF all
  <2>3. ToldAsRuled(all)
    BY <2>1, <2>2 DEF ToldAsRuled
  <2>4. QED
    BY <2>3 DEF all
<1>5. ToldAsRuled(CorsSettings)
  <2> DEFINE all == CorsSettings
  <2>1. DOMAIN all = {"cors_enabled", "cors_origins"}
    BY DEF CorsSettings
  <2>2. IsTold("cors_enabled", all["cors_enabled"])
    <3>1. all["cors_enabled"] = Setting("flag", {FALSE}, "set")
      BY DEF CorsSettings
    <3>2. IsTold("cors_enabled", Setting("flag", {FALSE}, "set"))
      BY OneIsOptional, TellingSet DEF RulesSet
    <3>3. QED
      BY <3>1, <3>2
  <2>3. IsTold("cors_origins", all["cors_origins"])
    <3>1. all["cors_origins"] = Setting("list", {"blank"}, "set")
      BY DEF CorsSettings
    <3>2. IsTold("cors_origins", Setting("list", {"blank"}, "set"))
      BY OneIsOptional, TellingSet DEF RulesSet
    <3>3. QED
      BY <3>1, <3>2
  <2> HIDE DEF all
  <2>4. ToldAsRuled(all)
    BY <2>1, <2>2, <2>3 DEF ToldAsRuled
  <2>5. QED
    BY <2>4 DEF all
<1>6. ToldAsRuled(LimitSettings)
  <2> DEFINE all == LimitSettings
  <2>1. DOMAIN all = {"rate_limit_per_minute", "session_ttl", "shutdown_timeout", "max_body_bytes", "metrics_public"}
    BY DEF LimitSettings
  <2>2. IsTold("rate_limit_per_minute", all["rate_limit_per_minute"])
    <3>1. all["rate_limit_per_minute"] = Setting("limit", {}, "set")
      BY DEF LimitSettings
    <3>2. IsTold("rate_limit_per_minute", Setting("limit", {}, "set"))
      BY OneIsOptional, TellingSet DEF RulesSet
    <3>3. QED
      BY <3>1, <3>2
  <2>3. IsTold("session_ttl", all["session_ttl"])
    <3>1. all["session_ttl"] = Setting("limit", {}, "set")
      BY DEF LimitSettings
    <3>2. IsTold("session_ttl", Setting("limit", {}, "set"))
      BY OneIsOptional, TellingSet DEF RulesSet
    <3>3. QED
      BY <3>1, <3>2
  <2>4. IsTold("shutdown_timeout", all["shutdown_timeout"])
    <3>1. all["shutdown_timeout"] = Setting("amount", {15}, "set")
      BY DEF LimitSettings
    <3>2. IsTold("shutdown_timeout", Setting("amount", {15}, "set"))
      BY OneIsOptional, TellingSet DEF RulesSet
    <3>3. QED
      BY <3>1, <3>2
  <2>5. IsTold("max_body_bytes", all["max_body_bytes"])
    <3>1. all["max_body_bytes"] = Setting("amount", {1048576}, "set")
      BY DEF LimitSettings
    <3>2. IsTold("max_body_bytes", Setting("amount", {1048576}, "set"))
      BY OneIsOptional, TellingSet DEF RulesSet
    <3>3. QED
      BY <3>1, <3>2
  <2>6. IsTold("metrics_public", all["metrics_public"])
    <3>1. all["metrics_public"] = Setting("public", {TRUE}, "set")
      BY DEF LimitSettings
    <3>2. IsTold("metrics_public", Setting("public", {TRUE}, "set"))
      BY OneIsOptional, TellingSet DEF RulesSet
    <3>3. QED
      BY <3>1, <3>2
  <2> HIDE DEF all
  <2>7. ToldAsRuled(all)
    BY <2>1, <2>2, <2>3, <2>4, <2>5, <2>6 DEF ToldAsRuled
  <2>8. QED
    BY <2>7 DEF all
<1>7. ToldAsRuled(AgentSettings)
  <2> DEFINE all == AgentSettings
  <2>1. DOMAIN all = {"tool_timeout", "max_tool_iterations"}
    BY DEF AgentSettings
  <2>2. IsTold("tool_timeout", all["tool_timeout"])
    <3>1. all["tool_timeout"] = Setting("limit", {}, "set")
      BY DEF AgentSettings
    <3>2. IsTold("tool_timeout", Setting("limit", {}, "set"))
      BY OneIsOptional, TellingSet DEF RulesSet
    <3>3. QED
      BY <3>1, <3>2
  <2>3. IsTold("max_tool_iterations", all["max_tool_iterations"])
    <3>1. all["max_tool_iterations"] = Setting("iterations", {5}, "set")
      BY DEF AgentSettings
    <3>2. IsTold("max_tool_iterations", Setting("iterations", {5}, "set"))
      BY OneIsOptional, TellingSet DEF RulesSet
    <3>3. QED
      BY <3>1, <3>2
  <2> HIDE DEF all
  <2>4. ToldAsRuled(all)
    BY <2>1, <2>2, <2>3 DEF ToldAsRuled
  <2>5. QED
    BY <2>4 DEF all
<1>8. ToldAsRuled(ChannelSettings)
  <2>1. \A s \in DOMAIN ChannelSettings : s # "log_level" /\ ChannelSettings[s] = Setting("secret", {}, "filled")
    BY DEF ChannelSettings
  <2>2. QED
    BY <2>1, OneIsOptional, TellingSet DEF ToldAsRuled
<1>9. ToldAsRuled(CredentialSettings)
  <2>1. \A s \in DOMAIN CredentialSettings : s # "log_level" /\ CredentialSettings[s] = Setting("verbatim", {}, "set")
    BY DEF CredentialSettings
  <2>2. QED
    BY <2>1, OneIsOptional, TellingSet DEF ToldAsRuled, RulesSet
<1>10. QED
  BY <1>1, <1>2, <1>3, <1>4, <1>5, <1>6, <1>7, <1>8, <1>9 DEF Sections

LEMMA SettingsAreTold == ToldAsRuled(Settings)
<1> SUFFICES ASSUME NEW s \in DOMAIN Settings
             PROVE  \E section \in Sections : s \in DOMAIN section /\ Settings[s] = section[s]
  BY SectionsAreTold DEF ToldAsRuled
<1>1. \E section \in Sections : s \in DOMAIN section
  BY DEF Settings
<1> DEFINE chosen == CHOOSE section \in Sections : s \in DOMAIN section
<1>2. chosen \in Sections /\ s \in DOMAIN chosen
  BY <1>1
<1>3. Settings[s] = chosen[s]
  BY DEF Settings
<1>4. QED
  BY <1>2, <1>3

\* The rule of a setting makes its value.
LEMMA EffectiveIs ==
    ASSUME NEW setting, NEW env, NEW rust, NEW configured
    PROVE  LET rule == Settings[setting].rule
               value == Effective(setting, env, rust, configured)
           IN  /\ rule = "secret" => value = SecretOf(env, configured)
               /\ rule = "verbatim" => value = VerbatimOf(env, configured)
               /\ rule = "limit" => value = LimitOf(env, configured)
               /\ rule = "amount" => value = AmountOf(CHOOSE n \in Settings[setting].default : TRUE, env, configured)
               /\ rule = "iterations" => value = Clamped(AmountOf(5, env, configured), 1, 32)
               /\ rule = "flag" => value = FlagOf(env, configured)
               /\ rule = "format" => value = FormatOf(env, configured)
               /\ rule = "public" => value = PublicOf(env, configured)
               /\ rule = "list" => value = ListOf(env, configured)
               /\ rule = "level" => value = LevelOf(env, rust, configured)
BY DEF Effective

LEMMA NothingMeans ==
    /\ NotBlank({}) = {} /\ PositiveOf({}) = {} /\ \A table : Meaning(table, {}) = {}
    /\ \A x, y : x # {} => Else(x, y) = x
    /\ \A y : Else({}, y) = y
<1>1. NotBlank({}) = {} /\ PositiveOf({}) = {}
  BY DEF NotBlank, PositiveOf
<1>2. \A table : Meaning(table, {}) = {}
  BY DEF Meaning
<1>3. (\A x, y : x # {} => Else(x, y) = x) /\ \A y : Else({}, y) = y
  BY DEF Else
<1>4. QED
  BY <1>1, <1>2, <1>3

\* Where a variable is not named as the source, it could as well be unset.
LEMMA UnnamedIsUnset ==
    ASSUME NEW setting \in DOMAIN Settings, NEW env, NEW rust, NEW configured, Source(setting, env, rust) = "file"
    PROVE  Effective(setting, env, rust, configured) = Effective(setting, {}, {}, configured)
<1> DEFINE rule == Settings[setting].rule
           told == Settings[setting].told
           value == Effective(setting, env, rust, configured)
           unset == Effective(setting, {}, {}, configured)
<1>1. IsTold(setting, Settings[setting])
  BY SettingsAreTold DEF ToldAsRuled
<1>2. /\ told = "set" => env = {}
      /\ told = "filled" => NotBlank(env) = {}
      /\ told = "reads" => Meaning(FormatTexts, env) = {}
      /\ setting = "log_level" => NotBlank(rust) = {}
  BY DEF Source
<1>3. CASE rule = "secret"
  <2>1. NotBlank(env) = {}
    BY <1>1, <1>2, <1>3 DEF IsTold, RulesSet
  <2>2. value = SecretOf(env, configured) /\ unset = SecretOf({}, configured)
    BY <1>3, EffectiveIs
  <2>3. QED
    BY <2>1, <2>2, NothingMeans DEF SecretOf
<1>4. CASE rule = "level"
  <2>1. NotBlank(env) = {} /\ NotBlank(rust) = {}
    BY <1>1, <1>2, <1>4 DEF IsTold, RulesSet
  <2>2. value = LevelOf(env, rust, configured) /\ unset = LevelOf({}, {}, configured)
    BY <1>4, EffectiveIs
  <2>3. QED
    BY <2>1, <2>2, NothingMeans DEF LevelOf
<1>5. CASE rule = "format"
  <2>1. Meaning(FormatTexts, env) = {}
    BY <1>1, <1>2, <1>5 DEF IsTold, RulesSet
  <2>2. value = FormatOf(env, configured) /\ unset = FormatOf({}, configured)
    BY <1>5, EffectiveIs
  <2>3. QED
    BY <2>1, <2>2, NothingMeans DEF FormatOf
<1>6. CASE rule \in RulesSet
  <2>1. env = {}
    BY <1>1, <1>2, <1>6 DEF IsTold, RulesSet
  <2>2. rule \in {"verbatim", "limit", "amount", "iterations", "flag", "public", "list"}
    BY <1>6 DEF RulesSet
  <2> HIDE DEF rule, value, unset
  <2>3. value = unset
    BY <2>1, <2>2, EffectiveIs DEF rule, value, unset
  <2>4. QED
    BY <2>3 DEF value, unset
<1>7. QED
  BY <1>1, <1>3, <1>4, <1>5, <1>6 DEF IsTold

\* Where a variable is named as the source and not passed over, it decides alone.
LEMMA NamedDecides ==
    ASSUME NEW setting \in DOMAIN Settings, NEW env, NEW rust, NEW configured, NEW other,
           Source(setting, env, rust) # "file", ~PassedOver(setting, env)
    PROVE  Effective(setting, env, rust, configured) = Effective(setting, env, rust, other)
<1> DEFINE rule == Settings[setting].rule
           told == Settings[setting].told
           value == Effective(setting, env, rust, configured)
           changed == Effective(setting, env, rust, other)
<1>1. IsTold(setting, Settings[setting])
  BY SettingsAreTold DEF ToldAsRuled
<1>2. /\ told = "set" => env # {} \/ setting = "log_level"
      /\ told = "filled" => NotBlank(env) # {} \/ (setting = "log_level" /\ NotBlank(rust) # {})
      /\ told = "reads" => Meaning(FormatTexts, env) # {} \/ setting = "log_level"
  BY DEF Source
<1>3. /\ rule \in {"amount", "iterations"} => PositiveOf(Meaning(NumberTexts, env)) # {}
      /\ rule \in {"flag", "public"} => Meaning(FlagTexts, env) # {}
  BY DEF PassedOver
<1>4. CASE rule = "secret"
  <2>1. NotBlank(env) # {}
    BY <1>1, <1>2, <1>4 DEF IsTold, RulesSet
  <2>2. value = SecretOf(env, configured) /\ changed = SecretOf(env, other)
    BY <1>4 DEF Effective
  <2>3. QED
    BY <2>1, <2>2, NothingMeans DEF SecretOf
<1>5. CASE rule = "level"
  <2>1. NotBlank(env) # {} \/ NotBlank(rust) # {}
    BY <1>1, <1>2, <1>5 DEF IsTold, RulesSet
  <2>2. value = LevelOf(env, rust, configured) /\ changed = LevelOf(env, rust, other)
    BY <1>5 DEF Effective
  <2>3. QED
    BY <2>1, <2>2 DEF LevelOf, Else
<1>6. CASE rule = "format"
  <2>1. Meaning(FormatTexts, env) # {}
    BY <1>1, <1>2, <1>6 DEF IsTold, RulesSet
  <2>2. value = FormatOf(env, configured) /\ changed = FormatOf(env, other)
    BY <1>6 DEF Effective
  <2>3. QED
    BY <2>1, <2>2, NothingMeans DEF FormatOf
<1>7. CASE rule \in RulesSet
  <2>1. env # {}
    BY <1>1, <1>2, <1>7 DEF IsTold, RulesSet
  <2>2. CASE rule = "verbatim"
    <3>1. value = VerbatimOf(env, configured) /\ changed = VerbatimOf(env, other)
      BY <2>2 DEF Effective
    <3>2. QED
      BY <2>1, <3>1, NothingMeans DEF VerbatimOf
  <2>3. CASE rule = "limit"
    <3>1. value = LimitOf(env, configured) /\ changed = LimitOf(env, other)
      BY <2>3 DEF Effective
    <3>2. QED
      BY <2>1, <3>1 DEF LimitOf
  <2>4. \A default : rule \in {"amount", "iterations"} => AmountOf(default, env, configured) = AmountOf(default, env, other)
    BY <1>3, NothingMeans DEF AmountOf
  <2>5. CASE rule = "amount"
    <3>1. \E default : value = AmountOf(default, env, configured) /\ changed = AmountOf(default, env, other)
      BY <2>5 DEF Effective
    <3>2. QED
      BY <2>4, <2>5, <3>1
  <2>6. CASE rule = "iterations"
    <3>1. value = Clamped(AmountOf(5, env, configured), 1, 32) /\ changed = Clamped(AmountOf(5, env, other), 1, 32)
      BY <2>6 DEF Effective
    <3>2. QED
      BY <2>4, <2>6, <3>1
  <2>7. CASE rule = "flag"
    <3>1. value = FlagOf(env, configured) /\ changed = FlagOf(env, other)
      BY <2>7 DEF Effective
    <3>2. QED
      BY <1>3, <2>7, <3>1, NothingMeans DEF FlagOf
  <2>8. CASE rule = "public"
    <3> DEFINE required == Meaning(FlagTexts, env)
               said == {~r : r \in required}
    <3>1. value = PublicOf(env, configured) /\ changed = PublicOf(env, other)
      BY <2>8 DEF Effective
    <3>2. required # {}
      BY <1>3, <2>8
    <3>3. PublicOf(env, configured) = Else(said, configured) /\ PublicOf(env, other) = Else(said, other)
      BY DEF PublicOf
    <3> HIDE DEF required
    <3>4. said # {}
      BY <3>2
    <3> HIDE DEF said
    <3>5. QED
      BY <3>1, <3>3, <3>4, NothingMeans
  <2>9. CASE rule = "list"
    <3>1. value = ListOf(env, configured) /\ changed = ListOf(env, other)
      BY <2>9 DEF Effective
    <3>2. QED
      BY <2>1, <3>1, NothingMeans DEF ListOf
  <2>10. QED
    BY <1>7, <2>2, <2>3, <2>5, <2>6, <2>7, <2>8, <2>9 DEF RulesSet
<1>8. QED
  BY <1>1, <1>4, <1>5, <1>6, <1>7 DEF IsTold

(***************************************************************************)
(* For every setting, environment and file, what serve and doctor print of *)
(* a setting is in use (but for a log level that is no directive), and the *)
(* source they name is the one that decides (effective_* and               *)
(* *_config_source, lib.rs and main.rs).                                   *)
(***************************************************************************)
THEOREM ReportsAreAlwaysTrue ==
    ASSUME NEW setting \in DOMAIN Settings, NEW env, NEW rust, NEW configured, NEW other,
           IsOptional(env), IsOptional(rust), IsOptional(configured)
    PROVE  ReportIsTrue(setting, env, rust, configured, other)
<1> DEFINE value == Effective(setting, env, rust, configured)
           used == Used(setting, env, rust, configured)
           source == Source(setting, env, rust)
<1>1. ASSUME value # used PROVE setting = "log_level" /\ value = {"bad"}
  <2>1. setting = "log_level" /\ "bad" \in value
    BY <1>1 DEF Used
  <2>2. Settings[setting].rule = "level"
    BY <2>1, SettingsAreTold DEF ToldAsRuled, IsTold
  <2>3. value = LevelOf(env, rust, configured)
    BY <2>2, EffectiveIs
  <2>4. IsOptional(LevelOf(env, rust, configured))
    <3>1. IsOptional(NotBlank(env)) /\ IsOptional(NotBlank(rust)) /\ IsOptional(NotBlank(configured)) /\ IsOptional({"info"})
      BY DEF NotBlank, IsOptional
    <3>2. QED
      BY <3>1 DEF LevelOf, Else
  <2> HIDE DEF value
  <2>5. QED
    BY <2>1, <2>3, <2>4 DEF IsOptional
<1>2. ASSUME source = "file" PROVE used = Used(setting, {}, {}, configured)
  <2>1. value = Effective(setting, {}, {}, configured)
    BY <1>2, UnnamedIsUnset
  <2>2. QED
    BY <2>1 DEF Used
<1>3. ASSUME source # "file", ~PassedOver(setting, env) PROVE used = Used(setting, env, rust, other)
  <2>1. value = Effective(setting, env, rust, other)
    BY <1>3, NamedDecides
  <2>2. QED
    BY <2>1 DEF Used
<1> HIDE DEF value, used, source
<1>4. QED
  BY <1>1, <1>2, <1>3 DEF ReportIsTrue, value, used, source

(***************************************************************************)
(* Whatever is enabled and however it is keyed, the tools reported as off  *)
(* are those that are not registered, and doctor announces the stub        *)
(* exactly if it answers (build_tools and build_provider, lib.rs).         *)
(***************************************************************************)
THEOREM AgentIsAlwaysAsReported ==
    ASSUME NEW enabled, NEW providerType, NEW env, NEW configured
    PROVE  AgentIsAsReported(enabled, providerType, env, configured)
<1>1. ASSUME NEW tool \in ReportedTools PROVE tool \in RegisteredTools(enabled) <=> tool \in enabled
  <2>1. tool \in Optional
    BY <1>1 DEF ReportedTools
  <2>2. QED
    BY <2>1 DEF Optional, RegisteredTools, FileTools
<1>2. \A tool : ToolStatus(tool, enabled, {}) = "off" <=> tool \notin enabled
  BY DEF ToolStatus
<1>3. Answers(providerType, env, configured) = "stub" <=> ProviderKey(env, configured) = {}
  BY DEF Answers
<1>4. ProviderKey(env, configured) = {} <=> configured = {} /\ env = {}
  BY DEF ProviderKey, Else
<1>5. QED
  BY <1>1, <1>2, <1>3, <1>4 DEF AgentIsAsReported, SaysStub

\* However many messages are to be kept, at least one is, and one less than the limit at most.
LEMMA KeepRecentIsWithin == \A n \in Nat : KeepRecentOf(n, MaxMessages) \in 1 .. MaxMessages - 1
BY HistoryAssumption DEF KeepRecentOf, Within

-----------------------------------------------------------------------------
(* The settings of the runs *)

SettingCallIsTyped ==
    Asks("setting") => /\ call.setting \in DOMAIN Settings
                       /\ IsOptional(call.env) /\ IsOptional(call.rust) /\ IsOptional(call.configured)

LEMMA AtMostOneIs == \A S : \A value \in AtMostOne(S) : IsOptional(value) /\ value \subseteq S
BY DEF AtMostOne, IsOptional

LEMMA FromFileIsOptional ==
    ASSUME NEW setting \in DOMAIN Settings, NEW top \in SectionsOf(setting), NEW agent \in SectionsOf(setting)
    PROVE  IsOptional(FromFile(top, agent, setting))
<1> DEFINE texts == ConfiguredOf(Settings[setting].rule)
           section == Else(top, agent)
           saidBy(s) == IF setting \in DOMAIN s THEN s[setting] ELSE {}
           said == UNION {saidBy(s) : s \in section}
<1>1. IsOptional(section) /\ section \subseteq [{setting} -> AtMostOne(texts)]
  BY AtMostOneIs DEF SectionsOf, Else
<1> HIDE DEF section, texts
<1>2. \A s \in section : IsOptional(saidBy(s))
  BY <1>1, AtMostOneIs
<1> HIDE DEF saidBy
<1>3. IsOptional(said)
  BY <1>1, <1>2 DEF IsOptional
<1>4. IsOptional(Settings[setting].default)
  BY SettingsAreTold DEF ToldAsRuled, IsTold
<1>5. FromFile(top, agent, setting) = Else(said, Settings[setting].default)
  BY DEF FromFile, section, saidBy
<1> HIDE DEF said
<1>6. QED
  BY <1>3, <1>4, <1>5 DEF Else

LEMMA SettingCallsAreTyped == Spec => []SettingCallIsTyped
<1>1. Init => SettingCallIsTyped
  BY DEF Init, SettingCallIsTyped, Asks
<1>2. SettingCallIsTyped /\ [Next]_call => SettingCallIsTyped'
  <2> SUFFICES ASSUME SettingCallIsTyped, [Next]_call PROVE SettingCallIsTyped'
    OBVIOUS
  <2>1. CASE SettingCalls
    <3>1. CASE \E setting \in DOMAIN Settings : \E env \in AtMostOne(TextsOf(Settings[setting].rule)),
                  rust \in AtMostOne({"blank", "debug"}), top \in SectionsOf(setting), agent \in SectionsOf(setting) :
                  call' = [kind |-> "setting", setting |-> setting, env |-> env, rust |-> rust,
                           configured |-> FromFile(top, agent, setting)]
      <4>1. PICK setting \in DOMAIN Settings : \E env \in AtMostOne(TextsOf(Settings[setting].rule)),
                  rust \in AtMostOne({"blank", "debug"}), top \in SectionsOf(setting), agent \in SectionsOf(setting) :
                  call' = [kind |-> "setting", setting |-> setting, env |-> env, rust |-> rust,
                           configured |-> FromFile(top, agent, setting)]
        BY <3>1, Zenon
      <4>2. PICK env \in AtMostOne(TextsOf(Settings[setting].rule)), rust \in AtMostOne({"blank", "debug"}),
                 top \in SectionsOf(setting), agent \in SectionsOf(setting) :
              call' = [kind |-> "setting", setting |-> setting, env |-> env, rust |-> rust,
                       configured |-> FromFile(top, agent, setting)]
        BY <4>1, Zenon
      <4>3. IsOptional(env) /\ IsOptional(rust) /\ IsOptional(FromFile(top, agent, setting))
        BY AtMostOneIs, FromFileIsOptional
      <4>4. /\ call'.setting = setting /\ call'.env = env /\ call'.rust = rust
            /\ call'.configured = FromFile(top, agent, setting)
        BY <4>2
      <4>5. QED
        BY <4>3, <4>4 DEF SettingCallIsTyped, Asks
    <3>2. CASE \E enabled \in EnabledTools, provider \in {"brokerrouter", "openai_compatible", "other"},
                  env \in AtMostOne({"blank", "key"}), configured \in AtMostOne({"blank", "key"}) :
                  call' = [kind |-> "agent", enabled |-> enabled, provider |-> provider, env |-> env,
                           configured |-> configured]
      <4>1. PICK enabled \in EnabledTools, provider \in {"brokerrouter", "openai_compatible", "other"},
                 env \in AtMostOne({"blank", "key"}), configured \in AtMostOne({"blank", "key"}) :
              call' = [kind |-> "agent", enabled |-> enabled, provider |-> provider, env |-> env,
                       configured |-> configured]
        BY <3>2, Zenon
      <4>2. QED
        BY <4>1 DEF SettingCallIsTyped, Asks
    <3>3. QED
      BY <2>1, <3>1, <3>2, Zenon DEF SettingCalls
  <2>2. CASE Next /\ ~SettingCalls
    BY <2>2, KindsAreOf DEF KindsOf, Next, SettingCallIsTyped, Asks
  <2>3. CASE call' = call
    BY <2>3 DEF SettingCallIsTyped, Asks
  <2>4. QED
    BY <2>1, <2>2, <2>3
<1>3. QED
  BY <1>1, <1>2, PTL DEF Spec

(***************************************************************************)
(* What MCAlgorithms checks of the reports holds in every state, whatever  *)
(* the limit of messages is, by ReportsAreAlwaysTrue and                   *)
(* AgentIsAlwaysAsReported, which hold of every setting and environment.   *)
(***************************************************************************)
THEOREM ReportsAreTrueInCalls == Spec => []ReportsAreTrue
<1>1. SettingCallIsTyped => ReportsAreTrue
  <2> SUFFICES ASSUME SettingCallIsTyped PROVE ReportsAreTrue
    OBVIOUS
  <2>1. ASSUME Asks("setting")
        PROVE  \A other : ReportIsTrue(call.setting, call.env, call.rust, call.configured, other)
    BY <2>1, ReportsAreAlwaysTrue DEF SettingCallIsTyped
  <2>2. AgentIsAsReported(call.enabled, call.provider, call.env, call.configured)
    BY AgentIsAlwaysAsReported
  <2>3. \A n \in 0 .. MaxMessages + 1 : KeepRecentOf(n, MaxMessages) \in 1 .. MaxMessages - 1
    BY KeepRecentIsWithin
  <2>4. QED
    BY <2>1, <2>2, <2>3 DEF ReportsAreTrue
<1>2. QED
  BY <1>1, SettingCallsAreTyped, PTL

-----------------------------------------------------------------------------
(* Walks over a tree *)

WalksOf(T) == [out : Seq(T), scanned : Nat, truncated : BOOLEAN, failed : BOOLEAN]
Hits == Nat \X Nat

LEMMA BegunIs ==
    ASSUME NEW T
    PROVE  /\ Begun \in WalksOf(T) /\ Begun.out = <<>> /\ Begun.scanned = 0 /\ ~Begun.truncated /\ ~Begun.failed
           /\ Len(Begun.out) = 0 /\ ToSet(Begun.out) = {}
<1>1. Begun \in WalksOf(T) /\ Begun.out = <<>> /\ Begun.scanned = 0 /\ ~Begun.truncated /\ ~Begun.failed
  BY DEF Begun, WalksOf
<1>2. Len(<<>>) = 0 /\ DOMAIN <<>> = {}
  OBVIOUS
<1>3. QED
  BY <1>1, <1>2 DEF ToSet

\* What the lines of one file add to those found.
LEMMA GrepFileIs ==
    ASSUME NEW walk \in WalksOf(Hits), NEW i \in Nat, NEW entry, entry.hits \in Nat,
           NEW maxMatches \in Nat, Len(walk.out) < maxMatches
    PROVE  LET next == GrepFile(walk, i, entry, maxMatches)
               lines == {<<i, k>> : k \in 1 .. entry.hits}
           IN  /\ next \in WalksOf(Hits)
               /\ next.scanned = walk.scanned + 1 /\ next.failed = walk.failed
               /\ Len(next.out) <= maxMatches
               /\ next.truncated => Len(next.out) = maxMatches
               /\ ToSet(walk.out) \subseteq ToSet(next.out)
               /\ entry.wanted /\ entry.text => ToSet(next.out) \subseteq ToSet(walk.out) \cup lines
               /\ ~(entry.wanted /\ entry.text) => ToSet(next.out) = ToSet(walk.out)
               /\ ~next.truncated /\ entry.wanted /\ entry.text => lines \subseteq ToSet(next.out)
<1> DEFINE hits == IF entry.wanted /\ entry.text THEN entry.hits ELSE 0
           room == maxMatches - Len(walk.out)
           taken == IF hits < room THEN hits ELSE room
           added == [k \in 1 .. taken |-> <<i, k>>]
           next == GrepFile(walk, i, entry, maxMatches)
           lines == {<<i, k>> : k \in 1 .. entry.hits}
<1>1. hits \in Nat /\ room \in Nat \ {0} /\ walk.out \in Seq(Hits) /\ Len(walk.out) \in Nat
  BY LenProperties DEF WalksOf
<1>2. taken \in Nat /\ taken <= hits /\ taken <= room /\ (hits < room => taken = hits) /\ (hits >= room => taken = room)
  BY <1>1
<1>3. next = [walk EXCEPT !.scanned = @ + 1, !.truncated = hits >= room, !.out = @ \o added]
  BY DEF GrepFile
<1> HIDE DEF hits, room, taken
<1>4. added \in Seq(Hits) /\ Len(added) = taken /\ \A k \in 1 .. taken : added[k] = <<i, k>>
  <2>1. added \in [1 .. taken -> Hits]
    BY <1>2 DEF Hits
  <2>2. added \in Seq(Hits)
    BY <1>2, <2>1, SeqDef
  <2>3. DOMAIN added = 1 .. Len(added) /\ DOMAIN added = 1 .. taken /\ Len(added) \in Nat
    BY <2>2, LenProperties
  <2>4. Len(added) = taken
    BY <1>2, <2>3
  <2>5. QED
    BY <2>2, <2>4
<1> HIDE DEF added
<1> DEFINE out == walk.out \o added
<1>5. /\ out \in Seq(Hits) /\ Len(out) = Len(walk.out) + taken
      /\ \A k \in 1 .. Len(walk.out) : out[k] = walk.out[k]
      /\ \A k \in 1 .. taken : out[Len(walk.out) + k] = <<i, k>>
  <2>1. out \in Seq(Hits) /\ Len(out) = Len(walk.out) + Len(added)
        /\ \A k \in 1 .. Len(walk.out) + Len(added) :
              out[k] = IF k <= Len(walk.out) THEN walk.out[k] ELSE added[k - Len(walk.out)]
    <3> DEFINE before == walk.out
    <3>1. before \in Seq(Hits)
      BY <1>1
    <3> HIDE DEF before
    <3>2. /\ before \o added \in Seq(Hits) /\ Len(before \o added) = Len(before) + Len(added)
          /\ \A k \in 1 .. Len(before) + Len(added) :
                (before \o added)[k] = IF k <= Len(before) THEN before[k] ELSE added[k - Len(before)]
      BY <1>4, <3>1, ConcatProperties
    <3>3. QED
      BY <3>2 DEF before
  <2>2. \A k \in 1 .. Len(walk.out) : k \in 1 .. Len(walk.out) + Len(added) /\ k <= Len(walk.out)
    BY <1>1, <1>2, <1>4
  <2>3. \A k \in 1 .. taken : /\ Len(walk.out) + k \in 1 .. Len(walk.out) + Len(added)
                              /\ ~(Len(walk.out) + k <= Len(walk.out)) /\ Len(walk.out) + k - Len(walk.out) = k
    BY <1>1, <1>2, <1>4
  <2> HIDE DEF out
  <2>4. ASSUME NEW k \in 1 .. Len(walk.out) PROVE out[k] = walk.out[k]
    BY <2>1, <2>2
  <2>5. ASSUME NEW k \in 1 .. taken PROVE out[Len(walk.out) + k] = <<i, k>>
    <3> DEFINE m == Len(walk.out) + k
    <3>1. m \in 1 .. Len(walk.out) + Len(added) /\ ~(m <= Len(walk.out)) /\ m - Len(walk.out) = k
      BY <2>3
    <3> HIDE DEF m
    <3>2. out[m] = added[m - Len(walk.out)]
      BY <2>1, <3>1
    <3>3. out[m] = <<i, k>>
      BY <1>4, <3>1, <3>2
    <3>4. QED
      BY <3>3 DEF m
  <2>6. QED
    BY <1>4, <2>1, <2>4, <2>5
<1> HIDE DEF out
<1>6. /\ next.out = out /\ next.scanned = walk.scanned + 1 /\ next.failed = walk.failed
      /\ (next.truncated <=> hits >= room) /\ next \in WalksOf(Hits)
  <2> DEFINE full == hits >= room
  <2>1. next = [walk EXCEPT !.scanned = @ + 1, !.truncated = full, !.out = out]
    BY <1>3 DEF out
  <2>2. full \in BOOLEAN
    OBVIOUS
  <2> HIDE DEF next, full
  <2> DEFINE more == walk.scanned + 1
  <2>0. more \in Nat /\ walk.failed \in BOOLEAN
    BY DEF WalksOf
  <2> HIDE DEF more
  <2>4. next = [out |-> out, scanned |-> more, truncated |-> full, failed |-> walk.failed]
    BY <2>1 DEF WalksOf, more
  <2>5. next \in WalksOf(Hits)
    BY <1>5, <2>0, <2>2, <2>4 DEF WalksOf
  <2>3. /\ next.out = out /\ next.scanned = walk.scanned + 1 /\ next.failed = walk.failed
        /\ next.truncated = full
    BY <2>4 DEF more
  <2>6. QED
    BY <2>3, <2>5 DEF full
<1>7. DOMAIN out = 1 .. Len(out) /\ DOMAIN walk.out = 1 .. Len(walk.out)
  BY <1>1, <1>5, LenProperties
<1>8. ToSet(out) = ToSet(walk.out) \cup {<<i, k>> : k \in 1 .. taken}
  <2>1. ASSUME NEW j \in 1 .. Len(out) PROVE out[j] \in ToSet(walk.out) \cup {<<i, k>> : k \in 1 .. taken}
    <3>1. CASE j \in 1 .. Len(walk.out)
      BY <1>5, <1>7, <3>1 DEF ToSet
    <3>2. CASE j \notin 1 .. Len(walk.out)
      <4>1. j - Len(walk.out) \in 1 .. taken /\ j = Len(walk.out) + (j - Len(walk.out))
        BY <1>1, <1>2, <1>5, <3>2
      <4>2. out[j] = <<i, j - Len(walk.out)>>
        BY <1>5, <4>1
      <4>3. QED
        BY <4>1, <4>2
    <3>3. QED
      BY <3>1, <3>2
  <2>2. ASSUME NEW j \in 1 .. Len(walk.out) PROVE walk.out[j] \in ToSet(out)
    <3>1. j \in 1 .. Len(out)
      BY <1>1, <1>2, <1>5
    <3>2. QED
      BY <1>5, <1>7, <3>1 DEF ToSet
  <2>3. ASSUME NEW k \in 1 .. taken PROVE <<i, k>> \in ToSet(out)
    <3>1. Len(walk.out) + k \in 1 .. Len(out)
      BY <1>1, <1>2, <1>5
    <3>2. QED
      BY <1>5, <1>7, <3>1 DEF ToSet
  <2>4. QED
    BY <1>7, <2>1, <2>2, <2>3 DEF ToSet
<1>9. Len(out) <= maxMatches /\ (hits >= room => Len(out) = maxMatches)
  BY <1>1, <1>2, <1>5 DEF room
<1>10. ASSUME entry.wanted /\ entry.text
       PROVE  /\ {<<i, k>> : k \in 1 .. taken} \subseteq lines
              /\ ~(hits >= room) => {<<i, k>> : k \in 1 .. taken} = lines
  <2>1. hits = entry.hits /\ 1 .. taken \subseteq 1 .. entry.hits /\ (~(hits >= room) => taken = entry.hits)
    BY <1>1, <1>2, <1>10 DEF hits
  <2>2. QED
    BY <2>1
<1>11. ASSUME ~(entry.wanted /\ entry.text) PROVE ToSet(out) = ToSet(walk.out)
  <2>1. 1 .. taken = {}
    BY <1>2, <1>11 DEF hits
  <2>2. QED
    BY <1>8, <2>1
<1> HIDE DEF next, lines
<1>12. QED
  <2>1. entry.wanted /\ entry.text => ToSet(out) \subseteq ToSet(walk.out) \cup lines
    BY <1>8, <1>10
  <2>2. ~next.truncated /\ entry.wanted /\ entry.text => lines \subseteq ToSet(next.out)
    BY <1>6, <1>8, <1>10
  <2>3. ToSet(walk.out) \subseteq ToSet(next.out)
    BY <1>6, <1>8
  <2>4. QED
    BY <1>6, <1>9, <1>11, <2>1, <2>2, <2>3 DEF next, lines

\* The same, when the steps from a state that holds something keep that something.
LEMMA KeptRecursion ==
    ASSUME NEW N \in Nat, NEW S, NEW inv, \A n \in 0 .. N : inv[n] \subseteq S, NEW start \in inv[0],
           NEW step, \A n \in 1 .. N : \A s \in inv[n - 1] : step[<<n, s>>] \in inv[n]
    PROVE  \E f \in RunsOf(N, S) : Recurs(f, N, start, step) /\ \A n \in 0 .. N : f[n] \in inv[n]
<1> DEFINE held == [p \in (1 .. N) \X S |-> IF p[2] \in inv[p[1] - 1] THEN step[p] ELSE p[2]]
<1>1. 0 \in 0 .. N /\ \A n \in 1 .. N : n \in 0 .. N /\ n - 1 \in 0 .. N
  OBVIOUS
<1>2. start \in S
  BY <1>1
<1>3. held \in StepsOf(N, S)
  <2>1. ASSUME NEW n \in 1 .. N, NEW s \in S
        PROVE  (IF s \in inv[n - 1] THEN step[<<n, s>>] ELSE s) \in S
    BY <1>1
  <2>2. ASSUME NEW p \in (1 .. N) \X S
        PROVE  (IF p[2] \in inv[p[1] - 1] THEN step[p] ELSE p[2]) \in S
    <3>1. p[1] \in 1 .. N /\ p[2] \in S /\ p = <<p[1], p[2]>>
      OBVIOUS
    <3>2. QED
      BY <2>1, <3>1
  <2>3. QED
    BY <2>2 DEF StepsOf
<1>4. \A n \in 1 .. N : \A s \in inv[n - 1] : held[<<n, s>>] = step[<<n, s>>]
  <2> SUFFICES ASSUME NEW n \in 1 .. N, NEW s \in inv[n - 1] PROVE held[<<n, s>>] = step[<<n, s>>]
    OBVIOUS
  <2>1. s \in S
    BY <1>1
  <2>2. <<n, s>> \in (1 .. N) \X S /\ <<n, s>>[1] = n /\ <<n, s>>[2] = s
    BY <2>1
  <2>3. QED
    BY <2>2
<1> HIDE DEF held
<1>5. PICK f \in RunsOf(N, S) : Recurs(f, N, start, held)
  BY <1>2, <1>3, Recursion
<1> DEFINE good == {n \in 0 .. N : f[n] \in inv[n]}
<1>6. 0 \in good
  BY <1>1, <1>5 DEF Recurs
<1>7. \A n \in 0 .. N - 1 : n \in good => n + 1 \in good
  <2> SUFFICES ASSUME NEW n \in 0 .. N - 1, n \in good PROVE n + 1 \in good
    OBVIOUS
  <2>1. n + 1 \in 1 .. N /\ n + 1 \in 0 .. N /\ n + 1 - 1 = n
    OBVIOUS
  <2>2. f[n + 1] = held[<<n + 1, f[n]>>]
    BY <1>5, <2>1 DEF Recurs
  <2>3. QED
    BY <1>4, <2>1, <2>2
<1>8. 0 .. N \subseteq good
  <2> HIDE DEF good
  <2>1. QED
    BY <1>6, <1>7, Reaches
<1>9. \A n \in 1 .. N : f[n] = step[<<n, f[n - 1]>>]
  BY <1>1, <1>4, <1>5, <1>8 DEF Recurs
<1>10. QED
  BY <1>5, <1>8, <1>9 DEF Recurs

\* The matching lines of an entry, of the entries up to n, and the wanted files up to n.
LinesAt(tree, i) == {<<i, k>> : k \in 1 .. tree[i].hits}
SearchedUpTo(tree, n) == {i \in Found(tree) : tree[i].text /\ i <= n}
MatchesUpTo(tree, n) == UNION {LinesAt(tree, i) : i \in SearchedUpTo(tree, n)}

LEMMA LinesGrow ==
    ASSUME NEW T, NEW tree \in Seq(T)
    PROVE  /\ MatchesUpTo(tree, 0) = {} /\ MatchesUpTo(tree, Len(tree)) = Lines(tree)
           /\ \A n \in 1 .. Len(tree) :
                 MatchesUpTo(tree, n) = MatchesUpTo(tree, n - 1)
                                      \cup (IF n \in Found(tree) /\ tree[n].text THEN LinesAt(tree, n) ELSE {})
<1>1. Len(tree) \in Nat /\ DOMAIN tree = 1 .. Len(tree)
  BY LenProperties
<1>2. Found(tree) \subseteq 1 .. Len(tree)
  BY <1>1 DEF Found, Met
<1>3. SearchedUpTo(tree, 0) = {}
  BY <1>1, <1>2 DEF SearchedUpTo
<1>4. SearchedUpTo(tree, Len(tree)) = {j \in Found(tree) : tree[j].text}
  BY <1>1, <1>2 DEF SearchedUpTo
<1>5. ASSUME NEW n \in 1 .. Len(tree)
      PROVE  SearchedUpTo(tree, n) = SearchedUpTo(tree, n - 1) \cup (IF n \in Found(tree) /\ tree[n].text THEN {n} ELSE {})
  <2>1. \A i \in Found(tree) : i <= n <=> i <= n - 1 \/ i = n
    BY <1>1, <1>2
  <2>2. QED
    BY <2>1 DEF SearchedUpTo
<1>6. MatchesUpTo(tree, 0) = {}
  BY <1>3 DEF MatchesUpTo
<1>7. MatchesUpTo(tree, Len(tree)) = Lines(tree)
  BY <1>4 DEF MatchesUpTo, Lines, LinesAt
<1>8. ASSUME NEW n \in 1 .. Len(tree)
      PROVE  MatchesUpTo(tree, n) = MatchesUpTo(tree, n - 1)
                                  \cup (IF n \in Found(tree) /\ tree[n].text THEN LinesAt(tree, n) ELSE {})
  <2> DEFINE before == SearchedUpTo(tree, n - 1)
  <2>1. CASE n \in Found(tree) /\ tree[n].text
    <3>1. SearchedUpTo(tree, n) = before \cup {n}
      BY <1>5, <2>1
    <3> HIDE DEF before
    <3>2. UNION {LinesAt(tree, i) : i \in before \cup {n}} = (UNION {LinesAt(tree, i) : i \in before}) \cup LinesAt(tree, n)
      OBVIOUS
    <3>3. QED
      BY <2>1, <3>1, <3>2 DEF MatchesUpTo, before
  <2>2. CASE ~(n \in Found(tree) /\ tree[n].text)
    BY <1>5, <2>2 DEF MatchesUpTo
  <2>3. QED
    BY <2>1, <2>2
<1>9. QED
  BY <1>6, <1>7, <1>8

\* The walks of a search of the lines that have come to entry n.
GrepInv(tree, maxMatches, maxFiles, n) ==
    {walk \in WalksOf(Hits) :
        /\ Len(walk.out) <= maxMatches /\ walk.scanned <= maxFiles
        /\ ToSet(walk.out) \subseteq MatchesUpTo(tree, n)
        /\ ~walk.truncated /\ ~walk.failed => MatchesUpTo(tree, n) \subseteq ToSet(walk.out)
        /\ walk.truncated => Len(walk.out) = maxMatches \/ walk.scanned = maxFiles}

LEMMA GrepVisitKeeps ==
    ASSUME NEW T, NEW tree \in Seq(T), \A i \in 1 .. Len(tree) : tree[i].hits \in Nat,
           NEW maxMatches \in Nat, NEW maxFiles \in Nat, NEW n \in 1 .. Len(tree),
           NEW walk \in GrepInv(tree, maxMatches, maxFiles, n - 1)
    PROVE  GrepVisit(tree, maxMatches, maxFiles, walk, n) \in GrepInv(tree, maxMatches, maxFiles, n)
<1> DEFINE next == GrepVisit(tree, maxMatches, maxFiles, walk, n)
           more == IF n \in Found(tree) /\ tree[n].text THEN LinesAt(tree, n) ELSE {}
           so == MatchesUpTo(tree, n - 1)
           now == MatchesUpTo(tree, n)
<1>1. /\ walk \in WalksOf(Hits) /\ Len(walk.out) <= maxMatches /\ walk.scanned <= maxFiles
      /\ ToSet(walk.out) \subseteq so
      /\ ~walk.truncated /\ ~walk.failed => so \subseteq ToSet(walk.out)
      /\ walk.truncated => Len(walk.out) = maxMatches \/ walk.scanned = maxFiles
  BY DEF GrepInv
<1>2. now = so \cup more
  BY LinesGrow
<1>3. Len(walk.out) \in Nat /\ walk.scanned \in Nat /\ tree[n].hits \in Nat /\ n \in Nat
  BY <1>1, LenProperties DEF WalksOf
<1>4. n \in Found(tree) <=> n \in Met(tree) /\ tree[n].kind = "file" /\ tree[n].wanted
  BY DEF Found
<1>5. CASE walk.truncated \/ walk.failed
  <2>1. next = walk
    BY <1>5 DEF GrepVisit
  <2>2. QED
    BY <1>1, <1>2, <1>5, <2>1 DEF GrepInv
<1>6. CASE ~(walk.truncated \/ walk.failed) /\ n \notin Found(tree) /\ n \notin Met(tree)
  <2>1. next = walk /\ more = {}
    BY <1>6 DEF GrepVisit
  <2>2. QED
    BY <1>1, <1>2, <2>1 DEF GrepInv
<1>7. CASE ~(walk.truncated \/ walk.failed) /\ n \in Met(tree) /\ Full(walk, maxMatches, maxFiles)
  <2>1. next = [walk EXCEPT !.truncated = TRUE]
    BY <1>7 DEF GrepVisit
  <2>2. next.out = walk.out /\ next.scanned = walk.scanned /\ next.truncated /\ next \in WalksOf(Hits)
    BY <1>1, <2>1 DEF WalksOf
  <2>3. Len(walk.out) = maxMatches \/ walk.scanned = maxFiles
    BY <1>1, <1>3, <1>7 DEF Full
  <2> HIDE DEF next, so, now, more
  <2>4. QED
    <3>1. next \in GrepInv(tree, maxMatches, maxFiles, n)
      BY <1>1, <1>2, <2>2, <2>3 DEF GrepInv, now
    <3>2. QED
      BY <3>1 DEF next
<1>8. CASE /\ ~(walk.truncated \/ walk.failed) /\ n \in Met(tree) /\ ~Full(walk, maxMatches, maxFiles)
           /\ tree[n].kind = "closed"
  <2>1. next = [walk EXCEPT !.failed = TRUE]
    BY <1>8 DEF GrepVisit
  <2>2. /\ next.out = walk.out /\ next.scanned = walk.scanned /\ next.truncated = walk.truncated
        /\ next.failed /\ next \in WalksOf(Hits)
    BY <1>1, <2>1 DEF WalksOf
  <2> HIDE DEF next, so, now, more
  <2>3. next \in GrepInv(tree, maxMatches, maxFiles, n)
    BY <1>1, <1>2, <2>2 DEF GrepInv, now
  <2>4. QED
    BY <2>3 DEF next
<1>9. CASE /\ ~(walk.truncated \/ walk.failed) /\ n \in Met(tree) /\ ~Full(walk, maxMatches, maxFiles)
           /\ tree[n].kind = "file"
  <2> DEFINE visited == GrepFile(walk, n, tree[n], maxMatches)
             lines == {<<n, k>> : k \in 1 .. tree[n].hits}
  <2>1. next = visited
    BY <1>9 DEF GrepVisit
  <2>2. Len(walk.out) < maxMatches /\ walk.scanned < maxFiles
    BY <1>3, <1>9 DEF Full
  <2>3. /\ visited \in WalksOf(Hits)
        /\ visited.scanned = walk.scanned + 1 /\ visited.failed = walk.failed
        /\ Len(visited.out) <= maxMatches
        /\ visited.truncated => Len(visited.out) = maxMatches
        /\ ToSet(walk.out) \subseteq ToSet(visited.out)
        /\ tree[n].wanted /\ tree[n].text => ToSet(visited.out) \subseteq ToSet(walk.out) \cup lines
        /\ ~(tree[n].wanted /\ tree[n].text) => ToSet(visited.out) = ToSet(walk.out)
        /\ ~visited.truncated /\ tree[n].wanted /\ tree[n].text => lines \subseteq ToSet(visited.out)
    BY <1>1, <1>3, <2>2, GrepFileIs
  <2>4. more = IF tree[n].wanted /\ tree[n].text THEN lines ELSE {}
    BY <1>4, <1>9 DEF LinesAt
  <2> HIDE DEF next, so, now, more, visited, lines
  <2>5. ToSet(visited.out) \subseteq now
    BY <1>1, <1>2, <2>3, <2>4
  <2>6. ~visited.truncated /\ ~visited.failed => now \subseteq ToSet(visited.out)
    BY <1>1, <1>2, <1>9, <2>3, <2>4
  <2>7. visited.scanned <= maxFiles
    BY <1>3, <2>2, <2>3
  <2>8. visited \in GrepInv(tree, maxMatches, maxFiles, n)
    BY <2>3, <2>5, <2>6, <2>7 DEF GrepInv, now
  <2>9. QED
    BY <2>1, <2>8 DEF next
<1>10. CASE /\ ~(walk.truncated \/ walk.failed) /\ n \in Met(tree) /\ ~Full(walk, maxMatches, maxFiles)
            /\ tree[n].kind # "closed" /\ tree[n].kind # "file"
  <2>1. next = walk /\ more = {}
    BY <1>4, <1>10 DEF GrepVisit
  <2>2. QED
    BY <1>1, <1>2, <2>1 DEF GrepInv
<1>11. QED
  BY <1>4, <1>5, <1>6, <1>7, <1>8, <1>9, <1>10

LEMMA GrepBegins ==
    ASSUME NEW T, NEW tree \in Seq(T), NEW maxMatches \in Nat, NEW maxFiles \in Nat
    PROVE  Begun \in GrepInv(tree, maxMatches, maxFiles, 0)
<1>1. /\ Begun \in WalksOf(Hits) /\ Begun.out = <<>> /\ Begun.scanned = 0 /\ ~Begun.truncated
      /\ Len(Begun.out) = 0 /\ ToSet(Begun.out) = {}
  BY BegunIs
<1>2. MatchesUpTo(tree, 0) = {}
  BY LinesGrow
<1>3. 0 <= maxMatches /\ 0 <= maxFiles
  OBVIOUS
<1>4. QED
  BY <1>1, <1>2, <1>3 DEF GrepInv

\* A search of the lines has kept what it is to keep once it has come to the end.
LEMMA GrepWalkIs ==
    ASSUME NEW T, NEW tree \in Seq(T), \A i \in 1 .. Len(tree) : tree[i].hits \in Nat,
           NEW maxMatches \in Nat, NEW maxFiles \in Nat
    PROVE  GrepWalk(tree, maxMatches, maxFiles)[Len(tree)] \in GrepInv(tree, maxMatches, maxFiles, Len(tree))
<1> DEFINE N == Len(tree)
           S == WalksOf(Hits)
           Solves(walk) == walk = [n \in 0 .. N |-> IF n = 0 THEN Begun ELSE GrepVisit(tree, maxMatches, maxFiles, walk[n - 1], n)]
           step == [p \in (1 .. N) \X S |-> GrepVisit(tree, maxMatches, maxFiles, p[2], p[1])]
           inv == [n \in 0 .. N |-> GrepInv(tree, maxMatches, maxFiles, n)]
<1>1. N \in Nat
  BY LenProperties
<1>2. 0 \in 0 .. N /\ \A n \in 1 .. N : n \in 0 .. N /\ n - 1 \in 0 .. N /\ n # 0
  BY <1>1
<1>3. \A n \in 0 .. N : inv[n] \subseteq S
  BY DEF GrepInv
<1>4. Begun \in inv[0]
  BY <1>2, GrepBegins
<1>5. \A n \in 1 .. N : \A walk \in inv[n - 1] : GrepVisit(tree, maxMatches, maxFiles, walk, n) \in inv[n]
  BY <1>2, GrepVisitKeeps
<1>6. ASSUME NEW n \in 1 .. N, NEW walk \in inv[n - 1] PROVE step[<<n, walk>>] = GrepVisit(tree, maxMatches, maxFiles, walk, n)
  <2> HIDE DEF inv, S
  <2>1. walk \in S
    BY <1>2, <1>3
  <2>2. <<n, walk>> \in (1 .. N) \X S
    BY <2>1
  <2>3. QED
    BY <2>2
<1> HIDE DEF inv, step, S
<1>7. PICK f \in RunsOf(N, S) : Recurs(f, N, Begun, step) /\ \A n \in 0 .. N : f[n] \in inv[n]
  <2> HIDE DEF N
  <2>1. ASSUME NEW n \in 1 .. N, NEW walk \in inv[n - 1] PROVE step[<<n, walk>>] \in inv[n]
    BY <1>5, <1>6
  <2>2. QED
    BY <1>1, <1>3, <1>4, <2>1, KeptRecursion
<1>8. Solves(f)
  <2>1. \A n \in 1 .. N : f[n] = GrepVisit(tree, maxMatches, maxFiles, f[n - 1], n)
    BY <1>2, <1>6, <1>7 DEF Recurs
  <2>2. f = [n \in 0 .. N |-> f[n]]
    BY <1>7 DEF RunsOf
  <2>3. \A n \in 0 .. N : n # 0 => n \in 1 .. N
    BY <1>1
  <2>4. f[0] = Begun
    BY <1>7 DEF Recurs
  <2>5. QED
    BY <2>1, <2>2, <2>3, <2>4
<1> DEFINE run == GrepWalk(tree, maxMatches, maxFiles)
<1>9. run = CHOOSE walk : Solves(walk)
  BY DEF GrepWalk
<1> HIDE DEF Solves
<1>10. Solves(run)
  BY <1>8, <1>9
<1> HIDE DEF run
<1>11. \A n \in 0 .. N : run[n] = IF n = 0 THEN Begun ELSE GrepVisit(tree, maxMatches, maxFiles, run[n - 1], n)
  BY <1>10 DEF Solves
<1> DEFINE good == {n \in 0 .. N : run[n] \in inv[n]}
<1>12. 0 \in good
  BY <1>2, <1>4, <1>11
<1>13. \A n \in 0 .. N - 1 : n \in good => n + 1 \in good
  <2> SUFFICES ASSUME NEW n \in 0 .. N - 1, n \in good PROVE n + 1 \in good
    OBVIOUS
  <2>1. n + 1 \in 1 .. N /\ n + 1 \in 0 .. N /\ n + 1 - 1 = n /\ n + 1 # 0
    BY <1>1
  <2>2. run[n + 1] = GrepVisit(tree, maxMatches, maxFiles, run[n], n + 1)
    BY <1>11, <2>1
  <2>3. QED
    BY <1>5, <2>1, <2>2
<1>14. 0 .. N \subseteq good
  <2> HIDE DEF good, N
  <2>1. QED
    BY <1>1, <1>12, <1>13, Reaches
<1>15. N \in 0 .. N
  BY <1>1
<1>16. QED
  BY <1>14, <1>15 DEF run, inv, N

LEMMA GrepIsComplete ==
    ASSUME NEW T, NEW tree \in Seq(T), \A i \in 1 .. Len(tree) : tree[i].hits \in Nat,
           NEW maxMatches \in Nat, NEW maxFiles \in Nat
    PROVE  LET grep == Grep(tree, maxMatches, maxFiles)
           IN  /\ Len(grep.out) <= maxMatches
               /\ ~grep.truncated /\ ~grep.failed => ToSet(grep.out) = Lines(tree)
               /\ ToSet(grep.out) \subseteq Lines(tree)
               /\ grep.truncated => Len(grep.out) = maxMatches \/ grep.scanned = maxFiles
<1> DEFINE walked == GrepWalk(tree, maxMatches, maxFiles)[Len(tree)]
           full == Full(walked, maxMatches, maxFiles)
           grep == Grep(tree, maxMatches, maxFiles)
<1>1. walked \in GrepInv(tree, maxMatches, maxFiles, Len(tree))
  BY GrepWalkIs
<1>2. MatchesUpTo(tree, Len(tree)) = Lines(tree)
  BY LinesGrow
<1>3. grep = [walked EXCEPT !.truncated = @ \/ full]
  BY DEF Grep
<1> HIDE DEF walked
<1>4. /\ walked \in WalksOf(Hits) /\ Len(walked.out) <= maxMatches /\ walked.scanned <= maxFiles
      /\ ToSet(walked.out) \subseteq Lines(tree)
      /\ ~walked.truncated /\ ~walked.failed => Lines(tree) \subseteq ToSet(walked.out)
      /\ walked.truncated => Len(walked.out) = maxMatches \/ walked.scanned = maxFiles
  BY <1>1, <1>2 DEF GrepInv
<1>5. full => Len(walked.out) = maxMatches \/ walked.scanned = maxFiles
  BY <1>4, LenProperties DEF Full, WalksOf
<1> HIDE DEF full, grep
<1>6. /\ grep.out = walked.out /\ grep.failed = walked.failed /\ grep.scanned = walked.scanned
      /\ (grep.truncated <=> walked.truncated \/ full)
  BY <1>3, <1>4 DEF WalksOf
<1>7. QED
  BY <1>4, <1>5, <1>6 DEF grep

\* What is added to the end of a sequence.
LEMMA AppendIs ==
    ASSUME NEW S, NEW seq \in Seq(S), NEW e \in S
    PROVE  /\ Append(seq, e) \in Seq(S) /\ Len(Append(seq, e)) = Len(seq) + 1 /\ Len(seq) \in Nat
           /\ ToSet(Append(seq, e)) = ToSet(seq) \cup {e} /\ Last(Append(seq, e)) = e
<1> DEFINE n == Len(seq)
           longer == Append(seq, e)
<1>1. n \in Nat /\ DOMAIN seq = 1 .. n
  BY LenProperties
<1>2. /\ longer \in Seq(S) /\ Len(longer) = n + 1 /\ longer[n + 1] = e
      /\ \A k \in 1 .. n : longer[k] = seq[k]
  BY AppendProperties
<1>3. DOMAIN longer = 1 .. n + 1
  BY <1>2, LenProperties
<1>4. 1 .. n + 1 = (1 .. n) \cup {n + 1}
  BY <1>1
<1>5. ToSet(longer) = ToSet(seq) \cup {e}
  <2> HIDE DEF longer, n
  <2>1. QED
    BY <1>1, <1>2, <1>3, <1>4 DEF ToSet
<1>6. Last(longer) = e
  BY <1>2 DEF Last
<1>7. QED
  BY <1>1, <1>2, <1>5, <1>6

\* The numbers up to n among S, and how one more of them adds to them.
UpTo(S, n) == {i \in S : i <= n}

LEMMA UpToGrows ==
    ASSUME NEW N \in Nat, NEW S \in SUBSET (1 .. N)
    PROVE  /\ UpTo(S, 0) = {} /\ UpTo(S, N) = S
           /\ \A n \in 1 .. N : UpTo(S, n) = UpTo(S, n - 1) \cup (IF n \in S THEN {n} ELSE {})
<1>1. \A n \in 1 .. N : \A i \in S : i <= n <=> i <= n - 1 \/ i = n
  OBVIOUS
<1>2. UpTo(S, 0) = {} /\ UpTo(S, N) = S
  <2>1. \A i \in S : ~(i <= 0) /\ i <= N
    OBVIOUS
  <2>2. QED
    BY <2>1 DEF UpTo
<1>3. ASSUME NEW n \in 1 .. N PROVE UpTo(S, n) = UpTo(S, n - 1) \cup (IF n \in S THEN {n} ELSE {})
  <2>1. CASE n \in S
    BY <1>1, <2>1 DEF UpTo
  <2>2. CASE n \notin S
    BY <1>1, <2>2 DEF UpTo
  <2>3. QED
    BY <2>1, <2>2
<1>4. QED
  BY <1>2, <1>3

LEMMA FoundIs ==
    ASSUME NEW T, NEW tree \in Seq(T)
    PROVE  Len(tree) \in Nat /\ Found(tree) \in SUBSET (1 .. Len(tree)) /\ DOMAIN tree = 1 .. Len(tree)
BY LenProperties DEF Found, Met

\* The walks of a search by a glob that have come to entry n.
GlobInv(tree, n) ==
    {walk \in WalksOf(Nat) :
        /\ ToSet(walk.out) \subseteq UpTo(Found(tree), n)
        /\ ~walk.truncated /\ ~walk.failed => UpTo(Found(tree), n) \subseteq ToSet(walk.out)}

LEMMA GlobBegins ==
    ASSUME NEW T, NEW tree \in Seq(T)
    PROVE  Begun \in GlobInv(tree, 0)
<1>1. /\ Begun \in WalksOf(Nat) /\ ToSet(Begun.out) = {}
  BY BegunIs
<1>2. UpTo(Found(tree), 0) = {}
  BY FoundIs, UpToGrows
<1>3. QED
  BY <1>1, <1>2 DEF GlobInv

LEMMA GlobVisitKeeps ==
    ASSUME NEW T, NEW tree \in Seq(T), NEW maxFiles \in Nat, NEW maxFound \in Nat,
           NEW n \in 1 .. Len(tree), NEW walk \in GlobInv(tree, n - 1)
    PROVE  GlobVisit(tree, maxFiles, maxFound, walk, n) \in GlobInv(tree, n)
<1> DEFINE next == GlobVisit(tree, maxFiles, maxFound, walk, n)
           so == UpTo(Found(tree), n - 1)
           now == UpTo(Found(tree), n)
           ended == walk.truncated \/ walk.failed
           added == Append(walk.out, n)
<1>1. /\ walk \in WalksOf(Nat) /\ ToSet(walk.out) \subseteq so
      /\ ~walk.truncated /\ ~walk.failed => so \subseteq ToSet(walk.out)
  BY DEF GlobInv
<1>2. now = so \cup (IF n \in Found(tree) THEN {n} ELSE {})
  BY FoundIs, UpToGrows
<1>3. n \in Found(tree) <=> n \in Met(tree) /\ tree[n].kind = "file" /\ tree[n].wanted
  BY DEF Found
<1>4. Len(walk.out) \in Nat /\ walk.scanned \in Nat /\ n \in Nat /\ walk.out \in Seq(Nat)
  BY <1>1, FoundIs, LenProperties DEF WalksOf
<1>5. added \in Seq(Nat) /\ ToSet(added) = ToSet(walk.out) \cup {n}
  <2> DEFINE out == walk.out
  <2>1. out \in Seq(Nat)
    BY <1>4
  <2> HIDE DEF out
  <2>2. Append(out, n) \in Seq(Nat) /\ ToSet(Append(out, n)) = ToSet(out) \cup {n}
    BY <1>4, <2>1, AppendIs
  <2>3. QED
    BY <2>2 DEF out
<1>6. CASE ended \/ n \notin Met(tree)
  <2>1. next = walk
    BY <1>6 DEF GlobVisit
  <2>2. QED
    BY <1>1, <1>2, <1>3, <1>6, <2>1 DEF GlobInv
<1>7. CASE ~ended /\ n \in Met(tree) /\ walk.scanned >= maxFiles
  <2>1. next = [walk EXCEPT !.truncated = TRUE]
    BY <1>7 DEF GlobVisit
  <2>2. next.out = walk.out /\ next.truncated /\ next \in WalksOf(Nat)
    BY <1>1, <2>1 DEF WalksOf
  <2> HIDE DEF next, so, now
  <2>3. next \in GlobInv(tree, n)
    BY <1>1, <1>2, <2>2 DEF GlobInv, now
  <2>4. QED
    BY <2>3 DEF next
<1>8. CASE ~ended /\ n \in Met(tree) /\ ~(walk.scanned >= maxFiles) /\ tree[n].kind = "closed"
  <2>1. next = [walk EXCEPT !.failed = TRUE]
    BY <1>8 DEF GlobVisit
  <2>2. next.out = walk.out /\ next.failed /\ next \in WalksOf(Nat)
    BY <1>1, <2>1 DEF WalksOf
  <2> HIDE DEF next, so, now
  <2>3. next \in GlobInv(tree, n)
    BY <1>1, <1>2, <2>2 DEF GlobInv, now
  <2>4. QED
    BY <2>3 DEF next
<1>9. CASE ~ended /\ n \in Met(tree) /\ ~(walk.scanned >= maxFiles) /\ tree[n].kind \notin {"closed", "file"}
  <2>1. next = walk /\ n \notin Found(tree)
    BY <1>3, <1>9 DEF GlobVisit
  <2>2. QED
    BY <1>1, <1>2, <2>1 DEF GlobInv
<1>10. CASE ~ended /\ n \in Met(tree) /\ ~(walk.scanned >= maxFiles) /\ tree[n].kind = "file"
  <2> DEFINE over == tree[n].wanted /\ Len(walk.out) >= maxFound
             out == IF tree[n].wanted /\ Len(walk.out) < maxFound THEN added ELSE walk.out
             more == walk.scanned + 1
  <2>1. next = [walk EXCEPT !.scanned = more, !.truncated = over, !.out = out]
    BY <1>10 DEF GlobVisit
  <2>2. over \in BOOLEAN /\ more \in Nat /\ out \in Seq(Nat) /\ walk.failed \in BOOLEAN
    BY <1>1, <1>4, <1>5 DEF WalksOf
  <2>3. ToSet(out) \subseteq now /\ (~over => now \subseteq ToSet(out))
    <3>1. CASE tree[n].wanted /\ Len(walk.out) < maxFound
      <4>1. out = added /\ n \in Found(tree)
        BY <1>3, <1>10, <3>1
      <4>2. QED
        BY <1>1, <1>2, <1>5, <1>10, <4>1
    <3>2. CASE tree[n].wanted /\ ~(Len(walk.out) < maxFound)
      <4>1. out = walk.out /\ over
        BY <1>4, <3>2
      <4>2. QED
        BY <1>1, <1>2, <4>1
    <3>3. CASE ~tree[n].wanted
      <4>1. out = walk.out /\ n \notin Found(tree)
        BY <1>3, <3>3
      <4>2. QED
        BY <1>1, <1>2, <1>10, <4>1
    <3>4. QED
      BY <3>1, <3>2, <3>3
  <2> HIDE DEF next, so, now, over, out, more
  <2>4. next = [out |-> out, scanned |-> more, truncated |-> over, failed |-> walk.failed]
    BY <1>1, <2>1 DEF WalksOf
  <2>5. next \in WalksOf(Nat)
    BY <2>2, <2>4 DEF WalksOf
  <2>6. next.out = out /\ next.truncated = over
    BY <2>4
  <2>7. next \in GlobInv(tree, n)
    BY <2>3, <2>5, <2>6 DEF GlobInv, now
  <2>8. QED
    BY <2>7 DEF next
<1>11. QED
  BY <1>6, <1>7, <1>8, <1>9, <1>10

\* So has a search by a glob.
LEMMA GlobWalkIs ==
    ASSUME NEW T, NEW tree \in Seq(T), NEW maxFiles \in Nat, NEW maxFound \in Nat
    PROVE  GlobWalk(tree, maxFiles, maxFound)[Len(tree)] \in GlobInv(tree, Len(tree))
<1> DEFINE N == Len(tree)
           S == WalksOf(Nat)
           Solves(walk) == walk = [n \in 0 .. N |-> IF n = 0 THEN Begun ELSE GlobVisit(tree, maxFiles, maxFound, walk[n - 1], n)]
           step == [p \in (1 .. N) \X S |-> GlobVisit(tree, maxFiles, maxFound, p[2], p[1])]
           inv == [n \in 0 .. N |-> GlobInv(tree, n)]
<1>1. N \in Nat
  BY LenProperties
<1>2. 0 \in 0 .. N /\ \A n \in 1 .. N : n \in 0 .. N /\ n - 1 \in 0 .. N /\ n # 0
  BY <1>1
<1>3. \A n \in 0 .. N : inv[n] \subseteq S
  BY DEF GlobInv
<1>4. Begun \in inv[0]
  BY <1>2, GlobBegins
<1>5. \A n \in 1 .. N : \A walk \in inv[n - 1] : GlobVisit(tree, maxFiles, maxFound, walk, n) \in inv[n]
  BY <1>2, GlobVisitKeeps
<1>6. ASSUME NEW n \in 1 .. N, NEW walk \in inv[n - 1] PROVE step[<<n, walk>>] = GlobVisit(tree, maxFiles, maxFound, walk, n)
  <2> HIDE DEF inv, S
  <2>1. walk \in S
    BY <1>2, <1>3
  <2>2. <<n, walk>> \in (1 .. N) \X S
    BY <2>1
  <2>3. QED
    BY <2>2
<1> HIDE DEF inv, step, S
<1>7. PICK f \in RunsOf(N, S) : Recurs(f, N, Begun, step) /\ \A n \in 0 .. N : f[n] \in inv[n]
  <2> HIDE DEF N
  <2>1. ASSUME NEW n \in 1 .. N, NEW walk \in inv[n - 1] PROVE step[<<n, walk>>] \in inv[n]
    BY <1>5, <1>6
  <2>2. QED
    BY <1>1, <1>3, <1>4, <2>1, KeptRecursion
<1>8. Solves(f)
  <2>1. \A n \in 1 .. N : f[n] = GlobVisit(tree, maxFiles, maxFound, f[n - 1], n)
    BY <1>2, <1>6, <1>7 DEF Recurs
  <2>2. f = [n \in 0 .. N |-> f[n]]
    BY <1>7 DEF RunsOf
  <2>3. \A n \in 0 .. N : n # 0 => n \in 1 .. N
    BY <1>1
  <2>4. f[0] = Begun
    BY <1>7 DEF Recurs
  <2>5. QED
    BY <2>1, <2>2, <2>3, <2>4
<1> DEFINE run == GlobWalk(tree, maxFiles, maxFound)
<1>9. run = CHOOSE walk : Solves(walk)
  BY DEF GlobWalk
<1> HIDE DEF Solves
<1>10. Solves(run)
  BY <1>8, <1>9
<1> HIDE DEF run
<1>11. \A n \in 0 .. N : run[n] = IF n = 0 THEN Begun ELSE GlobVisit(tree, maxFiles, maxFound, run[n - 1], n)
  BY <1>10 DEF Solves
<1> DEFINE good == {n \in 0 .. N : run[n] \in inv[n]}
<1>12. 0 \in good
  BY <1>2, <1>4, <1>11
<1>13. \A n \in 0 .. N - 1 : n \in good => n + 1 \in good
  <2> SUFFICES ASSUME NEW n \in 0 .. N - 1, n \in good PROVE n + 1 \in good
    OBVIOUS
  <2>1. n + 1 \in 1 .. N /\ n + 1 \in 0 .. N /\ n + 1 - 1 = n /\ n + 1 # 0
    BY <1>1
  <2>2. run[n + 1] = GlobVisit(tree, maxFiles, maxFound, run[n], n + 1)
    BY <1>11, <2>1
  <2>3. QED
    BY <1>5, <2>1, <2>2
<1>14. 0 .. N \subseteq good
  <2> HIDE DEF good, N
  <2>1. QED
    BY <1>1, <1>12, <1>13, Reaches
<1>15. N \in 0 .. N
  BY <1>1
<1>16. QED
  BY <1>14, <1>15 DEF run, inv, N

\* The beginning of a sequence.
LEMMA CutIs ==
    ASSUME NEW S, NEW seq \in Seq(S), NEW size \in 0 .. Len(seq)
    PROVE  LET cut == SubSeq(seq, 1, size)
           IN  /\ Len(cut) = size /\ cut \in Seq(S) /\ ToSet(cut) \subseteq ToSet(seq)
               /\ size = Len(seq) => ToSet(cut) = ToSet(seq)
<1> DEFINE cut == SubSeq(seq, 1, size)
<1>1. Len(seq) \in Nat /\ DOMAIN seq = 1 .. Len(seq) /\ \A k \in 1 .. Len(seq) : seq[k] \in S
  BY LenProperties, ElementOfSeq
<1>2. size \in Nat /\ size - 1 + 1 = size /\ \A k \in 1 .. size : k \in 1 .. Len(seq) /\ 1 + k - 1 = k
  BY <1>1
<1>3. cut \in Seq(S) /\ Len(cut) = size /\ \A k \in 1 .. size : cut[k] = seq[k]
  <2>1. \A k \in 1 .. size : seq[k] \in S
    BY <1>1, <1>2
  <2>2. /\ SubSeq(seq, 1, size) \in Seq(S)
        /\ Len(SubSeq(seq, 1, size)) = IF 1 <= size THEN size - 1 + 1 ELSE 0
        /\ \A k \in 1 .. size - 1 + 1 : SubSeq(seq, 1, size)[k] = seq[1 + k - 1]
    BY <1>2, <2>1, SubSeqProperties
  <2>3. QED
    BY <1>2, <2>2
<1>4. DOMAIN cut = 1 .. size
  BY <1>3, LenProperties
<1> HIDE DEF cut
<1>5. ToSet(cut) \subseteq ToSet(seq) /\ (size = Len(seq) => ToSet(cut) = ToSet(seq))
  BY <1>1, <1>2, <1>3, <1>4 DEF ToSet
<1>6. QED
  BY <1>3, <1>5 DEF cut

LEMMA GlobIsComplete ==
    ASSUME NEW T, NEW tree \in Seq(T), NEW max \in Nat, NEW maxFiles \in Nat, NEW maxFound \in Nat
    PROVE  LET glob == Glob(tree, max, maxFiles, maxFound)
           IN  /\ Len(glob.out) <= max
               /\ ~glob.truncated /\ ~glob.failed => ToSet(glob.out) = Found(tree)
               /\ ToSet(glob.out) \subseteq Found(tree)
<1> DEFINE walked == GlobWalk(tree, maxFiles, maxFound)[Len(tree)]
           glob == Glob(tree, max, maxFiles, maxFound)
           out == walked.out
           size == IF Len(out) > max THEN max ELSE Len(out)
           cut == SubSeq(out, 1, size)
           over == Len(out) > max
<1>1. walked \in GlobInv(tree, Len(tree))
  BY GlobWalkIs
<1>2. glob = [walked EXCEPT !.truncated = @ \/ over, !.out = cut]
  BY DEF Glob, CutTo
<1>3. UpTo(Found(tree), Len(tree)) = Found(tree)
  BY FoundIs, UpToGrows
<1> HIDE DEF walked
<1>4. /\ walked \in WalksOf(Nat) /\ ToSet(out) \subseteq Found(tree)
      /\ ~walked.truncated /\ ~walked.failed => Found(tree) \subseteq ToSet(out)
  BY <1>1, <1>3 DEF GlobInv
<1>5. out \in Seq(Nat) /\ Len(out) \in Nat /\ DOMAIN out = 1 .. Len(out)
  BY <1>4, LenProperties DEF WalksOf
<1> HIDE DEF glob, out
<1>6. size \in 0 .. Len(out) /\ size <= max /\ (~over => size = Len(out))
  <2>1. CASE over
    <3>1. size = max
      BY <2>1
    <3>2. max \in 0 .. Len(out)
      BY <1>5, <2>1
    <3> HIDE DEF size
    <3>3. QED
      BY <2>1, <3>1, <3>2
  <2>2. CASE ~over
    BY <1>5, <2>2
  <2>3. QED
    BY <2>1, <2>2
<1> HIDE DEF size
<1>7. Len(cut) = size /\ cut \in Seq(Nat) /\ ToSet(cut) \subseteq ToSet(out) /\ (size = Len(out) => ToSet(cut) = ToSet(out))
  BY <1>5, <1>6, CutIs
<1> HIDE DEF cut, over
<1>8. glob.out = cut /\ glob.failed = walked.failed /\ (glob.truncated <=> walked.truncated \/ over)
  BY <1>2, <1>4 DEF WalksOf
<1>9. QED
  BY <1>4, <1>6, <1>7, <1>8 DEF glob

LEMMA ListedIs ==
    ASSUME NEW T, NEW tree \in Seq(T), NEW recursive \in BOOLEAN
    PROVE  Len(tree) \in Nat /\ Listed(tree, recursive) \in SUBSET (1 .. Len(tree))
BY LenProperties DEF Listed

\* The walks of a listing that have come to entry n.
ListInv(tree, recursive, maxEntries, n) ==
    {walk \in WalksOf(Nat) :
        /\ Len(walk.out) <= maxEntries
        /\ ToSet(walk.out) \subseteq UpTo(Listed(tree, recursive), n)
        /\ walk.out # <<>> => Last(walk.out) \in Nat /\ \A i \in ToSet(walk.out) : i <= Last(walk.out)
        /\ walk.truncated => Len(walk.out) = maxEntries
        /\ ~walk.truncated /\ ~walk.failed /\ Len(walk.out) < maxEntries =>
              UpTo(Listed(tree, recursive), n) \subseteq ToSet(walk.out)
        /\ ~walk.truncated /\ ~walk.failed /\ Len(walk.out) = maxEntries =>
              UpTo(Listed(tree, recursive), n) \ Below(tree, Last(walk.out)) \subseteq ToSet(walk.out)}

LEMMA ListBegins ==
    ASSUME NEW T, NEW tree \in Seq(T), NEW recursive \in BOOLEAN, NEW maxEntries \in Nat
    PROVE  Begun \in ListInv(tree, recursive, maxEntries, 0)
<1>1. /\ Begun \in WalksOf(Nat) /\ Begun.out = <<>> /\ ~Begun.truncated
      /\ Len(Begun.out) = 0 /\ ToSet(Begun.out) = {}
  BY BegunIs
<1>2. UpTo(Listed(tree, recursive), 0) = {}
  BY ListedIs, UpToGrows
<1>3. 0 <= maxEntries
  OBVIOUS
<1>4. QED
  BY <1>1, <1>2, <1>3 DEF ListInv

LEMMA ListVisitKeeps ==
    ASSUME NEW T, NEW tree \in Seq(T), NEW recursive \in BOOLEAN, NEW maxEntries \in Nat \ {0},
           NEW n \in 1 .. Len(tree), NEW walk \in ListInv(tree, recursive, maxEntries, n - 1)
    PROVE  ListVisit(tree, recursive, maxEntries, walk, n) \in ListInv(tree, recursive, maxEntries, n)
<1> DEFINE next == ListVisit(tree, recursive, maxEntries, walk, n)
           so == UpTo(Listed(tree, recursive), n - 1)
           now == UpTo(Listed(tree, recursive), n)
           ended == walk.truncated \/ walk.failed
           added == Append(walk.out, n)
           below == Below(tree, Last(walk.out))
<1>1. /\ walk \in WalksOf(Nat) /\ Len(walk.out) <= maxEntries /\ ToSet(walk.out) \subseteq so
      /\ walk.out # <<>> => Last(walk.out) \in Nat /\ \A i \in ToSet(walk.out) : i <= Last(walk.out)
      /\ walk.truncated => Len(walk.out) = maxEntries
      /\ ~walk.truncated /\ ~walk.failed /\ Len(walk.out) < maxEntries => so \subseteq ToSet(walk.out)
      /\ ~walk.truncated /\ ~walk.failed /\ Len(walk.out) = maxEntries => so \ below \subseteq ToSet(walk.out)
  BY DEF ListInv
<1>2. now = so \cup (IF n \in Listed(tree, recursive) THEN {n} ELSE {})
  BY ListedIs, UpToGrows
<1>3. Len(walk.out) \in Nat /\ walk.out \in Seq(Nat) /\ n \in Nat
  BY <1>1, ListedIs, LenProperties DEF WalksOf
<1>4. /\ added \in Seq(Nat) /\ ToSet(added) = ToSet(walk.out) \cup {n} /\ Last(added) = n
      /\ Len(added) = Len(walk.out) + 1
  <2> DEFINE out == walk.out
  <2>1. out \in Seq(Nat)
    BY <1>3
  <2> HIDE DEF out
  <2>2. /\ Append(out, n) \in Seq(Nat) /\ ToSet(Append(out, n)) = ToSet(out) \cup {n} /\ Last(Append(out, n)) = n
        /\ Len(Append(out, n)) = Len(out) + 1
    BY <1>3, <2>1, AppendIs
  <2>3. QED
    BY <2>2 DEF out
<1>5. CASE ended \/ n \notin Listed(tree, recursive)
  <2>1. next = walk
    BY <1>5 DEF ListVisit
  <2> HIDE DEF so, now, next, below
  <2>2. walk \in ListInv(tree, recursive, maxEntries, n)
    <3>1. ToSet(walk.out) \subseteq now
      BY <1>1, <1>2
    <3>2. ~walk.truncated /\ ~walk.failed => now = so
      BY <1>2, <1>5
    <3>3. QED
      BY <1>1, <3>1, <3>2 DEF ListInv, now, below
  <2>3. QED
    BY <2>1, <2>2 DEF next
<1>6. CASE ~ended /\ n \in Listed(tree, recursive) /\ Len(walk.out) >= maxEntries /\ n \in below
  <2>1. next = walk
    BY <1>6 DEF ListVisit
  <2>2. Len(walk.out) = maxEntries /\ ~(Len(walk.out) < maxEntries)
    BY <1>1, <1>3, <1>6
  <2> HIDE DEF so, now, next, below
  <2>3. walk \in ListInv(tree, recursive, maxEntries, n)
    <3>1. ToSet(walk.out) \subseteq now /\ now \ below \subseteq ToSet(walk.out)
      BY <1>1, <1>2, <1>6, <2>2
    <3>2. QED
      BY <1>1, <2>2, <3>1 DEF ListInv, now, below
  <2>4. QED
    BY <2>1, <2>3 DEF next
<1>7. CASE ~ended /\ n \in Listed(tree, recursive) /\ Len(walk.out) >= maxEntries /\ n \notin below
  <2>1. next = [walk EXCEPT !.truncated = TRUE]
    BY <1>7 DEF ListVisit
  <2>2. Len(walk.out) = maxEntries
    BY <1>1, <1>3, <1>7
  <2>3. next.out = walk.out /\ next.truncated /\ next \in WalksOf(Nat)
    BY <1>1, <2>1 DEF WalksOf
  <2> HIDE DEF so, now, next, below
  <2>4. next \in ListInv(tree, recursive, maxEntries, n)
    <3>1. ToSet(walk.out) \subseteq now
      BY <1>1, <1>2
    <3>2. QED
      BY <1>1, <2>2, <2>3, <3>1 DEF ListInv, now
  <2>5. QED
    BY <2>4 DEF next
<1>8. CASE ~ended /\ n \in Listed(tree, recursive) /\ ~(Len(walk.out) >= maxEntries)
  <2> DEFINE shut == recursive /\ tree[n].kind = "closed" /\ Len(walk.out) + 1 < maxEntries
  <2>1. next = [walk EXCEPT !.out = added, !.failed = shut]
    BY <1>8 DEF ListVisit
  <2>2. shut \in BOOLEAN /\ walk.truncated \in BOOLEAN /\ walk.scanned \in Nat /\ ~walk.truncated
    BY <1>1, <1>8 DEF WalksOf
  <2>3. Len(added) <= maxEntries /\ Len(walk.out) < maxEntries
    BY <1>3, <1>4, <1>8
  <2>4. ToSet(added) = now
    BY <1>1, <1>2, <1>4, <1>8, <2>3
  <2>5. \A i \in ToSet(added) : i <= n
    <3>1. \A i \in now : i <= n
      BY DEF UpTo
    <3>2. QED
      BY <2>4, <3>1
  <2> HIDE DEF so, now, next, below, added, shut
  <2>6. next = [out |-> added, scanned |-> walk.scanned, truncated |-> walk.truncated, failed |-> shut]
    BY <1>1, <2>1 DEF WalksOf
  <2>7. next \in WalksOf(Nat)
    BY <1>4, <2>2, <2>6 DEF WalksOf
  <2>8. next.out = added /\ ~next.truncated
    BY <2>2, <2>6
  <2>9. next \in ListInv(tree, recursive, maxEntries, n)
    BY <1>3, <1>4, <2>3, <2>4, <2>5, <2>7, <2>8 DEF ListInv, now
  <2>10. QED
    BY <2>9 DEF next
<1>9. QED
  BY <1>5, <1>6, <1>7, <1>8

\* And a listing.
LEMMA ListWalkIs ==
    ASSUME NEW T, NEW tree \in Seq(T), NEW recursive \in BOOLEAN, NEW maxEntries \in Nat \ {0}
    PROVE  ListWalk(tree, recursive, maxEntries)[Len(tree)] \in ListInv(tree, recursive, maxEntries, Len(tree))
<1> DEFINE N == Len(tree)
           S == WalksOf(Nat)
           Solves(walk) == walk = [n \in 0 .. N |-> IF n = 0 THEN Begun ELSE ListVisit(tree, recursive, maxEntries, walk[n - 1], n)]
           step == [p \in (1 .. N) \X S |-> ListVisit(tree, recursive, maxEntries, p[2], p[1])]
           inv == [n \in 0 .. N |-> ListInv(tree, recursive, maxEntries, n)]
<1>1. N \in Nat
  BY LenProperties
<1>2. 0 \in 0 .. N /\ \A n \in 1 .. N : n \in 0 .. N /\ n - 1 \in 0 .. N /\ n # 0
  BY <1>1
<1>3. \A n \in 0 .. N : inv[n] \subseteq S
  BY DEF ListInv
<1>4. Begun \in inv[0]
  BY <1>2, ListBegins
<1>5. \A n \in 1 .. N : \A walk \in inv[n - 1] : ListVisit(tree, recursive, maxEntries, walk, n) \in inv[n]
  BY <1>2, ListVisitKeeps
<1>6. ASSUME NEW n \in 1 .. N, NEW walk \in inv[n - 1] PROVE step[<<n, walk>>] = ListVisit(tree, recursive, maxEntries, walk, n)
  <2> HIDE DEF inv, S
  <2>1. walk \in S
    BY <1>2, <1>3
  <2>2. <<n, walk>> \in (1 .. N) \X S
    BY <2>1
  <2>3. QED
    BY <2>2
<1> HIDE DEF inv, step, S
<1>7. PICK f \in RunsOf(N, S) : Recurs(f, N, Begun, step) /\ \A n \in 0 .. N : f[n] \in inv[n]
  <2> HIDE DEF N
  <2>1. ASSUME NEW n \in 1 .. N, NEW walk \in inv[n - 1] PROVE step[<<n, walk>>] \in inv[n]
    BY <1>5, <1>6
  <2>2. QED
    BY <1>1, <1>3, <1>4, <2>1, KeptRecursion
<1>8. Solves(f)
  <2>1. \A n \in 1 .. N : f[n] = ListVisit(tree, recursive, maxEntries, f[n - 1], n)
    BY <1>2, <1>6, <1>7 DEF Recurs
  <2>2. f = [n \in 0 .. N |-> f[n]]
    BY <1>7 DEF RunsOf
  <2>3. \A n \in 0 .. N : n # 0 => n \in 1 .. N
    BY <1>1
  <2>4. f[0] = Begun
    BY <1>7 DEF Recurs
  <2>5. QED
    BY <2>1, <2>2, <2>3, <2>4
<1> DEFINE run == ListWalk(tree, recursive, maxEntries)
<1>9. run = CHOOSE walk : Solves(walk)
  BY DEF ListWalk
<1> HIDE DEF Solves
<1>10. Solves(run)
  BY <1>8, <1>9
<1> HIDE DEF run
<1>11. \A n \in 0 .. N : run[n] = IF n = 0 THEN Begun ELSE ListVisit(tree, recursive, maxEntries, run[n - 1], n)
  BY <1>10 DEF Solves
<1> DEFINE good == {n \in 0 .. N : run[n] \in inv[n]}
<1>12. 0 \in good
  BY <1>2, <1>4, <1>11
<1>13. \A n \in 0 .. N - 1 : n \in good => n + 1 \in good
  <2> SUFFICES ASSUME NEW n \in 0 .. N - 1, n \in good PROVE n + 1 \in good
    OBVIOUS
  <2>1. n + 1 \in 1 .. N /\ n + 1 \in 0 .. N /\ n + 1 - 1 = n /\ n + 1 # 0
    BY <1>1
  <2>2. run[n + 1] = ListVisit(tree, recursive, maxEntries, run[n], n + 1)
    BY <1>11, <2>1
  <2>3. QED
    BY <1>5, <2>1, <2>2
<1>14. 0 .. N \subseteq good
  <2> HIDE DEF good, N
  <2>1. QED
    BY <1>1, <1>12, <1>13, Reaches
<1>15. N \in 0 .. N
  BY <1>1
<1>16. QED
  BY <1>14, <1>15 DEF run, inv, N

LEMMA ListingIsComplete ==
    ASSUME NEW T, NEW tree \in Seq(T), NEW recursive \in BOOLEAN, NEW maxEntries \in Nat \ {0}
    PROVE  ListingTellsCut(tree, recursive, maxEntries)
<1> DEFINE list == ListDir(tree, recursive, maxEntries)
           listed == Listed(tree, recursive)
           below == Below(tree, Last(list.out))
<1>1. list \in ListInv(tree, recursive, maxEntries, Len(tree))
  BY ListWalkIs DEF ListDir
<1>2. UpTo(listed, Len(tree)) = listed
  BY ListedIs, UpToGrows
<1> HIDE DEF list, listed, below
<1>3. /\ list \in WalksOf(Nat) /\ Len(list.out) <= maxEntries /\ ToSet(list.out) \subseteq listed
      /\ list.out # <<>> => Last(list.out) \in Nat /\ \A i \in ToSet(list.out) : i <= Last(list.out)
      /\ list.truncated => Len(list.out) = maxEntries
      /\ ~list.truncated /\ ~list.failed /\ Len(list.out) < maxEntries => listed \subseteq ToSet(list.out)
      /\ ~list.truncated /\ ~list.failed /\ Len(list.out) = maxEntries => listed \ below \subseteq ToSet(list.out)
  BY <1>1, <1>2 DEF ListInv, listed, below
<1>4. list.out \in Seq(Nat) /\ Len(list.out) \in Nat
  BY <1>3, LenProperties DEF WalksOf
<1>5. ASSUME Len(list.out) = maxEntries PROVE ToSet(list.out) \cap below = {}
  <2>1. list.out # <<>>
    BY <1>5, EmptySeq
  <2>2. ToSet(list.out) \subseteq Nat
    <3>1. listed \subseteq Nat
      BY ListedIs DEF listed
    <3>2. QED
      BY <1>3, <3>1
  <2>3. \A j \in below : j > Last(list.out) /\ j \in Int
    BY <1>3, <2>1 DEF below, Below
  <2>4. \A i \in ToSet(list.out) : i <= Last(list.out)
    BY <1>3, <2>1
  <2>5. QED
    BY <1>3, <2>1, <2>2, <2>3, <2>4
<1>6. CASE Len(list.out) = maxEntries
  <2>1. ~list.truncated /\ ~list.failed => listed \ below = ToSet(list.out)
    BY <1>3, <1>5, <1>6
  <2>2. QED
    BY <1>6, <2>1 DEF ListingTellsCut, list, listed, below
<1>7. CASE Len(list.out) # maxEntries
  <2>1. Len(list.out) < maxEntries /\ ~list.truncated
    BY <1>3, <1>4, <1>7
  <2>2. ~list.truncated /\ ~list.failed => listed \ {} = ToSet(list.out)
    BY <1>3, <2>1
  <2>3. QED
    BY <1>7, <2>1, <2>2 DEF ListingTellsCut, list, listed
<1>8. QED
  BY <1>6, <1>7

LEMMA SearchesTellCut ==
    ASSUME NEW T, NEW tree \in Seq(T), \A i \in 1 .. Len(tree) : tree[i].hits \in Nat,
           NEW max \in Nat, NEW maxFiles \in Nat, NEW maxFound \in Nat
    PROVE  SearchIsComplete(tree, max, maxFiles, maxFound)
<1> DEFINE grep == Grep(tree, max, maxFiles)
           glob == Glob(tree, max, maxFiles, maxFound)
<1>1. /\ Len(grep.out) <= max
      /\ ~grep.truncated /\ ~grep.failed => ToSet(grep.out) = Lines(tree)
      /\ ToSet(grep.out) \subseteq Lines(tree)
      /\ grep.truncated => Len(grep.out) = max \/ grep.scanned = maxFiles
  BY GrepIsComplete
<1>2. /\ Len(glob.out) <= max
      /\ ~glob.truncated /\ ~glob.failed => ToSet(glob.out) = Found(tree)
      /\ ToSet(glob.out) \subseteq Found(tree)
  BY GlobIsComplete
<1> HIDE DEF grep, glob
<1>3. QED
  BY <1>1, <1>2 DEF SearchIsComplete, grep, glob

\* The trees that a search or a listing walks.
TreesThatCount(T) == {tree \in Seq(T) : \A i \in 1 .. Len(tree) : tree[i].hits \in Nat}

(***************************************************************************)
(* For every tree of any depth and every limit: a grep or glob that does   *)
(* not say it was cut has found everything there is, none finds what is    *)
(* not there or more than was asked for, and a listing that says nothing   *)
(* of a cut lacks only what is in a directory that took the last place     *)
(* (collect_dir_entries, files.rs).                                        *)
(***************************************************************************)
THEOREM TreeSearchesAreComplete ==
    ASSUME NEW T, NEW tree \in TreesThatCount(T)
    PROVE  /\ \A max, maxFiles, maxFound \in Nat : SearchIsComplete(tree, max, maxFiles, maxFound)
           /\ \A recursive \in BOOLEAN, maxEntries \in Nat \ {0} : ListingTellsCut(tree, recursive, maxEntries)
<1>1. tree \in Seq(T) /\ \A i \in 1 .. Len(tree) : tree[i].hits \in Nat
  BY DEF TreesThatCount
<1>2. QED
  BY <1>1, SearchesTellCut, ListingIsComplete

-----------------------------------------------------------------------------
(* The files of the prompt *)

LEMMA WidthIs == \A c : Width(c) \in 1 .. 3
BY DEF Width

\* The bytes of the beginnings of a text.
LEMMA BytesAre ==
    ASSUME NEW T, NEW text \in Seq(T)
    PROVE  /\ BytesUpTo(text)[0] = 0
           /\ \A n \in 1 .. Len(text) : BytesUpTo(text)[n] = BytesUpTo(text)[n - 1] + Width(text[n])
           /\ \A n \in 0 .. Len(text) : BytesUpTo(text)[n] \in Nat
<1> DEFINE N == Len(text)
           S == Nat
           Solves(f) == f = [n \in 0 .. N |-> IF n = 0 THEN 0 ELSE f[n - 1] + Width(text[n])]
           step == [p \in (1 .. N) \X S |-> p[2] + Width(text[p[1]])]
           inv == [n \in 0 .. N |-> Nat]
<1>1. N \in Nat
  BY LenProperties
<1>2. 0 \in 0 .. N /\ \A n \in 1 .. N : n \in 0 .. N /\ n - 1 \in 0 .. N /\ n # 0
  BY <1>1
<1>3. \A n \in 0 .. N : inv[n] \subseteq S
  OBVIOUS
<1>4. 0 \in inv[0]
  BY <1>2
<1>5. \A n \in 1 .. N : \A so \in inv[n - 1] : so + Width(text[n]) \in inv[n]
  BY <1>2, WidthIs
<1>6. ASSUME NEW n \in 1 .. N, NEW so \in inv[n - 1] PROVE step[<<n, so>>] = so + Width(text[n])
  <2> HIDE DEF inv, S
  <2>1. so \in S
    BY <1>2, <1>3
  <2>2. <<n, so>> \in (1 .. N) \X S
    BY <2>1
  <2>3. QED
    BY <2>2
<1> HIDE DEF inv, step, S
<1>7. PICK f \in RunsOf(N, S) : Recurs(f, N, 0, step) /\ \A n \in 0 .. N : f[n] \in inv[n]
  <2> HIDE DEF N
  <2>1. ASSUME NEW n \in 1 .. N, NEW so \in inv[n - 1] PROVE step[<<n, so>>] \in inv[n]
    BY <1>5, <1>6
  <2>2. QED
    BY <1>1, <1>3, <1>4, <2>1, KeptRecursion
<1>8. Solves(f)
  <2>1. \A n \in 1 .. N : f[n] = f[n - 1] + Width(text[n])
    BY <1>2, <1>6, <1>7 DEF Recurs
  <2>2. f = [n \in 0 .. N |-> f[n]]
    BY <1>7 DEF RunsOf
  <2>3. \A n \in 0 .. N : n # 0 => n \in 1 .. N
    BY <1>1
  <2>4. f[0] = 0
    BY <1>7 DEF Recurs
  <2>5. QED
    BY <2>1, <2>2, <2>3, <2>4
<1> DEFINE run == BytesUpTo(text)
<1>9. run = CHOOSE g : Solves(g)
  BY DEF BytesUpTo
<1> HIDE DEF Solves
<1>10. Solves(run)
  BY <1>8, <1>9
<1> HIDE DEF run
<1>11. \A n \in 0 .. N : run[n] = IF n = 0 THEN 0 ELSE run[n - 1] + Width(text[n])
  BY <1>10 DEF Solves
<1>12. run[0] = 0 /\ \A n \in 1 .. N : run[n] = run[n - 1] + Width(text[n])
  BY <1>2, <1>11
<1> DEFINE good == {n \in 0 .. N : run[n] \in inv[n]}
<1>13. 0 \in good
  BY <1>2, <1>4, <1>12
<1>14. \A n \in 0 .. N - 1 : n \in good => n + 1 \in good
  <2> SUFFICES ASSUME NEW n \in 0 .. N - 1, n \in good PROVE n + 1 \in good
    OBVIOUS
  <2>1. n + 1 \in 1 .. N /\ n + 1 \in 0 .. N /\ n + 1 - 1 = n
    BY <1>1
  <2>2. run[n + 1] = run[n] + Width(text[n + 1])
    BY <1>12, <2>1
  <2>3. QED
    BY <1>5, <2>1, <2>2
<1>15. 0 .. N \subseteq good
  <2> HIDE DEF good, N
  <2>1. QED
    BY <1>1, <1>13, <1>14, Reaches
<1>16. \A n \in 0 .. N : run[n] \in Nat
  BY <1>15 DEF inv
<1>17. QED
  BY <1>12, <1>16 DEF run, N

\* The bytes of a beginning are those that its function has for it.
LEMMA BytesOfCut ==
    ASSUME NEW T, NEW text \in Seq(T), NEW size \in 0 .. Len(text)
    PROVE  BytesOf(SubSeq(text, 1, size)) = BytesUpTo(text)[size]
<1> DEFINE cut == SubSeq(text, 1, size)
           good == {n \in 0 .. size : BytesUpTo(cut)[n] = BytesUpTo(text)[n]}
<1>1. Len(text) \in Nat /\ size \in Nat
  BY LenProperties
<1>2. cut \in Seq(T) /\ Len(cut) = size
  BY CutIs
<1>3. \A k \in 1 .. size : k \in 1 .. Len(text) /\ cut[k] = text[k]
  <2>1. \A k \in 1 .. size : text[k] \in T /\ k \in 1 .. Len(text) /\ 1 + k - 1 = k
    BY <1>1, ElementOfSeq
  <2>2. size - 1 + 1 = size
    BY <1>1
  <2>3. \A k \in 1 .. size - 1 + 1 : SubSeq(text, 1, size)[k] = text[1 + k - 1]
    BY <1>1, <2>1, SubSeqProperties
  <2>4. QED
    BY <2>1, <2>2, <2>3
<1> HIDE DEF cut
<1>4. BytesUpTo(cut)[0] = 0 /\ BytesUpTo(text)[0] = 0
  BY <1>2, BytesAre
<1>5. \A n \in 1 .. size : /\ BytesUpTo(cut)[n] = BytesUpTo(cut)[n - 1] + Width(cut[n])
                           /\ BytesUpTo(text)[n] = BytesUpTo(text)[n - 1] + Width(text[n])
  BY <1>2, <1>3, BytesAre
<1>6. 0 \in good
  BY <1>1, <1>4
<1>7. \A n \in 0 .. size - 1 : n \in good => n + 1 \in good
  <2> SUFFICES ASSUME NEW n \in 0 .. size - 1, n \in good PROVE n + 1 \in good
    OBVIOUS
  <2>1. n + 1 \in 1 .. size /\ n + 1 \in 0 .. size /\ n + 1 - 1 = n
    BY <1>1
  <2>2. QED
    BY <1>3, <1>5, <2>1
<1>8. 0 .. size \subseteq good
  <2> HIDE DEF good
  <2>1. QED
    BY <1>1, <1>6, <1>7, Reaches
<1>9. size \in good
  BY <1>1, <1>8
<1>10. QED
  BY <1>2, <1>9 DEF BytesOf, cut

\* A set of numbers that is bounded has a greatest one.
LEMMA GreatestNatural ==
    ASSUME NEW N \in Nat, NEW S \in SUBSET (0 .. N), S # {}
    PROVE  \E n \in S : \A m \in S : m <= n
<1> DEFINE far == {N - n : n \in S}
<1>1. far \subseteq Nat /\ far # {}
  <2>1. \A n \in S : N - n \in Nat
    OBVIOUS
  <2>2. far \subseteq Nat
    BY <2>1
  <2>3. far # {}
    OBVIOUS
  <2>4. QED
    BY <2>2, <2>3
<1>2. PICK least \in far : \A k \in far : least <= k
  <2> HIDE DEF far
  <2>1. QED
    BY <1>1, LeastNatural
<1>3. PICK n \in S : least = N - n
  OBVIOUS
<1>4. ASSUME NEW m \in S PROVE m <= n
  <2>1. N - n <= N - m
    BY <1>2, <1>3
  <2>2. QED
    BY <2>1
<1>5. QED
  BY <1>4

\* The beginning that truncate_utf8 leaves is one, fits, and is the longest that does.
IsTruncation(text, max, size) ==
    /\ size \in 0 .. Len(text) /\ Truncated(text, max) = SubSeq(text, 1, size)
    /\ BytesUpTo(text)[size] <= max
    /\ \A n \in 0 .. Len(text) : BytesUpTo(text)[n] <= max => n <= size

LEMMA TruncatedIs ==
    ASSUME NEW T, NEW text \in Seq(T), NEW max \in Nat
    PROVE  \E size \in Nat : IsTruncation(text, max, size)
<1> DEFINE fits == {n \in 0 .. Len(text) : BytesUpTo(text)[n] <= max}
           Longest(prefix) == /\ BytesOf(prefix) <= max
                              /\ \A other \in Prefixes(text) : BytesOf(other) <= max => Len(other) <= Len(prefix)
<1>1. Len(text) \in Nat
  BY LenProperties
<1>2. fits # {}
  <2>1. 0 \in 0 .. Len(text) /\ BytesUpTo(text)[0] = 0
    BY <1>1, BytesAre
  <2>2. QED
    BY <2>1
<1>3. PICK size \in fits : \A n \in fits : n <= size
  <2>1. fits \in SUBSET (0 .. Len(text))
    OBVIOUS
  <2> HIDE DEF fits
  <2>2. QED
    BY <1>1, <1>2, <2>1, GreatestNatural
<1>4. \A n \in 0 .. Len(text) : Len(SubSeq(text, 1, n)) = n /\ BytesOf(SubSeq(text, 1, n)) = BytesUpTo(text)[n]
  BY CutIs, BytesOfCut
<1>5. SubSeq(text, 1, size) \in Prefixes(text) /\ Longest(SubSeq(text, 1, size))
  BY <1>3, <1>4 DEF Prefixes
<1>6. Truncated(text, max) = CHOOSE prefix \in Prefixes(text) : Longest(prefix)
  BY DEF Truncated
<1>7. Truncated(text, max) \in Prefixes(text) /\ Longest(Truncated(text, max))
  <2> HIDE DEF Longest
  <2>1. QED
    BY <1>5, <1>6
<1>8. PICK n \in 0 .. Len(text) : Truncated(text, max) = SubSeq(text, 1, n)
  BY <1>7 DEF Prefixes
<1>9. BytesUpTo(text)[n] <= max /\ size <= n
  BY <1>3, <1>4, <1>5, <1>7, <1>8
<1>10. \A m \in 0 .. Len(text) : BytesUpTo(text)[m] <= max => m <= n
  BY <1>1, <1>3, <1>9
<1>11. n \in Nat
  BY <1>1
<1>12. QED
  BY <1>8, <1>9, <1>10, <1>11 DEF IsTruncation

\* What fits is not cut, and what is cut comes within less than a character of the limit.
LEMMA TruncationsAre ==
    ASSUME NEW T, NEW text \in Seq(T), NEW max \in Nat, NEW size \in Nat, IsTruncation(text, max, size)
    PROVE  /\ Truncated(text, max) \in Seq(T) /\ Len(Truncated(text, max)) = size
           /\ BytesOf(Truncated(text, max)) = BytesUpTo(text)[size] /\ BytesOf(Truncated(text, max)) \in Nat
           /\ BytesOf(Truncated(text, max)) <= max
           /\ BytesOf(text) <= max => Truncated(text, max) = text
           /\ Truncated(text, max) # text => BytesOf(Truncated(text, max)) + 2 >= max
<1>1. Len(text) \in Nat /\ size \in 0 .. Len(text) /\ Truncated(text, max) = SubSeq(text, 1, size)
  BY LenProperties DEF IsTruncation
<1>2. SubSeq(text, 1, size) \in Seq(T) /\ Len(SubSeq(text, 1, size)) = size
  BY <1>1, CutIs
<1>3. BytesOf(SubSeq(text, 1, size)) = BytesUpTo(text)[size]
  BY <1>1, BytesOfCut
<1>4. BytesUpTo(text)[size] <= max /\ \A n \in 0 .. Len(text) : BytesUpTo(text)[n] <= max => n <= size
  BY DEF IsTruncation
<1>5. \A n \in 0 .. Len(text) : BytesUpTo(text)[n] \in Nat
  BY BytesAre
<1>6. SubSeq(text, 1, Len(text)) = text
  BY SubSeqFull
<1>7. ASSUME BytesOf(text) <= max PROVE Truncated(text, max) = text
  <2>1. Len(text) \in 0 .. Len(text) /\ BytesUpTo(text)[Len(text)] <= max
    BY <1>1, <1>7 DEF BytesOf
  <2>2. Len(text) = size
    BY <1>1, <1>4, <2>1
  <2>3. QED
    BY <1>1, <1>6, <2>2
<1>8. ASSUME Truncated(text, max) # text PROVE BytesUpTo(text)[size] + 2 >= max
  <2>1. size # Len(text)
    BY <1>1, <1>6, <1>8
  <2>2. size + 1 \in 1 .. Len(text) /\ size + 1 \in 0 .. Len(text) /\ size + 1 - 1 = size
    BY <1>1, <2>1
  <2>3. BytesUpTo(text)[size + 1] = BytesUpTo(text)[size] + Width(text[size + 1])
    BY <2>2, BytesAre
  <2>4. ~(BytesUpTo(text)[size + 1] <= max)
    BY <1>1, <1>4, <2>2
  <2> DEFINE width == Width(text[size + 1])
  <2>5. width \in 1 .. 3
    BY WidthIs
  <2> HIDE DEF width
  <2>6. BytesUpTo(text)[size] \in Nat
    BY <1>1, <1>5
  <2>7. QED
    BY <2>3, <2>4, <2>5, <2>6 DEF width
<1>9. QED
  BY <1>1, <1>2, <1>3, <1>4, <1>5, <1>7, <1>8

LEMMA CharactersAdd ==
    ASSUME NEW T, NEW lines \in Seq(Seq(T)), lines # <<>>, NEW c \in T
    PROVE  AddCharacter(lines, c) \in Seq(Seq(T)) /\ AddCharacter(lines, c) # <<>>
<1>1. Len(lines) \in Nat \ {0} /\ Len(lines) \in 1 .. Len(lines)
  BY EmptySeq
<1>2. lines[Len(lines)] \in Seq(T)
  BY <1>1, ElementOfSeq
<1>3. <<>> \in Seq(T) /\ Append(lines[Len(lines)], c) \in Seq(T)
  BY <1>2, EmptySeq, AppendProperties
<1>4. Append(lines, <<>>) \in Seq(Seq(T)) /\ Append(lines, <<>>) # <<>>
  BY <1>3, AppendProperties
<1> DEFINE end == Append(lines[Len(lines)], c)
<1>5. AddCharacter(lines, c) = IF c = "newline" THEN Append(lines, <<>>) ELSE [lines EXCEPT ![Len(lines)] = end]
  BY DEF AddCharacter
<1> HIDE DEF end
<1>6. [lines EXCEPT ![Len(lines)] = end] \in Seq(Seq(T)) /\ Len([lines EXCEPT ![Len(lines)] = end]) = Len(lines)
  BY <1>1, <1>3, ExceptSeq DEF end
<1>7. [lines EXCEPT ![Len(lines)] = end] # <<>>
  BY <1>1, <1>6
<1>8. QED
  BY <1>4, <1>5, <1>6, <1>7

LEMMA OneEmptyLine ==
    ASSUME NEW T
    PROVE  <<<<>>>> \in Seq(Seq(T)) /\ <<<<>>>> # <<>> /\ Len(<<<<>>>>) = 1 /\ Last(<<<<>>>>) = <<>>
<1>1. <<>> \in Seq(T)
  BY EmptySeq
<1>2. QED
  BY <1>1 DEF Last

\* The lines of the beginnings of a text.
LEMMA LinesSoFarAre ==
    ASSUME NEW T, NEW text \in Seq(T)
    PROVE  /\ LinesUpTo(text)[0] = <<<<>>>>
           /\ \A n \in 1 .. Len(text) : LinesUpTo(text)[n] = AddCharacter(LinesUpTo(text)[n - 1], text[n])
           /\ \A n \in 0 .. Len(text) : LinesUpTo(text)[n] \in {lines \in Seq(Seq(T)) : lines # <<>>}
<1> DEFINE N == Len(text)
           S == Seq(Seq(T))
           Solves(f) == f = [n \in 0 .. N |-> IF n = 0 THEN <<<<>>>> ELSE AddCharacter(f[n - 1], text[n])]
           step == [p \in (1 .. N) \X S |-> AddCharacter(p[2], text[p[1]])]
           inv == [n \in 0 .. N |-> {lines \in Seq(Seq(T)) : lines # <<>>}]
<1>1. N \in Nat
  BY LenProperties
<1>2. 0 \in 0 .. N /\ \A n \in 1 .. N : n \in 0 .. N /\ n - 1 \in 0 .. N /\ n # 0
  BY <1>1
<1>3. \A n \in 0 .. N : inv[n] \subseteq S
  OBVIOUS
<1>4. <<<<>>>> \in inv[0]
  BY <1>2, OneEmptyLine
<1>5. \A n \in 1 .. N : \A so \in inv[n - 1] : AddCharacter(so, text[n]) \in inv[n]
  BY <1>2, ElementOfSeq, CharactersAdd
<1>6. ASSUME NEW n \in 1 .. N, NEW so \in inv[n - 1] PROVE step[<<n, so>>] = AddCharacter(so, text[n])
  <2> HIDE DEF inv, S
  <2>1. so \in S
    BY <1>2, <1>3
  <2>2. <<n, so>> \in (1 .. N) \X S
    BY <2>1
  <2>3. QED
    BY <2>2
<1> HIDE DEF inv, step, S
<1>7. PICK f \in RunsOf(N, S) : Recurs(f, N, <<<<>>>>, step) /\ \A n \in 0 .. N : f[n] \in inv[n]
  <2> HIDE DEF N
  <2>1. ASSUME NEW n \in 1 .. N, NEW so \in inv[n - 1] PROVE step[<<n, so>>] \in inv[n]
    BY <1>5, <1>6
  <2>2. QED
    BY <1>1, <1>3, <1>4, <2>1, KeptRecursion
<1>8. Solves(f)
  <2>1. \A n \in 1 .. N : f[n] = AddCharacter(f[n - 1], text[n])
    BY <1>2, <1>6, <1>7 DEF Recurs
  <2>2. f = [n \in 0 .. N |-> f[n]]
    BY <1>7 DEF RunsOf
  <2>3. \A n \in 0 .. N : n # 0 => n \in 1 .. N
    BY <1>1
  <2>4. f[0] = <<<<>>>>
    BY <1>7 DEF Recurs
  <2>5. QED
    BY <2>1, <2>2, <2>3, <2>4
<1> DEFINE run == LinesUpTo(text)
<1>9. run = CHOOSE g : Solves(g)
  BY DEF LinesUpTo
<1> HIDE DEF Solves
<1>10. Solves(run)
  BY <1>8, <1>9
<1> HIDE DEF run
<1>11. \A n \in 0 .. N : run[n] = IF n = 0 THEN <<<<>>>> ELSE AddCharacter(run[n - 1], text[n])
  BY <1>10 DEF Solves
<1>12. run[0] = <<<<>>>> /\ \A n \in 1 .. N : run[n] = AddCharacter(run[n - 1], text[n])
  BY <1>2, <1>11
<1> DEFINE good == {n \in 0 .. N : run[n] \in inv[n]}
<1>13. 0 \in good
  BY <1>2, <1>4, <1>12
<1>14. \A n \in 0 .. N - 1 : n \in good => n + 1 \in good
  <2> SUFFICES ASSUME NEW n \in 0 .. N - 1, n \in good PROVE n + 1 \in good
    OBVIOUS
  <2>1. n + 1 \in 1 .. N /\ n + 1 \in 0 .. N /\ n + 1 - 1 = n
    BY <1>1
  <2>2. run[n + 1] = AddCharacter(run[n], text[n + 1])
    BY <1>12, <2>1
  <2>3. QED
    BY <1>5, <2>1, <2>2
<1>15. 0 .. N \subseteq good
  <2> HIDE DEF good, N
  <2>1. QED
    BY <1>1, <1>13, <1>14, Reaches
<1>16. \A n \in 0 .. N : run[n] \in {lines \in Seq(Seq(T)) : lines # <<>>}
  BY <1>15 DEF inv
<1>17. QED
  BY <1>12, <1>16 DEF run, N

LEMMA LinesAre ==
    ASSUME NEW T, NEW text \in Seq(T)
    PROVE  LinesOf(text) \in Seq(Seq(T)) /\ (text = <<>> => LinesOf(text) = <<>>)
<1> DEFINE lines == LinesUpTo(text)[Len(text)]
<1>1. Len(text) \in 0 .. Len(text)
  BY LenProperties
<1>2. lines \in Seq(Seq(T)) /\ lines # <<>>
  BY <1>1, LinesSoFarAre
<1>3. LinesOf(text) = IF Last(lines) = <<>> THEN Front(lines) ELSE lines
  BY DEF LinesOf
<1>4. ASSUME text = <<>> PROVE lines = <<<<>>>>
  <2>1. Len(text) = 0
    BY <1>4, EmptySeq
  <2>2. QED
    BY <2>1, LinesSoFarAre
<1> HIDE DEF lines
<1>5. Len(lines) \in Nat \ {0}
  BY <1>2, EmptySeq
<1>6. Front(lines) \in Seq(Seq(T))
  <2>1. Len(lines) - 1 \in 0 .. Len(lines)
    BY <1>5
  <2>2. QED
    BY <1>2, <2>1, CutIs DEF Front
<1>7. ASSUME text = <<>> PROVE LinesOf(text) = <<>>
  <2>1. Last(lines) = <<>> /\ Len(lines) = 1
    BY <1>4, <1>7, OneEmptyLine
  <2>2. Front(lines) = <<>>
    BY <2>1, SubSeqEmpty DEF Front
  <2>3. QED
    BY <1>3, <2>1, <2>2
<1>8. QED
  BY <1>2, <1>3, <1>6, <1>7

-----------------------------------------------------------------------------
(* The search through memory *)

MatchesOf(P) == [path : P, line : Nat, from : Nat, to : Nat]

\* A match is in the lines, and what is shown with it is around it.
IsWindow(path, lines, match) ==
    /\ match.path = path /\ match.line \in 1 .. Len(lines) /\ Hit(lines[match.line])
    /\ match.line \in match.from .. match.to /\ {match.from, match.to} \subseteq 1 .. Len(lines)

LEMMA WindowIs ==
    ASSUME NEW T, NEW lines \in Seq(T), NEW i \in 1 .. Len(lines), Hit(lines[i]), NEW P, NEW path \in P
    PROVE  /\ Window(path, lines, i) \in MatchesOf(P) /\ IsWindow(path, lines, Window(path, lines, i))
           /\ Window(path, lines, i).line = i
<1> DEFINE from == IF i > Radius THEN i - Radius ELSE 1
           to == IF i + Radius > Len(lines) THEN Len(lines) ELSE i + Radius
<1>1. Len(lines) \in Nat /\ Radius \in Nat
  BY LenProperties, PromptAssumption
<1>2. from \in 1 .. i
  <2>1. CASE i > Radius
    BY <1>1, <2>1
  <2>2. CASE ~(i > Radius)
    BY <1>1, <2>2
  <2>3. QED
    BY <2>1, <2>2
<1>3. to \in i .. Len(lines)
  <2>1. CASE i + Radius > Len(lines)
    BY <1>1, <2>1
  <2>2. CASE ~(i + Radius > Len(lines))
    BY <1>1, <2>2
  <2>3. QED
    BY <2>1, <2>2
<1>4. Window(path, lines, i) = [path |-> path, line |-> i, from |-> from, to |-> to]
  BY DEF Window
<1> HIDE DEF from, to
<1>5. i \in Nat /\ from \in Nat /\ to \in Nat /\ i \in from .. to /\ from \in 1 .. Len(lines) /\ to \in 1 .. Len(lines)
  BY <1>1, <1>2, <1>3
<1>6. QED
  BY <1>4, <1>5 DEF MatchesOf, IsWindow

\* What search_memory_windows has found after n lines.
WindowsInv(P, path, lines, max, n) ==
    {windows \in Seq(MatchesOf(P)) :
        /\ Len(windows) <= max
        /\ \A k \in 1 .. Len(windows) : IsWindow(path, lines, windows[k]) /\ windows[k].line <= n
        /\ \A j, k \in 1 .. Len(windows) : j < k => windows[j].line < windows[k].line
        /\ Len(windows) < max => \A i \in 1 .. n : Hit(lines[i]) => \E k \in 1 .. Len(windows) : windows[k].line = i}

LEMMA NoWindows ==
    ASSUME NEW P, NEW path, NEW lines, NEW max \in Nat
    PROVE  <<>> \in WindowsInv(P, path, lines, max, 0)
<1>1. <<>> \in Seq(MatchesOf(P)) /\ Len(<<>>) = 0
  BY EmptySeq
<1>2. 1 .. 0 = {} /\ 0 <= max
  OBVIOUS
<1>3. QED
  BY <1>1, <1>2 DEF WindowsInv

LEMMA WindowsAdd ==
    ASSUME NEW T, NEW lines \in Seq(T), NEW P, NEW path \in P, NEW max \in Nat, NEW n \in 1 .. Len(lines),
           NEW windows \in WindowsInv(P, path, lines, max, n - 1)
    PROVE  AddWindow(path, lines, max, windows, n) \in WindowsInv(P, path, lines, max, n)
<1> DEFINE size == Len(windows)
           new == Window(path, lines, n)
           longer == Append(windows, new)
<1>1. /\ windows \in Seq(MatchesOf(P)) /\ size <= max
      /\ \A k \in 1 .. size : IsWindow(path, lines, windows[k]) /\ windows[k].line <= n - 1
      /\ \A j, k \in 1 .. size : j < k => windows[j].line < windows[k].line
      /\ size < max => \A i \in 1 .. n - 1 : Hit(lines[i]) => \E k \in 1 .. size : windows[k].line = i
  BY DEF WindowsInv
<1>2. size \in Nat /\ Len(lines) \in Nat /\ n \in Nat
  BY <1>1, LenProperties
<1>3. \A k \in 1 .. size : windows[k].line \in Nat /\ windows[k].line < n /\ windows[k].line <= n
  <2>1. \A k \in 1 .. size : windows[k] \in MatchesOf(P)
    BY <1>1, ElementOfSeq
  <2>2. \A k \in 1 .. size : windows[k].line \in Nat
    BY <2>1 DEF MatchesOf
  <2>3. QED
    BY <1>1, <1>2, <2>2
<1>4. \A i \in 1 .. n : i \in 1 .. n - 1 \/ i = n
  BY <1>2
<1>5. CASE ~Hit(lines[n]) \/ ~(size < max)
  <2>1. AddWindow(path, lines, max, windows, n) = windows
    BY <1>5 DEF AddWindow
  <2>2. QED
    BY <1>1, <1>3, <1>4, <1>5, <2>1 DEF WindowsInv
<1>6. CASE Hit(lines[n]) /\ size < max
  <2>1. AddWindow(path, lines, max, windows, n) = longer
    BY <1>6 DEF AddWindow
  <2>2. new \in MatchesOf(P) /\ IsWindow(path, lines, new) /\ new.line = n
    BY <1>6, WindowIs
  <2> HIDE DEF new
  <2>3. longer \in Seq(MatchesOf(P)) /\ Len(longer) = size + 1 /\ longer[size + 1] = new
        /\ \A k \in 1 .. size : longer[k] = windows[k]
    BY <1>1, <2>2, AppendProperties
  <2> HIDE DEF longer, size
  <2>4. \A k \in 1 .. size + 1 : k \in 1 .. size \/ k = size + 1
    BY <1>2
  <2>5. Len(longer) <= max
    BY <1>2, <1>6, <2>3
  <2>6. \A k \in 1 .. size + 1 : IsWindow(path, lines, longer[k]) /\ longer[k].line <= n
    BY <1>1, <1>2, <1>3, <2>2, <2>3, <2>4, SMTT(40)
  <2>7. \A j, k \in 1 .. size + 1 : j < k => longer[j].line < longer[k].line
    <3> SUFFICES ASSUME NEW j \in 1 .. size + 1, NEW k \in 1 .. size + 1, j < k
                 PROVE  longer[j].line < longer[k].line
      OBVIOUS
    <3>1. j \in 1 .. size
      BY <1>2
    <3>2. CASE k \in 1 .. size
      BY <1>1, <2>3, <3>1, <3>2
    <3>3. CASE k = size + 1
      BY <1>3, <2>2, <2>3, <3>1, <3>3
    <3>4. QED
      BY <2>4, <3>2, <3>3
  <2>8. \A i \in 1 .. n : Hit(lines[i]) => \E k \in 1 .. size + 1 : longer[k].line = i
    <3> SUFFICES ASSUME NEW i \in 1 .. n, Hit(lines[i]) PROVE \E k \in 1 .. size + 1 : longer[k].line = i
      OBVIOUS
    <3>1. CASE i = n
      <4>1. size + 1 \in 1 .. size + 1
        BY <1>2
      <4>2. QED
        BY <2>2, <2>3, <3>1, <4>1
    <3>2. CASE i # n
      <4>1. PICK k \in 1 .. size : windows[k].line = i
        BY <1>1, <1>4, <1>6, <3>2
      <4>2. k \in 1 .. size + 1 /\ longer[k] = windows[k]
        BY <1>2, <2>3
      <4>3. QED
        BY <4>1, <4>2
    <3>3. QED
      BY <3>1, <3>2
  <2>9. longer \in WindowsInv(P, path, lines, max, n)
    BY <2>3, <2>5, <2>6, <2>7, <2>8 DEF WindowsInv
  <2>10. QED
    BY <2>1, <2>9
<1>7. QED
  BY <1>5, <1>6

\* What the loop over the lines has found.
LEMMA WindowsSoFarAre ==
    ASSUME NEW T, NEW lines \in Seq(T), NEW P, NEW path \in P, NEW max \in Nat
    PROVE  /\ WindowsUpTo(path, lines, max)[0] = <<>>
           /\ \A n \in 1 .. Len(lines) : WindowsUpTo(path, lines, max)[n] = AddWindow(path, lines, max, WindowsUpTo(path, lines, max)[n - 1], n)
           /\ \A n \in 0 .. Len(lines) : WindowsUpTo(path, lines, max)[n] \in WindowsInv(P, path, lines, max, n)
<1> DEFINE N == Len(lines)
           S == Seq(MatchesOf(P))
           Solves(f) == f = [n \in 0 .. N |-> IF n = 0 THEN <<>> ELSE AddWindow(path, lines, max, f[n - 1], n)]
           step == [p \in (1 .. N) \X S |-> AddWindow(path, lines, max, p[2], p[1])]
           inv == [n \in 0 .. N |-> WindowsInv(P, path, lines, max, n)]
<1>1. N \in Nat
  BY LenProperties
<1>2. 0 \in 0 .. N /\ \A n \in 1 .. N : n \in 0 .. N /\ n - 1 \in 0 .. N /\ n # 0
  BY <1>1
<1>3. \A n \in 0 .. N : inv[n] \subseteq S
  BY DEF WindowsInv
<1>4. <<>> \in inv[0]
  BY <1>2, NoWindows
<1>5. \A n \in 1 .. N : \A so \in inv[n - 1] : AddWindow(path, lines, max, so, n) \in inv[n]
  BY <1>2, WindowsAdd
<1>6. ASSUME NEW n \in 1 .. N, NEW so \in inv[n - 1] PROVE step[<<n, so>>] = AddWindow(path, lines, max, so, n)
  <2> HIDE DEF inv, S
  <2>1. so \in S
    BY <1>2, <1>3
  <2>2. <<n, so>> \in (1 .. N) \X S
    BY <2>1
  <2>3. QED
    BY <2>2
<1> HIDE DEF inv, step, S
<1>7. PICK f \in RunsOf(N, S) : Recurs(f, N, <<>>, step) /\ \A n \in 0 .. N : f[n] \in inv[n]
  <2> HIDE DEF N
  <2>1. ASSUME NEW n \in 1 .. N, NEW so \in inv[n - 1] PROVE step[<<n, so>>] \in inv[n]
    BY <1>5, <1>6
  <2>2. QED
    BY <1>1, <1>3, <1>4, <2>1, KeptRecursion
<1>8. Solves(f)
  <2>1. \A n \in 1 .. N : f[n] = AddWindow(path, lines, max, f[n - 1], n)
    BY <1>2, <1>6, <1>7 DEF Recurs
  <2>2. f = [n \in 0 .. N |-> f[n]]
    BY <1>7 DEF RunsOf
  <2>3. \A n \in 0 .. N : n # 0 => n \in 1 .. N
    BY <1>1
  <2>4. f[0] = <<>>
    BY <1>7 DEF Recurs
  <2>5. QED
    BY <2>1, <2>2, <2>3, <2>4
<1> DEFINE run == WindowsUpTo(path, lines, max)
<1>9. run = CHOOSE g : Solves(g)
  BY DEF WindowsUpTo
<1> HIDE DEF Solves
<1>10. Solves(run)
  BY <1>8, <1>9
<1> HIDE DEF run
<1>11. \A n \in 0 .. N : run[n] = IF n = 0 THEN <<>> ELSE AddWindow(path, lines, max, run[n - 1], n)
  BY <1>10 DEF Solves
<1>12. run[0] = <<>> /\ \A n \in 1 .. N : run[n] = AddWindow(path, lines, max, run[n - 1], n)
  BY <1>2, <1>11
<1> DEFINE good == {n \in 0 .. N : run[n] \in inv[n]}
<1>13. 0 \in good
  BY <1>2, <1>4, <1>12
<1>14. \A n \in 0 .. N - 1 : n \in good => n + 1 \in good
  <2> SUFFICES ASSUME NEW n \in 0 .. N - 1, n \in good PROVE n + 1 \in good
    OBVIOUS
  <2>1. n + 1 \in 1 .. N /\ n + 1 \in 0 .. N /\ n + 1 - 1 = n
    BY <1>1
  <2>2. run[n + 1] = AddWindow(path, lines, max, run[n], n + 1)
    BY <1>12, <2>1
  <2>3. QED
    BY <1>5, <2>1, <2>2
<1>15. 0 .. N \subseteq good
  <2> HIDE DEF good, N
  <2>1. QED
    BY <1>1, <1>13, <1>14, Reaches
<1>16. \A n \in 0 .. N : run[n] \in WindowsInv(P, path, lines, max, n)
  BY <1>15 DEF inv
<1>17. QED
  BY <1>12, <1>16 DEF run, N

LEMMA WindowsAre ==
    ASSUME NEW T, NEW text \in Seq(T), NEW P, NEW path \in P, NEW max \in Nat
    PROVE  Windows(path, text, max) \in WindowsInv(P, path, LinesOf(text), max, Len(LinesOf(text)))
<1> DEFINE lines == LinesOf(text)
<1>1. lines \in Seq(Seq(T))
  BY LinesAre
<1> HIDE DEF lines
<1>2. Len(lines) \in 0 .. Len(lines)
  BY <1>1, LenProperties
<1>3. WindowsUpTo(path, lines, max)[Len(lines)] \in WindowsInv(P, path, lines, max, Len(lines))
  BY <1>1, <1>2, WindowsSoFarAre
<1>4. QED
  BY <1>3 DEF Windows, lines

\* The paths so far, each of them once.
UniqueInv(P, paths, n) ==
    {seen \in Seq(P) : /\ ToSet(seen) = {paths[k] : k \in 1 .. n}
                       /\ \A j, k \in 1 .. Len(seen) : seen[j] = seen[k] => j = k}

LEMMA NoPaths ==
    ASSUME NEW P, NEW paths
    PROVE  <<>> \in UniqueInv(P, paths, 0)
<1>1. <<>> \in Seq(P) /\ Len(<<>>) = 0 /\ DOMAIN <<>> = {}
  BY EmptySeq
<1>2. 1 .. 0 = {}
  OBVIOUS
<1>3. QED
  BY <1>1, <1>2 DEF UniqueInv, ToSet

LEMMA PathsAdd ==
    ASSUME NEW P, NEW paths \in Seq(P), NEW n \in 1 .. Len(paths), NEW seen \in UniqueInv(P, paths, n - 1)
    PROVE  AddPath(seen, paths[n]) \in UniqueInv(P, paths, n)
<1> DEFINE path == paths[n]
           longer == Append(seen, path)
<1>1. /\ seen \in Seq(P) /\ ToSet(seen) = {paths[k] : k \in 1 .. n - 1}
      /\ \A j, k \in 1 .. Len(seen) : seen[j] = seen[k] => j = k
  BY DEF UniqueInv
<1>2. path \in P /\ n \in Nat /\ Len(seen) \in Nat /\ DOMAIN seen = 1 .. Len(seen)
  BY <1>1, LenProperties, ElementOfSeq
<1>3. {paths[k] : k \in 1 .. n} = {paths[k] : k \in 1 .. n - 1} \cup {path}
  <2>1. 1 .. n = (1 .. n - 1) \cup {n}
    BY <1>2
  <2>2. QED
    BY <2>1
<1> HIDE DEF path
<1>4. CASE path \in ToSet(seen)
  <2>1. AddPath(seen, path) = seen
    BY <1>4 DEF AddPath
  <2>2. QED
    BY <1>1, <1>3, <1>4, <2>1 DEF UniqueInv, path
<1>5. CASE path \notin ToSet(seen)
  <2>1. AddPath(seen, path) = longer
    BY <1>5 DEF AddPath
  <2>2. longer \in Seq(P) /\ Len(longer) = Len(seen) + 1 /\ longer[Len(seen) + 1] = path
        /\ \A k \in 1 .. Len(seen) : longer[k] = seen[k]
    BY <1>1, <1>2, AppendProperties
  <2>3. ToSet(longer) = ToSet(seen) \cup {path}
    BY <1>1, <1>2, AppendIs
  <2> HIDE DEF longer
  <2>4. \A k \in 1 .. Len(seen) : seen[k] # path
    BY <1>2, <1>5 DEF ToSet
  <2>5. \A k \in 1 .. Len(longer) : k \in 1 .. Len(seen) \/ k = Len(seen) + 1
    BY <1>2, <2>2
  <2>6. \A j, k \in 1 .. Len(longer) : longer[j] = longer[k] => j = k
    BY <1>1, <2>2, <2>4, <2>5
  <2>7. longer \in UniqueInv(P, paths, n)
    BY <1>1, <1>3, <2>2, <2>3, <2>6 DEF UniqueInv
  <2>8. QED
    BY <2>1, <2>7 DEF path
<1>6. QED
  BY <1>4, <1>5

\* The paths that unique_relative_paths has seen.
LEMMA UniqueSoFarIs ==
    ASSUME NEW P, NEW paths \in Seq(P)
    PROVE  /\ UniqueUpTo(paths)[0] = <<>>
           /\ \A n \in 1 .. Len(paths) : UniqueUpTo(paths)[n] = AddPath(UniqueUpTo(paths)[n - 1], paths[n])
           /\ \A n \in 0 .. Len(paths) : UniqueUpTo(paths)[n] \in UniqueInv(P, paths, n)
<1> DEFINE N == Len(paths)
           S == Seq(P)
           Solves(f) == f = [n \in 0 .. N |-> IF n = 0 THEN <<>> ELSE AddPath(f[n - 1], paths[n])]
           step == [p \in (1 .. N) \X S |-> AddPath(p[2], paths[p[1]])]
           inv == [n \in 0 .. N |-> UniqueInv(P, paths, n)]
<1>1. N \in Nat
  BY LenProperties
<1>2. 0 \in 0 .. N /\ \A n \in 1 .. N : n \in 0 .. N /\ n - 1 \in 0 .. N /\ n # 0
  BY <1>1
<1>3. \A n \in 0 .. N : inv[n] \subseteq S
  BY DEF UniqueInv
<1>4. <<>> \in inv[0]
  BY <1>2, NoPaths
<1>5. \A n \in 1 .. N : \A so \in inv[n - 1] : AddPath(so, paths[n]) \in inv[n]
  BY <1>2, PathsAdd
<1>6. ASSUME NEW n \in 1 .. N, NEW so \in inv[n - 1] PROVE step[<<n, so>>] = AddPath(so, paths[n])
  <2> HIDE DEF inv, S
  <2>1. so \in S
    BY <1>2, <1>3
  <2>2. <<n, so>> \in (1 .. N) \X S
    BY <2>1
  <2>3. QED
    BY <2>2
<1> HIDE DEF inv, step, S
<1>7. PICK f \in RunsOf(N, S) : Recurs(f, N, <<>>, step) /\ \A n \in 0 .. N : f[n] \in inv[n]
  <2> HIDE DEF N
  <2>1. ASSUME NEW n \in 1 .. N, NEW so \in inv[n - 1] PROVE step[<<n, so>>] \in inv[n]
    BY <1>5, <1>6
  <2>2. QED
    BY <1>1, <1>3, <1>4, <2>1, KeptRecursion
<1>8. Solves(f)
  <2>1. \A n \in 1 .. N : f[n] = AddPath(f[n - 1], paths[n])
    BY <1>2, <1>6, <1>7 DEF Recurs
  <2>2. f = [n \in 0 .. N |-> f[n]]
    BY <1>7 DEF RunsOf
  <2>3. \A n \in 0 .. N : n # 0 => n \in 1 .. N
    BY <1>1
  <2>4. f[0] = <<>>
    BY <1>7 DEF Recurs
  <2>5. QED
    BY <2>1, <2>2, <2>3, <2>4
<1> DEFINE run == UniqueUpTo(paths)
<1>9. run = CHOOSE g : Solves(g)
  BY DEF UniqueUpTo
<1> HIDE DEF Solves
<1>10. Solves(run)
  BY <1>8, <1>9
<1> HIDE DEF run
<1>11. \A n \in 0 .. N : run[n] = IF n = 0 THEN <<>> ELSE AddPath(run[n - 1], paths[n])
  BY <1>10 DEF Solves
<1>12. run[0] = <<>> /\ \A n \in 1 .. N : run[n] = AddPath(run[n - 1], paths[n])
  BY <1>2, <1>11
<1> DEFINE good == {n \in 0 .. N : run[n] \in inv[n]}
<1>13. 0 \in good
  BY <1>2, <1>4, <1>12
<1>14. \A n \in 0 .. N - 1 : n \in good => n + 1 \in good
  <2> SUFFICES ASSUME NEW n \in 0 .. N - 1, n \in good PROVE n + 1 \in good
    OBVIOUS
  <2>1. n + 1 \in 1 .. N /\ n + 1 \in 0 .. N /\ n + 1 - 1 = n
    BY <1>1
  <2>2. run[n + 1] = AddPath(run[n], paths[n + 1])
    BY <1>12, <2>1
  <2>3. QED
    BY <1>5, <2>1, <2>2
<1>15. 0 .. N \subseteq good
  <2> HIDE DEF good, N
  <2>1. QED
    BY <1>1, <1>13, <1>14, Reaches
<1>16. \A n \in 0 .. N : run[n] \in UniqueInv(P, paths, n)
  BY <1>15 DEF inv
<1>17. QED
  BY <1>12, <1>16 DEF run, N

LEMMA UniqueIs ==
    ASSUME NEW P, NEW paths \in Seq(P)
    PROVE  Unique(paths) \in Seq(P) /\ \A j, k \in 1 .. Len(Unique(paths)) : Unique(paths)[j] = Unique(paths)[k] => j = k
<1>1. Len(paths) \in 0 .. Len(paths)
  BY LenProperties
<1>2. Unique(paths) \in UniqueInv(P, paths, Len(paths))
  BY <1>1, UniqueSoFarIs DEF Unique
<1>3. QED
  BY <1>2 DEF UniqueInv

\* Entries of the kinds K with texts over T.
EntriesOf(K, T) == [kind : K, text : Seq(T)]
SearchesOf(P) == [failed : BOOLEAN, matches : Seq(MatchesOf(P)), warned : SUBSET P]

\* The lines of a file that are searched, and whether all of them have been.
SearchedLines(files, path) == LinesOf(Truncated(files[path].text, SearchMax))
IsSearched(files, path, matches) ==
    /\ files[path].kind \in {"file", "garbled"}
    /\ \A i \in 1 .. Len(LinesOf(files[path].text)) :
          Hit(LinesOf(files[path].text)[i]) =>
             \E k \in 1 .. Len(matches) : matches[k].path = path /\ matches[k].line = i

\* What one target adds, and what is known of it.
TargetGives(P, files, path, max, searched, windows) ==
    /\ windows \in Seq(MatchesOf(P)) /\ Len(windows) <= max
    /\ \A k \in 1 .. Len(windows) : IsWindow(path, SearchedLines(files, path), windows[k])
    /\ \A j, k \in 1 .. Len(windows) : j # k => windows[j].line # windows[k].line
    /\ searched.told # "failed" /\ searched.told \notin {"skipped", "cut"} /\ Len(windows) < max =>
          IsSearched(files, path, windows)

LEMMA TargetIs ==
    ASSUME NEW K, NEW T, NEW P, NEW files \in [P -> EntriesOf(K, T)], NEW path \in P, NEW max \in Nat,
           NEW searched, searched = Searched(files[path]),
           NEW windows, windows = Windows(path, searched.text, max)
    PROVE  TargetGives(P, files, path, max, searched, windows)
<1> DEFINE entry == files[path]
           lines == LinesOf(searched.text)
           empty == ~Resolves(entry) \/ entry.kind = "closed" \/ ~IsFile(entry)
<1>1. entry.text \in Seq(T) /\ SearchMax \in Nat
  BY PromptAssumption DEF EntriesOf
<1>2. searched = IF ~Resolves(entry) \/ entry.kind = "closed" THEN [told |-> "failed", text |-> <<>>]
                 ELSE IF ~IsFile(entry) THEN [told |-> "skipped", text |-> <<>>]
                 ELSE [told |-> IF BytesOf(entry.text) > SearchMax THEN "cut" ELSE "whole",
                       text |-> Truncated(entry.text, SearchMax)]
  BY DEF Searched
<1>3. Truncated(entry.text, SearchMax) \in Seq(T) /\ (BytesOf(entry.text) <= SearchMax => Truncated(entry.text, SearchMax) = entry.text)
  <2> DEFINE text == entry.text
  <2>1. text \in Seq(T)
    BY <1>1
  <2> HIDE DEF text
  <2>2. PICK size \in Nat : IsTruncation(text, SearchMax, size)
    BY <1>1, <2>1, TruncatedIs
  <2>3. QED
    BY <1>1, <2>1, <2>2, TruncationsAre DEF text
<1>4. BytesOf(entry.text) \in Nat
  <2>1. Len(entry.text) \in 0 .. Len(entry.text)
    BY <1>1, LenProperties
  <2>2. QED
    BY <1>1, <2>1, BytesAre DEF BytesOf
<1> HIDE DEF entry
<1>5. searched.text \in Seq(T)
  <2>1. <<>> \in Seq(T)
    BY EmptySeq
  <2>2. QED
    BY <1>2, <1>3, <2>1
<1>6. windows \in WindowsInv(P, path, lines, max, Len(lines))
  BY <1>5, WindowsAre
<1>7. lines \in Seq(Seq(T)) /\ (searched.text = <<>> => lines = <<>>)
  BY <1>5, LinesAre
<1> HIDE DEF lines
<1>8. /\ windows \in Seq(MatchesOf(P)) /\ Len(windows) <= max
      /\ \A k \in 1 .. Len(windows) : IsWindow(path, lines, windows[k])
      /\ \A j, k \in 1 .. Len(windows) : j < k => windows[j].line < windows[k].line
      /\ Len(windows) < max => \A i \in 1 .. Len(lines) : Hit(lines[i]) => \E k \in 1 .. Len(windows) : windows[k].line = i
  BY <1>6 DEF WindowsInv
<1>9. Len(windows) \in Nat /\ \A k \in 1 .. Len(windows) : windows[k] \in MatchesOf(P)
  BY <1>8, LenProperties, ElementOfSeq
<1>10. \A j, k \in 1 .. Len(windows) : j # k => windows[j].line # windows[k].line
  <2>1. \A k \in 1 .. Len(windows) : windows[k].line \in Nat
    BY <1>9 DEF MatchesOf
  <2>2. \A j, k \in 1 .. Len(windows) : j < k \/ k < j \/ j = k
    BY <1>9
  <2>3. QED
    BY <1>8, <2>1, <2>2
<1>11. CASE empty
  <2>1. searched.text = <<>> /\ searched.told \in {"failed", "skipped"}
    BY <1>2, <1>11
  <2>2. lines = <<>> /\ Len(lines) = 0
    BY <1>7, <2>1, EmptySeq
  <2>3. 1 .. Len(windows) = {}
    <3>1. \A k \in 1 .. Len(windows) : windows[k].line \in 1 .. 0
      BY <1>8, <2>2 DEF IsWindow
    <3>2. QED
      BY <3>1
  <2>4. QED
    BY <1>8, <1>10, <2>1, <2>3 DEF TargetGives
<1>12. CASE ~empty
  <2>1. /\ searched.text = Truncated(entry.text, SearchMax) /\ entry.kind \in {"file", "garbled"}
        /\ searched.told = IF BytesOf(entry.text) > SearchMax THEN "cut" ELSE "whole"
    BY <1>2, <1>12 DEF IsFile
  <2>2. lines = SearchedLines(files, path)
    BY <2>1 DEF lines, SearchedLines, entry
  <2>3. ASSUME searched.told \notin {"skipped", "cut"}, Len(windows) < max PROVE IsSearched(files, path, windows)
    <3>1. BytesOf(entry.text) <= SearchMax
      BY <1>1, <1>4, <2>1, <2>3
    <3>2. lines = LinesOf(entry.text)
      BY <1>3, <2>1, <3>1 DEF lines
    <3>3. \A k \in 1 .. Len(windows) : windows[k].path = path
      BY <1>8 DEF IsWindow
    <3>4. QED
      BY <1>8, <2>1, <2>3, <3>2, <3>3 DEF IsSearched, entry
  <2>4. QED
    BY <1>8, <1>10, <2>2, <2>3 DEF TargetGives
<1>13. QED
  BY <1>11, <1>12

\* What the search has found after n targets.
SearchInv(P, files, targets, max, n) ==
    {so \in SearchesOf(P) :
        /\ Len(so.matches) <= max
        /\ \A k \in 1 .. Len(so.matches) :
              /\ IsWindow(so.matches[k].path, SearchedLines(files, so.matches[k].path), so.matches[k])
              /\ \E j \in 1 .. n : so.matches[k].path = targets[j]
        /\ \A j, k \in 1 .. Len(so.matches) :
              j # k => so.matches[j].path # so.matches[k].path \/ so.matches[j].line # so.matches[k].line
        /\ ~so.failed /\ Len(so.matches) < max =>
              \A j \in 1 .. n : targets[j] \notin so.warned => IsSearched(files, targets[j], so.matches)}

LEMMA SearchBegins ==
    ASSUME NEW P, NEW files, NEW targets, NEW max \in Nat
    PROVE  [failed |-> targets = <<>>, matches |-> <<>>, warned |-> {}] \in SearchInv(P, files, targets, max, 0)
<1> DEFINE none == targets = <<>>
           start == [failed |-> none, matches |-> <<>>, warned |-> {}]
<1>1. none \in BOOLEAN
  OBVIOUS
<1>2. <<>> \in Seq(MatchesOf(P)) /\ Len(<<>>) = 0 /\ 1 .. 0 = {} /\ 0 <= max
  BY EmptySeq
<1> HIDE DEF none
<1>3. start \in SearchesOf(P) /\ start.matches = <<>>
  BY <1>1, <1>2 DEF SearchesOf
<1> HIDE DEF start
<1>4. start \in SearchInv(P, files, targets, max, 0)
  BY <1>2, <1>3 DEF SearchInv
<1>5. QED
  BY <1>4 DEF start, none

\* A search of a file stays one when there are more matches.
LEMMA SearchedStays ==
    ASSUME NEW P, NEW files, NEW path, NEW before \in Seq(MatchesOf(P)), NEW after \in Seq(MatchesOf(P)),
           IsSearched(files, path, before) \/ IsSearched(files, path, after)
    PROVE  IsSearched(files, path, before \o after)
<1> DEFINE all == before \o after
<1>1. Len(before) \in Nat /\ Len(after) \in Nat
  BY LenProperties
<1>2. /\ Len(all) = Len(before) + Len(after)
      /\ \A i \in 1 .. Len(before) + Len(after) :
            all[i] = IF i <= Len(before) THEN before[i] ELSE after[i - Len(before)]
  BY ConcatProperties
<1> HIDE DEF all
<1>3. \A k \in 1 .. Len(before) : k \in 1 .. Len(all) /\ all[k] = before[k]
  BY <1>1, <1>2
<1>4. \A k \in 1 .. Len(after) : Len(before) + k \in 1 .. Len(all) /\ all[Len(before) + k] = after[k]
  <2>1. \A k \in 1 .. Len(after) : /\ Len(before) + k \in 1 .. Len(before) + Len(after)
                                   /\ ~(Len(before) + k <= Len(before)) /\ Len(before) + k - Len(before) = k
    BY <1>1
  <2>2. QED
    BY <1>2, <2>1
<1>5. CASE IsSearched(files, path, before)
  BY <1>3, <1>5 DEF IsSearched, all
<1>6. CASE IsSearched(files, path, after)
  BY <1>4, <1>6 DEF IsSearched, all
<1>7. QED
  BY <1>5, <1>6

LEMMA SearchGoesOn ==
    ASSUME NEW K, NEW T, NEW P, NEW files \in [P -> EntriesOf(K, T)], NEW targets \in Seq(P),
           \A j, k \in 1 .. Len(targets) : targets[j] = targets[k] => j = k,
           NEW max \in Nat, NEW n \in 1 .. Len(targets), NEW so \in SearchInv(P, files, targets, max, n - 1)
    PROVE  SearchOne(files, max, so, targets[n]) \in SearchInv(P, files, targets, max, n)
<1> DEFINE path == targets[n]
           searched == Searched(files[path])
           before == so.matches
           room == max - Len(before)
           windows == Windows(path, searched.text, room)
           all == before \o windows
           next == SearchOne(files, max, so, path)
           lost == searched.told = "failed"
           warned == so.warned \cup (IF searched.told \in {"skipped", "cut"} THEN {path} ELSE {})
<1>1. /\ so \in SearchesOf(P) /\ Len(before) <= max
      /\ \A k \in 1 .. Len(before) : /\ IsWindow(before[k].path, SearchedLines(files, before[k].path), before[k])
                                     /\ \E j \in 1 .. n - 1 : before[k].path = targets[j]
      /\ \A j, k \in 1 .. Len(before) : j # k => before[j].path # before[k].path \/ before[j].line # before[k].line
      /\ ~so.failed /\ Len(before) < max =>
            \A j \in 1 .. n - 1 : targets[j] \notin so.warned => IsSearched(files, targets[j], before)
  BY DEF SearchInv
<1>2. before \in Seq(MatchesOf(P)) /\ Len(before) \in Nat /\ path \in P /\ n \in Nat /\ so.warned \subseteq P
  BY <1>1, LenProperties, ElementOfSeq DEF SearchesOf
<1>3. \A j \in 1 .. n - 1 : j \in 1 .. n /\ j \in 1 .. Len(targets) /\ targets[j] # path
  <2>1. Len(targets) \in Nat
    BY LenProperties
  <2>2. \A j \in 1 .. n - 1 : j \in 1 .. n /\ j \in 1 .. Len(targets) /\ j # n
    BY <1>2, <2>1
  <2>3. QED
    BY <2>2
<1>4. n \in 1 .. n /\ \A j \in 1 .. n : j \in 1 .. n - 1 \/ j = n
  BY <1>2
<1>5. CASE so.failed \/ Len(before) >= max
  <2>1. next = so
    BY <1>5 DEF SearchOne
  <2>2. ~(~so.failed /\ Len(before) < max)
    BY <1>2, <1>5
  <2>3. so \in SearchInv(P, files, targets, max, n)
    BY <1>1, <1>3, <2>2 DEF SearchInv
  <2>4. QED
    BY <2>1, <2>3
<1>6. CASE ~(so.failed \/ Len(before) >= max)
  <2>1. next = [failed |-> lost, matches |-> all, warned |-> warned]
    BY <1>6 DEF SearchOne
  <2>2. room \in Nat /\ Len(before) < max
    BY <1>2, <1>6
  <2>3. /\ windows \in Seq(MatchesOf(P)) /\ Len(windows) <= room
        /\ \A k \in 1 .. Len(windows) : IsWindow(path, SearchedLines(files, path), windows[k])
        /\ \A j, k \in 1 .. Len(windows) : j # k => windows[j].line # windows[k].line
        /\ searched.told # "failed" /\ searched.told \notin {"skipped", "cut"} /\ Len(windows) < room =>
              IsSearched(files, path, windows)
    <3>1. searched = Searched(files[path]) /\ windows = Windows(path, searched.text, room)
      OBVIOUS
    <3> HIDE DEF path, room, searched, windows
    <3>2. TargetGives(P, files, path, room, searched, windows)
      BY <1>2, <2>2, <3>1, TargetIs
    <3>3. QED
      BY <3>2 DEF TargetGives
  <2>4. /\ lost \in BOOLEAN /\ warned \in SUBSET P /\ so.warned \subseteq warned
        /\ (searched.told \in {"skipped", "cut"} => path \in warned)
    BY <1>2
  <2> HIDE DEF path, searched, windows, next, before
  <2>5. /\ all \in Seq(MatchesOf(P)) /\ Len(all) = Len(before) + Len(windows) /\ Len(windows) \in Nat
        /\ \A i \in 1 .. Len(before) + Len(windows) :
              all[i] = IF i <= Len(before) THEN before[i] ELSE windows[i - Len(before)]
    BY <1>2, <2>3, ConcatProperties, LenProperties
  <2> HIDE DEF all, lost, warned
  <2>6. \A i \in 1 .. Len(all) : \/ i \in 1 .. Len(before) /\ all[i] = before[i]
                                 \/ /\ i - Len(before) \in 1 .. Len(windows) /\ i \notin 1 .. Len(before)
                                    /\ all[i] = windows[i - Len(before)]
    BY <1>2, <2>5
  <2>7. next \in SearchesOf(P) /\ next.matches = all /\ next.failed = lost /\ next.warned = warned
    BY <2>1, <2>4, <2>5 DEF SearchesOf
  <2>8. Len(all) <= max /\ (Len(all) < max => Len(windows) < room)
    BY <1>2, <2>2, <2>3, <2>5 DEF room
  <2>9. \A k \in 1 .. Len(windows) : windows[k].path = path
    BY <2>3 DEF IsWindow
  <2>10. \A k \in 1 .. Len(all) : /\ IsWindow(all[k].path, SearchedLines(files, all[k].path), all[k])
                                  /\ \E j \in 1 .. n : all[k].path = targets[j]
    <3> SUFFICES ASSUME NEW k \in 1 .. Len(all)
                 PROVE  /\ IsWindow(all[k].path, SearchedLines(files, all[k].path), all[k])
                        /\ \E j \in 1 .. n : all[k].path = targets[j]
      OBVIOUS
    <3>1. CASE k \in 1 .. Len(before) /\ all[k] = before[k]
      BY <1>1, <1>3, <3>1
    <3>2. CASE k - Len(before) \in 1 .. Len(windows) /\ all[k] = windows[k - Len(before)]
      <4>1. all[k].path = path
        BY <2>9, <3>2
      <4>2. path = targets[n]
        BY DEF path
      <4>3. QED
        BY <1>4, <2>3, <3>2, <4>1, <4>2
    <3>3. QED
      BY <2>6, <3>1, <3>2
  <2>11. \A k \in 1 .. Len(before) : before[k].path # path
    BY <1>1, <1>3
  <2>12. \A j, k \in 1 .. Len(all) : j # k => all[j].path # all[k].path \/ all[j].line # all[k].line
    <3> SUFFICES ASSUME NEW j \in 1 .. Len(all), NEW k \in 1 .. Len(all), j # k
                 PROVE  all[j].path # all[k].path \/ all[j].line # all[k].line
      OBVIOUS
    <3> DEFINE Old(i) == i \in 1 .. Len(before) /\ all[i] = before[i]
               New(i) == i - Len(before) \in 1 .. Len(windows) /\ all[i] = windows[i - Len(before)]
    <3>1. (Old(j) \/ New(j)) /\ (Old(k) \/ New(k))
      BY <2>6
    <3>2. CASE Old(j) /\ Old(k)
      BY <1>1, <3>2
    <3>3. CASE Old(j) /\ New(k)
      BY <2>9, <2>11, <3>3
    <3>4. CASE New(j) /\ Old(k)
      BY <2>9, <2>11, <3>4
    <3>5. CASE New(j) /\ New(k)
      <4>1. j - Len(before) # k - Len(before)
        BY <1>2, <2>5
      <4>2. QED
        BY <2>3, <3>5, <4>1
    <3>6. QED
      BY <3>1, <3>2, <3>3, <3>4, <3>5
  <2>13. ASSUME ~lost, Len(all) < max, NEW j \in 1 .. n, targets[j] \notin warned
         PROVE  IsSearched(files, targets[j], all)
    <3>1. CASE j = n
      <4>1. IsSearched(files, path, windows)
        BY <2>3, <2>4, <2>8, <2>13, <3>1 DEF lost, path
      <4>2. QED
        BY <1>2, <2>3, <3>1, <4>1, SearchedStays DEF all, path
    <3>2. CASE j \in 1 .. n - 1
      <4>1. IsSearched(files, targets[j], before)
        BY <1>1, <1>6, <2>2, <2>4, <2>13, <3>2
      <4>2. QED
        BY <1>2, <2>3, <4>1, SearchedStays DEF all
    <3>3. QED
      BY <1>4, <3>1, <3>2
  <2>14. next \in SearchInv(P, files, targets, max, n)
    BY <2>7, <2>8, <2>10, <2>12, <2>13 DEF SearchInv
  <2>15. QED
    BY <2>14 DEF next, path
<1>7. QED
  BY <1>5, <1>6

\* What the loop over the targets has found.
LEMMA SearchSoFarIs ==
    ASSUME NEW K, NEW T, NEW P, NEW files \in [P -> EntriesOf(K, T)], NEW targets \in Seq(P),
           \A j, k \in 1 .. Len(targets) : targets[j] = targets[k] => j = k, NEW max \in Nat
    PROVE  /\ SearchUpTo(files, targets, max)[0] = [failed |-> targets = <<>>, matches |-> <<>>, warned |-> {}]
           /\ \A n \in 1 .. Len(targets) : SearchUpTo(files, targets, max)[n] = SearchOne(files, max, SearchUpTo(files, targets, max)[n - 1], targets[n])
           /\ \A n \in 0 .. Len(targets) : SearchUpTo(files, targets, max)[n] \in SearchInv(P, files, targets, max, n)
<1> DEFINE N == Len(targets)
           S == SearchesOf(P)
           Solves(f) == f = [n \in 0 .. N |-> IF n = 0 THEN [failed |-> targets = <<>>, matches |-> <<>>, warned |-> {}] ELSE SearchOne(files, max, f[n - 1], targets[n])]
           step == [p \in (1 .. N) \X S |-> SearchOne(files, max, p[2], targets[p[1]])]
           inv == [n \in 0 .. N |-> SearchInv(P, files, targets, max, n)]
<1>1. N \in Nat
  BY LenProperties
<1>2. 0 \in 0 .. N /\ \A n \in 1 .. N : n \in 0 .. N /\ n - 1 \in 0 .. N /\ n # 0
  BY <1>1
<1>3. \A n \in 0 .. N : inv[n] \subseteq S
  BY DEF SearchInv
<1>4. [failed |-> targets = <<>>, matches |-> <<>>, warned |-> {}] \in inv[0]
  BY <1>2, SearchBegins
<1>5. \A n \in 1 .. N : \A so \in inv[n - 1] : SearchOne(files, max, so, targets[n]) \in inv[n]
  BY <1>2, SearchGoesOn
<1>6. ASSUME NEW n \in 1 .. N, NEW so \in inv[n - 1] PROVE step[<<n, so>>] = SearchOne(files, max, so, targets[n])
  <2> HIDE DEF inv, S
  <2>1. so \in S
    BY <1>2, <1>3
  <2>2. <<n, so>> \in (1 .. N) \X S
    BY <2>1
  <2>3. QED
    BY <2>2
<1> HIDE DEF inv, step, S
<1>7. PICK f \in RunsOf(N, S) : Recurs(f, N, [failed |-> targets = <<>>, matches |-> <<>>, warned |-> {}], step) /\ \A n \in 0 .. N : f[n] \in inv[n]
  <2> HIDE DEF N
  <2>1. ASSUME NEW n \in 1 .. N, NEW so \in inv[n - 1] PROVE step[<<n, so>>] \in inv[n]
    BY <1>5, <1>6
  <2>2. QED
    BY <1>1, <1>3, <1>4, <2>1, KeptRecursion
<1>8. Solves(f)
  <2>1. \A n \in 1 .. N : f[n] = SearchOne(files, max, f[n - 1], targets[n])
    BY <1>2, <1>6, <1>7 DEF Recurs
  <2>2. f = [n \in 0 .. N |-> f[n]]
    BY <1>7 DEF RunsOf
  <2>3. \A n \in 0 .. N : n # 0 => n \in 1 .. N
    BY <1>1
  <2>4. f[0] = [failed |-> targets = <<>>, matches |-> <<>>, warned |-> {}]
    BY <1>7 DEF Recurs
  <2>5. \A n \in 0 .. N : f[n] = IF n = 0 THEN [failed |-> targets = <<>>, matches |-> <<>>, warned |-> {}] ELSE SearchOne(files, max, f[n - 1], targets[n])
    <3> SUFFICES ASSUME NEW n \in 0 .. N
                 PROVE  f[n] = IF n = 0 THEN [failed |-> targets = <<>>, matches |-> <<>>, warned |-> {}] ELSE SearchOne(files, max, f[n - 1], targets[n])
      OBVIOUS
    <3>1. CASE n = 0
      BY <2>4, <3>1
    <3>2. CASE n # 0
      <4>1. f[n] = SearchOne(files, max, f[n - 1], targets[n])
        BY <2>1, <2>3, <3>2
      <4>2. QED
        BY <3>2, <4>1
    <3>3. QED
      BY <3>1, <3>2
  <2> DEFINE solution == [n \in 0 .. N |-> IF n = 0 THEN [failed |-> targets = <<>>, matches |-> <<>>, warned |-> {}] ELSE SearchOne(files, max, f[n - 1], targets[n])]
  <2>6. solution = [n \in 0 .. N |-> f[n]]
    BY <2>5
  <2>7. QED
    BY <2>2, <2>6
<1> DEFINE run == SearchUpTo(files, targets, max)
<1>9. run = CHOOSE g : Solves(g)
  BY DEF SearchUpTo
<1> HIDE DEF Solves
<1>10. Solves(run)
  BY <1>8, <1>9
<1> HIDE DEF run
<1>11. \A n \in 0 .. N : run[n] = IF n = 0 THEN [failed |-> targets = <<>>, matches |-> <<>>, warned |-> {}] ELSE SearchOne(files, max, run[n - 1], targets[n])
  BY <1>10 DEF Solves
<1>12. run[0] = [failed |-> targets = <<>>, matches |-> <<>>, warned |-> {}] /\ \A n \in 1 .. N : run[n] = SearchOne(files, max, run[n - 1], targets[n])
  BY <1>2, <1>11
<1> DEFINE good == {n \in 0 .. N : run[n] \in inv[n]}
<1>13. 0 \in good
  BY <1>2, <1>4, <1>12
<1>14. \A n \in 0 .. N - 1 : n \in good => n + 1 \in good
  <2> SUFFICES ASSUME NEW n \in 0 .. N - 1, n \in good PROVE n + 1 \in good
    OBVIOUS
  <2>1. n + 1 \in 1 .. N /\ n + 1 \in 0 .. N /\ n + 1 - 1 = n
    BY <1>1
  <2>2. run[n + 1] = SearchOne(files, max, run[n], targets[n + 1])
    BY <1>12, <2>1
  <2>3. QED
    BY <1>5, <2>1, <2>2
<1>15. 0 .. N \subseteq good
  <2> HIDE DEF good, N
  <2>1. QED
    BY <1>1, <1>13, <1>14, Reaches
<1>16. \A n \in 0 .. N : run[n] \in SearchInv(P, files, targets, max, n)
  BY <1>15 DEF inv
<1>17. QED
  BY <1>12, <1>16 DEF run, N

(***************************************************************************)
(* For any files, targets and limit: a memory search shows no line twice   *)
(* as a match, shows each with lines around it, and one that ends well and *)
(* short of the limit has found every line that has the query in every     *)
(* target it has not warned about (MemorySearchTool of memory.rs).         *)
(***************************************************************************)
THEOREM MemorySearchesAreComplete ==
    ASSUME NEW K, NEW T, NEW P, NEW files \in [P -> EntriesOf(K, T)],
           NEW override \in Seq(P), NEW defaults \in Seq(P), NEW max \in Nat
    PROVE  MemorySearchIsComplete(files, override, defaults, max)
<1> DEFINE targets == SearchTargets(override, defaults)
           result == SearchMemory(files, targets, max)
           found == {<<m.path, m.line>> : m \in ToSet(result.matches)}
           pair == [k \in 1 .. Len(result.matches) |-> <<result.matches[k].path, result.matches[k].line>>]
<1>1. targets \in Seq(P) /\ \A j, k \in 1 .. Len(targets) : targets[j] = targets[k] => j = k
  BY UniqueIs DEF SearchTargets
<1> HIDE DEF targets
<1>2. Len(targets) \in 0 .. Len(targets) /\ DOMAIN targets = 1 .. Len(targets)
  BY <1>1, LenProperties
<1>3. result \in SearchInv(P, files, targets, max, Len(targets))
  BY <1>1, <1>2, SearchSoFarIs DEF SearchMemory
<1> HIDE DEF result
<1>4. /\ result \in SearchesOf(P)
      /\ \A k \in 1 .. Len(result.matches) :
            IsWindow(result.matches[k].path, SearchedLines(files, result.matches[k].path), result.matches[k])
      /\ \A j, k \in 1 .. Len(result.matches) :
            j # k => result.matches[j].path # result.matches[k].path \/ result.matches[j].line # result.matches[k].line
      /\ ~result.failed /\ Len(result.matches) < max =>
            \A j \in 1 .. Len(targets) : targets[j] \notin result.warned => IsSearched(files, targets[j], result.matches)
  BY <1>3 DEF SearchInv
<1>5. /\ result.matches \in Seq(MatchesOf(P)) /\ Len(result.matches) \in Nat
      /\ DOMAIN result.matches = 1 .. Len(result.matches)
      /\ \A k \in 1 .. Len(result.matches) : result.matches[k] \in MatchesOf(P)
  BY <1>4, LenProperties, ElementOfSeq DEF SearchesOf
<1>6. found = {pair[k] : k \in 1 .. Len(result.matches)}
  BY <1>5 DEF ToSet
<1>7. Cardinality(found) = Len(result.matches)
  <2> DEFINE size == Len(result.matches)
  <2>1. \A j, k \in 1 .. size : pair[j] = pair[k] => j = k
    BY <1>4
  <2> HIDE DEF found
  <2>2. pair \in Bijection(1 .. size, found)
    <3>1. pair \in [1 .. size -> found]
      BY <1>6
    <3>2. \A t \in found : \E k \in 1 .. size : pair[k] = t
      BY <1>6
    <3> HIDE DEF pair, size
    <3>3. QED
      BY <2>1, <3>1, <3>2 DEF Bijection, Injection, Surjection, IsInjective
  <2>3. IsFiniteSet(1 .. size) /\ Cardinality(1 .. size) = size
    <3>1. size \in Nat
      BY <1>5
    <3> HIDE DEF size
    <3>2. IsFiniteSet(1 .. size) /\ Cardinality(1 .. size) = IF 1 > size THEN 0 ELSE size - 1 + 1
      BY <3>1, FS_Interval
    <3>3. (IF 1 > size THEN 0 ELSE size - 1 + 1) = size
      BY <3>1
    <3>4. QED
      BY <3>2, <3>3
  <2> HIDE DEF pair, size
  <2>4. ExistsBijection(1 .. size, found)
    BY <2>2 DEF ExistsBijection
  <2>5. QED
    BY <2>3, <2>4, FS_Bijection DEF size
<1>8. \A m \in ToSet(result.matches) :
         LET lines == LinesOf(Truncated(files[m.path].text, SearchMax))
         IN  m.line \in m.from .. m.to /\ {m.from, m.to} \subseteq DOMAIN lines /\ Hit(lines[m.line])
  <2> SUFFICES ASSUME NEW m \in ToSet(result.matches)
               PROVE  LET lines == LinesOf(Truncated(files[m.path].text, SearchMax))
                      IN  m.line \in m.from .. m.to /\ {m.from, m.to} \subseteq DOMAIN lines /\ Hit(lines[m.line])
    OBVIOUS
  <2>1. m \in MatchesOf(P) /\ IsWindow(m.path, SearchedLines(files, m.path), m)
    BY <1>4, <1>5 DEF ToSet
  <2>2. m.path \in P
    BY <2>1 DEF MatchesOf
  <2>3. SearchedLines(files, m.path) \in Seq(Seq(T))
    <3> DEFINE text == files[m.path].text
    <3>1. text \in Seq(T) /\ SearchMax \in Nat
      BY <2>2, PromptAssumption DEF EntriesOf
    <3> HIDE DEF text
    <3>2. PICK size \in Nat : IsTruncation(text, SearchMax, size)
      BY <3>1, TruncatedIs
    <3>3. Truncated(text, SearchMax) \in Seq(T)
      BY <3>1, <3>2, TruncationsAre
    <3>4. QED
      BY <3>3, LinesAre DEF SearchedLines, text
  <2>4. DOMAIN SearchedLines(files, m.path) = 1 .. Len(SearchedLines(files, m.path))
    BY <2>3, LenProperties
  <2>5. QED
    BY <2>1, <2>4 DEF IsWindow, SearchedLines
<1>9. ASSUME ~result.failed, Len(result.matches) < max, NEW path \in ToSet(targets) \ result.warned
      PROVE  /\ files[path].kind \in {"file", "garbled"}
             /\ \A i \in DOMAIN LinesOf(files[path].text) : Hit(LinesOf(files[path].text)[i]) => <<path, i>> \in found
  <2>1. IsSearched(files, path, result.matches)
    BY <1>2, <1>4, <1>9 DEF ToSet
  <2>2. path \in P
    BY <1>1, <1>2, ElementOfSeq DEF ToSet
  <2>3. LinesOf(files[path].text) \in Seq(Seq(T))
    BY <2>2, LinesAre DEF EntriesOf
  <2>4. DOMAIN LinesOf(files[path].text) = 1 .. Len(LinesOf(files[path].text))
    BY <2>3, LenProperties
  <2>5. \A k \in 1 .. Len(result.matches) : <<result.matches[k].path, result.matches[k].line>> \in found
    BY <1>6
  <2> HIDE DEF found
  <2>6. QED
    BY <2>1, <2>4, <2>5 DEF IsSearched
<1> HIDE DEF found
<1>10. QED
  BY <1>7, <1>8, <1>9 DEF MemorySearchIsComplete, targets, result, found

-----------------------------------------------------------------------------
(* Files read page by page *)

(***************************************************************************)
(* A file is read page by page without a gap or a line twice, wherever a   *)
(* page begins and however long it may be, and a page tells that it is not *)
(* the whole file (read_workspace_file, slice_lines).                      *)
(***************************************************************************)
THEOREM PagesAlwaysJoin ==
    ASSUME NEW T, NEW lines \in Seq(T), NEW offset \in Nat \ {0}, NEW limit \in Nat \ {0}
    PROVE  PagesJoin(lines, offset, limit)
<1> DEFINE total == Len(lines)
           start == IF offset - 1 < total THEN offset - 1 ELSE total
           end == IF start + limit > total THEN total ELSE start + limit
           page == SliceLines(lines, offset, limit)
           next == SliceLines(lines, offset + limit, NoLimit)
           rest == SliceLines(lines, offset, NoLimit)
<1>1. total \in Nat
  BY LenProperties
<1> HIDE DEF total
<1>2. start \in Nat /\ end \in Nat /\ start <= end /\ end <= total
  BY <1>1
<1>3. page.lines = SubSeq(lines, start + 1, end) /\ page.truncated = (start > 0 \/ end < total)
  BY DEF SliceLines, NoLimit, total
<1>4. rest.lines = SubSeq(lines, start + 1, total)
  BY DEF SliceLines, NoLimit, total
<1>5. next.lines = SubSeq(lines, end + 1, total)
  <2> DEFINE after == IF offset + limit - 1 < total THEN offset + limit - 1 ELSE total
  <2>1. next.lines = SubSeq(lines, after + 1, total)
    BY DEF SliceLines, NoLimit, total
  <2>2. after = end
    BY <1>1
  <2>3. QED
    BY <2>1, <2>2
<1> HIDE DEF start, end, page, next, rest
<1>6. page.lines \o next.lines = rest.lines
  <2>1. start + 1 \in 1 .. total + 1 /\ end \in (start + 1) - 1 .. total /\ total \in end .. total
    BY <1>1, <1>2
  <2>2. SubSeq(lines, start + 1, end) \o SubSeq(lines, end + 1, total) = SubSeq(lines, start + 1, total)
    BY <2>1, ConcatAdjacentSubSeq DEF total
  <2>3. QED
    BY <1>3, <1>4, <1>5, <2>2
<1>7. page.truncated <=> page.lines # lines
  <2>1. CASE start = 0 /\ end = total
    <3>1. page.lines = SubSeq(lines, 1, total)
      BY <1>3, <2>1
    <3>2. page.lines = lines
      BY <3>1, SubSeqFull DEF total
    <3>3. ~(start > 0 \/ end < total)
      BY <1>1, <2>1
    <3>4. QED
      BY <1>3, <3>2, <3>3, Zenon
  <2>2. CASE start > 0 \/ end < total
    <3>1. Len(SubSeq(lines, start + 1, end)) = end - start
      <4>1. start + 1 \in Int /\ end \in Int /\ \A i \in start + 1 .. end : lines[i] \in T
        <5>1. \A i \in start + 1 .. end : i \in 1 .. Len(lines)
          BY <1>1, <1>2 DEF total
        <5>2. QED
          BY <1>2, <5>1, ElementOfSeq
      <4>2. Len(SubSeq(lines, start + 1, end)) = IF start + 1 <= end THEN end - (start + 1) + 1 ELSE 0
        BY <4>1, SubSeqProperties
      <4>3. QED
        BY <1>2, <4>2
    <3>2. end - start # total
      BY <1>1, <1>2, <2>2
    <3>3. page.lines # lines
      BY <1>3, <3>1, <3>2 DEF total
    <3>4. QED
      BY <1>3, <2>2, <3>3
  <2>3. QED
    BY <1>1, <1>2, <2>1, <2>2
<1>8. QED
  BY <1>6, <1>7 DEF PagesJoin, page, next, rest

-----------------------------------------------------------------------------
TreeEntries == {EntryAt(entry, depth) : entry \in Entries \cup Common, depth \in 1 .. 3}
SearchPaths == {"memory", "notes"}
TextKinds == {"file", "garbled", "closed", "dir", "missing", "outside", "refused"}
TextCharacters == {"a", "wide", "newline", "blank"}

SearchCallIsTyped ==
    /\ Asks("tree") => call.tree \in TreesThatCount(TreeEntries)
    /\ Asks("lines") => call.lines \in Seq(Int) /\ call.offset \in Nat \ {0} /\ call.limit \in Nat \ {0}
    /\ Asks("memory") => /\ call.files \in [SearchPaths -> EntriesOf(TextKinds, TextCharacters)]
                         /\ call.override \in Seq(SearchPaths) /\ call.max \in Nat

LEMMA TreesAreTyped == Trees \subseteq TreesThatCount(TreeEntries)
<1> SUFFICES ASSUME NEW tree \in Trees PROVE tree \in TreesThatCount(TreeEntries)
  OBVIOUS
<1>1. 0 .. 3 \in SUBSET Nat /\ {4} \in SUBSET Nat
  OBVIOUS
<1>2. {EntryAt(entry, depth) : entry \in Entries, depth \in 1 .. 3} \subseteq TreeEntries
  BY DEF TreeEntries
<1>3. {EntryAt(entry, depth) : entry \in Common, depth \in 1 .. 3} \subseteq TreeEntries
  BY DEF TreeEntries
<1>4. TreesOf(Entries, 0 .. 3) \subseteq Seq(TreeEntries)
  BY <1>1, <1>2, SeqsAreSeqs DEF TreesOf
<1>5. TreesOf(Common, {4}) \subseteq Seq(TreeEntries)
  BY <1>1, <1>3, SeqsAreSeqs DEF TreesOf
<1>6. tree \in Seq(TreeEntries)
  BY <1>4, <1>5 DEF Trees
<1>7. \A entry \in Entries \cup Common : entry.hits \in Nat
  BY DEF Entries, Common, File, Dir
<1>8. \A e \in TreeEntries : e.hits \in Nat
  BY <1>7 DEF TreeEntries, EntryAt
<1>9. QED
  BY <1>6, <1>8, ElementOfSeq DEF TreesThatCount

LEMMA TextInputs ==
    /\ \A text \in Seq(TextCharacters), kind \in TextKinds : Entry(kind, text) \in EntriesOf(TextKinds, TextCharacters)
    /\ <<>> \in Seq(TextCharacters) /\ Odd \subseteq EntriesOf(TextKinds, TextCharacters)
    /\ SearchedTexts \subseteq Seq(TextCharacters)
<1> DEFINE C == TextCharacters
<1>1. \A text \in Seq(C), kind \in TextKinds : Entry(kind, text) \in EntriesOf(TextKinds, C)
  BY DEF Entry, EntriesOf
<1>2. "a" \in C /\ "wide" \in C /\ "newline" \in C /\ "blank" \in C
  BY DEF TextCharacters
<1> HIDE DEF C
<1>3. <<>> \in Seq(C) /\ <<"a">> \in Seq(C)
  BY <1>2, EmptySeq, ShortSeqs, Zenon
<1>4. /\ \A a, b, c \in C : <<a, b, c>> \in Seq(C)
      /\ \A a, b, c, d \in C : <<a, b, c, d>> \in Seq(C)
      /\ \A a, b, c, d, e \in C : <<a, b, c, d, e>> \in Seq(C)
  OBVIOUS
<1>5. Odd \subseteq EntriesOf(TextKinds, C)
  <2>1. /\ "missing" \in TextKinds /\ "dir" \in TextKinds /\ "outside" \in TextKinds /\ "refused" \in TextKinds
        /\ "garbled" \in TextKinds /\ "closed" \in TextKinds
    BY DEF TextKinds
  <2>2. QED
    BY <1>1, <1>3, <2>1 DEF Odd, NoFiles, C
<1>6. SearchedTexts \subseteq Seq(C)
  <2>1. <<"blank", "newline", "a">> \in Seq(C)
    BY <1>2, <1>4, Zenon
  <2>2. <<"a", "newline", "a", "newline", "a">> \in Seq(C)
    BY <1>2, <1>4, Zenon
  <2>3. <<"a", "newline", "wide", "newline", "a">> \in Seq(C)
    BY <1>2, <1>4, Zenon
  <2>4. <<"newline", "newline", "a", "newline">> \in Seq(C)
    BY <1>2, <1>4, Zenon
  <2>5. QED
    BY <1>3, <2>1, <2>2, <2>3, <2>4, Zenon DEF SearchedTexts
<1>7. QED
  BY <1>1, <1>3, <1>5, <1>6 DEF C

LEMMA FileLinesAreSeqs == FileLines \subseteq Seq(Int)
<1> SUFFICES ASSUME NEW n \in 0 .. 4 PROVE [i \in 1 .. n |-> i] \in Seq(Int)
  BY DEF FileLines
<1>1. n \in Nat /\ [i \in 1 .. n |-> i] \in [1 .. n -> Int]
  OBVIOUS
<1>2. QED
  BY <1>1, SeqDef

LEMMA SearchCallsAreTyped == Spec => []SearchCallIsTyped
<1>1. Init => SearchCallIsTyped
  BY DEF Init, SearchCallIsTyped, Asks
<1>2. SearchedFiles \subseteq [SearchPaths -> EntriesOf(TextKinds, TextCharacters)]
  <2>1. \A text \in SearchedTexts : Entry("file", text) \in EntriesOf(TextKinds, TextCharacters)
    <3>1. "file" \in TextKinds
      BY DEF TextKinds
    <3>2. QED
      BY <3>1, TextInputs
  <2>2. QED
    BY <2>1, TextInputs DEF SearchedFiles, SearchPaths
<1>3. SeqsOf({"memory", "notes"}, 0 .. 3) \subseteq Seq(SearchPaths)
  <2>1. 0 .. 3 \in SUBSET Nat
    OBVIOUS
  <2>2. QED
    BY <2>1, SeqsAreSeqs DEF SearchPaths
<1>4. SearchCallIsTyped /\ [Next]_call => SearchCallIsTyped'
  <2> SUFFICES ASSUME SearchCallIsTyped, [Next]_call PROVE SearchCallIsTyped'
    OBVIOUS
  <2>1. CASE SearchCalls
    <3>1. CASE \E glob \in Globs, name \in Names : call' = [kind |-> "glob", glob |-> glob, text |-> name]
      BY <3>1 DEF SearchCallIsTyped, Asks
    <3>2. CASE \E glob \in PathGlobs, slash \in BOOLEAN, path \in PathsOf :
                  (~slash => Len(glob) <= 1) /\ call' = [kind |-> "path", glob |-> glob, slash |-> slash, text |-> path]
      BY <3>2 DEF SearchCallIsTyped, Asks
    <3>6. CASE \E lines \in FileLines, offset \in 1 .. 6, limit \in 1 .. 5 :
                  call' = [kind |-> "lines", lines |-> lines, offset |-> offset, limit |-> limit]
      <4>1. PICK lines \in FileLines, offset \in 1 .. 6, limit \in 1 .. 5 :
              call' = [kind |-> "lines", lines |-> lines, offset |-> offset, limit |-> limit]
        BY <3>6
      <4>2. lines \in Seq(Int) /\ offset \in Nat \ {0} /\ limit \in Nat \ {0}
        BY FileLinesAreSeqs
      <4>3. call'.kind = "lines" /\ call'.lines = lines /\ call'.offset = offset /\ call'.limit = limit
        BY <4>1
      <4>4. QED
        BY <4>2, <4>3 DEF SearchCallIsTyped, Asks
    <3>3. CASE \E tree \in Trees : call' = [kind |-> "tree", tree |-> tree]
      BY <3>3, TreesAreTyped DEF SearchCallIsTyped, Asks
    <3>4. CASE \E files \in SearchedFiles, override \in SeqsOf({"memory", "notes"}, 0 .. 3), max \in 1 .. 3 :
                  call' = [kind |-> "memory", files |-> files, override |-> override, max |-> max]
      <4>1. PICK files \in SearchedFiles, override \in SeqsOf({"memory", "notes"}, 0 .. 3), max \in 1 .. 3 :
              call' = [kind |-> "memory", files |-> files, override |-> override, max |-> max]
        BY <3>4
      <4>2. files \in [SearchPaths -> EntriesOf(TextKinds, TextCharacters)] /\ override \in Seq(SearchPaths) /\ max \in Nat
        BY <1>2, <1>3
      <4>3. call'.kind = "memory" /\ call'.files = files /\ call'.override = override /\ call'.max = max
        BY <4>1
      <4>4. QED
        BY <4>2, <4>3 DEF SearchCallIsTyped, Asks
    <3>5. QED
      BY <2>1, <3>1, <3>2, <3>3, <3>4, <3>6, Zenon DEF SearchCalls
  <2>2. CASE Next /\ ~SearchCalls
    BY <2>2, KindsAreOf DEF KindsOf, Next, SearchCallIsTyped, Asks
  <2>3. CASE call' = call
    BY <2>3 DEF SearchCallIsTyped, Asks
  <2>4. QED
    BY <2>1, <2>2, <2>3
<1>5. QED
  BY <1>1, <1>4, PTL DEF Spec

(***************************************************************************)
(* What MCAlgorithms checks of searches on its small trees and files holds *)
(* under every limit and for every size of what is read of a file, as      *)
(* TreeSearchesAreComplete, PagesAlwaysJoin and MemorySearchesAreComplete  *)
(* hold of every input.                                                    *)
(***************************************************************************)
THEOREM SearchesCompleteInCalls == Spec => []SearchesAreComplete
<1>1. SearchCallIsTyped => SearchesAreComplete
  <2> SUFFICES ASSUME SearchCallIsTyped PROVE SearchesAreComplete
    OBVIOUS
  <2>1. ASSUME Asks("tree")
        PROVE  /\ \A max \in 1 .. 3, maxFiles \in 1 .. 3, maxFound \in 1 .. 3 :
                     max <= maxFound => SearchIsComplete(call.tree, max, maxFiles, maxFound)
               /\ \A recursive \in BOOLEAN, max \in 1 .. 3 : ListingTellsCut(call.tree, recursive, max)
    <3>1. call.tree \in TreesThatCount(TreeEntries)
      BY <2>1 DEF SearchCallIsTyped
    <3>2. 1 .. 3 \subseteq Nat \ {0}
      OBVIOUS
    <3>3. QED
      BY <3>1, <3>2, TreeSearchesAreComplete
  <2>2. ASSUME Asks("memory") PROVE MemorySearchIsComplete(call.files, call.override, <<"memory">>, call.max)
    <3>1. "memory" \in SearchPaths
      BY DEF SearchPaths
    <3>2. <<"memory">> \in Seq(SearchPaths)
      BY <3>1, ShortSeqs, Zenon
    <3>3. QED
      BY <2>2, <3>2, MemorySearchesAreComplete DEF SearchCallIsTyped
  <2>3. Asks("lines") => PagesJoin(call.lines, call.offset, call.limit)
    BY PagesAlwaysJoin DEF SearchCallIsTyped
  <2>4. QED
    BY <2>1, <2>2, <2>3 DEF SearchesAreComplete
<1>2. QED
  BY <1>1, SearchCallsAreTyped, PTL
=============================================================================
