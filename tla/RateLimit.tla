------------------------------- MODULE RateLimit -------------------------------
(***************************************************************************)
(* The tenant limiter of internal/api/middleware/tenant.go, for one tenant *)
(* (every request is "demo-tenant-1"): getBucket finds or creates the      *)
(* tenant's bucket in two critical sections, Allow takes a token in one.   *)
(***************************************************************************)
EXTENDS Integers, Sequences, FiniteSets

CONSTANTS
  Requests,  \* concurrent requests of the tenant
  Rps,       \* tokens, maxTokens and refillRate of a new bucket
  Ticks,     \* clock ticks of a second
  MaxTime    \* bound: the clock

RateAssumption == Rps \in Nat \ {0} /\ Ticks \in Nat \ {0} /\ MaxTime \in Nat

VARIABLES
  now,
  buckets,   \* every bucket ever created, in order
  current,   \* the bucket in the map, 0 if there is none
  request,   \* per request: where it is, and the bucket it got
  granted,   \* per bucket, the ticks at which it let a request through (history)
  unserved   \* ticks in a row at which the tenant asked and got nothing (history)

vars == <<now, buckets, current, request, granted, unserved>>

Waiting == [at |-> "waiting", bucket |-> 0]

Init ==
  /\ now = 0 /\ buckets = <<>> /\ current = 0
  /\ request = [r \in Requests |-> Waiting]
  /\ granted = <<>>
  /\ unserved = [ticks |-> 0, asked |-> FALSE, served |-> FALSE]

\* A second has Ticks ticks.  unserved is kept per tick.
Tick ==
  /\ now < MaxTime /\ now' = now + 1
  /\ unserved' = [ticks |-> IF unserved.asked /\ ~ unserved.served THEN unserved.ticks + 1 ELSE 0,
                  asked |-> FALSE, served |-> FALSE]
  /\ UNCHANGED <<buckets, current, request, granted>>

\* getBucket under the read lock.
Lookup(r) ==
  /\ request[r].at = "waiting"
  /\ request' = [request EXCEPT ![r] =
       IF current = 0 THEN [at |-> "missed", bucket |-> 0] ELSE [at |-> "holding", bucket |-> current]]
  /\ UNCHANGED <<now, buckets, current, granted, unserved>>

NewBucket == [tokens |-> Rps, last |-> now]

\* getBucket under the write lock: the map is not looked at again.
Create(r) ==
  /\ request[r].at = "missed"
  /\ buckets' = Append(buckets, NewBucket)
  /\ granted' = Append(granted, <<>>)
  /\ current' = Len(buckets')
  /\ request' = [request EXCEPT ![r] = [at |-> "holding", bucket |-> Len(buckets')]]
  /\ UNCHANGED <<now, unserved>>

AtMost(max, n) == IF n > max THEN max ELSE n

\* Mutant of Refilled: the part of a token is rounded up.
RefilledRoundedUp(b) == AtMost(Rps, b.tokens + ((now - b.last) * Rps + Ticks - 1) \div Ticks)

\* The tokens after a refill; int() drops the part of a token.
Refilled(b) == AtMost(Rps, b.tokens + ((now - b.last) * Rps) \div Ticks)

\* Allow: refill, then take a token if there is one.  A refused request answers
\* 429, the other goes on to the next handler; the request's goroutine is free again.
Allow(r) ==
  LET b == request[r].bucket
      n == Refilled(buckets[b])
      ok == n > 0
  IN
  /\ request[r].at = "holding"
  /\ buckets' = [buckets EXCEPT ![b] = [tokens |-> IF ok THEN n - 1 ELSE n, last |-> now]]
  /\ granted' = IF ok THEN [granted EXCEPT ![b] = Append(@, now)] ELSE granted
  /\ unserved' = [unserved EXCEPT !.asked = TRUE, !.served = @ \/ ok]
  /\ request' = [request EXCEPT ![r] = Waiting]
  /\ UNCHANGED <<now, current>>

Next == Tick \/ \E r \in Requests : Lookup(r) \/ Create(r) \/ Allow(r)

Spec == Init /\ [][Next]_vars

--------------------------------------------------------------------------------
(* Properties.                                                              *)

\* What a tenant may use from tick t to tick u: the burst and the refill.
Allowance(t, u) == Rps + ((u - t) * Rps) \div Ticks

\* Over any stretch of time, however requests interleave and however long the bucket
\* was idle before, one bucket lets through no more than a full bucket and the
\* refill of that time (TokenBucket.Allow).  The stretches that matter begin and end
\* with a request let through.
BucketEnvelope ==
  \A b \in DOMAIN buckets : \A i, j \in DOMAIN granted[b] :
    i <= j => j - i + 1 <= Allowance(granted[b][i], granted[b][j])

--------------------------------------------------------------------------------
(* What the documentation says and the code does not keep.                  *)

\* The tenant as a whole stays within its rate ("strict noisy-neighbor protection"):
\* two first requests each create a bucket, and both buckets are used.
TenantEnvelope ==
  \A t, u \in 0 .. now : t <= u =>
    Cardinality(UNION {{<<b, i>> : i \in {j \in DOMAIN granted[b] : granted[b][j] \in t .. u}} :
                       b \in DOMAIN buckets}) <= Allowance(t, u)

\* A tenant that keeps asking is throttled, not shut out ("smoothly throttling
\* sustained abusive queries"): within a second something is let through.
ThrottledNotStarved == unserved.ticks < Ticks
================================================================================
