----------------------------- MODULE ServicesProofs ----------------------------
(***************************************************************************)
(* Proofs about the services of MCServices: the log buffer for every       *)
(* capacity, the metrics, the buckets of the tenant limiter for every      *)
(* rate, the documents for all names without a colon, and the hash ring.   *)
(***************************************************************************)
EXTENDS MCServices, FiniteSetTheorems, WellFoundedInduction, TLAPS

--------------------------------------------------------------------------------
(* The log buffer.                                                          *)

\* Where each entry comes from: those before the write position are the last ones
\* written, and once the buffer is full those from it on are the ones before.
IInv ==
  /\ TypeOK
  /\ written \in Seq(Messages)
  /\ count < capacity => index = count /\ Len(written) = count
  /\ count = capacity => Len(written) >= capacity
  /\ \A i \in 0 .. capacity - 1 :
       i < index => entries[i] = written[Len(written) - index + i + 1]
  /\ count = capacity =>
       \A i \in 0 .. capacity - 1 :
         i >= index => entries[i] = written[Len(written) - capacity - index + i + 1]

\* The position after i, wrapped (Write: (b.index + 1) % b.capacity).
LEMMA WrapLemma ==
  ASSUME NEW i \in 0 .. capacity - 1
  PROVE  (i + 1) % capacity = IF i + 1 = capacity THEN 0 ELSE i + 1
BY CapacityAssumption, SMTT(30)

\* A Write puts its message where GetEntries will find it (Write).
LEMMA WriteKeepsIInv ==
  ASSUME IInv, NEW m \in Messages, Write(m)
  PROVE  IInv'
<1> USE CapacityAssumption
<1> index \in 0 .. capacity - 1 /\ count \in 0 .. capacity
  BY DEF IInv, TypeOK
<1>1. index' = IF index + 1 = capacity THEN 0 ELSE index + 1
  BY WrapLemma DEF Write
<1>2. /\ Len(written') = Len(written) + 1
      /\ written' \in Seq(Messages)
      /\ written'[Len(written) + 1] = m
      /\ \A j \in 1 .. Len(written) : written'[j] = written[j]
  BY DEF Write, IInv
<1>3. /\ entries'[index] = m
      /\ \A i \in 0 .. capacity - 1 : i # index => entries'[i] = entries[i]
  BY DEF Write, IInv, TypeOK
<1>4. TypeOK'
  BY <1>1 DEF IInv, TypeOK, Write, Counted
<1>5. count' = IF count < capacity THEN count + 1 ELSE count
  BY DEF Write, Counted
<1>6. count' < capacity => index' = count' /\ Len(written') = count'
  BY <1>1, <1>2, <1>5 DEF IInv
<1>7. Len(written) \in Nat /\ count <= Len(written)
  BY DEF IInv
<1>8. count' = capacity => Len(written') >= capacity
  BY <1>2, <1>5, <1>7 DEF IInv
<1>9. ASSUME NEW i \in 0 .. capacity - 1, i < index'
      PROVE  entries'[i] = written'[Len(written') - index' + i + 1]
  <2>1. CASE i = index
    BY <2>1, <1>1, <1>2, <1>3, <1>7, <1>9
  <2>2. CASE i # index
    <3>1. i < index /\ index' = index + 1
      BY <2>2, <1>1, <1>9
    <3>2. entries'[i] = written[Len(written) - index + i + 1]
      BY <3>1, <1>3 DEF IInv
    <3>3. Len(written) - index + i + 1 \in 1 .. Len(written)
      BY <3>1, <1>7 DEF IInv
    <3>4. Len(written') - index' + i + 1 = Len(written) - index + i + 1
      BY <3>1, <1>2, <1>7
    <3> QED
      BY <3>2, <3>3, <3>4, <1>2
  <2> QED
    BY <2>1, <2>2
<1>10. ASSUME count' = capacity, NEW i \in 0 .. capacity - 1, i >= index'
       PROVE  entries'[i] = written'[Len(written') - capacity - index' + i + 1]
  <2>1. CASE index + 1 = capacity
    <3>1. index' = 0 /\ Len(written) >= index
      BY <2>1, <1>1, <1>7 DEF IInv
    <3>2. CASE i = index
      BY <3>1, <3>2, <2>1, <1>2, <1>3, <1>7
    <3>3. CASE i < index
      <4>1. entries'[i] = written[Len(written) - index + i + 1]
        BY <3>3, <1>3 DEF IInv
      <4>2. Len(written) - index + i + 1 \in 1 .. Len(written)
        BY <3>1, <3>3, <1>7
      <4>3. Len(written') - capacity - index' + i + 1 = Len(written) - index + i + 1
        BY <3>1, <2>1, <1>2, <1>7
      <4> QED
        BY <4>1, <4>2, <4>3, <1>2
    <3> QED
      BY <3>2, <3>3, <2>1
  <2>2. CASE index + 1 # capacity
    <3>1. index' = index + 1 /\ i > index
      BY <2>2, <1>1, <1>10
    <3>2. count = capacity
      BY <2>2, <1>5, <1>10 DEF IInv
    <3>3. entries'[i] = written[Len(written) - capacity - index + i + 1]
      BY <3>1, <3>2, <1>3 DEF IInv
    <3>4. Len(written) - capacity - index + i + 1 \in 1 .. Len(written)
      BY <3>1, <3>2, <1>7 DEF IInv
    <3>5. Len(written') - capacity - index' + i + 1 = Len(written) - capacity - index + i + 1
      BY <3>1, <1>2, <1>7
    <3> QED
      BY <3>3, <3>4, <3>5, <1>2
  <2> QED
    BY <2>1, <2>2
<1> QED
  BY <1>2, <1>4, <1>6, <1>8, <1>9, <1>10 DEF IInv

\* The log buffer keeps the invariant through any number of writes.
THEOREM BufferInvariant == Spec => []IInv
<1>1. Init => IInv
  BY CapacityAssumption DEF Init, IInv, TypeOK
<1>2. IInv /\ [Next]_vars => IInv'
  <2> SUFFICES ASSUME IInv, [Next]_vars PROVE IInv'
    OBVIOUS
  <2>1. CASE \E m \in Messages : Write(m)
    BY <2>1, WriteKeepsIInv
  <2>2. CASE UNCHANGED vars
    BY <2>2 DEF IInv, TypeOK, vars
  <2> QED
    BY <2>1, <2>2 DEF Next
<1> QED
  BY <1>1, <1>2, PTL DEF Spec

\* What GetEntries returns of a buffer in a good state.
LEMMA EntriesLemma ==
  ASSUME IInv
  PROVE  EntriesAreRecent
<1> USE CapacityAssumption
<1>1. /\ index \in 0 .. capacity - 1 /\ count \in 0 .. capacity
      /\ Len(written) \in Nat /\ count <= Len(written)
  BY DEF IInv, TypeOK
<1>2. count = IF Len(written) < capacity THEN Len(written) ELSE capacity
  BY <1>1 DEF IInv
<1>3. ASSUME NEW i \in 1 .. count
      PROVE  GetEntries[i] = written[Len(written) - count + i]
  <2>1. CASE count < capacity
    <3>1. GetEntries[i] = entries[i - 1]
      BY <2>1 DEF GetEntries
    <3>2. i - 1 \in 0 .. capacity - 1 /\ i - 1 < index /\ index = count
      BY <1>1, <2>1 DEF IInv
    <3>3. entries[i - 1] = written[Len(written) - index + (i - 1) + 1]
      BY <3>2 DEF IInv
    <3> QED
      BY SMTT(30), <3>1, <3>2, <3>3, <1>1
  <2>2. CASE count = capacity /\ i <= capacity - index
    <3>1. GetEntries[i] = entries[index + i - 1]
      BY <2>2 DEF GetEntries
    <3>2. index + i - 1 \in 0 .. capacity - 1 /\ index + i - 1 >= index
      BY <1>1, <2>2
    <3>3. entries[index + i - 1]
            = written[Len(written) - capacity - index + (index + i - 1) + 1]
      BY <3>2, <2>2 DEF IInv
    <3> QED
      BY <3>1, <3>3, <1>1, <2>2
  <2>3. CASE count = capacity /\ ~ (i <= capacity - index)
    <3> DEFINE j == i - (capacity - index) - 1
    <3>1. GetEntries[i] = entries[j]
      BY <2>3 DEF GetEntries
    <3>2. j \in 0 .. capacity - 1 /\ j < index
      BY <1>1, <2>3
    <3>3. entries[j] = written[Len(written) - index + j + 1]
      BY <3>2 DEF IInv
    <3>4. Len(written) - index + j + 1 = Len(written) - count + i
      BY <1>1, <2>3
    <3> QED
      BY <3>1, <3>3, <3>4
  <2> QED
    BY <2>1, <2>2, <2>3, <1>1
<1> QED
  BY <1>2, <1>3 DEF EntriesAreRecent

\* GetEntries returns the last messages, oldest first, for every capacity and however
\* often the buffer has wrapped.
THEOREM EntriesCorrect == Spec => []EntriesAreRecent
BY BufferInvariant, EntriesLemma, PTL
--------------------------------------------------------------------------------
(* The counters of Metrics.                                                 *)

Counting == {r \in Requests : at[r] = "counted"}

CountersInv ==
  /\ at \in [Requests -> {"new", "counted", "done"}]
  /\ reads \in Nat /\ tempReads \in Nat /\ rates \in Nat /\ ticker \in Nat \cup {-1}
  /\ IsFiniteSet(Counting)
  /\ reads = rates + tempReads + (IF ticker >= 0 THEN ticker ELSE 0) + Cardinality(Counting)

LEMMA CountersInit == ASSUME Counters!Init PROVE CountersInv
<1>1. Counting = {}
  BY DEF Counting, Counters!Init
<1> QED BY <1>1, FS_EmptySet DEF CountersInv, Counters!Init

LEMMA CountersStep ==
  ASSUME CountersInv, Counters!Next \/ UNCHANGED metricsVars
  PROVE  CountersInv'
<1> USE DEF CountersInv
<1>0. Cardinality(Counting) \in Nat
  BY FS_CardinalityType
<1>1. ASSUME NEW r \in Requests, Counters!IncTotal(r)
      PROVE  CountersInv'
  <2>1. Counting' = Counting \cup {r} /\ r \notin Counting
    BY <1>1 DEF Counting, Counters!IncTotal
  <2>2. IsFiniteSet(Counting') /\ Cardinality(Counting') = Cardinality(Counting) + 1
    BY <2>1, FS_AddElement
  <2> QED BY <1>0, <1>1, <2>2 DEF Counters!IncTotal
<1>2. ASSUME NEW r \in Requests, Counters!IncTemp(r)
      PROVE  CountersInv'
  <2>1. Counting' = Counting \ {r} /\ r \in Counting
    BY <1>2 DEF Counting, Counters!IncTemp
  <2>2. IsFiniteSet(Counting') /\ Cardinality(Counting') = Cardinality(Counting) - 1
    BY <2>1, FS_RemoveElement
  <2>3. Cardinality(Counting') \in Nat
    BY <2>2, FS_CardinalityType
  <2> QED BY <1>0, <1>2, <2>2, <2>3 DEF Counters!IncTemp
<1>3. CASE Counters!Swap
  <2>1. Counting' = Counting
    BY <1>3 DEF Counting, Counters!Swap
  <2> QED BY <1>0, <1>3, <2>1 DEF Counters!Swap
<1>4. CASE Counters!StoreRate
  <2>1. Counting' = Counting
    BY <1>4 DEF Counting, Counters!StoreRate
  <2> QED BY <1>0, <1>4, <2>1 DEF Counters!StoreRate
<1>5. CASE UNCHANGED metricsVars
  BY <1>5 DEF metricsVars, Counting
<1> QED BY <1>1, <1>2, <1>3, <1>4, <1>5 DEF Counters!Next

\* What the run services explores.
LEMMA CountersOfServices == ServicesSpec => []CountersInv
<1>1. ServicesInit => CountersInv
  BY CountersInit DEF ServicesInit
<1>2. CountersInv /\ [ServicesNext]_<<subject, vars, rateVars, metricsVars, ringVars, docVars>>
        => CountersInv'
  BY CountersStep DEF ServicesNext
<1> QED BY <1>1, <1>2, PTL DEF ServicesSpec

\* Whenever requests count themselves and the calculator takes the counter, every read
\* is in one published rate, waits for one, or is between the two counters (IncReads,
\* startRateCalculator).
THEOREM ReadsInOneRate == ServicesSpec => []RatesAddUp
<1>1. CountersInv => RatesAddUp
  <2>1. Counters!Cardinality({r \in Requests : at[r] = "counted"}) = Cardinality(Counting)
    BY DEF Counting, Counters!Cardinality, Cardinality, Counters!IsFiniteSet, IsFiniteSet
  <2> QED BY <2>1 DEF CountersInv, RatesAddUp, Counters!RatesAddUp
<1> QED BY <1>1, CountersOfServices, PTL
--------------------------------------------------------------------------------
(* The buckets of RateLimit.                                                *)

Refillable == [tokens : 0 .. Rps, last : Nat]
RateRequest == [at : {"waiting", "missed", "holding"}, bucket : Nat]

\* What a bucket k may still let through counts as let through since any of the requests
\* g that it did let through.
Within(k, g) ==
  /\ \A i \in DOMAIN g : (Len(g) - i + 1 + k.tokens) * Ticks <= Rps * Ticks + (k.last - g[i]) * Rps
  /\ \A i, j \in DOMAIN g : i <= j => (j - i + 1) * Ticks <= Rps * Ticks + (g[j] - g[i]) * Rps

RateInv ==
  /\ now \in Nat
  /\ buckets \in Seq(Refillable) /\ current \in 0 .. Len(buckets)
  /\ request \in [Requests -> RateRequest]
  /\ \A r \in Requests : request[r].at = "holding" => request[r].bucket \in DOMAIN buckets
  /\ granted \in Seq(Seq(Nat)) /\ Len(granted) = Len(buckets)
  /\ \A b \in DOMAIN buckets : buckets[b].last <= now /\ Within(buckets[b], granted[b])

LEMMA RateConstants == Rps \in Nat \ {0} /\ Ticks \in Nat \ {0}
BY ServicesAssumption DEF Rate!RateAssumption

\* Products.
LEMMA Product == \A a, b \in Int : a * b \in Int
BY SMTT(30)

LEMMA ProductOfNats == \A a, b \in Nat : a * b \in Nat
BY SMTT(30)

LEMMA ProductMonotone ==
  ASSUME NEW a \in Int, NEW b \in Int, a <= b, NEW c \in Nat
  PROVE  a * c <= b * c
BY SMTT(30)

\* Division rounds down.
LEMMA DivLower ==
  ASSUME NEW a \in Int, NEW n \in Nat \ {0}, NEW m \in Int, m * n <= a
  PROVE  m <= a \div n
BY SMTT(30)

LEMMA DivUpper ==
  ASSUME NEW a \in Nat, NEW n \in Nat \ {0}
  PROVE  a \div n \in Nat /\ (a \div n) * n <= a
BY SMTT(30)

\* A refill of n tokens at time t keeps the bound (Allow, before a token is taken).
LEMMA RefillKeepsBound ==
  ASSUME NEW k \in Refillable, NEW t \in Nat, k.last <= t, NEW n \in Nat,
         n * Ticks <= k.tokens * Ticks + (t - k.last) * Rps,
         NEW m \in Nat, NEW s \in Nat, (m + k.tokens) * Ticks <= Rps * Ticks + (k.last - s) * Rps
  PROVE  (m + n) * Ticks <= Rps * Ticks + (t - s) * Rps
<1>1. Rps \in Nat /\ Ticks \in Nat /\ k.tokens \in Nat /\ k.last \in Nat
  BY RateConstants DEF Refillable
<1>2. (m + n) * Ticks = m * Ticks + n * Ticks /\ (m + k.tokens) * Ticks = m * Ticks + k.tokens * Ticks
  BY <1>1, SMTT(30)
<1>3. (t - s) * Rps = (t - k.last) * Rps + (k.last - s) * Rps
  BY <1>1, SMTT(30)
<1>4. /\ m * Ticks \in Int /\ n * Ticks \in Int /\ k.tokens * Ticks \in Int /\ Rps * Ticks \in Int
      /\ (t - k.last) * Rps \in Int /\ (k.last - s) * Rps \in Int
  BY <1>1
<1> QED BY <1>2, <1>3, <1>4

\* Allow refills a bucket and takes a token if there is one.
LEMMA AllowKeepsWithin ==
  ASSUME NEW k \in Refillable, NEW g \in Seq(Nat), NEW t \in Nat, k.last <= t, Within(k, g),
         NEW n, n = Rate!AtMost(Rps, k.tokens + ((t - k.last) * Rps) \div Ticks)
  PROVE  /\ n \in 0 .. Rps
         /\ Within([tokens |-> n, last |-> t], g)
         /\ n > 0 => Within([tokens |-> n - 1, last |-> t], Append(g, t))
<1>1. Rps \in Nat \ {0} /\ Ticks \in Nat \ {0} /\ k.tokens \in 0 .. Rps /\ k.last \in Nat
  BY RateConstants DEF Refillable
<1>2. PICK d : d = ((t - k.last) * Rps) \div Ticks
  OBVIOUS
<1>3. d \in Nat /\ d * Ticks <= (t - k.last) * Rps
  <2>1. t - k.last \in Nat
    BY <1>1
  <2>2. Rps \in Nat
    BY <1>1
  <2>3. (t - k.last) * Rps \in Nat
    BY <2>1, <2>2, ProductOfNats
  <2> QED BY <1>1, <1>2, <2>3, DivUpper
<1>4. n \in 0 .. Rps /\ n <= k.tokens + d
  <2>1. n = IF k.tokens + d > Rps THEN Rps ELSE k.tokens + d
    BY <1>2 DEF Rate!AtMost
  <2>2. d \in Nat
    BY <1>3
  <2> QED BY <1>1, <2>1, <2>2, SMTT(30)
<1>5. n * Ticks <= k.tokens * Ticks + (t - k.last) * Rps
  <2>1. n * Ticks <= (k.tokens + d) * Ticks
    BY <1>1, <1>3, <1>4, SMTT(30)
  <2>2. (k.tokens + d) * Ticks = k.tokens * Ticks + d * Ticks
    BY <1>1, <1>3, SMTT(30)
  <2>3. /\ n * Ticks \in Int /\ (k.tokens + d) * Ticks \in Int /\ k.tokens * Ticks \in Int
        /\ d * Ticks \in Int /\ (t - k.last) * Rps \in Int
    <3>1. n \in Int /\ d \in Int /\ k.tokens \in Int /\ t - k.last \in Int
      BY SMTT(30), <1>1, <1>3, <1>4
    <3>2. k.tokens + d \in Int
      BY <3>1
    <3>3. Ticks \in Int /\ Rps \in Int
      BY <1>1
    <3> QED BY <3>1, <3>2, <3>3, Product
  <2> QED BY <1>3, <2>1, <2>2, <2>3
<1>6. ASSUME NEW i \in DOMAIN g
      PROVE  (Len(g) - i + 1 + n) * Ticks <= Rps * Ticks + (t - g[i]) * Rps
  <2>1. (Len(g) - i + 1 + k.tokens) * Ticks <= Rps * Ticks + (k.last - g[i]) * Rps
    BY DEF Within
  <2>2. PICK m, s : m = Len(g) - i + 1 /\ s = g[i]
    OBVIOUS
  <2>3. m \in Nat /\ s \in Nat /\ n \in Nat
    BY <1>4, <2>2
  <2>4. (m + k.tokens) * Ticks <= Rps * Ticks + (k.last - s) * Rps
    BY <2>1, <2>2
  <2>5. (m + n) * Ticks <= Rps * Ticks + (t - s) * Rps
    BY <1>5, <2>3, <2>4, RefillKeepsBound
  <2> QED BY <2>2, <2>5
<1>7. Within([tokens |-> n, last |-> t], g)
  BY <1>6 DEF Within
<1>8. ASSUME n > 0 PROVE Within([tokens |-> n - 1, last |-> t], Append(g, t))
  <2>1. PICK h : h = Append(g, t)
    OBVIOUS
  <2>2. /\ h \in Seq(Nat) /\ Len(h) = Len(g) + 1 /\ h[Len(h)] = t
        /\ \A i \in 1 .. Len(g) : h[i] = g[i]
        /\ Len(g) \in Nat /\ DOMAIN g = 1 .. Len(g) /\ DOMAIN h = 1 .. Len(g) + 1
    BY <2>1
  <2>3. ASSUME NEW i \in DOMAIN h
        PROVE  (Len(h) - i + 1 + (n - 1)) * Ticks <= Rps * Ticks + (t - h[i]) * Rps
    <3>1. CASE i = Len(h)
      <4>1. Len(h) - i + 1 + (n - 1) = n /\ (t - h[i]) * Rps = 0
        BY SMTT(30), <1>1, <1>4, <2>2, <3>1
      <4>2. n * Ticks <= Rps * Ticks
        BY <1>1, <1>4, SMTT(30)
      <4> QED BY <1>1, <1>4, <4>1, <4>2
    <3>2. CASE i # Len(h)
      <4>1. i \in DOMAIN g /\ h[i] = g[i]
        BY <2>2, <3>2
      <4>2. Len(h) - i + 1 + (n - 1) = Len(g) - i + 1 + n
        BY <1>1, <1>4, <2>2, <4>1
      <4> QED BY <1>6, <4>1, <4>2
    <3> QED BY <3>1, <3>2
  <2>4. ASSUME NEW i \in DOMAIN h, NEW j \in DOMAIN h, i <= j
        PROVE  (j - i + 1) * Ticks <= Rps * Ticks + (h[j] - h[i]) * Rps
    <3>1. CASE j = Len(h)
      <4>1. i \in Nat /\ j \in Nat /\ h[i] \in Nat /\ h[j] = t /\ Len(h) \in Nat
        BY <2>2, <3>1
      <4>2. n \in Nat /\ n > 0 /\ Ticks \in Nat /\ Rps \in Nat
        BY <1>1, <1>4, <1>8
      <4>3. PICK a \in Int, b \in Int : a = j - i + 1 /\ b = Len(h) - i + 1 + (n - 1)
        BY SMTT(30), <4>1, <4>2
      <4>4. a <= b
        BY SMTT(30), <2>4, <3>1, <4>1, <4>2, <4>3
      <4>5. a * Ticks <= b * Ticks
        BY <4>2, <4>4, ProductMonotone
      <4>6. b * Ticks <= Rps * Ticks + (t - h[i]) * Rps
        BY <2>3, <4>3
      <4>7. PICK c \in Int : c = Rps * Ticks + (t - h[i]) * Rps
        <5>1. Rps * Ticks \in Int /\ (t - h[i]) * Rps \in Int
          <6>1. t - h[i] \in Int BY <4>1
          <6> QED BY <4>2, <6>1, Product
        <5> QED BY <5>1
      <4>8. a * Ticks \in Int /\ b * Ticks \in Int
        BY <4>2, Product
      <4>9. a * Ticks <= c
        BY <4>5, <4>6, <4>7, <4>8
      <4> QED BY <4>1, <4>3, <4>7, <4>9
    <3>2. CASE j # Len(h)
      <4>1. i \in DOMAIN g /\ j \in DOMAIN g /\ h[i] = g[i] /\ h[j] = g[j]
        BY <2>2, <2>4, <3>2
      <4> QED BY <2>4, <4>1 DEF Within
    <3> QED BY <3>1, <3>2
  <2> QED BY <2>1, <2>3, <2>4 DEF Within
<1> QED BY <1>4, <1>7, <1>8

LEMMA RateInit == ASSUME Rate!Init PROVE RateInv
<1>1. /\ now = 0 /\ buckets = <<>> /\ granted = <<>> /\ current = 0
      /\ request = [r \in Requests |-> [at |-> "waiting", bucket |-> 0]]
  BY DEF Rate!Init, Rate!Waiting
<1> QED BY <1>1 DEF RateInv, RateRequest

LEMMA CreateKeepsRateInv ==
  ASSUME RateInv, NEW r \in Requests, Rate!Create(r)
  PROVE  RateInv'
<1> USE DEF RateInv
<1>1. PICK k : k = Rate!NewBucket
  OBVIOUS
<1>2. k \in Refillable /\ k.last = now /\ Within(k, <<>>)
  BY <1>1, RateConstants DEF Rate!NewBucket, Refillable, Within
<1>3. buckets' = Append(buckets, k) /\ granted' = Append(granted, <<>>)
  BY <1>1 DEF Rate!Create
<1>4. /\ buckets' \in Seq(Refillable) /\ granted' \in Seq(Seq(Nat))
      /\ Len(buckets') = Len(buckets) + 1 /\ Len(granted') = Len(buckets')
  BY <1>2, <1>3
<1>5. current' = Len(buckets') /\ now' = now
  BY DEF Rate!Create
<1>6. request' = [request EXCEPT ![r] = [at |-> "holding", bucket |-> Len(buckets')]]
  BY DEF Rate!Create
<1>7. request' \in [Requests -> RateRequest]
  BY <1>4, <1>6 DEF RateRequest
<1>8. \A q \in Requests : request'[q].at = "holding" => request'[q].bucket \in DOMAIN buckets'
  BY <1>4, <1>6
<1>9. ASSUME NEW b \in DOMAIN buckets'
      PROVE  buckets'[b].last <= now' /\ Within(buckets'[b], granted'[b])
  <2>1. CASE b \in DOMAIN buckets
    <3>1. buckets'[b] = buckets[b] /\ granted'[b] = granted[b]
      BY <1>3, <2>1
    <3> QED BY <1>5, <2>1, <3>1
  <2>2. CASE b \notin DOMAIN buckets
    <3>1. b = Len(buckets) + 1
      BY <1>4, <2>2
    <3>2. buckets'[b] = k /\ granted'[b] = <<>>
      BY <1>3, <3>1
    <3> QED BY <1>2, <1>5, <3>2
  <2> QED BY <2>1, <2>2
<1> QED BY <1>4, <1>5, <1>7, <1>8, <1>9

LEMMA AllowKeepsRateInv ==
  ASSUME RateInv, NEW r \in Requests, Rate!Allow(r)
  PROVE  RateInv'
<1> USE DEF RateInv
<1>1. PICK b \in DOMAIN buckets : b = request[r].bucket
  BY DEF Rate!Allow
<1>2. PICK n : n = Rate!Refilled(buckets[b])
  OBVIOUS
<1>3. PICK k : k = [tokens |-> IF n > 0 THEN n - 1 ELSE n, last |-> now]
  OBVIOUS
<1>4. PICK g : g = IF n > 0 THEN Append(granted[b], now) ELSE granted[b]
  OBVIOUS
<1>5. /\ buckets[b] \in Refillable /\ granted[b] \in Seq(Nat) /\ buckets[b].last <= now
      /\ now \in Nat /\ Within(buckets[b], granted[b])
  OBVIOUS
<1>6. n = Rate!AtMost(Rps, buckets[b].tokens + ((now - buckets[b].last) * Rps) \div Ticks)
  BY <1>2 DEF Rate!Refilled
<1>7. /\ n \in 0 .. Rps
      /\ Within([tokens |-> n, last |-> now], granted[b])
      /\ n > 0 => Within([tokens |-> n - 1, last |-> now], Append(granted[b], now))
  BY <1>5, <1>6, AllowKeepsWithin
<1>8. Within(k, g) /\ k \in Refillable /\ k.last = now /\ g \in Seq(Nat)
  BY SMTT(30), <1>3, <1>4, <1>5, <1>7, RateConstants DEF Refillable
<1>9. buckets' = [buckets EXCEPT ![b] = k] /\ granted' = [granted EXCEPT ![b] = g]
  <2>1. buckets' = [buckets EXCEPT ![b] = k]
    BY <1>1, <1>2, <1>3 DEF Rate!Allow
  <2>2. ASSUME n > 0 PROVE granted' = [granted EXCEPT ![b] = g]
    <3>1. granted' = [granted EXCEPT ![b] = Append(@, now)]
      BY <1>1, <1>2, <2>2 DEF Rate!Allow
    <3> QED BY <1>4, <2>2, <3>1
  <2>3. ASSUME ~ (n > 0) PROVE granted' = [granted EXCEPT ![b] = g]
    <3>1. granted' = granted /\ g = granted[b]
      BY <1>1, <1>2, <1>4, <2>3 DEF Rate!Allow
    <3>2. granted = [granted EXCEPT ![b] = granted[b]] OBVIOUS
    <3> QED BY <3>1, <3>2
  <2> QED BY <2>1, <2>2, <2>3
<1>10. /\ buckets' \in Seq(Refillable) /\ granted' \in Seq(Seq(Nat))
       /\ Len(buckets') = Len(buckets) /\ Len(granted') = Len(buckets')
       /\ DOMAIN buckets' = DOMAIN buckets
  BY <1>8, <1>9
<1>11. /\ request' = [request EXCEPT ![r] = [at |-> "waiting", bucket |-> 0]]
       /\ current' = current /\ now' = now
  BY DEF Rate!Allow, Rate!Waiting
<1>12. request' \in [Requests -> RateRequest]
  BY <1>11 DEF RateRequest
<1>13. ASSUME NEW c \in DOMAIN buckets'
       PROVE  buckets'[c].last <= now' /\ Within(buckets'[c], granted'[c])
  <2>1. CASE c = b
    BY <1>5, <1>8, <1>9, <1>11, <2>1
  <2>2. CASE c # b
    BY <1>9, <1>10, <1>11, <2>2
  <2> QED BY <2>1, <2>2
<1> QED BY <1>10, <1>11, <1>12, <1>13

LEMMA RateStep ==
  ASSUME RateInv, Rate!Next \/ UNCHANGED rateVars
  PROVE  RateInv'
<1>1. CASE Rate!Tick
  <2>1. /\ now' = now + 1
        /\ UNCHANGED <<buckets, current, request, granted>>
    BY <1>1 DEF Rate!Tick
  <2>2. ASSUME NEW b \in DOMAIN buckets PROVE buckets[b].last \in Nat
    <3>1. buckets[b] \in Refillable BY DEF RateInv
    <3> QED BY <3>1 DEF Refillable
  <2> QED BY <2>1, <2>2 DEF RateInv
<1>2. ASSUME NEW r \in Requests, Rate!Lookup(r)
      PROVE  RateInv'
  <2>1. /\ request' = [request EXCEPT ![r] =
             IF current = 0 THEN [at |-> "missed", bucket |-> 0]
             ELSE [at |-> "holding", bucket |-> current]]
        /\ UNCHANGED <<now, buckets, current, granted>>
    BY <1>2 DEF Rate!Lookup
  <2>2. request' \in [Requests -> RateRequest]
    BY <2>1 DEF RateInv, RateRequest
  <2>3. \A q \in Requests : request'[q].at = "holding" => request'[q].bucket \in DOMAIN buckets
    BY <2>1 DEF RateInv
  <2> QED BY <2>1, <2>2, <2>3 DEF RateInv
<1>3. CASE UNCHANGED rateVars
  BY <1>3 DEF rateVars, RateInv
<1> QED BY <1>1, <1>2, <1>3, CreateKeepsRateInv, AllowKeepsRateInv DEF Rate!Next

LEMMA RateOfServices == ServicesSpec => []RateInv
<1>1. ServicesInit => RateInv
  BY RateInit DEF ServicesInit
<1>2. RateInv /\ [ServicesNext]_<<subject, vars, rateVars, metricsVars, ringVars, docVars>>
        => RateInv'
  BY RateStep DEF ServicesNext
<1> QED BY <1>1, <1>2, PTL DEF ServicesSpec

\* For any rate and any clock, one bucket lets through at most a full bucket and the
\* refill of the time, between any two requests that it lets through (TokenBucket.Allow).
THEOREM BucketsStayWithin == ServicesSpec => []BucketEnvelope
<1>1. ASSUME RateInv PROVE BucketEnvelope
  <2>1. SUFFICES ASSUME NEW b \in DOMAIN buckets, NEW i \in DOMAIN granted[b],
                        NEW j \in DOMAIN granted[b], i <= j
                 PROVE  j - i + 1 <= Rate!Allowance(granted[b][i], granted[b][j])
    BY DEF BucketEnvelope, Rate!BucketEnvelope
  <2>2. PICK g \in Seq(Nat) : g = granted[b]
    BY <1>1 DEF RateInv
  <2>3. (j - i + 1) * Ticks <= Rps * Ticks + (g[j] - g[i]) * Rps
    BY <1>1, <2>1, <2>2 DEF RateInv, Within
  <2>4. i \in Nat /\ j \in Nat /\ g[i] \in Nat /\ g[j] \in Nat
    BY <2>1, <2>2
  <2>5. PICK m \in Int, x \in Int : m = j - i + 1 /\ x = (g[j] - g[i]) * Rps
    BY <2>4, Product, RateConstants
  <2>6. (m - Rps) * Ticks <= x
    <3>1. (m - Rps) * Ticks = m * Ticks - Rps * Ticks
      BY <2>5, RateConstants, SMTT(30)
    <3>2. m * Ticks \in Int /\ Rps * Ticks \in Int
      BY RateConstants, Product
    <3> QED BY <2>3, <2>5, <3>1, <3>2
  <2>7. m - Rps <= x \div Ticks
    <3>1. m - Rps \in Int /\ Ticks \in Nat \ {0}
      BY RateConstants
    <3> QED BY <2>6, <3>1, DivLower
  <2>8. x \div Ticks \in Int
    BY RateConstants, SMTT(30)
  <2> QED BY <2>2, <2>5, <2>7, <2>8, RateConstants DEF Rate!Allowance
<1> QED BY <1>1, RateOfServices, PTL
--------------------------------------------------------------------------------
(* Documents as keys.                                                       *)

NamesWithoutColon == \A c \in Names : \A i \in DOMAIN c : c[i] # ":"

Characters == STRING \cup {"doc", ":"}

Document == [id : Docs!AllIds \cup {None}, body : Bodies]

LEMMA DocumentsConstants ==
  /\ \A n \in Names \cup Docs!AllIds \cup RawKeys : n \in Seq(Characters)
  /\ None \notin Document \cup {Unreadable}
  /\ RawValues \subseteq Document \cup {Unreadable}
  /\ \A k \in RawKeys \ Docs!DocumentKeys :
       Docs!IsPrefix(<<"doc", ":">>, k) => \A i \in 3 .. Len(k) : k[i] # ":"
<1>1. \A n \in Seq(STRING) : n \in Seq(Characters)
  BY DEF Characters
<1>2. /\ \A n \in Names \cup Docs!AllIds \cup RawKeys : n \in Seq(STRING)
      /\ \A k \in RawKeys \ Docs!DocumentKeys :
           Docs!IsPrefix(<<"doc", ":">>, k) => \A i \in 3 .. Len(k) : k[i] # ":"
      /\ RawValues \subseteq [id : Docs!AllIds \cup {None}, body : Bodies] \cup {Unreadable}
      /\ None \notin Docs!AllIds \cup {Unreadable}
      /\ {None, Unreadable} \cap [id : Docs!AllIds \cup {None}, body : Bodies] = {}
  BY ServicesAssumption DEF Docs!DocumentsAssumption, Docs!Colon
<1> QED BY <1>1, <1>2 DEF Document

LEMMA ConcatParts ==
  ASSUME NEW S, NEW a \in Seq(S), NEW b \in Seq(S), NEW s, s = a \o b
  PROVE  /\ s \in Seq(S) /\ Len(s) = Len(a) + Len(b)
         /\ \A i \in 1 .. Len(a) : s[i] = a[i]
         /\ \A i \in 1 .. Len(b) : s[i + Len(a)] = b[i]
BY SMTT(30)

\* The characters of a key.
KeyOf(k, c, id) ==
  /\ k \in Seq(Characters) /\ Len(k) = Len(c) + Len(id) + 3
  /\ k[1] = "doc" /\ k[2] = ":" /\ k[Len(c) + 3] = ":"
  /\ \A i \in 1 .. Len(c) : k[i + 2] = c[i]
  /\ \A i \in 1 .. Len(id) : k[i + (Len(c) + 3)] = id[i]

LEMMA KeyParts ==
  ASSUME NEW c \in Seq(Characters), NEW id \in Seq(Characters)
  PROVE  KeyOf(Docs!Key(c, id), c, id)
<1>1. PICK a, e : a = <<"doc", ":">> /\ e = <<":">>
  OBVIOUS
<1>2. "doc" \in Characters /\ ":" \in Characters
  BY DEF Characters
<1>3. a \in Seq(Characters) /\ Len(a) = 2 /\ a[1] = "doc" /\ a[2] = ":"
  BY <1>1, <1>2
<1>4. e \in Seq(Characters) /\ Len(e) = 1 /\ e[1] = ":"
  BY <1>1, <1>2
<1>5. PICK b : b = a \o c
  OBVIOUS
<1>6. PICK d : d = b \o e
  OBVIOUS
<1>7. PICK k : k = d \o id
  OBVIOUS
<1>8. /\ b \in Seq(Characters) /\ Len(b) = 2 + Len(c)
      /\ \A i \in 1 .. 2 : b[i] = a[i]
      /\ \A i \in 1 .. Len(c) : b[i + 2] = c[i]
  <2>1. /\ b \in Seq(Characters) /\ Len(b) = Len(a) + Len(c)
        /\ \A i \in 1 .. Len(a) : b[i] = a[i]
        /\ \A i \in 1 .. Len(c) : b[i + Len(a)] = c[i]
    <3>1. a \in Seq(Characters) BY <1>3
    <3> QED BY <1>5, <3>1, ConcatParts
  <2> QED BY <1>3, <2>1
<1>9. /\ d \in Seq(Characters) /\ Len(d) = Len(b) + 1
      /\ \A i \in 1 .. Len(b) : d[i] = b[i]
      /\ \A i \in 1 .. 1 : d[i + Len(b)] = e[i]
  <2>1. /\ d \in Seq(Characters) /\ Len(d) = Len(b) + Len(e)
        /\ \A i \in 1 .. Len(b) : d[i] = b[i]
        /\ \A i \in 1 .. Len(e) : d[i + Len(b)] = e[i]
    <3>1. b \in Seq(Characters) /\ e \in Seq(Characters) BY <1>4, <1>8
    <3> QED BY <1>6, <3>1, ConcatParts
  <2> QED BY <1>4, <2>1
<1>10. /\ k \in Seq(Characters) /\ Len(k) = Len(d) + Len(id)
       /\ \A i \in 1 .. Len(d) : k[i] = d[i]
       /\ \A i \in 1 .. Len(id) : k[i + Len(d)] = id[i]
  <2>1. d \in Seq(Characters) BY <1>9
  <2> QED BY <1>7, <2>1, ConcatParts
<1>11. Len(c) \in Nat /\ Len(id) \in Nat /\ Len(d) = Len(c) + 3
  BY <1>8, <1>9
<1>12. d[1 + Len(b)] = ":" /\ 1 + Len(b) = Len(c) + 3
  BY <1>4, <1>8, <1>9, <1>11
<1>13. k[1] = "doc" /\ k[2] = ":" /\ k[Len(c) + 3] = ":"
  BY <1>3, <1>8, <1>9, <1>10, <1>11, <1>12
<1>14. ASSUME NEW i \in 1 .. Len(c) PROVE k[i + 2] = c[i]
  BY <1>8, <1>9, <1>10, <1>11
<1>15. k = Docs!Key(c, id)
  BY <1>1, <1>5, <1>6, <1>7 DEF Docs!Key, Docs!Colon
<1> QED BY <1>10, <1>11, <1>13, <1>14, <1>15 DEF KeyOf

LEMMA PrefixParts ==
  ASSUME NEW c \in Seq(Characters)
  PROVE  KeyOf(Docs!Prefix(c), c, <<>>)
<1>1. PICK p : p = Docs!Prefix(c)
  OBVIOUS
<1>2. Docs!Key(c, <<>>) = p \o <<>>
  BY <1>1 DEF Docs!Key, Docs!Prefix
<1>3. PICK a : a = <<"doc", ":">> \o c
  OBVIOUS
<1>4. <<"doc", ":">> \in Seq(Characters) /\ <<":">> \in Seq(Characters)
  BY DEF Characters
<1>5. a \in Seq(Characters)
  BY <1>3, <1>4
<1>6. p \in Seq(Characters)
  BY <1>1, <1>3, <1>4, <1>5 DEF Docs!Prefix, Docs!Colon
<1>7. p \o <<>> = p /\ <<>> \in Seq(Characters)
  BY <1>6
<1> QED BY <1>1, <1>2, <1>7, KeyParts

\* One sequence begins another.
LEMMA Begins ==
  ASSUME NEW p \in Seq(Characters), NEW k \in Seq(Characters)
  PROVE  Docs!IsPrefix(p, k) <=> Len(p) <= Len(k) /\ \A i \in 1 .. Len(p) : p[i] = k[i]
<1>1. SubSeq(p, 1, Len(p)) = p
  OBVIOUS
<1>2. ASSUME Len(p) <= Len(k), \A i \in 1 .. Len(p) : p[i] = k[i] PROVE SubSeq(k, 1, Len(p)) = p
  BY <1>2
<1>3. ASSUME Len(p) <= Len(k), SubSeq(k, 1, Len(p)) = p PROVE \A i \in 1 .. Len(p) : p[i] = k[i]
  BY <1>3
<1> QED BY <1>1, <1>2, <1>3 DEF Docs!IsPrefix

\* Keys of two collections differ within their names.
LEMMA SameName ==
  ASSUME NamesWithoutColon, NEW b \in Names, NEW c \in Names, NEW k \in Seq(Characters),
         k[Len(b) + 3] = ":", \A i \in 1 .. Len(b) : k[i + 2] = b[i],
         k[Len(c) + 3] = ":", \A i \in 1 .. Len(c) : k[i + 2] = c[i]
  PROVE  b = c
<1>1. b \in Seq(Characters) /\ c \in Seq(Characters)
  BY DocumentsConstants
<1>2. Len(b) \in Nat /\ Len(c) \in Nat
  BY <1>1
<1>3. ~ (Len(b) < Len(c))
  <2>1. SUFFICES ASSUME Len(b) < Len(c) PROVE FALSE
    OBVIOUS
  <2>2. Len(b) + 1 \in DOMAIN c /\ Len(b) + 1 + 2 = Len(b) + 3
    BY <1>1, <1>2, <2>1
  <2>3. c[Len(b) + 1] = ":"
    BY <1>1, <1>2, <2>1, <2>2
  <2> QED BY <2>2, <2>3 DEF NamesWithoutColon
<1>4. ~ (Len(c) < Len(b))
  <2>1. SUFFICES ASSUME Len(c) < Len(b) PROVE FALSE
    OBVIOUS
  <2>2. Len(c) + 1 \in DOMAIN b /\ Len(c) + 1 + 2 = Len(c) + 3
    BY <1>1, <1>2, <2>1
  <2>3. b[Len(c) + 1] = ":"
    BY <1>1, <1>2, <2>1, <2>2
  <2> QED BY <2>2, <2>3 DEF NamesWithoutColon
<1>5. Len(b) = Len(c) /\ \A i \in 1 .. Len(b) : b[i] = c[i]
  BY <1>2, <1>3, <1>4
<1> QED BY <1>1, <1>5

\* A key is of one collection and one id.
LEMMA KeysAreOfOne ==
  ASSUME NamesWithoutColon, NEW b \in Names, NEW i \in Docs!AllIds, NEW c \in Names, NEW j \in Docs!AllIds,
         Docs!Key(b, i) = Docs!Key(c, j)
  PROVE  b = c /\ i = j
<1>1. PICK k : k = Docs!Key(b, i)
  OBVIOUS
<1>2. b \in Seq(Characters) /\ c \in Seq(Characters) /\ i \in Seq(Characters) /\ j \in Seq(Characters)
  BY DocumentsConstants
<1>3. KeyOf(k, b, i) /\ KeyOf(k, c, j)
  <2>1. KeyOf(Docs!Key(b, i), b, i) /\ KeyOf(Docs!Key(c, j), c, j)
    BY <1>2, KeyParts
  <2> QED BY <1>1, <2>1
<1>5. b = c
  BY <1>3, SameName DEF KeyOf
<1>6. Len(i) = Len(j) /\ \A n \in 1 .. Len(i) : i[n] = j[n]
  BY <1>2, <1>3, <1>5 DEF KeyOf
<1> QED BY <1>2, <1>5, <1>6

\* Scan with the prefix of a collection finds its keys and no others.
LEMMA PrefixIsOfOne ==
  ASSUME NamesWithoutColon, NEW b \in Names, NEW c \in Names, NEW i \in Docs!AllIds
  PROVE  Docs!IsPrefix(Docs!Prefix(b), Docs!Key(c, i)) <=> b = c
<1>1. PICK k, p : k = Docs!Key(c, i) /\ p = Docs!Prefix(b)
  OBVIOUS
<1>2. b \in Seq(Characters) /\ c \in Seq(Characters) /\ i \in Seq(Characters)
  BY DocumentsConstants
<1>3. /\ k \in Seq(Characters) /\ Len(k) = Len(c) + Len(i) + 3 /\ k[1] = "doc" /\ k[2] = ":"
      /\ k[Len(c) + 3] = ":" /\ \A n \in 1 .. Len(c) : k[n + 2] = c[n]
  <2>1. KeyOf(Docs!Key(c, i), c, i) BY <1>2, KeyParts
  <2> QED BY <1>1, <2>1 DEF KeyOf
<1>4. /\ p \in Seq(Characters) /\ Len(p) = Len(b) + 3 /\ p[1] = "doc" /\ p[2] = ":"
      /\ p[Len(b) + 3] = ":" /\ \A n \in 1 .. Len(b) : p[n + 2] = b[n]
  <2>1. KeyOf(Docs!Prefix(b), b, <<>>) BY <1>2, PrefixParts
  <2>2. Len(<<>>) = 0 /\ Len(b) \in Nat BY <1>2
  <2> QED BY <1>1, <2>1, <2>2 DEF KeyOf
<1>5. ASSUME b = c PROVE Docs!IsPrefix(p, k)
  <2>1. Len(p) <= Len(k)
    BY <1>2, <1>3, <1>4, <1>5
  <2>2. ASSUME NEW n \in 1 .. Len(p) PROVE p[n] = k[n]
    <3>1. Len(b) \in Nat BY <1>2
    <3>2. n = 1 \/ n = 2 \/ n = Len(b) + 3 \/ (n - 2 \in 1 .. Len(b) /\ n = (n - 2) + 2)
      BY <1>4, <3>1
    <3>3. CASE n - 2 \in 1 .. Len(b) /\ n = (n - 2) + 2
      <4>1. PICK m \in 1 .. Len(b) : m = n - 2 BY <3>3
      <4>2. p[m + 2] = b[m] /\ k[m + 2] = c[m] BY <1>3, <1>4, <1>5
      <4>3. n = m + 2 BY <4>1
      <4> QED BY <1>5, <4>2, <4>3
    <3> QED BY <1>3, <1>4, <1>5, <3>2, <3>3
  <2> QED BY <1>3, <1>4, <2>1, <2>2, Begins
<1>6. ASSUME Docs!IsPrefix(p, k) PROVE b = c
  <2>1. \A n \in 1 .. Len(p) : p[n] = k[n]
    BY <1>3, <1>4, <1>6, Begins
  <2>2. Len(b) \in Nat
    BY <1>2
  <2>3. k[Len(b) + 3] = ":"
    BY <1>4, <2>1, <2>2
  <2>4. ASSUME NEW n \in 1 .. Len(b) PROVE k[n + 2] = b[n]
    <3>1. n + 2 \in 1 .. Len(p) BY <1>4, <2>2
    <3> QED BY <1>4, <2>1, <3>1
  <2> QED BY <1>3, <2>3, <2>4, SameName
<1> QED BY <1>1, <1>5, <1>6

LEMMA MinIs ==
  ASSUME NEW S \in SUBSET Int, NEW m \in S, \A y \in S : m <= y
  PROVE  Docs!Min(S) = m
<1>1. PICK x : x = Docs!Min(S)
  OBVIOUS
<1>2. x \in S /\ \A y \in S : x <= y
  BY <1>1 DEF Docs!Min
<1> QED BY <1>1, <1>2

\* ListCollections reads the collection off the key.
LEMMA NameOfKey ==
  ASSUME NamesWithoutColon, NEW c \in Names, NEW i \in Docs!AllIds
  PROVE  Docs!NameOf(Docs!Key(c, i)) = c
<1>1. PICK k, rest : k = Docs!Key(c, i) /\ rest = SubSeq(k, 3, Len(k))
  OBVIOUS
<1>2. c \in Seq(Characters) /\ i \in Seq(Characters)
  BY DocumentsConstants
<1>3. KeyOf(k, c, i)
  BY <1>1, <1>2, KeyParts
<1>4. Len(c) \in Nat /\ Len(i) \in Nat
  BY <1>2
<1>5. /\ rest \in Seq(Characters) /\ Len(rest) = Len(c) + Len(i) + 1
      /\ \A n \in 1 .. Len(rest) : rest[n] = k[n + 2]
  BY <1>1, <1>3, <1>4 DEF KeyOf
<1>6. /\ \A n \in 1 .. Len(c) : rest[n] = c[n]
      /\ rest[Len(c) + 1] = ":"
  <2>1. ASSUME NEW n \in 1 .. Len(c) PROVE rest[n] = c[n]
    <3>1. k[n + 2] = c[n]
      BY <1>3 DEF KeyOf
    <3>2. n \in 1 .. Len(rest)
      BY <1>4, <1>5
    <3> QED BY <1>5, <3>1, <3>2
  <2>2. Len(c) + 1 \in 1 .. Len(rest) /\ (Len(c) + 1) + 2 = Len(c) + 3
    BY <1>4, <1>5
  <2>3. rest[Len(c) + 1] = k[Len(c) + 3]
    BY <1>5, <2>2
  <2> QED BY <1>3, <2>1, <2>3 DEF KeyOf
<1>7. PICK S : S = {Len(rest) + 1} \cup {n \in DOMAIN rest : rest[n] = ":"}
  OBVIOUS
<1>8. S \in SUBSET Int /\ Len(c) + 1 \in S
  BY <1>4, <1>5, <1>6, <1>7
<1>9. ASSUME NEW y \in S PROVE Len(c) + 1 <= y
  <2>1. CASE y = Len(rest) + 1
    BY <1>4, <1>5, <2>1
  <2>2. CASE y \in DOMAIN rest /\ rest[y] = ":"
    <3>1. y \notin 1 .. Len(c)
      BY <1>2, <1>6, <2>2 DEF NamesWithoutColon
    <3> QED BY <1>4, <1>5, <2>2, <3>1
  <2> QED BY <1>7, <1>9, <2>1, <2>2
<1>10. Docs!Min(S) = Len(c) + 1
  BY <1>8, <1>9, MinIs
<1>11. Docs!NameOf(k) = SubSeq(rest, 1, (Len(c) + 1) - 1)
  BY <1>1, <1>7, <1>10 DEF Docs!NameOf, Docs!Rest, Docs!Colon
<1>12. (Len(c) + 1) - 1 = Len(c)
  BY <1>4
<1>13. SubSeq(rest, 1, Len(c)) = c
  BY <1>2, <1>4, <1>5, <1>6
<1> QED BY <1>1, <1>11, <1>12, <1>13

\* Every key of a document is under the prefix of all documents.
LEMMA DocPrefix ==
  ASSUME NEW c \in Names, NEW i \in Docs!AllIds
  PROVE  Docs!IsPrefix(<<"doc", ":">>, Docs!Key(c, i))
<1>1. PICK k, p : k = Docs!Key(c, i) /\ p = <<"doc", ":">>
  OBVIOUS
<1>2. c \in Seq(Characters) /\ i \in Seq(Characters)
  BY DocumentsConstants
<1>3. KeyOf(k, c, i)
  BY <1>1, <1>2, KeyParts
<1>4. Len(c) \in Nat /\ Len(i) \in Nat
  BY <1>2
<1>5. k \in Seq(Characters) /\ Len(k) >= 2 /\ k[1] = "doc" /\ k[2] = ":"
  BY <1>3, <1>4 DEF KeyOf
<1>6. p \in Seq(Characters) /\ Len(p) = 2 /\ p[1] = "doc" /\ p[2] = ":"
  BY <1>1 DEF Characters
<1>7. \A n \in 1 .. Len(p) : p[n] = k[n]
  BY <1>5, <1>6
<1> QED BY <1>1, <1>5, <1>6, <1>7, Begins
--------------------------------------------------------------------------------
(* The refinement: the documents that are stored under keys.                *)

DocumentsInv ==
  /\ DOMAIN store \subseteq Docs!DocumentKeys \cup RawKeys
  /\ \A k \in DOMAIN store : store[k] \in Document \cup {Unreadable}

\* What a collection holds under an id.
At(s, c, i) == IF Docs!Key(c, i) \in DOMAIN s THEN s[Docs!Key(c, i)] ELSE None
View(s) == [p \in Names \X Docs!AllIds |-> At(s, p[1], p[2])]

\* A key is set.
LEMMA ViewSet ==
  ASSUME NamesWithoutColon, NEW s, NEW t, NEW c \in Names, NEW i \in Docs!AllIds, NEW d,
         t = [k \in DOMAIN s \cup {Docs!Key(c, i)} |-> IF k = Docs!Key(c, i) THEN d ELSE s[k]]
  PROVE  View(t) = [View(s) EXCEPT ![<<c, i>>] = d]
<1>1. ASSUME NEW b \in Names, NEW j \in Docs!AllIds
      PROVE  At(t, b, j) = IF <<b, j>> = <<c, i>> THEN d ELSE At(s, b, j)
  <2>1. CASE b = c /\ j = i
    BY <2>1 DEF At
  <2>2. CASE ~ (b = c /\ j = i)
    <3>1. Docs!Key(b, j) # Docs!Key(c, i)
      BY <2>2, KeysAreOfOne
    <3> QED BY <2>2, <3>1 DEF At
  <2> QED BY <2>1, <2>2
<1>2. ASSUME NEW p \in Names \X Docs!AllIds
      PROVE  View(t)[p] = IF p = <<c, i>> THEN d ELSE View(s)[p]
  <2>1. PICK b \in Names, j \in Docs!AllIds : p = <<b, j>>
    OBVIOUS
  <2>2. View(t)[p] = At(t, b, j) /\ View(s)[p] = At(s, b, j)
    BY <2>1 DEF View
  <2> QED BY <1>1, <2>1, <2>2
<1> QED BY <1>2 DEF View

LEMMA ViewUnset ==
  ASSUME NamesWithoutColon, NEW s, NEW t, NEW c \in Names, NEW i \in Docs!AllIds,
         t = [k \in DOMAIN s \ {Docs!Key(c, i)} |-> s[k]]
  PROVE  View(t) = [View(s) EXCEPT ![<<c, i>>] = None]
<1>1. ASSUME NEW b \in Names, NEW j \in Docs!AllIds
      PROVE  At(t, b, j) = IF <<b, j>> = <<c, i>> THEN None ELSE At(s, b, j)
  <2>1. CASE b = c /\ j = i
    BY <2>1 DEF At
  <2>2. CASE ~ (b = c /\ j = i)
    <3>1. Docs!Key(b, j) # Docs!Key(c, i)
      BY <2>2, KeysAreOfOne
    <3> QED BY <2>2, <3>1 DEF At
  <2> QED BY <2>1, <2>2
<1>2. ASSUME NEW p \in Names \X Docs!AllIds
      PROVE  View(t)[p] = IF p = <<c, i>> THEN None ELSE View(s)[p]
  <2>1. PICK b \in Names, j \in Docs!AllIds : p = <<b, j>>
    OBVIOUS
  <2>2. View(t)[p] = At(t, b, j) /\ View(s)[p] = At(s, b, j)
    BY <2>1 DEF View
  <2> QED BY <1>1, <2>1, <2>2
<1> QED BY <1>2 DEF View

\* A key that is no document's changes.
LEMMA ViewElsewhere ==
  ASSUME NEW s, NEW t, NEW r, r \notin Docs!DocumentKeys,
         \A k : k # r => (k \in DOMAIN t <=> k \in DOMAIN s),
         \A k \in DOMAIN t : k # r => t[k] = s[k]
  PROVE  View(t) = View(s)
<1>1. ASSUME NEW b \in Names, NEW j \in Docs!AllIds PROVE At(t, b, j) = At(s, b, j)
  <2>1. Docs!Key(b, j) # r BY DEF Docs!DocumentKeys
  <2> QED BY <2>1 DEF At
<1> QED BY <1>1 DEF View

\* No document is absent.
LEMMA DocumentIsNotNone == ASSUME NEW d \in Document \cup {Unreadable} PROVE d # None
BY DocumentsConstants

\* The names under "doc:" that are no collection's.
Strays(s) == {Docs!NameOf(k) : k \in {j \in DOMAIN s : Docs!IsPrefix(<<"doc", ":">>, j)} \ Docs!DocumentKeys}
StrayNames == {Docs!NameOf(k) : k \in RawKeys}

LEMMA StraysAreRaw ==
  ASSUME NEW s, DOMAIN s \subseteq Docs!DocumentKeys \cup RawKeys
  PROVE  Strays(s) \in SUBSET StrayNames
BY DEF Strays, StrayNames

Answered(name, documents, names) == op' = name /\ found' = documents /\ listed' = names
StepSet(c, i, d) == View(store') = [View(store) EXCEPT ![<<c, i>>] = d] /\ Strays(store') = Strays(store)
Still == View(store') = View(store) /\ Strays(store') = Strays(store)

FoundIn(s, c, keep) == {d \in {View(s)[<<c, i>>] : i \in Docs!AllIds} \ {None, Unreadable} : d.body \in keep}
ListedIn(s) == {c \in Names : \E i \in Docs!AllIds : View(s)[<<c, i>>] # None} \cup Strays(s)

\* The steps of the collections, in terms of the engine's keys.
LEMMA AbstractInit ==
  Docs!Abstract!Init <=> /\ View(store) = [p \in Names \X Docs!AllIds |-> None] /\ Strays(store) = {}
                         /\ op = "none" /\ found = {} /\ listed = {}
BY DEF Docs!Abstract!Init, View, At, Strays, Docs!AllIds, Docs!Scan, Docs!Colon

LEMMA AbstractSets ==
  /\ \A c, i, b : Docs!Abstract!Put(c, i, b) <=> Answered("put", {}, {}) /\ StepSet(c, i, [id |-> i, body |-> b])
  /\ \A c, i : Docs!Abstract!Delete(c, i) <=> Answered("delete", {}, {}) /\ StepSet(c, i, None)
  /\ \A c, i, d : Docs!Abstract!Overwrite(c, i, d) <=> Answered("raw", {}, {}) /\ StepSet(c, i, d)
<1>1. \A c, i, d : Docs!Abstract!Set(c, i, d) <=> StepSet(c, i, d)
  BY DEF Docs!Abstract!Set, View, At, Strays, StepSet, Docs!AllIds, Docs!Scan, Docs!Colon
<1> QED BY <1>1 DEF Docs!Abstract!Put, Docs!Abstract!Delete, Docs!Abstract!Overwrite, Docs!Abstract!Answer,
         Answered

LEMMA AbstractElsewhere ==
  /\ Docs!Abstract!Refuse <=> Answered("refused", {}, {}) /\ Still
  /\ Docs!Abstract!Elsewhere <=>
       Answered("raw", {}, {}) /\ Strays(store') \in SUBSET StrayNames /\ View(store') = View(store)
BY DEF Docs!Abstract!Refuse, Docs!Abstract!Elsewhere, Docs!Abstract!Answer, Answered, Still, StrayNames,
   View, At, Strays, Docs!AllIds, Docs!Scan, Docs!Colon

LEMMA AbstractReads ==
  /\ \A c, i : Docs!Abstract!Get(c, i) <=> Answered("get", {View(store)[<<c, i>>]} \ {None}, {}) /\ Still
  /\ \A c, keep : Docs!Abstract!Query(c, keep) <=> Answered("query", FoundIn(store, c, keep), {}) /\ Still
  /\ Docs!Abstract!List <=> Answered("list", {}, ListedIn(store)) /\ Still
<1>1. \A c, i : Docs!Abstract!Get(c, i) <=> Answered("get", {View(store)[<<c, i>>]} \ {None}, {}) /\ Still
  BY DEF Docs!Abstract!Get, Docs!Abstract!Answer, Answered, Still, View, At, Strays, Docs!AllIds,
     Docs!Scan, Docs!Colon
<1>2. \A c, keep : Docs!Abstract!Query(c, keep) <=> Answered("query", FoundIn(store, c, keep), {}) /\ Still
  BY DEF Docs!Abstract!Query, Docs!Abstract!Answer, Answered, Still, FoundIn, View, At, Strays,
     Docs!AllIds, Docs!Scan, Docs!Colon
<1>3. Docs!Abstract!List <=> Answered("list", {}, ListedIn(store)) /\ Still
  BY DEF Docs!Abstract!List, Docs!Abstract!Answer, Answered, Still, ListedIn, View, At, Strays,
     Docs!AllIds, Docs!Scan, Docs!Colon
<1> QED BY <1>1, <1>2, <1>3

\* A document's key is put or deleted.
LEMMA DocumentIsSet ==
  ASSUME NamesWithoutColon, DocumentsInv, NEW c \in Names, NEW i \in Docs!AllIds,
         NEW d \in Document \cup {Unreadable}, Docs!StorePut(Docs!Key(c, i), d)
  PROVE  DocumentsInv' /\ StepSet(c, i, d)
<1>1. store' = [k \in DOMAIN store \cup {Docs!Key(c, i)} |-> IF k = Docs!Key(c, i) THEN d ELSE store[k]]
  BY DEF Docs!StorePut
<1>2. Docs!Key(c, i) \in Docs!DocumentKeys
  BY DEF Docs!DocumentKeys
<1>3. DocumentsInv'
  BY <1>1, <1>2 DEF DocumentsInv
<1>4. View(store') = [View(store) EXCEPT ![<<c, i>>] = d]
  BY <1>1, ViewSet
<1>5. DOMAIN store' = DOMAIN store \cup {Docs!Key(c, i)}
  BY <1>1
<1>6. Strays(store') = Strays(store)
  BY <1>2, <1>5 DEF Strays
<1> QED BY <1>3, <1>4, <1>6 DEF StepSet

LEMMA DocumentIsUnset ==
  ASSUME NamesWithoutColon, DocumentsInv, NEW c \in Names, NEW i \in Docs!AllIds,
         Docs!StoreDelete(Docs!Key(c, i))
  PROVE  DocumentsInv' /\ StepSet(c, i, None)
<1>1. store' = [k \in DOMAIN store \ {Docs!Key(c, i)} |-> store[k]]
  BY DEF Docs!StoreDelete
<1>2. Docs!Key(c, i) \in Docs!DocumentKeys
  BY DEF Docs!DocumentKeys
<1>3. DocumentsInv'
  BY <1>1 DEF DocumentsInv
<1>4. View(store') = [View(store) EXCEPT ![<<c, i>>] = None]
  BY <1>1, ViewUnset
<1>5. DOMAIN store' = DOMAIN store \ {Docs!Key(c, i)}
  BY <1>1
<1>6. Strays(store') = Strays(store)
  BY <1>2, <1>5 DEF Strays
<1> QED BY <1>3, <1>4, <1>6 DEF StepSet

LEMMA InsertIsPut ==
  ASSUME NamesWithoutColon, DocumentsInv, NEW c \in Names, NEW i \in Docs!AllIds,
         NEW d, d.body \in Bodies, Docs!Insert(c, i, d)
  PROVE  DocumentsInv' /\ Docs!Abstract!Put(c, i, d.body)
<1>1. PICK e : e = [id |-> i, body |-> d.body]
  OBVIOUS
<1>2. e \in Document \cup {Unreadable}
  BY <1>1 DEF Document
<1>3. Docs!StorePut(Docs!Key(c, i), e) /\ Answered("put", {}, {})
  BY <1>1 DEF Docs!Insert, Docs!Injected, Docs!Answer, Answered
<1>4. DocumentsInv' /\ StepSet(c, i, e)
  BY <1>2, <1>3, DocumentIsSet
<1> QED BY <1>1, <1>3, <1>4, AbstractSets

LEMMA DeleteIsDelete ==
  ASSUME NamesWithoutColon, DocumentsInv, NEW c \in Names, NEW i \in Docs!AllIds, Docs!DeleteDocument(c, i)
  PROVE  DocumentsInv' /\ Docs!Abstract!Delete(c, i)
<1>1. Docs!StoreDelete(Docs!Key(c, i)) /\ Answered("delete", {}, {})
  BY DEF Docs!DeleteDocument, Docs!Answer, Answered
<1> QED BY <1>1, DocumentIsUnset, AbstractSets

\* A key-value route writes a document or another key.
LEMMA RawIsOverwrite ==
  ASSUME NamesWithoutColon, DocumentsInv, NEW r \in RawKeys,
         Docs!DeleteRaw(r) \/ \E v \in RawValues : Docs!PutRaw(r, v)
  PROVE  DocumentsInv' /\ Docs!Abstract!Next
<1>1. Answered("raw", {}, {}) /\ (Docs!StoreDelete(r) \/ \E v \in RawValues : Docs!StorePut(r, v))
  BY DEF Docs!DeleteRaw, Docs!PutRaw, Docs!Answer, Answered
<1>2. CASE r \in Docs!DocumentKeys
  <2>1. PICK c \in Names, i \in Docs!AllIds : r = Docs!Key(c, i)
    BY <1>2 DEF Docs!DocumentKeys
  <2>2. DocumentsInv' /\ \E d \in RawValues \cup {None} : StepSet(c, i, d)
    BY <1>1, <2>1, DocumentIsSet, DocumentIsUnset, DocumentsConstants
  <2>3. \E d \in RawValues \cup {None} : Docs!Abstract!Overwrite(c, i, d)
    BY <1>1, <2>2, AbstractSets
  <2> QED BY <2>2, <2>3 DEF Docs!Abstract!Next, Docs!AllIds
<1>3. CASE r \notin Docs!DocumentKeys
  <2>1. /\ DOMAIN store' \subseteq DOMAIN store \cup {r} /\ DOMAIN store \subseteq DOMAIN store' \cup {r}
        /\ \A k \in DOMAIN store' : k # r => store'[k] = store[k]
        /\ r \in DOMAIN store' => store'[r] \in RawValues
    BY <1>1 DEF Docs!StoreDelete, Docs!StorePut
  <2>2. DocumentsInv'
    BY <2>1, DocumentsConstants DEF DocumentsInv
  <2>3. View(store') = View(store)
    BY <1>3, <2>1, ViewElsewhere
  <2>4. Strays(store') \in SUBSET StrayNames
    BY <2>2, StraysAreRaw DEF DocumentsInv
  <2>5. Docs!Abstract!Elsewhere
    BY <1>1, <2>3, <2>4, AbstractElsewhere
  <2> QED BY <2>2, <2>5 DEF Docs!Abstract!Next
<1> QED BY <1>2, <1>3

\* A step that leaves the engine alone.
LEMMA ReadIsStill ==
  ASSUME DocumentsInv, UNCHANGED store
  PROVE  DocumentsInv' /\ Still
BY DEF DocumentsInv, Still

LEMMA GetIsGet ==
  ASSUME DocumentsInv, NEW c \in Names, NEW i \in Docs!AllIds, Docs!GetDocument(c, i)
  PROVE  DocumentsInv' /\ Docs!Abstract!Get(c, i)
<1>1. View(store)[<<c, i>>] = At(store, c, i)
  BY DEF View
<1>2. At(store, c, i) # None <=> Docs!Key(c, i) \in DOMAIN store
  BY DocumentIsNotNone DEF DocumentsInv, At
<1>3. Answered("get", {View(store)[<<c, i>>]} \ {None}, {}) /\ UNCHANGED store
  BY <1>1, <1>2 DEF At, Docs!GetDocument, Docs!Answer, Answered
<1> QED BY <1>3, AbstractReads, ReadIsStill

\* Under the prefix of a collection are its documents and nothing else.
LEMMA PrefixIsDocuments ==
  ASSUME NamesWithoutColon, DocumentsInv, NEW c \in Names, NEW k \in Docs!Scan(Docs!Prefix(c))
  PROVE  \E i \in Docs!AllIds : k = Docs!Key(c, i)
<1>1. k \in DOMAIN store /\ Docs!IsPrefix(Docs!Prefix(c), k)
  BY DEF Docs!Scan
<1>2. c \in Seq(Characters)
  BY DocumentsConstants
<1>3. PICK p, q : p = Docs!Prefix(c) /\ q = <<"doc", ":">>
  OBVIOUS
<1>4. /\ p \in Seq(Characters) /\ Len(p) = Len(c) + 3 /\ Len(c) \in Nat
      /\ p[1] = "doc" /\ p[2] = ":" /\ p[Len(c) + 3] = ":"
  <2>1. KeyOf(p, c, <<>>) BY <1>2, <1>3, PrefixParts
  <2>2. Len(<<>>) = 0 /\ Len(c) \in Nat BY <1>2
  <2> QED BY <2>1, <2>2 DEF KeyOf
<1>5. CASE k \in Docs!DocumentKeys
  BY <1>1, <1>5, PrefixIsOfOne DEF Docs!DocumentKeys
<1>6. CASE k \notin Docs!DocumentKeys
  <2>1. k \in RawKeys /\ k \in Seq(Characters)
    BY <1>1, <1>6, DocumentsConstants DEF DocumentsInv
  <2>2. Len(p) <= Len(k) /\ \A n \in 1 .. Len(p) : p[n] = k[n]
    BY <1>1, <1>3, <1>4, <2>1, Begins
  <2>3. Len(k) \in Nat /\ k[1] = "doc" /\ k[2] = ":" /\ k[Len(c) + 3] = ":" /\ Len(c) + 3 \in 3 .. Len(k)
    BY <1>4, <2>1, <2>2
  <2>4. q \in Seq(Characters) /\ Len(q) = 2 /\ q[1] = "doc" /\ q[2] = ":"
    BY <1>3 DEF Characters
  <2>5. Docs!IsPrefix(q, k)
    BY <2>1, <2>3, <2>4, Begins
  <2> QED BY <1>3, <1>6, <2>1, <2>3, <2>5, DocumentsConstants
<1> QED BY <1>5, <1>6

\* What the store holds under the prefix of a collection is the collection.
LEMMA ScanIsCollection ==
  ASSUME NamesWithoutColon, DocumentsInv, NEW c \in Names
  PROVE  {store[k] : k \in Docs!Scan(Docs!Prefix(c))} = {View(store)[<<c, i>>] : i \in Docs!AllIds} \ {None}
<1>1. ASSUME NEW k \in Docs!Scan(Docs!Prefix(c))
      PROVE  \E i \in Docs!AllIds : store[k] = View(store)[<<c, i>>] /\ store[k] # None
  <2>1. k \in DOMAIN store
    BY <1>1 DEF Docs!Scan
  <2>2. PICK i \in Docs!AllIds : k = Docs!Key(c, i)
    BY <1>1, PrefixIsDocuments
  <2>3. View(store)[<<c, i>>] = At(store, c, i)
    BY DEF View
  <2>4. store[k] # None
    BY <2>1, DocumentIsNotNone DEF DocumentsInv
  <2> QED BY <2>1, <2>2, <2>3, <2>4 DEF At
<1>2. ASSUME NEW i \in Docs!AllIds, View(store)[<<c, i>>] # None
      PROVE  \E k \in Docs!Scan(Docs!Prefix(c)) : View(store)[<<c, i>>] = store[k]
  <2>1. View(store)[<<c, i>>] = At(store, c, i)
    BY DEF View
  <2>2. Docs!Key(c, i) \in DOMAIN store /\ View(store)[<<c, i>>] = store[Docs!Key(c, i)]
    BY <1>2, <2>1 DEF At
  <2>3. Docs!IsPrefix(Docs!Prefix(c), Docs!Key(c, i))
    BY PrefixIsOfOne
  <2> QED BY <2>2, <2>3 DEF Docs!Scan
<1>3. ASSUME NEW x \in {store[k] : k \in Docs!Scan(Docs!Prefix(c))}
      PROVE  x \in {View(store)[<<c, i>>] : i \in Docs!AllIds} \ {None}
  BY <1>1
<1>4. ASSUME NEW x \in {View(store)[<<c, i>>] : i \in Docs!AllIds} \ {None}
      PROVE  x \in {store[k] : k \in Docs!Scan(Docs!Prefix(c))}
  BY <1>2
<1> QED BY <1>3, <1>4

LEMMA QueryIsQuery ==
  ASSUME NamesWithoutColon, DocumentsInv, NEW c \in Names, NEW keep, Docs!QueryDocuments(c, keep)
  PROVE  DocumentsInv' /\ Docs!Abstract!Query(c, keep)
<1>1. PICK S, T : /\ S = {store[k] : k \in Docs!Scan(Docs!Prefix(c))}
                  /\ T = {View(store)[<<c, i>>] : i \in Docs!AllIds}
  OBVIOUS
<1>2. S = T \ {None}
  BY <1>1, ScanIsCollection
<1>3. {d \in S \ {Unreadable} : d.body \in keep} = FoundIn(store, c, keep)
  BY <1>1, <1>2 DEF FoundIn
<1>4. Answered("query", FoundIn(store, c, keep), {}) /\ UNCHANGED store
  BY <1>1, <1>3 DEF Docs!QueryDocuments, Docs!Answer, Answered
<1> QED BY <1>4, AbstractReads, ReadIsStill

LEMMA ListIsList ==
  ASSUME NamesWithoutColon, DocumentsInv, Docs!ListCollections
  PROVE  DocumentsInv' /\ Docs!Abstract!List
<1>1. PICK S : S = Docs!Scan(<<"doc", ":">>)
  OBVIOUS
<1>2. Strays(store) = {Docs!NameOf(k) : k \in S \ Docs!DocumentKeys}
  BY <1>1 DEF Strays, Docs!Scan
<1>3. ASSUME NEW k \in S, k \in Docs!DocumentKeys
      PROVE  Docs!NameOf(k) \in Names /\ \E i \in Docs!AllIds : View(store)[<<Docs!NameOf(k), i>>] # None
  <2>1. k \in DOMAIN store
    BY <1>1, <1>3 DEF Docs!Scan
  <2>2. PICK b \in Names, i \in Docs!AllIds : k = Docs!Key(b, i)
    BY <1>3 DEF Docs!DocumentKeys
  <2>3. Docs!NameOf(k) = b
    BY <2>2, NameOfKey
  <2>4. View(store)[<<b, i>>] = At(store, b, i)
    BY DEF View
  <2>5. store[k] # None
    BY <2>1, DocumentIsNotNone DEF DocumentsInv
  <2> QED BY <2>1, <2>2, <2>3, <2>4, <2>5 DEF At
<1>4. ASSUME NEW c \in Names, NEW i \in Docs!AllIds, View(store)[<<c, i>>] # None
      PROVE  \E k \in S : Docs!NameOf(k) = c
  <2>1. View(store)[<<c, i>>] = At(store, c, i)
    BY DEF View
  <2>2. Docs!Key(c, i) \in DOMAIN store
    BY <1>4, <2>1 DEF At
  <2>3. Docs!IsPrefix(<<"doc", ":">>, Docs!Key(c, i))
    BY DocPrefix
  <2>4. Docs!NameOf(Docs!Key(c, i)) = c
    BY NameOfKey
  <2> QED BY <1>1, <2>2, <2>3, <2>4 DEF Docs!Scan
<1>5. {Docs!NameOf(k) : k \in S} = ListedIn(store)
  <2>1. ASSUME NEW k \in S PROVE Docs!NameOf(k) \in ListedIn(store)
    BY <1>2, <1>3 DEF ListedIn
  <2>2. ASSUME NEW n \in ListedIn(store) PROVE \E k \in S : Docs!NameOf(k) = n
    BY <1>2, <1>4 DEF ListedIn
  <2> QED BY <2>1, <2>2
<1>6. Answered("list", {}, ListedIn(store)) /\ UNCHANGED store
  BY <1>1, <1>5 DEF Docs!ListCollections, Docs!Colon, Docs!Answer, Answered
<1> QED BY <1>6, AbstractReads, ReadIsStill

LEMMA DocumentsStep ==
  ASSUME NamesWithoutColon, DocumentsInv, Docs!Next
  PROVE  DocumentsInv' /\ Docs!Abstract!Next
<1>1. CASE Docs!ListCollections
  BY <1>1, ListIsList DEF Docs!Abstract!Next
<1>2. CASE Docs!RefuseDocument
  BY <1>2, ReadIsStill, AbstractElsewhere DEF Docs!RefuseDocument, Docs!Answer, Answered, Docs!Abstract!Next
<1>3. CASE \E c \in Names, keep \in SUBSET Bodies : Docs!QueryDocuments(c, keep)
  BY <1>3, QueryIsQuery DEF Docs!Abstract!Next
<1>4. CASE \E c \in Names, i \in Ids \cup Generated : Docs!DeleteDocument(c, i) \/ Docs!GetDocument(c, i)
  <2>1. PICK c \in Names, i \in Docs!AllIds : Docs!DeleteDocument(c, i) \/ Docs!GetDocument(c, i)
    BY <1>4 DEF Docs!AllIds
  <2>2. DocumentsInv' /\ (Docs!Abstract!Delete(c, i) \/ Docs!Abstract!Get(c, i))
    BY <2>1, DeleteIsDelete, GetIsGet
  <2> QED BY <2>2 DEF Docs!Abstract!Next, Docs!AllIds
<1>5. CASE \E c \in Names, q \in Ids \cup {None}, d \in Docs!Sent : Docs!PutDocument(c, q, d)
  <2>1. PICK c \in Names, q \in Ids \cup {None}, d \in Docs!Sent : Docs!PutDocument(c, q, d)
    BY <1>5
  <2>2. PICK i \in Docs!AllIds : Docs!Insert(c, i, d)
    BY <2>1 DEF Docs!PutDocument, Docs!AllIds, Docs!Sent
  <2>3. d.body \in Bodies
    BY DEF Docs!Sent
  <2>4. DocumentsInv' /\ Docs!Abstract!Put(c, i, d.body)
    BY <2>2, <2>3, InsertIsPut
  <2> QED BY <2>3, <2>4 DEF Docs!Abstract!Next, Docs!AllIds
<1>6. CASE \E k \in RawKeys : Docs!DeleteRaw(k) \/ \E v \in RawValues : Docs!PutRaw(k, v)
  BY <1>6, RawIsOverwrite
<1> QED BY <1>1, <1>2, <1>3, <1>4, <1>5, <1>6 DEF Docs!Next

LEMMA DocumentsStart ==
  ASSUME Docs!Init
  PROVE  DocumentsInv /\ Docs!Abstract!Init
<1>1. DOMAIN store = {} /\ op = "none" /\ found = {} /\ listed = {}
  BY DEF Docs!Init
<1>2. View(store) = [p \in Names \X Docs!AllIds |-> None] /\ Strays(store) = {}
  BY <1>1 DEF View, At, Strays
<1> QED BY <1>1, <1>2, AbstractInit DEF DocumentsInv

\* collection.go and the document routes: the keys of the engine are collections of
\* documents, whatever names without a colon and whatever ids there are.
THEOREM DocumentsAreCollections ==
  ASSUME NamesWithoutColon
  PROVE  ServicesSpec => ImplementsCollections
<1>1. ASSUME ServicesInit PROVE DocumentsInv /\ Docs!Abstract!Init
  BY <1>1, DocumentsStart DEF ServicesInit
<1>2. ASSUME DocumentsInv, [ServicesNext]_<<subject, vars, rateVars, metricsVars, ringVars, docVars>>
      PROVE  DocumentsInv' /\ [Docs!Abstract!Next]_(Docs!Abstract!vars)
  <2>1. Docs!Next \/ UNCHANGED docVars
    BY <1>2 DEF ServicesNext
  <2>2. CASE UNCHANGED docVars
    <3>1. UNCHANGED <<Docs!Abstract!vars>>
      BY <2>2 DEF docVars, Docs!Abstract!vars, Docs!Scan
    <3> QED BY <1>2, <2>2, <3>1 DEF docVars, DocumentsInv
  <2> QED BY <1>2, <2>1, <2>2, DocumentsStep
<1> QED BY <1>1, <1>2, PTL DEF ServicesSpec, ImplementsCollections, Docs!ImplementsCollections,
       Docs!Abstract!Spec
--------------------------------------------------------------------------------
(* The hash ring.                                                           *)

\* The well-founded order of the numbers: a set of them has a least ...
LEMMA Least ==
  ASSUME NEW T \in SUBSET Nat, T # {}
  PROVE  \E x \in T : \A y \in T : x <= y
<1>1. IsWellFoundedOn(OpToRel(<, Nat), Nat)
  BY NatLessThanWellFounded
<1>2. \E x \in T : \A y \in T : ~ (<<y, x>> \in OpToRel(<, Nat))
  <2> HIDE DEF OpToRel
  <2> QED BY <1>1, WFMin
<1>3. PICK x \in T : \A y \in T : ~ (<<y, x>> \in OpToRel(<, Nat))
  BY <1>2
<1>4. ASSUME NEW y \in T PROVE ~ (y < x)
  BY <1>3, Zenon DEF OpToRel
<1> QED BY <1>4

\* ... and, if it is bounded, a greatest.
LEMMA Greatest ==
  ASSUME NEW T \in SUBSET Nat, T # {}, NEW b \in Nat, \A y \in T : y <= b
  PROVE  \E x \in T : \A y \in T : y <= x
<1>1. PICK U : U = {b - y : y \in T}
  OBVIOUS
<1>2. U \in SUBSET Nat /\ U # {}
  <2>1. ASSUME NEW y \in T PROVE b - y \in Nat
    OBVIOUS
  <2> QED BY <1>1, <2>1
<1>3. PICK u \in U : \A v \in U : u <= v
  BY <1>2, Least
<1>4. PICK x \in T : u = b - x
  BY <1>1, <1>3
<1>5. ASSUME NEW y \in T PROVE y <= x
  <2>1. u <= b - y
    BY <1>1, <1>3
  <2> QED BY <1>4, <2>1
<1> QED BY <1>4, <1>5

Distinct == \A a, b \in Nodes \X Ring!Replica : hash[a] = hash[b] => a = b
Ascending(s) == \A i, j \in DOMAIN s : i <= j => s[i] <= s[j]

\* The ring is sorted and holds the points that have a node; each has a node that is
\* there and hashes to it; and where no two replicas collide each replica has its point.
RingInv ==
  /\ hash \in [Nodes \X Ring!Replica -> Ring!Points] /\ nodes \subseteq Nodes
  /\ Collisions \/ Distinct
  /\ ring \in Seq(Ring!Points) /\ Ascending(ring)
  /\ Ring!ToSet(ring) = DOMAIN ringMap
  /\ \A p \in DOMAIN ringMap :
       ringMap[p] \in nodes /\ \E i \in Ring!Replica : p = hash[<<ringMap[p], i>>]
  /\ Distinct => \A n \in nodes, i \in Ring!Replica : hash[<<n, i>>] \in DOMAIN ringMap

LEMMA RingConstants == Replicas \in Nat \ {0} /\ Size \in Nat \ {0}
BY ServicesAssumption DEF Ring!RingAssumption

LEMMA RingCardinality == \A S : Ring!Cardinality(S) = Cardinality(S)
BY DEF Ring!Cardinality, Cardinality, Ring!IsFiniteSet, IsFiniteSet

LEMMA RingMin ==
  ASSUME NEW S \in SUBSET Nat, S # {}
  PROVE  Ring!Min(S) \in S /\ \A y \in S : Ring!Min(S) <= y
<1>1. \E x \in S : \A y \in S : x <= y
  BY Least
<1> QED BY <1>1 DEF Ring!Min

\* Of the places in I those up to i, and how many they are.
UpTo(I, i) == {k \in I : k <= i}

LEMMA PlacesFinite ==
  ASSUME NEW I, NEW b \in Nat, \A i \in I : i \in 1 .. b
  PROVE  /\ \A i \in I : i \in Nat /\ i <= b
         /\ IsFiniteSet(I) /\ Cardinality(I) \in Nat
         /\ \A J \in SUBSET I : IsFiniteSet(J) /\ Cardinality(J) \in 0 .. Cardinality(I)
<1>1. IsFiniteSet(1 .. b) /\ I \in SUBSET (1 .. b)
  BY FS_Interval
<1>2. IsFiniteSet(I) /\ Cardinality(I) \in Nat
  BY <1>1, FS_Subset, FS_CardinalityType
<1>3. ASSUME NEW J \in SUBSET I PROVE IsFiniteSet(J) /\ Cardinality(J) \in 0 .. Cardinality(I)
  <2>1. IsFiniteSet(J) /\ Cardinality(J) <= Cardinality(I)
    BY <1>2, FS_Subset
  <2>2. Cardinality(J) \in Nat
    BY <2>1, FS_CardinalityType
  <2> QED BY <1>2, <2>1, <2>2
<1> QED BY <1>2, <1>3

\* Fewer are in a smaller set.
LEMMA Fewer ==
  ASSUME NEW I, IsFiniteSet(I), NEW J \in SUBSET I, NEW i \in I, i \notin J
  PROVE  Cardinality(J) \in Nat /\ Cardinality(I) \in Nat /\ Cardinality(J) < Cardinality(I)
<1>1. IsFiniteSet(J) /\ Cardinality(J) <= Cardinality(I) /\ (Cardinality(I) = Cardinality(J) => I = J)
  BY FS_Subset
<1>2. Cardinality(I) # Cardinality(J)
  BY <1>1
<1>3. Cardinality(J) \in Nat /\ Cardinality(I) \in Nat
  BY <1>1, FS_CardinalityType
<1> QED BY <1>1, <1>2, <1>3

LEMMA UpToFinite ==
  ASSUME NEW I, NEW b \in Nat, \A i \in I : i \in 1 .. b, NEW i \in I
  PROVE  IsFiniteSet(UpTo(I, i)) /\ Cardinality(UpTo(I, i)) \in 1 .. Cardinality(I)
<1>1. i \in UpTo(I, i) /\ UpTo(I, i) \in SUBSET I
  BY DEF UpTo
<1>2. /\ IsFiniteSet(UpTo(I, i)) /\ Cardinality(UpTo(I, i)) \in 0 .. Cardinality(I)
      /\ Cardinality(I) \in Nat
  BY <1>1, PlacesFinite
<1>3. Cardinality(UpTo(I, i)) # 0
  BY <1>1, <1>2, FS_EmptySet
<1> QED BY <1>2, <1>3

LEMMA UpToGrows ==
  ASSUME NEW I, NEW b \in Nat, \A i \in I : i \in 1 .. b, NEW i \in I, NEW k \in I, i < k
  PROVE  Cardinality(UpTo(I, i)) < Cardinality(UpTo(I, k))
<1>1. \A j \in I : j \in Nat
  BY PlacesFinite
<1>2. UpTo(I, i) \in SUBSET UpTo(I, k) /\ k \in UpTo(I, k) /\ k \notin UpTo(I, i)
  BY <1>1 DEF UpTo
<1>3. IsFiniteSet(UpTo(I, k))
  BY UpToFinite
<1> QED BY <1>2, <1>3, Fewer

\* There is a j-th place.
LEMMA PlaceExists ==
  ASSUME NEW I, NEW b \in Nat, \A i \in I : i \in 1 .. b, NEW j \in 1 .. Cardinality(I)
  PROVE  \E i \in I : Cardinality(UpTo(I, i)) = j
<1>1. /\ IsFiniteSet(I) /\ Cardinality(I) \in Nat /\ \A i \in I : i \in Nat /\ i <= b
      /\ I \in SUBSET Nat
  BY PlacesFinite
<1>2. I # {}
  BY <1>1, FS_EmptySet
<1>3. PICK S : S = {i \in I : Cardinality(UpTo(I, i)) >= j}
  OBVIOUS
<1>4. S # {}
  <2>1. PICK m \in I : \A i \in I : i <= m
    BY <1>1, <1>2, Greatest
  <2>2. UpTo(I, m) = I
    BY <2>1 DEF UpTo
  <2> QED BY <1>1, <1>3, <2>1, <2>2
<1>5. S \in SUBSET Nat
  BY <1>1, <1>3
<1>6. PICK i \in S : \A k \in S : i <= k
  BY <1>4, <1>5, Least
<1>7. i \in I /\ Cardinality(UpTo(I, i)) >= j /\ i \in UpTo(I, i)
  BY <1>1, <1>3 DEF UpTo
<1>8. PICK B : B = UpTo(I, i) \ {i}
  OBVIOUS
<1>9. IsFiniteSet(B) /\ Cardinality(UpTo(I, i)) = Cardinality(B) + 1 /\ Cardinality(B) \in Nat
  <2>1. IsFiniteSet(UpTo(I, i)) /\ Cardinality(UpTo(I, i)) \in 1 .. Cardinality(I)
    BY <1>7, UpToFinite
  <2>2. IsFiniteSet(B) /\ Cardinality(B) = Cardinality(UpTo(I, i)) - 1
    BY <1>7, <1>8, <2>1, FS_RemoveElement
  <2> QED BY <1>1, <2>1, <2>2
<1>10. Cardinality(B) < j
  <2>1. CASE B = {}
    BY <1>1, <2>1, FS_EmptySet
  <2>2. CASE B # {}
    <3>1. \A k \in B : k \in I /\ k \in Nat /\ k <= b /\ k < i
      BY <1>1, <1>7, <1>8 DEF UpTo
    <3>2. B \in SUBSET Nat
      BY <3>1
    <3>3. PICK m \in B : \A k \in B : k <= m
      BY <2>2, <3>1, <3>2, Greatest
    <3>4. m \in I /\ m < i
      BY <3>1
    <3>5. UpTo(I, m) = B
      <4>1. \A k \in I : k <= m => k < i
        BY <1>1, <1>7, <3>4
      <4>2. \A k \in I : k < i => k \in B
        BY <1>1, <1>7, <1>8 DEF UpTo
      <4> QED BY <3>1, <3>3, <4>1, <4>2 DEF UpTo
    <3>6. m \notin S
      BY <1>1, <1>6, <1>7, <3>4
    <3>7. ~ (Cardinality(B) >= j)
      BY <1>3, <3>4, <3>5, <3>6
    <3> QED BY <1>1, <1>9, <3>7
  <2> QED BY <2>1, <2>2
<1> QED BY <1>1, <1>7, <1>9, <1>10

\* What is kept of a sorted ring is in it and is sorted (RemoveNode).
LEMMA FilteredIs ==
  ASSUME ring \in Seq(Ring!Points), Ascending(ring), NEW kept
  PROVE  /\ Ring!Filtered(kept) \in Seq(Ring!Points) /\ Ascending(Ring!Filtered(kept))
         /\ Ring!ToSet(Ring!Filtered(kept)) = Ring!ToSet(ring) \cap kept
<1> DEFINE I == {i \in DOMAIN ring : ring[i] \in kept}
           Place(j) == CHOOSE i \in I : Ring!Cardinality({k \in I : k <= i}) = j
<1>1. (\A i \in I : i \in 1 .. Len(ring)) /\ Len(ring) \in Nat
  OBVIOUS
<1>2. IsFiniteSet(I) /\ Cardinality(I) \in Nat /\ \A i \in I : i \in Nat
  BY <1>1, PlacesFinite
<1>3. Ring!Filtered(kept) = [j \in 1 .. Cardinality(I) |-> ring[Place(j)]]
  <2>1. Ring!Filtered(kept) = [j \in 1 .. Ring!Cardinality(I) |-> ring[Place(j)]]
    BY DEF Ring!Filtered
  <2>2. Ring!Cardinality(I) = Cardinality(I)
    BY RingCardinality
  <2> QED BY <2>1, <2>2
<1> HIDE DEF I
<1>4. ASSUME NEW j \in 1 .. Cardinality(I)
      PROVE  Place(j) \in I /\ Cardinality(UpTo(I, Place(j))) = j
  <2>1. \E i \in I : Ring!Cardinality({k \in I : k <= i}) = j
    <3>1. PICK i \in I : Cardinality(UpTo(I, i)) = j
      BY <1>1, PlaceExists
    <3> QED BY <3>1, RingCardinality DEF UpTo
  <2>2. Place(j) \in I /\ Ring!Cardinality({k \in I : k <= Place(j)}) = j
    BY <2>1
  <2> QED BY <2>2, RingCardinality DEF UpTo
<1> HIDE DEF Place
<1>5. ASSUME NEW i \in I
      PROVE  \E j \in 1 .. Cardinality(I) : Place(j) = i
  <2>1. PICK j : j = Cardinality(UpTo(I, i))
    OBVIOUS
  <2>2. j \in 1 .. Cardinality(I)
    BY <1>1, <2>1, UpToFinite
  <2>3. Place(j) \in I /\ Cardinality(UpTo(I, Place(j))) = j
    BY <1>4, <2>2
  <2>4. ~ (Place(j) < i) /\ ~ (i < Place(j))
    <3>1. ~ (j < j)
      BY <2>2
    <3> QED BY <1>1, <2>1, <2>3, <3>1, UpToGrows
  <2>5. i \in Nat /\ Place(j) \in Nat
    BY <1>2, <2>3
  <2> QED BY <2>2, <2>4, <2>5
<1>6. ASSUME NEW j \in 1 .. Cardinality(I), NEW k \in 1 .. Cardinality(I), j <= k
      PROVE  Place(j) <= Place(k)
  <2>1. Place(j) \in I /\ Place(k) \in I /\ Cardinality(UpTo(I, Place(j))) = j /\ Cardinality(UpTo(I, Place(k))) = k
    BY <1>4
  <2>2. ~ (Place(k) < Place(j))
    <3> SUFFICES ASSUME Place(k) < Place(j) PROVE FALSE
      OBVIOUS
    <3>1. Cardinality(UpTo(I, Place(k))) < Cardinality(UpTo(I, Place(j)))
      BY <1>1, <2>1, UpToGrows
    <3> QED BY <1>2, <1>6, <2>1, <3>1
  <2>3. Place(j) \in Nat /\ Place(k) \in Nat
    BY <1>2, <2>1
  <2> QED BY <2>2, <2>3
<1>7. ASSUME NEW i \in I PROVE i \in DOMAIN ring /\ ring[i] \in kept
  BY DEF I
<1>8. Ring!Filtered(kept) \in Seq(Ring!Points)
  <2>1. ASSUME NEW j \in 1 .. Cardinality(I) PROVE ring[Place(j)] \in Ring!Points
    BY <1>4, <1>7
  <2> QED BY <1>2, <1>3, <2>1
<1>9. Ascending(Ring!Filtered(kept))
  <2>1. ASSUME NEW j \in 1 .. Cardinality(I), NEW k \in 1 .. Cardinality(I), j <= k
        PROVE  ring[Place(j)] <= ring[Place(k)]
    BY <1>4, <1>6, <1>7, <2>1 DEF Ascending
  <2> QED BY <1>3, <2>1 DEF Ascending
<1>10. Ring!ToSet(Ring!Filtered(kept)) = Ring!ToSet(ring) \cap kept
  <2>1. ASSUME NEW p \in Ring!ToSet(Ring!Filtered(kept)) PROVE p \in Ring!ToSet(ring) \cap kept
    <3>1. PICK j \in 1 .. Cardinality(I) : p = ring[Place(j)]
      BY <1>3 DEF Ring!ToSet
    <3> QED BY <1>4, <1>7, <3>1 DEF Ring!ToSet
  <2>2. ASSUME NEW p \in Ring!ToSet(ring) \cap kept PROVE p \in Ring!ToSet(Ring!Filtered(kept))
    <3>1. PICK i \in I : p = ring[i]
      BY DEF I, Ring!ToSet
    <3>2. PICK j \in 1 .. Cardinality(I) : Place(j) = i
      BY <1>5
    <3> QED BY <1>3, <3>1, <3>2 DEF Ring!ToSet
  <2> QED BY <2>1, <2>2
<1> QED BY <1>8, <1>9, <1>10

\* Sorting keeps the points and puts them in order (AddNode).
LEMMA SortedIs ==
  ASSUME NEW s \in Seq(Ring!Points)
  PROVE  /\ Ring!Sorted(s) \in Seq(Ring!Points) /\ Ascending(Ring!Sorted(s))
         /\ Ring!ToSet(Ring!Sorted(s)) = Ring!ToSet(s)
<1> DEFINE AtMost(p) == {i \in DOMAIN s : s[i] <= p}
           Reaching(j) == {p \in Ring!ToSet(s) : Cardinality(AtMost(p)) >= j}
<1>1. \A p \in Ring!ToSet(s) : p \in Ring!Points /\ p \in Nat /\ p \in Int /\ p <= Size
  <2>1. \A p \in Ring!Points : p \in Nat /\ p \in Int /\ p <= Size
    BY RingConstants DEF Ring!Points
  <2>2. \A p \in Ring!ToSet(s) : p \in Ring!Points
    BY DEF Ring!ToSet
  <2> QED BY <2>1, <2>2
<1>2. /\ IsFiniteSet(DOMAIN s) /\ Cardinality(DOMAIN s) = Len(s) /\ DOMAIN s = 1 .. Len(s)
      /\ Len(s) \in Nat /\ \A j \in DOMAIN s : j \in Int /\ 1 <= j /\ j <= Len(s)
  <2>1. DOMAIN s = 1 .. Len(s) /\ Len(s) \in Nat
    OBVIOUS
  <2>2. IsFiniteSet(1 .. Len(s)) /\ Cardinality(1 .. Len(s)) = IF 1 > Len(s) THEN 0 ELSE Len(s) - 1 + 1
    BY <2>1, FS_Interval
  <2> QED BY <2>1, <2>2
<1>3. ASSUME NEW p PROVE IsFiniteSet(AtMost(p)) /\ Cardinality(AtMost(p)) \in 0 .. Len(s)
  BY <1>2, FS_Subset, FS_CardinalityType
<1>4. Ring!Sorted(s) = [j \in DOMAIN s |-> Ring!Min(Reaching(j))]
  BY RingCardinality DEF Ring!Sorted
<1>5. ASSUME NEW j \in DOMAIN s
      PROVE  /\ Ring!Min(Reaching(j)) \in Reaching(j)
             /\ \A p \in Reaching(j) : Ring!Min(Reaching(j)) <= p
  <2>1. Ring!ToSet(s) # {} /\ Ring!ToSet(s) \in SUBSET Nat /\ \A p \in Ring!ToSet(s) : p <= Size
    BY <1>1 DEF Ring!ToSet
  <2>2. PICK m \in Ring!ToSet(s) : \A p \in Ring!ToSet(s) : p <= m
    BY <2>1, Greatest, RingConstants
  <2>3. AtMost(m) = DOMAIN s
    BY <2>2 DEF Ring!ToSet
  <2>4. m \in Reaching(j)
    <3>1. Cardinality(AtMost(m)) = Len(s) /\ Len(s) >= j
      BY <1>2, <2>3
    <3> QED BY <3>1
  <2>5. Reaching(j) \in SUBSET Nat
    BY <2>1
  <2> QED BY <2>4, <2>5, RingMin
<1>6. ASSUME NEW j \in DOMAIN s, NEW k \in DOMAIN s, j <= k
      PROVE  Ring!Min(Reaching(j)) <= Ring!Min(Reaching(k))
  <2>1. Ring!Min(Reaching(k)) \in Reaching(k)
    BY <1>5
  <2>2. PICK q : q = Ring!Min(Reaching(k))
    OBVIOUS
  <2>3. q \in Ring!ToSet(s) /\ Cardinality(AtMost(q)) >= k
    BY <2>1, <2>2
  <2>4. Cardinality(AtMost(q)) >= j
    <3>1. Cardinality(AtMost(q)) \in Int /\ j \in Int /\ k \in Int
      <4>1. Cardinality(AtMost(q)) \in 0 .. Len(s)
        BY <1>3
      <4> QED BY <1>2, <4>1
    <3> QED BY <1>6, <2>3, <3>1
  <2>5. q \in Reaching(j)
    BY <2>3, <2>4
  <2> QED BY <1>5, <2>2, <2>5
<1>7. ASSUME NEW p \in Ring!ToSet(s)
      PROVE  \E j \in DOMAIN s : Ring!Min(Reaching(j)) = p
  <2>1. PICK i \in DOMAIN s : p = s[i]
    BY DEF Ring!ToSet
  <2>2. PICK j : j = Cardinality(AtMost(p))
    OBVIOUS
  <2>3. i \in AtMost(p)
    <3>1. p \in Int
      BY <1>1
    <3> QED BY <2>1, <3>1
  <2>4. j \in DOMAIN s
    <3>1. AtMost(p) # {} /\ IsFiniteSet(AtMost(p)) /\ j \in 0 .. Len(s)
      BY <1>3, <2>2, <2>3
    <3>2. j # 0
      BY <2>2, <3>1, FS_EmptySet
    <3> QED BY <1>2, <3>1, <3>2
  <2>5. p \in Reaching(j)
    BY <1>2, <2>2, <2>4
  <2>6. PICK m : m = Ring!Min(Reaching(j))
    OBVIOUS
  <2>7. m \in Ring!ToSet(s) /\ Cardinality(AtMost(m)) >= j /\ m <= p
    BY <1>5, <2>4, <2>5, <2>6
  <2>8. ~ (m < p)
    <3> SUFFICES ASSUME m < p PROVE FALSE
      OBVIOUS
    <3>1. m \in Int /\ p \in Int /\ \A k \in DOMAIN s : s[k] \in Int
      <4>1. \A k \in DOMAIN s : s[k] \in Ring!ToSet(s)
        BY DEF Ring!ToSet
      <4> QED BY <1>1, <2>7, <4>1
    <3>2. AtMost(m) \in SUBSET AtMost(p) /\ i \notin AtMost(m)
      BY <2>1, <3>1
    <3>3. IsFiniteSet(AtMost(p))
      BY <1>3
    <3>4. Cardinality(AtMost(m)) < j /\ Cardinality(AtMost(m)) \in Nat /\ j \in Nat
      BY <2>2, <2>3, <3>2, <3>3, Fewer
    <3> QED BY <2>7, <3>4
  <2>9. m \in Int /\ p \in Int
    BY <1>1, <2>7
  <2>10. m = p
    BY <2>7, <2>8, <2>9
  <2> QED BY <2>4, <2>6, <2>10
<1>8. ASSUME NEW j \in DOMAIN s PROVE Ring!Min(Reaching(j)) \in Ring!ToSet(s)
  BY <1>5
<1> HIDE DEF Reaching
<1>9. Ring!Sorted(s) \in Seq(Ring!Points)
  BY <1>1, <1>2, <1>4, <1>8
<1>10. Ascending(Ring!Sorted(s))
  BY <1>4, <1>6 DEF Ascending
<1>11. Ring!ToSet(Ring!Sorted(s)) = Ring!ToSet(s)
  <2>1. Ring!ToSet(Ring!Sorted(s)) = {Ring!Min(Reaching(j)) : j \in DOMAIN s}
    BY <1>4 DEF Ring!ToSet
  <2> QED BY <1>7, <1>8, <2>1
<1> QED BY <1>9, <1>10, <1>11

LEMMA RingInit == ASSUME Ring!Init PROVE RingInv
BY RingConstants DEF Ring!Init, RingInv, Distinct, Ascending, Ring!ToSet

LEMMA NewPointsAre ==
  ASSUME RingInv, NEW n \in Nodes
  PROVE  /\ Ring!NewPoints(n) \in Seq(Ring!Points)
         /\ \A p : p \in Ring!ToSet(Ring!NewPoints(n)) <=> \E i \in Ring!Replica : p = hash[<<n, i>>]
<1>1. Ring!Replica = 1 .. Replicas /\ Replicas \in Nat
  BY RingConstants DEF Ring!Replica
<1>2. \A i \in Ring!Replica : hash[<<n, i>>] \in Ring!Points
  BY DEF RingInv
<1> QED BY <1>1, <1>2 DEF Ring!NewPoints, Ring!ToSet

LEMMA AddKeepsRingInv ==
  ASSUME RingInv, NEW n \in Nodes, Ring!AddNode(n)
  PROVE  RingInv'
<1>1. PICK s : s = ring \o Ring!NewPoints(n)
  OBVIOUS
<1>2. PICK P : P = Ring!ToSet(Ring!NewPoints(n))
  OBVIOUS
<1>3. s \in Seq(Ring!Points) /\ Ring!ToSet(s) = Ring!ToSet(ring) \cup P
  <2>1. ring \in Seq(Ring!Points) /\ Ring!NewPoints(n) \in Seq(Ring!Points)
    BY NewPointsAre DEF RingInv
  <2>2. Len(s) = Len(ring) + Len(Ring!NewPoints(n)) /\ s \in Seq(Ring!Points)
    BY <1>1, <2>1
  <2>3. \A i \in 1 .. Len(s) : s[i] = IF i <= Len(ring) THEN ring[i] ELSE Ring!NewPoints(n)[i - Len(ring)]
    BY <1>1, <2>1
  <2>4. \A i \in 1 .. Len(ring) : i \in 1 .. Len(s) /\ s[i] = ring[i]
    BY <2>1, <2>2, <2>3
  <2>5. \A i \in 1 .. Len(Ring!NewPoints(n)) :
          Len(ring) + i \in 1 .. Len(s) /\ s[Len(ring) + i] = Ring!NewPoints(n)[i]
    BY <2>1, <2>2, <2>3
  <2>6. \A i \in 1 .. Len(s) :
          \/ i \in 1 .. Len(ring)
          \/ i - Len(ring) \in 1 .. Len(Ring!NewPoints(n)) /\ s[i] = Ring!NewPoints(n)[i - Len(ring)]
    BY <2>1, <2>2, <2>3
  <2>7. /\ DOMAIN s = 1 .. Len(s) /\ DOMAIN ring = 1 .. Len(ring)
        /\ DOMAIN Ring!NewPoints(n) = 1 .. Len(Ring!NewPoints(n))
    BY <2>1, <2>2
  <2>8. ASSUME NEW x \in Ring!ToSet(s) PROVE x \in Ring!ToSet(ring) \cup P
    BY <1>2, <2>4, <2>6, <2>7 DEF Ring!ToSet
  <2>9. ASSUME NEW x \in Ring!ToSet(ring) PROVE x \in Ring!ToSet(s)
    BY <2>4, <2>7 DEF Ring!ToSet
  <2>10. ASSUME NEW x \in P PROVE x \in Ring!ToSet(s)
    BY <1>2, <2>5, <2>7 DEF Ring!ToSet
  <2> QED BY <2>2, <2>8, <2>9, <2>10
<1>4. ring' = Ring!Sorted(s) /\ nodes' = nodes \cup {n} /\ hash' = hash
  BY <1>1 DEF Ring!AddNode
<1>5. ring' \in Seq(Ring!Points) /\ Ascending(ring') /\ Ring!ToSet(ring') = Ring!ToSet(ring) \cup P
  BY <1>3, <1>4, SortedIs
<1>6. /\ DOMAIN ringMap' = DOMAIN ringMap \cup P
      /\ \A p \in P : ringMap'[p] = n
      /\ \A p \in DOMAIN ringMap \ P : ringMap'[p] = ringMap[p]
  BY <1>2 DEF Ring!AddNode
<1>7. \A p : p \in P <=> \E i \in Ring!Replica : p = hash[<<n, i>>]
  BY <1>2, NewPointsAre
<1>8. ASSUME NEW p \in DOMAIN ringMap'
      PROVE  ringMap'[p] \in nodes' /\ \E i \in Ring!Replica : p = hash[<<ringMap'[p], i>>]
  <2>1. CASE p \in P
    BY <1>4, <1>6, <1>7, <2>1
  <2>2. CASE p \notin P
    <3>1. p \in DOMAIN ringMap /\ ringMap'[p] = ringMap[p]
      BY <1>6, <2>2
    <3> QED BY <1>4, <3>1 DEF RingInv
  <2> QED BY <2>1, <2>2
<1>9. ASSUME Distinct, NEW m \in nodes', NEW i \in Ring!Replica
      PROVE  hash[<<m, i>>] \in DOMAIN ringMap'
  BY <1>4, <1>6, <1>7, <1>9 DEF RingInv
<1> QED BY <1>4, <1>5, <1>6, <1>8, <1>9 DEF RingInv, Distinct, Ascending, Ring!ToSet

LEMMA RemoveKeepsRingInv ==
  ASSUME RingInv, NEW n \in Nodes, Ring!RemoveNode(n)
  PROVE  RingInv'
<1>1. PICK P : P = Ring!ToSet(Ring!NewPoints(n))
  OBVIOUS
<1>2. \A p : p \in P <=> \E i \in Ring!Replica : p = hash[<<n, i>>]
  BY <1>1, NewPointsAre
<1>3. /\ nodes' = nodes \ {n} /\ hash' = hash /\ n \in nodes
      /\ ring' = Ring!Filtered(DOMAIN ringMap \ P)
      /\ ringMap' = [p \in DOMAIN ringMap \ P |-> ringMap[p]]
  BY <1>1 DEF Ring!RemoveNode, Ring!Remaining
<1>4. /\ ring' \in Seq(Ring!Points) /\ Ascending(ring')
      /\ Ring!ToSet(ring') = Ring!ToSet(ring) \cap (DOMAIN ringMap \ P)
  BY <1>3, FilteredIs DEF RingInv
<1>5. Ring!ToSet(ring') = DOMAIN ringMap'
  BY <1>3, <1>4 DEF RingInv
<1>6. ASSUME NEW p \in DOMAIN ringMap'
      PROVE  ringMap'[p] \in nodes' /\ \E i \in Ring!Replica : p = hash[<<ringMap'[p], i>>]
  <2>1. p \in DOMAIN ringMap /\ p \notin P /\ ringMap'[p] = ringMap[p]
    BY <1>3
  <2>2. ringMap[p] \in nodes /\ \E i \in Ring!Replica : p = hash[<<ringMap[p], i>>]
    BY <2>1 DEF RingInv
  <2> QED BY <1>2, <1>3, <2>1, <2>2
<1>7. ASSUME Distinct, NEW m \in nodes', NEW i \in Ring!Replica
      PROVE  hash[<<m, i>>] \in DOMAIN ringMap'
  <2>1. m \in nodes /\ m # n /\ m \in Nodes
    BY <1>3 DEF RingInv
  <2>2. hash[<<m, i>>] \in DOMAIN ringMap
    BY <1>7, <2>1 DEF RingInv
  <2>3. hash[<<m, i>>] \notin P
    <3>1. SUFFICES ASSUME NEW k \in Ring!Replica, hash[<<m, i>>] = hash[<<n, k>>] PROVE FALSE
      BY <1>2
    <3>2. <<m, i>> \in Nodes \X Ring!Replica /\ <<n, k>> \in Nodes \X Ring!Replica
      BY <2>1
    <3>3. <<m, i>> = <<n, k>>
      BY <1>7, <3>1, <3>2 DEF Distinct
    <3> QED BY <2>1, <3>3
  <2> QED BY <1>3, <2>2, <2>3
<1> QED BY <1>3, <1>4, <1>5, <1>6, <1>7 DEF RingInv, Distinct, Ascending, Ring!ToSet

LEMMA RingOfServices == ServicesSpec => []RingInv
<1>1. ServicesInit => RingInv
  BY RingInit DEF ServicesInit
<1>2. ASSUME RingInv, [ServicesNext]_<<subject, vars, rateVars, metricsVars, ringVars, docVars>>
      PROVE  RingInv'
  <2>1. Ring!Next \/ UNCHANGED ringVars
    BY <1>2 DEF ServicesNext
  <2>2. CASE UNCHANGED ringVars
    BY <1>2, <2>2 DEF ringVars, RingInv, Distinct, Ascending, Ring!ToSet
  <2> QED BY <1>2, <2>1, <2>2, AddKeepsRingInv, RemoveKeepsRingInv DEF Ring!Next
<1> QED BY <1>1, <1>2, PTL DEF ServicesSpec

\* What the search finds: the first point at or behind p or, if there is none, the first.
FoundAt(p, f) ==
  /\ f \in DOMAIN ring
  /\ \/ ring[f] >= p /\ \A i \in DOMAIN ring : i < f => ring[i] < p
     \/ f = 1 /\ \A i \in DOMAIN ring : ring[i] < p

LEMMA FoundIs ==
  ASSUME RingInv, ring # <<>>, NEW p \in Ring!Points
  PROVE  FoundAt(p, Ring!Found(p))
<1> DEFINE after == {i \in DOMAIN ring : ring[i] >= p}
<1>1. /\ ring \in Seq(Ring!Points) /\ DOMAIN ring = 1 .. Len(ring) /\ Len(ring) \in Nat
      /\ p \in Int /\ \A i \in DOMAIN ring : ring[i] \in Int /\ i \in Int
  <2>1. \A q \in Ring!Points : q \in Int
    BY RingConstants DEF Ring!Points
  <2>2. /\ ring \in Seq(Ring!Points) /\ DOMAIN ring = 1 .. Len(ring) /\ Len(ring) \in Nat
        /\ \A i \in DOMAIN ring : ring[i] \in Ring!Points /\ i \in Int
    BY DEF RingInv
  <2> QED BY <2>1, <2>2
<1>2. 1 \in DOMAIN ring
  BY <1>1
<1>3. Ring!Found(p) = IF after = {} THEN 1 ELSE Ring!Min(after)
  BY DEF Ring!Found
<1>4. CASE after = {}
  <2>1. \A i \in DOMAIN ring : ring[i] < p
    BY <1>1, <1>4
  <2> QED BY <1>2, <1>3, <1>4, <2>1 DEF FoundAt
<1>5. CASE after # {}
  <2>1. after \in SUBSET Nat
    BY <1>1
  <2>2. PICK f : f = Ring!Min(after)
    OBVIOUS
  <2>3. f \in after /\ \A i \in after : f <= i
    BY <1>5, <2>1, <2>2, RingMin
  <2>4. ASSUME NEW i \in DOMAIN ring, i < f PROVE ring[i] < p
    <3>1. i \in Int /\ f \in Int /\ ring[i] \in Int /\ p \in Int
      BY <1>1, <2>3
    <3>2. ~ (f <= i)
      BY <2>4, <3>1
    <3>3. ~ (ring[i] >= p)
      BY <2>3, <3>2
    <3> QED BY <3>1, <3>3
  <2> QED BY <1>3, <1>5, <2>2, <2>3, <2>4 DEF FoundAt
<1> QED BY <1>4, <1>5

\* A key goes to a node that is on the ring or, if the ring is empty, to none: a node that
\* was removed is never the answer, even when its points were those of other nodes
\* (RemoveNode takes points out of ringMap and of the ring).
THEOREM LookupIsMember ==
  ServicesSpec => []\A p \in Ring!Points : Ring!GetNode(p) \in nodes \/ ring = <<>>
<1>1. ASSUME RingInv, NEW p \in Ring!Points, ring # <<>> PROVE Ring!GetNode(p) \in nodes
  <2>1. ring[Ring!Found(p)] \in DOMAIN ringMap
    BY <1>1, FoundIs DEF FoundAt, RingInv, Ring!ToSet
  <2> QED BY <1>1, <2>1 DEF RingInv, Ring!GetNode
<1>2. RingInv => \A p \in Ring!Points : Ring!GetNode(p) \in nodes \/ ring = <<>>
  BY <1>1
<1> QED BY <1>2, RingOfServices, PTL

LEMMA DistanceIs ==
  ASSUME NEW p \in Ring!Points, NEW q \in Ring!Points
  PROVE  Ring!Distance(p, q) = (IF p <= q THEN q - p ELSE q - p + Size) /\ Ring!Distance(p, q) \in Nat
<1>1. Size \in Nat \ {0} /\ p \in 0 .. Size - 1 /\ q \in 0 .. Size - 1
  BY RingConstants DEF Ring!Points
<1>2. (q - p) % Size = IF p <= q THEN q - p ELSE q - p + Size
  BY <1>1, SMTT(30)
<1> QED BY <1>1, <1>2 DEF Ring!Distance

\* No point of the ring is nearer to p, clockwise, than the one that is found.
LEMMA FoundIsNearest ==
  ASSUME RingInv, ring # <<>>, NEW p \in Ring!Points, NEW i \in DOMAIN ring
  PROVE  Ring!Distance(p, ring[Ring!Found(p)]) <= Ring!Distance(p, ring[i])
<1>1. PICK f : f = Ring!Found(p)
  OBVIOUS
<1>2. FoundAt(p, f) /\ f \in Int /\ i \in Int /\ f \in DOMAIN ring /\ \A k \in DOMAIN ring : k >= 1
  <2>1. FoundAt(p, f) /\ f \in DOMAIN ring
    BY <1>1, FoundIs DEF FoundAt
  <2>2. ring \in Seq(Ring!Points)
    BY DEF RingInv
  <2>3. \A k \in DOMAIN ring : k \in Int /\ k >= 1
    BY <2>2
  <2> QED BY <2>1, <2>3
<1>3. Ring!Points = 0 .. Size - 1 /\ Size \in Nat /\ ring[f] \in Ring!Points /\ ring[i] \in Ring!Points
  BY <1>2, RingConstants DEF RingInv, Ring!Points
<1>4. f <= i => ring[f] <= ring[i]
  BY <1>2 DEF RingInv, Ascending
<1>5. \/ ring[f] >= p /\ (i < f => ring[i] < p)
      \/ ring[i] < p /\ ring[f] < p /\ f <= i
  BY <1>2, <1>3 DEF FoundAt
<1>6. /\ Ring!Distance(p, ring[f]) = IF p <= ring[f] THEN ring[f] - p ELSE ring[f] - p + Size
      /\ Ring!Distance(p, ring[i]) = IF p <= ring[i] THEN ring[i] - p ELSE ring[i] - p + Size
  BY <1>3, DistanceIs
<1>7. p \in Int /\ ring[f] \in Int /\ ring[i] \in Int /\ ring[f] < Size /\ 0 <= ring[i] /\ 0 <= p
  BY <1>3
<1> QED BY <1>1, <1>2, <1>3, <1>4, <1>5, <1>6, <1>7

LEMMA ReachIs ==
  ASSUME RingInv, NEW p \in Ring!Points, NEW n \in Nodes
  PROVE  /\ \E i \in Ring!Replica : Ring!Reach(p, n) = Ring!Distance(p, hash[<<n, i>>])
         /\ \A i \in Ring!Replica : Ring!Reach(p, n) <= Ring!Distance(p, hash[<<n, i>>])
<1> DEFINE S == {Ring!Distance(p, hash[<<n, i>>]) : i \in Ring!Replica}
<1>1. \A i \in Ring!Replica : hash[<<n, i>>] \in Ring!Points
  BY DEF RingInv
<1>2. S \in SUBSET Nat
  BY <1>1, DistanceIs
<1>3. 1 \in Ring!Replica
  BY RingConstants DEF Ring!Replica
<1>4. S # {}
  BY <1>3
<1>5. Ring!Min(S) \in S /\ \A y \in S : Ring!Min(S) <= y
  BY <1>2, <1>4, RingMin
<1> QED BY <1>5 DEF Ring!Reach

\* A key goes to the first node clockwise, for every number of nodes, replicas and points,
\* after any additions and removals, as long as no two replicas hash to one point (nothing
\* in sharding.go sees to that; 32 bits of SHA-256 make it rare).
THEOREM LookupGoesClockwise ==
  ASSUME ~ Collisions
  PROVE  ServicesSpec => []LookupIsClockwise
<1>1. ASSUME RingInv, NEW p \in Ring!Points, nodes = {}
      PROVE  Ring!GetNode(p) = NoNode
  <2>1. Ring!ToSet(ring) = {}
    BY <1>1 DEF RingInv
  <2>2. ring = <<>>
    BY <1>1, <2>1 DEF RingInv, Ring!ToSet
  <2> QED BY <2>2 DEF Ring!GetNode
<1>2. ASSUME RingInv, NEW p \in Ring!Points, nodes # {}
      PROVE  /\ Ring!GetNode(p) \in nodes
             /\ \A n \in nodes : Ring!Reach(p, Ring!GetNode(p)) <= Ring!Reach(p, n)
  <2>1. \A n \in nodes, i \in Ring!Replica : hash[<<n, i>>] \in Ring!ToSet(ring)
    BY <1>2 DEF RingInv
  <2>2. 1 \in Ring!Replica
    BY RingConstants DEF Ring!Replica
  <2>3. ring # <<>>
    <3>1. Ring!ToSet(ring) # {}
      BY <1>2, <2>1, <2>2
    <3>2. DOMAIN ring # {}
      BY <3>1 DEF Ring!ToSet
    <3> QED BY <3>2
  <2>4. PICK q : q = ring[Ring!Found(p)]
    OBVIOUS
  <2>5. q \in DOMAIN ringMap /\ Ring!GetNode(p) = ringMap[q]
    BY <1>2, <2>3, <2>4, FoundIs DEF FoundAt, RingInv, Ring!ToSet, Ring!GetNode
  <2>6. Ring!GetNode(p) \in nodes /\ \E i \in Ring!Replica : q = hash[<<Ring!GetNode(p), i>>]
    BY <1>2, <2>5 DEF RingInv
  <2>7. nodes \subseteq Nodes
    BY <1>2 DEF RingInv
  <2>8. Ring!Reach(p, Ring!GetNode(p)) <= Ring!Distance(p, q)
    BY <1>2, <2>6, <2>7, ReachIs
  <2>9. ASSUME NEW n \in nodes
        PROVE  Ring!Reach(p, Ring!GetNode(p)) <= Ring!Reach(p, n)
    <3>1. PICK i \in Ring!Replica : Ring!Reach(p, n) = Ring!Distance(p, hash[<<n, i>>])
      BY <1>2, <2>7, ReachIs
    <3>2. PICK k \in DOMAIN ring : ring[k] = hash[<<n, i>>]
      BY <2>1 DEF Ring!ToSet
    <3>3. Ring!Distance(p, q) <= Ring!Reach(p, n)
      BY <1>2, <2>3, <2>4, <3>1, <3>2, FoundIsNearest
    <3>4. PICK m \in Ring!Replica :
            Ring!Reach(p, Ring!GetNode(p)) = Ring!Distance(p, hash[<<Ring!GetNode(p), m>>])
      BY <1>2, <2>6, <2>7, ReachIs
    <3>5. /\ hash[<<Ring!GetNode(p), m>>] \in Ring!Points /\ q \in Ring!Points
          /\ hash[<<n, i>>] \in Ring!Points
      BY <1>2, <2>6, <2>7 DEF RingInv
    <3>6. /\ Ring!Distance(p, q) \in Nat /\ Ring!Reach(p, n) \in Nat
          /\ Ring!Reach(p, Ring!GetNode(p)) \in Nat
      BY <3>1, <3>4, <3>5, DistanceIs
    <3> QED BY <2>8, <3>3, <3>6
  <2> QED BY <2>6, <2>9
<1>3. RingInv => LookupIsClockwise
  BY <1>1, <1>2 DEF LookupIsClockwise, Ring!LookupIsClockwise
<1> QED BY <1>3, RingOfServices, PTL
================================================================================
