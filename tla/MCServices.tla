------------------------------- MODULE MCServices -------------------------------
(***************************************************************************)
(* The small services around the engine: the log buffer, the tenant        *)
(* limiter, the hash ring, the document store and the metrics.  They share *)
(* no state, so a behaviour exercises one of them, its subject, and leaves *)
(* the others in their initial states.                                     *)
(***************************************************************************)
EXTENDS LogBuffer, TLC

\* RateLimit and Metrics
CONSTANTS Requests, Rps, Ticks, MaxTime, MaxTicks
VARIABLES now, buckets, current, request, granted, unserved
VARIABLES reads, tempReads, readRate, at, ticker, ticks, rates

rateVars == <<now, buckets, current, request, granted, unserved>>
metricsVars == <<reads, tempReads, readRate, at, ticker, ticks, rates>>

Rate == INSTANCE RateLimit
Counters == INSTANCE Metrics

\* HashRing
CONSTANTS Nodes, NoNode, Replicas, Size, Collisions
VARIABLES hash, nodes, ring, ringMap

ringVars == <<hash, nodes, ring, ringMap>>

Ring == INSTANCE HashRing

\* Documents
CONSTANTS Names, Ids, Generated, RawKeys, RawValues, Bodies, b1, Unreadable, None
VARIABLES store, op, found, listed

docVars == <<store, op, found, listed>>

\* One name begins the other, an id begins with the colon, and a client may have chosen
\* the id that is generated.
MCNames == {<<"a">>, <<"a", "b">>}
MCIds == {<<"b">>, <<":", "b">>}
MCGenerated == {<<"b">>}

\* The key-value routes write a document, a key with an empty id and a name alone.
MCRawKeys == {<<"doc", ":", "a", ":", "b">>, <<"doc", ":", "a", ":">>, <<"doc", ":", "a">>}
MCRawValues == {Unreadable, [id |-> None, body |-> b1]}

Docs == INSTANCE Documents

ASSUME ServicesAssumption ==
  /\ Rate!RateAssumption /\ Counters!MetricsAssumption
  /\ Ring!RingAssumption /\ Docs!DocumentsAssumption

VARIABLE subject

Subjects == {"logs", "rate", "metrics", "ring", "documents"}

\* One hash function suffices where the ring is not the subject.
AnyHash == CHOOSE h \in [Nodes \X Ring!Replica -> Ring!Points] :
             \A a, b \in DOMAIN h : h[a] = h[b] => a = b

ServicesInit ==
  /\ subject \in Subjects
  /\ Init /\ Rate!Init /\ Counters!Init /\ Docs!Init
  /\ Ring!Init /\ (subject = "ring" \/ hash = AnyHash)

\* Each service keeps its variables unless it is the subject.
ServicesNext ==
  /\ UNCHANGED subject
  /\ IF subject = "logs" THEN Next ELSE UNCHANGED vars
  /\ IF subject = "rate" THEN Rate!Next ELSE UNCHANGED rateVars
  /\ IF subject = "metrics" THEN Counters!Next ELSE UNCHANGED metricsVars
  /\ IF subject = "ring" THEN Ring!Next ELSE UNCHANGED ringVars
  /\ IF subject = "documents" THEN Docs!Next ELSE UNCHANGED docVars

ServicesSpec ==
  ServicesInit /\ [][ServicesNext]_<<subject, vars, rateVars, metricsVars, ringVars, docVars>>

\* TokenBucket.Allow: burst and refill bound what one bucket lets through.
BucketEnvelope == Rate!BucketEnvelope

\* Tracker: every read is in one rate.
RatesAddUp == Counters!RatesAddUp

\* GetNode: the next node clockwise.
LookupIsClockwise == Ring!LookupIsClockwise

\* CollectionManager: keys implement collections.
ImplementsCollections == Docs!ImplementsCollections
================================================================================
