------------------------------ MODULE TokenBucket ------------------------------
(***************************************************************************)
(* The per-URL rate limiter of webhook deliveries, PerUrlRateLimiter in    *)
(* src/services/webhookQueue.ts.  Time counts polls of a waiter (250 ms);  *)
(* a bucket counts in shares of a token, PerTick of which flow in per tick.*)
(* Who finds no token polls for at most MaxWait and then proceeds anyway.  *)
(***************************************************************************)
EXTENDS Integers, FiniteSets

CONSTANTS
  Url,          \* receivers
  Delivery,     \* deliveries that can wait at once
  Capacity,     \* ratePerMin tokens, in shares
  Share,        \* shares of a token
  PerTick,      \* shares that flow in during one poll interval
  MaxWait,      \* rateMaxWaitMs
  IdleTtl,      \* idleTtlMs
  LastTick      \* bound: the clock

ASSUME BucketAssumption ==
  /\ {Capacity, Share, PerTick, MaxWait, IdleTtl, LastTick} \subseteq Nat \ {0}
  /\ Share <= Capacity
  /\ IdleTtl * PerTick >= Capacity  \* five minutes refill any bucket: a minute does

VARIABLES
  tick,       \* Date.now()
  bucket,     \* per URL: its bucket
  waiter,     \* per delivery: for which URL it waits, since when, when it polls
  granted,    \* history: shares taken from a URL's bucket
  opened,     \* history: how often a delivery went on without a token
  overlong    \* history: somebody left after more than MaxWait, in whole polls

bucketVars == <<tick, bucket, waiter, granted, opened, overlong>>

NoBucket == [tokens |-> -1, refilled |-> 0, used |-> 0]
NotWaiting == [url |-> "none", since |-> 0, poll |-> 0]

BucketTypeOK ==
  /\ tick \in 0..LastTick
  /\ bucket \in [Url -> [tokens : -1..Capacity, refilled : 0..LastTick, used : 0..LastTick]]
  /\ waiter \in [Delivery -> [url : Url \union {"none"}, since : 0..LastTick, poll : Nat]]
  /\ granted \in [Url -> Nat] /\ opened \in [Delivery -> Nat] /\ overlong \in BOOLEAN

BucketInit ==
  /\ tick = 0 /\ bucket = [u \in Url |-> NoBucket]
  /\ waiter = [d \in Delivery |-> NotWaiting]
  /\ granted = [u \in Url |-> 0] /\ opened = [d \in Delivery |-> 0] /\ overlong = FALSE

-----------------------------------------------------------------------------
AtMost(x, y) == IF x < y THEN x ELSE y

\* bucketFor(): a new bucket is full, an old one is refilled for the time since.
BucketFor(u) ==
  IF bucket[u] = NoBucket THEN [tokens |-> Capacity, refilled |-> tick, used |-> tick]
  ELSE [tokens |-> AtMost(Capacity, bucket[u].tokens + PerTick * (tick - bucket[u].refilled)),
        refilled |-> tick, used |-> tick]

Swept(bs) == [u \in Url |-> IF tick - bs[u].used > IdleTtl THEN NoBucket ELSE bs[u]]
Looked(u) == [bucket EXCEPT ![u] = BucketFor(u)]
Taken(u) == [bucket EXCEPT ![u] = [BucketFor(u) EXCEPT !.tokens = @ - Share]]
Grant(u) == granted' = [granted EXCEPT ![u] = @ + Share]

\* waitForSlot() is called: at once with a token, else into the loop.
WaitForSlot(d, u) ==
  /\ waiter[d] = NotWaiting
  /\ IF BucketFor(u).tokens >= Share
     THEN bucket' = Taken(u) /\ Grant(u) /\ UNCHANGED waiter
     ELSE /\ bucket' = Looked(u) /\ UNCHANGED granted
          /\ waiter' = [waiter EXCEPT ![d] = [url |-> u, since |-> tick, poll |-> tick + 1]]
  /\ UNCHANGED <<tick, opened, overlong>>

\* The loop is left, with or without a token; idle buckets are swept.
Leave(d, bs) ==
  /\ bucket' = Swept(bs)
  /\ overlong' = (overlong \/ tick - waiter[d].since > MaxWait)
  /\ waiter' = [waiter EXCEPT ![d] = NotWaiting]
  /\ UNCHANGED tick

\* A poll of d: a token, one more round, or the wait is over.
Poll(d) ==
  LET u == waiter[d].url
  IN /\ waiter[d] # NotWaiting /\ tick = waiter[d].poll
     /\ \/ BucketFor(u).tokens >= Share /\ Grant(u) /\ UNCHANGED opened /\ Leave(d, Taken(u))
        \/ /\ BucketFor(u).tokens < Share /\ tick - waiter[d].since >= MaxWait
           /\ opened' = [opened EXCEPT ![d] = @ + 1] /\ UNCHANGED granted /\ Leave(d, Looked(u))
        \/ /\ BucketFor(u).tokens < Share /\ tick - waiter[d].since < MaxWait
           /\ bucket' = Looked(u)
           /\ waiter' = [waiter EXCEPT ![d].poll = tick + 1]
           /\ UNCHANGED <<tick, granted, opened, overlong>>

\* Time passes, but not past a poll that is due.
BucketTick ==
  /\ tick < LastTick /\ \A d \in Delivery : waiter[d] = NotWaiting \/ waiter[d].poll > tick
  /\ tick' = tick + 1
  /\ UNCHANGED <<bucket, waiter, granted, opened, overlong>>

BucketNext ==
  \/ \E d \in Delivery, u \in Url : WaitForSlot(d, u)
  \/ \E d \in Delivery : Poll(d)
  \/ BucketTick

BucketSpec == BucketInit /\ [][BucketNext]_bucketVars

-----------------------------------------------------------------------------
\* However deliveries to a URL overlap, poll and leave, and although idle buckets are
\* dropped and made anew: no more tokens are granted than a full bucket and the time since
\* the start account for; each of the deliveries that can wait at once goes on without a
\* token (the limiter fails open) at most once per MaxWait; and nobody waits longer.
RateIsKept ==
  /\ \A u \in Url : granted[u] <= Capacity + PerTick * tick
  /\ \A d \in Delivery : opened[d] * MaxWait <= tick
  /\ ~overlong
=============================================================================
