------------------------------ MODULE Gateway ------------------------------
(***************************************************************************)
(* The way of a request to its handler: the token buckets by address, by   *)
(* tenant and by account, authentication between them, and the handler     *)
(* that tails the event feed for as long as its client stays.  A limiter   *)
(* reads the clock before it takes its lock, so a bucket may be charged    *)
(* with a time before its last one.                                        *)
(***************************************************************************)
EXTENDS Integers, FiniteSets, Sequences

CONSTANTS
    Served,       \* requests in flight at once
    Presented,    \* what requests present: [addr, cred, method, tail]
    TenantOf,     \* account -> tenant
    Granted,      \* account -> scopes
    BurstOf,      \* limiter -> burst
    RefillRate,   \* tokens per tick
    MaxBuckets,   \* buckets at which full ones are dropped
    Wanted,       \* feed numbers of the types the tail asks for
    TailLimit,    \* events of a page
    MaxTicks, MaxArrivals, MaxFeed

\* New gives no limiter for a rate or a burst that is not positive.
ASSUME GatewayAssumption ==
    /\ IsFiniteSet(Served)
    /\ RefillRate \in Nat \ {0}
    /\ BurstOf \in [{"address", "tenant", "account"} -> Nat \ {0}]
    /\ TailLimit \in Nat
    /\ \A x \in Presented : x.tail \in BOOLEAN

VARIABLES
    bucket,    \* limiter -> key -> [tokens, last]
    serving,   \* request -> its progress
    ticks, arrivals,
    window,    \* history: what happened since some instant
    feedLog, nextSeq,   \* retained feed numbers of the tenant, and the next one
    got        \* feed numbers the tailing client received

gatewayVars == <<bucket, serving, ticks, arrivals, window, feedLog, nextSeq, got>>

Limiters == {"address", "tenant", "account"}
NoServing == [ph |-> "none"]
NoWindow == [open |-> FALSE]
Lower(x, y) == IF x < y THEN x ELSE y

-----------------------------------------------------------------------------
(* The token bucket. *)

Refilled(l, b, now) == Lower(BurstOf[l], b.tokens + (now - b.last) * RefillRate)

\* Bug: a large map is emptied.
EvictEvery(l, now) == {}

\* evictIfLarge: the buckets that stay; only full ones go.
Kept(l, now) ==
    LET ks == DOMAIN bucket[l]
    IN IF Cardinality(ks) < MaxBuckets THEN ks ELSE {k \in ks : Refilled(l, bucket[l][k], now) < BurstOf[l]}

\* Allow: whether a token was there, and the buckets afterwards.
Allow(l, key, now) ==
    IF key \notin DOMAIN bucket[l]
    THEN [ok |-> TRUE,
          buckets |-> [k \in Kept(l, now) \cup {key} |-> IF k = key THEN [tokens |-> BurstOf[l] - 1, last |-> now] ELSE bucket[l][k]]]
    ELSE LET n == Refilled(l, bucket[l][key], now)
         IN [ok |-> n >= 1,
             buckets |-> [bucket[l] EXCEPT ![key] = [tokens |-> IF n >= 1 THEN n - 1 ELSE n, last |-> now]]]

\* Refund: one token back, up to the burst; an unknown key has a full bucket.
Refund(l, key) ==
    IF key \notin DOMAIN bucket[l] THEN bucket[l] ELSE [bucket[l] EXCEPT ![key].tokens = Lower(BurstOf[l], @ + 1)]

-----------------------------------------------------------------------------
(* The chain of middleware. *)

InFlight == {r \in Served : serving[r] # NoServing}
Counted(w, what, key) == IF w.open THEN [w EXCEPT ![what][key] = @ + 1] ELSE w
Delayed(r) == IF window.open THEN [window EXCEPT !.late = @ + ticks - serving[r].at] ELSE window
Progress(r, ph) == serving' = [serving EXCEPT ![r].ph = ph, ![r].at = ticks]
LastReceived == IF got = << >> THEN 0 ELSE got[Len(got)]

\* A request arrives; the tail resumes from its Last-Event-ID.
Arrive(r, x) ==
    /\ serving[r] = NoServing /\ arrivals < MaxArrivals
    /\ x.tail => \A q \in Served : serving[q] # NoServing => ~serving[q].x.tail
    /\ serving' = [serving EXCEPT ![r] = [ph |-> "arrived", x |-> x, at |-> ticks, after |-> LastReceived]]
    /\ arrivals' = arrivals + 1
    /\ UNCHANGED <<bucket, ticks, window, feedLog, nextSeq, got>>

\* preAuthRateLimit takes a token of the address.
PreAuthLimit(r) ==
    /\ serving[r].ph = "arrived"
    /\ LET a == Allow("address", serving[r].x.addr, serving[r].at)
       IN /\ bucket' = [bucket EXCEPT !["address"] = a.buckets]
          /\ IF a.ok THEN Progress(r, "limited") ELSE serving' = [serving EXCEPT ![r] = NoServing]
    /\ window' = Delayed(r)
    /\ UNCHANGED <<ticks, arrivals, feedLog, nextSeq, got>>

\* authenticate: the token, then the scope of the method.
Authenticate(r) ==
    /\ serving[r].ph = "limited"
    /\ LET x == serving[r].x
           scope == IF x.method \in {"GET", "HEAD"} THEN "read" ELSE "write"
       IN Progress(r, CASE x.cred \notin DOMAIN TenantOf -> "401"
                        [] x.cred \in DOMAIN TenantOf /\ {scope, "admin"} \cap Granted[x.cred] = {} -> "403"
                        [] OTHER -> "authenticated")
    /\ UNCHANGED <<bucket, ticks, arrivals, window, feedLog, nextSeq, got>>

\* Bug: the tenant's ceiling is kept per account.
PerAccount(r) == serving[r].x.cred

\* rateLimit: first the tenant's ceiling over all its accounts, then the
\* account's.
TenantKey(r) == TenantOf[serving[r].x.cred]
TenantLimit(r) ==
    /\ serving[r].ph = "authenticated"
    /\ LET a == Allow("tenant", TenantKey(r), serving[r].at)
       IN /\ bucket' = [bucket EXCEPT !["tenant"] = a.buckets]
          /\ Progress(r, IF a.ok THEN "admitted" ELSE "429")
          /\ window' = IF a.ok THEN Counted(Delayed(r), "admitted", TenantOf[serving[r].x.cred]) ELSE Delayed(r)
    /\ UNCHANGED <<ticks, arrivals, feedLog, nextSeq, got>>
AccountLimit(r) ==
    /\ serving[r].ph = "admitted"
    /\ LET a == Allow("account", serving[r].x.cred, serving[r].at)
       IN /\ bucket' = [bucket EXCEPT !["account"] = a.buckets]
          /\ Progress(r, IF a.ok THEN "handling" ELSE "429")
    /\ window' = Delayed(r)
    /\ UNCHANGED <<ticks, arrivals, feedLog, nextSeq, got>>

Handle(r) ==
    /\ serving[r].ph = "handling" /\ ~serving[r].x.tail
    /\ Progress(r, "200")
    /\ UNCHANGED <<bucket, ticks, arrivals, window, feedLog, nextSeq, got>>

\* A panic passes the limiter and is caught outside it.
Panic(r) ==
    /\ serving[r].ph = "handling"
    /\ serving' = [serving EXCEPT ![r] = NoServing]
    /\ UNCHANGED <<bucket, ticks, arrivals, window, feedLog, nextSeq, got>>

\* The end of preAuthRateLimit: only a failed authentication keeps the token.
Respond(r) ==
    /\ serving[r].ph \in {"200", "401", "403", "429"}
    /\ LET failed == serving[r].ph = "401"
           a == serving[r].x.addr
       IN /\ bucket' = IF failed THEN bucket ELSE [bucket EXCEPT !["address"] = Refund("address", a)]
          /\ window' = IF failed THEN Counted(window, "failed", a) ELSE window
    /\ serving' = [serving EXCEPT ![r] = NoServing]
    /\ UNCHANGED <<ticks, arrivals, feedLog, nextSeq, got>>

-----------------------------------------------------------------------------
(* The tail of the feed. *)

Floor == CHOOSE e \in feedLog : \A d \in feedLog : e <= d

\* feed.List: the retention floor, then the page.  An expired cursor ends the
\* stream.
StreamCheck(r) ==
    /\ serving[r].ph = "handling" /\ serving[r].x.tail
    /\ LET after == serving[r].after
           gone == after > 0 /\ feedLog # {} /\ after < Floor - 1
       IN Progress(r, IF gone THEN "200" ELSE "checked")
    /\ UNCHANGED <<bucket, ticks, arrivals, window, feedLog, nextSeq, got>>

\* ORDER BY: the members of a finite set of numbers in their order.
InOrder(S, s) ==
    /\ \A i, j \in 1..Cardinality(S) : i < j => s[i] < s[j]
    /\ \A e \in S : \E i \in 1..Cardinality(S) : s[i] = e
Sorted(S) == CHOOSE s \in [1..Cardinality(S) -> S] : InOrder(S, s)

PageOf(after) ==
    LET s == Sorted({e \in feedLog \cap Wanted : e > after})
    IN SubSeq(s, 1, Lower(TailLimit, Len(s)))

\* Bug: the cursor stays at the one the request came with.
CursorKept(r, page) == serving[r].after

\* in.After = out.NextCursor.
NextCursor(r, page) == IF page = << >> THEN serving[r].after ELSE page[Len(page)]

\* The events of a page are written one by one; the client may be gone at any
\* of them.
StreamPage(r) ==
    /\ serving[r].ph = "checked"
    /\ LET page == PageOf(serving[r].after)
       IN \/ /\ got' = got \o page
             /\ serving' = [serving EXCEPT ![r].ph = "handling", ![r].after = NextCursor(r, page)]
          \/ /\ \E k \in 0..Len(page) : got' = got \o SubSeq(page, 1, k)
             /\ Progress(r, "200")
    /\ UNCHANGED <<bucket, ticks, arrivals, window, feedLog, nextSeq>>

\* The outbox: numbers come from a sequence that other tenants use too, and
\* retention removes from below.
Publish(gap) ==
    /\ nextSeq + gap <= MaxFeed
    /\ feedLog' = feedLog \cup {nextSeq + gap} /\ nextSeq' = nextSeq + gap + 1
    /\ UNCHANGED <<bucket, serving, ticks, arrivals, window, got>>
PruneLowest ==
    /\ feedLog # {}
    /\ feedLog' = feedLog \ {Floor}
    /\ UNCHANGED <<bucket, serving, ticks, arrivals, window, nextSeq, got>>

PassTick ==
    /\ ticks < MaxTicks
    /\ ticks' = ticks + 1
    /\ UNCHANGED <<bucket, serving, arrivals, window, feedLog, nextSeq, got>>

\* History: counting starts.
OpenWindow ==
    /\ ~window.open
    /\ window' = [open |-> TRUE, at |-> ticks, late |-> 0,
                  held |-> Cardinality(InFlight),
                  failed |-> [a \in {x.addr : x \in Presented} |-> 0],
                  admitted |-> [t \in {TenantOf[c] : c \in DOMAIN TenantOf} |-> 0]]
    /\ UNCHANGED <<bucket, serving, ticks, arrivals, feedLog, nextSeq, got>>

GatewayInit ==
    /\ bucket = [l \in Limiters |-> << >>]
    /\ serving = [r \in Served |-> NoServing]
    /\ ticks = 0 /\ arrivals = 0 /\ window = NoWindow
    /\ feedLog = {} /\ nextSeq = 1 /\ got = << >>

GatewayNext ==
    \/ \E r \in Served :
          \/ \E x \in Presented : Arrive(r, x)
          \/ PreAuthLimit(r) \/ Authenticate(r) \/ TenantLimit(r) \/ AccountLimit(r)
          \/ Handle(r) \/ Panic(r) \/ Respond(r) \/ StreamCheck(r) \/ StreamPage(r)
    \/ \E gap \in {0, 1} : Publish(gap)
    \/ PruneLowest \/ PassTick \/ OpenWindow

GatewaySpec == GatewayInit /\ [][GatewayNext]_gatewayVars
-----------------------------------------------------------------------------
\* What a bucket can give since the window opened: its burst, the refill, one
\* for each request that was in flight, and the refill of the time by which
\* clock readings were late.
Budget(l) == BurstOf[l] + (ticks - window.at + window.late) * RefillRate + window.held

\* From any instant on, an address fails authentication no more often than its
\* budget: refunds of other requests and dropped buckets give nothing away.
FailuresBounded == window.open => \A a \in DOMAIN window.failed : window.failed[a] <= Budget("address")

\* From any instant on, the requests a tenant gets admitted stay within its
\* budget, whatever number of accounts it uses.
TenantsBounded == window.open => \A t \in DOMAIN window.admitted : window.admitted[t] <= Budget("tenant")

\* Over all its connections a tailing client receives events once and in feed
\* order, and no retained event of its types lies behind the last one unseen.
TailExact ==
    /\ \A i, j \in DOMAIN got : i < j => got[i] < got[j]
    /\ \A e \in feedLog \cap Wanted : e <= LastReceived => \E i \in DOMAIN got : got[i] = e

GatewayInv == FailuresBounded /\ TenantsBounded /\ TailExact
=============================================================================
