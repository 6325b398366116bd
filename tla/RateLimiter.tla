---------------------------- MODULE RateLimiter ----------------------------
(***************************************************************************)
(* The REST rate limiter of discordgo (ratelimit.go) and the request loop  *)
(* that uses it (RequestWithLockedBucket, restapi.go:195-316).             *)
(*                                                                         *)
(* A point in time is kept as the number of ticks until it; 0 stands for   *)
(* all of the past.  Bucket.Remaining is compared with 1 only, so 0 stands *)
(* for every value below 1.  GetBucket makes a bucket at its first use,    *)
(* always with the same fields: here every bucket exists from the start.   *)
(***************************************************************************)
EXTENDS Integers

CONSTANTS
    Bucket,         \* bucket ids
    Custom,         \* the buckets of a customRateLimit (//reactions//)
    Request,        \* goroutines that make requests
    NoRequest,      \* nobody has locked the bucket
    Window,         \* customRateLimit.reset, in ticks; its requests is 1
    Remainings,     \* what X-RateLimit-Remaining may say
    Resets,         \* what the headers may say of the reset, in ticks
    MaxRestRetries, ShouldRetryOnRateLimit   \* the Session's settings

Absent == -1   \* the header is not there
Bad    == -2   \* the header is no number

ASSUME ConstantsAssumption ==
    /\ Custom \subseteq Bucket
    /\ NoRequest \notin Request
    /\ Window \in Nat
    /\ Remainings \subseteq Nat
    /\ Resets \subseteq Nat
    /\ MaxRestRetries \in Nat
    /\ ShouldRetryOnRateLimit \in BOOLEAN

VARIABLES
    owner,      \* who has locked each bucket's mutex
    Remaining,  \* Bucket.Remaining
    reset,      \* Bucket.reset
    window,     \* Bucket.lastReset + customRateLimit.reset
    global,     \* RateLimiter.global, which every bucket points to
    pc,         \* where each goroutine is
    bucket,     \* the bucket of its request
    wait,       \* how long it still sleeps
    sequence    \* how often its request was retried

buckets == <<owner, Remaining, reset, window, global>>
vars == <<owner, Remaining, reset, window, global, pc, bucket, wait, sequence>>

TypeOK ==
    /\ owner \in [Bucket -> Request \cup {NoRequest}]
    /\ Remaining \in [Bucket -> Nat]
    /\ reset \in [Bucket -> Nat]
    /\ window \in [Bucket -> Nat]
    /\ global \in Nat
    /\ pc \in [Request -> {"idle", "lock", "sleep", "sent", "limited"}]
    /\ bucket \in [Request -> Bucket]
    /\ wait \in [Request -> Nat]
    /\ sequence \in [Request -> 0..MaxRestRetries]

Init ==
    /\ owner = [b \in Bucket |-> NoRequest]
    /\ Remaining = [b \in Bucket |-> 1]
    /\ reset = [b \in Bucket |-> 0]
    /\ window = [b \in Bucket |-> 0]
    /\ global = 0
    /\ pc = [r \in Request |-> "idle"]
    /\ bucket \in [Request -> Bucket]
    /\ wait = [r \in Request |-> 0]
    /\ sequence = [r \in Request |-> 0]

----------------------------------------------------------------------------

\* A mutant: the global limit comes first.
GetWaitTimeGlobalFirst(b) ==
    IF global > 0 THEN global
    ELSE IF Remaining[b] < 1 THEN reset[b] ELSE 0

\* The bucket's reset comes first, and the global limit counts only if the
\* bucket has none.
GetWaitTime(b) ==
    IF Remaining[b] < 1 /\ reset[b] > 0 THEN reset[b] ELSE global

\* Remaining-- at the end of LockBucketObject; the request goes out.
Send(r) ==
    LET b == bucket[r] IN
    /\ Remaining' = [Remaining EXCEPT ![b] = IF @ > 0 THEN @ - 1 ELSE 0]
    /\ pc' = [pc EXCEPT ![r] = "sent"]

\* RequestWithBucketID: LockBucket with the request's bucket.
Call(r) ==
    /\ pc[r] = "idle"
    /\ \E b \in Bucket : bucket' = [bucket EXCEPT ![r] = b]
    /\ sequence' = [sequence EXCEPT ![r] = 0]
    /\ pc' = [pc EXCEPT ![r] = "lock"]
    /\ UNCHANGED <<buckets, wait>>

\* LockBucketObject gets the mutex and sleeps, or has no reason to.
LockAndSleep(r) ==
    LET b == bucket[r] IN
    /\ pc[r] = "lock"
    /\ owner[b] = NoRequest
    /\ GetWaitTime(b) > 0
    /\ owner' = [owner EXCEPT ![b] = r]
    /\ wait' = [wait EXCEPT ![r] = GetWaitTime(b)]
    /\ pc' = [pc EXCEPT ![r] = "sleep"]
    /\ UNCHANGED <<Remaining, reset, window, global, bucket, sequence>>

LockAndSend(r) ==
    LET b == bucket[r] IN
    /\ pc[r] = "lock"
    /\ owner[b] = NoRequest
    /\ GetWaitTime(b) = 0
    /\ owner' = [owner EXCEPT ![b] = r]
    /\ Send(r)
    /\ UNCHANGED <<reset, window, global, bucket, wait, sequence>>

Wake(r) ==
    /\ pc[r] = "sleep"
    /\ wait[r] = 0
    /\ Send(r)
    /\ UNCHANGED <<owner, reset, window, global, bucket, wait, sequence>>

----------------------------------------------------------------------------
(* Release *)

\* X-RateLimit-Remaining, -Reset-After with or without -Global, and -Reset
\* with Date, which is looked at if -Reset-After is not there.
Headers == [remaining : Remainings \cup {Absent, Bad},
            after     : Resets \cup {Absent, Bad},
            reset     : Resets \cup {Absent, Bad},
            global    : BOOLEAN]

NoHeaders == [remaining |-> Absent, after |-> Absent, reset |-> Absent,
              global |-> FALSE]

\* Release stops with an error at the first header it cannot parse.
BadReset(h) == h.after = Bad \/ (h.after = Absent /\ h.reset = Bad)
Unparsable(h) == BadReset(h) \/ h.remaining = Bad

\* A mutant: the bucket's reset is left alone.
ReleaseCustomKeepsReset(b) ==
    /\ Remaining' = [Remaining EXCEPT ![b] = IF window[b] = 0 THEN 0 ELSE @]
    /\ window' = [window EXCEPT ![b] = IF @ = 0 THEN Window ELSE @]
    /\ UNCHANGED <<reset, global>>

ReleaseCustom(b) ==
    /\ Remaining' = [Remaining EXCEPT ![b] = IF window[b] = 0 THEN 0 ELSE @]
    /\ window' = [window EXCEPT ![b] = IF @ = 0 THEN Window ELSE @]
    /\ reset' = [reset EXCEPT ![b] = IF Remaining'[b] < 1 THEN Window ELSE @]
    /\ UNCHANGED global

ReleaseHeaders(b, h) ==
    /\ global' = IF h.after >= 0 /\ h.global THEN h.after ELSE global
    /\ reset' = [reset EXCEPT ![b] =
                    IF h.after >= 0 THEN IF h.global THEN @ ELSE h.after
                    ELSE IF h.after = Absent /\ h.reset >= 0 THEN h.reset
                    ELSE @]
    /\ Remaining' = [Remaining EXCEPT ![b] =
                        IF h.remaining >= 0 /\ ~BadReset(h)
                        THEN h.remaining ELSE @]
    /\ UNCHANGED window

Release(b, h) ==
    /\ owner' = [owner EXCEPT ![b] = NoRequest]
    /\ IF b \in Custom THEN ReleaseCustom(b) ELSE ReleaseHeaders(b, h)

\* An error of Release is an error of the request; a custom bucket reads no
\* header.
Failed(b, h) == b \notin Custom /\ Unparsable(h)

----------------------------------------------------------------------------
(* RequestWithLockedBucket after the request went out *)

Return(r) == pc' = [pc EXCEPT ![r] = "idle"]

\* A mutant: the early return forgets Release(nil).
TransportErrorKeepsLock(r) ==
    /\ pc[r] = "sent"
    /\ Return(r)
    /\ UNCHANGED <<buckets, bucket, wait, sequence>>

\* No answer: Release(nil).
TransportError(r) ==
    /\ pc[r] = "sent"
    /\ Release(bucket[r], NoHeaders)
    /\ Return(r)
    /\ UNCHANGED <<bucket, wait, sequence>>

\* An answer that ends the request: a 2xx, an error, or headers that Release
\* cannot parse.
Answer(r, h) ==
    /\ pc[r] = "sent"
    /\ Release(bucket[r], h)
    /\ Return(r)
    /\ UNCHANGED <<bucket, wait, sequence>>

\* A mutant: one retry too many.
ServerErrorOnceMore(r, h) ==
    /\ pc[r] = "sent"
    /\ ~Failed(bucket[r], h)
    /\ sequence[r] <= MaxRestRetries
    /\ Release(bucket[r], h)
    /\ sequence' = [sequence EXCEPT ![r] = @ + 1]
    /\ pc' = [pc EXCEPT ![r] = "lock"]
    /\ UNCHANGED <<bucket, wait>>

\* A 500, 502, 503 or 504 is retried up to MaxRestRetries times.
ServerError(r, h) ==
    /\ pc[r] = "sent"
    /\ ~Failed(bucket[r], h)
    /\ sequence[r] < MaxRestRetries
    /\ Release(bucket[r], h)
    /\ sequence' = [sequence EXCEPT ![r] = @ + 1]
    /\ pc' = [pc EXCEPT ![r] = "lock"]
    /\ UNCHANGED <<bucket, wait>>

\* A 429 is retried after the retry_after of its body, any number of times.
TooManyRequests(r, h) ==
    /\ pc[r] = "sent"
    /\ ~Failed(bucket[r], h)
    /\ ShouldRetryOnRateLimit
    /\ Release(bucket[r], h)
    /\ \E d \in Resets : wait' = [wait EXCEPT ![r] = d]
    /\ pc' = [pc EXCEPT ![r] = "limited"]
    /\ UNCHANGED <<bucket, sequence>>

Retry(r) ==
    /\ pc[r] = "limited"
    /\ wait[r] = 0
    /\ pc' = [pc EXCEPT ![r] = "lock"]
    /\ UNCHANGED <<buckets, bucket, wait, sequence>>

----------------------------------------------------------------------------

Earlier(t) == IF t > 0 THEN t - 1 ELSE 0

Tick ==
    /\ \/ global > 0
       \/ \E b \in Bucket : reset[b] > 0 \/ window[b] > 0
       \/ \E r \in Request : wait[r] > 0
    /\ reset' = [b \in Bucket |-> Earlier(reset[b])]
    /\ window' = [b \in Bucket |-> Earlier(window[b])]
    /\ global' = Earlier(global)
    /\ wait' = [r \in Request |-> Earlier(wait[r])]
    /\ UNCHANGED <<owner, Remaining, pc, bucket, sequence>>

Lock(r) == LockAndSleep(r) \/ LockAndSend(r)

Respond(r) ==
    \/ TransportError(r)
    \/ \E h \in Headers : \/ Answer(r, h)
                          \/ ServerError(r, h)
                          \/ TooManyRequests(r, h)

Next ==
    \/ \E r \in Request : Call(r) \/ Lock(r) \/ Wake(r) \/ Respond(r) \/ Retry(r)
    \/ Tick

Spec == Init /\ [][Next]_vars

----------------------------------------------------------------------------

Sends(r) == pc[r] # "sent" /\ pc'[r] = "sent"

\* The mutex of a bucket is held from LockBucketObject to Release, on every
\* path of RequestWithLockedBucket, by one request at a time: a path that
\* returned without Release would block the bucket for ever.
Held ==
    \A r \in Request, b \in Bucket :
        owner[b] = r <=> bucket[r] = b /\ pc[r] \in {"sleep", "sent"}

\* A sleeping request sleeps long enough for its bucket.
SleepCovers ==
    \A r \in Request : pc[r] = "sleep" =>
        \/ Remaining[bucket[r]] >= 1
        \/ reset[bucket[r]] <= wait[r]

\* A custom bucket has no call left before lastReset + reset.
CustomCovers ==
    \A b \in Custom :
        /\ window[b] <= Window
        /\ window[b] <= reset[b]
        /\ Remaining[b] >= 1 => window[b] = 0

\* The inductive invariant: why a request that goes out keeps the limit.
Limited == Held /\ SleepCovers /\ CustomCovers

\* A request goes out only if its bucket has a call left or the bucket's reset
\* has passed, whatever other requests, answers and errors went before
\* (GetWaitTime, ratelimit.go:73-87, with LockBucketObject and Release).
BucketRespected ==
    [][ \A r \in Request : Sends(r) =>
            Remaining[bucket[r]] >= 1 \/ reset[bucket[r]] = 0 ]_vars

\* Requests of a custom bucket are customRateLimit.reset apart from the last
\* answer that opened a window (ratelimit.go:126-134).
CustomRespected ==
    [][ \A r \in Request : Sends(r) /\ bucket[r] \in Custom =>
            window[bucket[r]] = 0 ]_vars

\* ratelimit.go:147 "If global is set, then it will block all buckets until
\* after Retry-After": no request goes out meanwhile.  One that has slept for
\* its own bucket does not look again.
GlobalRespected == [][ \A r \in Request : Sends(r) => global = 0 ]_vars

----------------------------------------------------------------------------
(* Fairness.  Goroutines run, a mutex starves no waiter, time passes, every   *)
(* request is answered or fails (the http.Client has a timeout), and the API  *)
(* does not limit a request for ever.                                         *)

Ends(r) == TransportError(r) \/ \E h \in Headers : Answer(r, h)

FairSpec ==
    /\ Spec
    /\ WF_vars(Tick)
    /\ \A r \in Request : /\ SF_vars(Lock(r))
                           /\ WF_vars(Wake(r)) /\ WF_vars(Retry(r))
                           /\ WF_vars(Respond(r)) /\ SF_vars(Ends(r))

\* Every request returns to its caller.
RequestsReturn == \A r \in Request : pc[r] # "idle" ~> pc[r] = "idle"
=============================================================================
