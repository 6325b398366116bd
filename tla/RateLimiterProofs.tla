------------------------- MODULE RateLimiterProofs -------------------------
(***************************************************************************)
(* RateLimiter keeps the limits of its buckets, for any buckets, requests, *)
(* headers and durations.                                                  *)
(***************************************************************************)
EXTENDS RateLimiter, TLAPS

\* What Release does to the fields of a bucket, whatever the answer.
LEMMA ReleaseTypes ==
    ASSUME TypeOK, NEW b \in Bucket, NEW h \in Headers, Release(b, h)
    PROVE  /\ owner' = [owner EXCEPT ![b] = NoRequest]
           /\ Remaining' \in [Bucket -> Nat]
           /\ reset' \in [Bucket -> Nat]
           /\ window' \in [Bucket -> Nat]
           /\ global' \in Nat
           /\ \A c \in Bucket \ {b} : /\ Remaining'[c] = Remaining[c]
                                      /\ reset'[c] = reset[c]
                                      /\ window'[c] = window[c]
<1> USE ConstantsAssumption DEF TypeOK, Release
<1>1. CASE b \in Custom
  BY <1>1 DEF ReleaseCustom
<1>2. CASE b \notin Custom
  <2>1. /\ h.remaining \in Nat \cup {-1, -2}
        /\ h.after \in Nat \cup {-1, -2}
        /\ h.reset \in Nat \cup {-1, -2}
    BY DEF Headers, Absent, Bad
  <2> QED
    BY <1>2, <2>1 DEF ReleaseHeaders
<1> QED
  BY <1>1, <1>2

LEMMA NoHeadersType == NoHeaders \in Headers
BY DEF NoHeaders, Headers

\* Every way to respond releases the bucket of the request, which goes on
\* without it.
Released(r, h) ==
    /\ pc[r] = "sent"
    /\ Release(bucket[r], h)
    /\ \E l \in {"idle", "lock", "limited"} : pc' = [pc EXCEPT ![r] = l]
    /\ bucket' = bucket
    /\ wait' \in [Request -> Nat]
    /\ \A q \in Request \ {r} : wait'[q] = wait[q]
    /\ sequence' \in [Request -> 0..MaxRestRetries]

LEMMA Responses ==
    ASSUME TypeOK, NEW r \in Request, Respond(r)
    PROVE  \E h \in Headers : Released(r, h)
<1> USE ConstantsAssumption DEF TypeOK
<1>1. CASE TransportError(r)
  <2>1. Released(r, NoHeaders)
    BY <1>1 DEF TransportError, Return, Released
  <2> QED
    BY <2>1, NoHeadersType
<1>2. ASSUME NEW h \in Headers, Answer(r, h)
      PROVE  Released(r, h)
  BY <1>2 DEF Answer, Return, Released
<1>3. ASSUME NEW h \in Headers, ServerError(r, h)
      PROVE  Released(r, h)
  <2>1. sequence[r] + 1 \in 0..MaxRestRetries
    BY <1>3 DEF ServerError
  <2> QED
    BY <1>3, <2>1 DEF ServerError, Released
<1>4. ASSUME NEW h \in Headers, TooManyRequests(r, h)
      PROVE  Released(r, h)
  BY <1>4 DEF TooManyRequests, Released
<1> QED
  BY <1>1, <1>2, <1>3, <1>4 DEF Respond

----------------------------------------------------------------------------
(* Types *)

LEMMA TypeInit == Init => TypeOK
BY ConstantsAssumption DEF Init, TypeOK

LEMMA WaitTimeType ==
    ASSUME TypeOK, NEW b \in Bucket PROVE GetWaitTime(b) \in Nat
BY DEF TypeOK, GetWaitTime

LEMMA TypeNext == TypeOK /\ [Next]_vars => TypeOK'
<1> SUFFICES ASSUME TypeOK, [Next]_vars PROVE TypeOK'
  OBVIOUS
<1>1. ASSUME NEW r \in Request, Call(r) PROVE TypeOK'
  BY <1>1, ConstantsAssumption DEF Call, TypeOK, buckets
<1>2. ASSUME NEW r \in Request, LockAndSleep(r) PROVE TypeOK'
  <2>1. bucket[r] \in Bucket
    BY DEF TypeOK
  <2>2. GetWaitTime(bucket[r]) \in Nat
    BY <2>1, WaitTimeType
  <2> QED
    BY <1>2, <2>1, <2>2 DEF LockAndSleep, TypeOK
<1>3. ASSUME NEW r \in Request, LockAndSend(r) PROVE TypeOK'
  BY <1>3 DEF LockAndSend, Send, TypeOK
<1>4. ASSUME NEW r \in Request, Wake(r) PROVE TypeOK'
  BY <1>4 DEF Wake, Send, TypeOK
<1>5. ASSUME NEW r \in Request, Respond(r) PROVE TypeOK'
  <2>1. PICK h \in Headers : Released(r, h)
    BY <1>5, Responses
  <2>2. bucket[r] \in Bucket
    BY DEF TypeOK
  <2>3. /\ owner' = [owner EXCEPT ![bucket[r]] = NoRequest]
        /\ Remaining' \in [Bucket -> Nat]
        /\ reset' \in [Bucket -> Nat]
        /\ window' \in [Bucket -> Nat]
        /\ global' \in Nat
    BY <2>1, <2>2, ReleaseTypes DEF Released
  <2> QED
    BY <2>1, <2>3 DEF Released, TypeOK
<1>6. ASSUME NEW r \in Request, Retry(r) PROVE TypeOK'
  BY <1>6 DEF Retry, TypeOK, buckets
<1>7. CASE Tick
  BY <1>7 DEF Tick, Earlier, TypeOK
<1>8. CASE UNCHANGED vars
  BY <1>8 DEF vars, TypeOK
<1> QED
  BY <1>1, <1>2, <1>3, <1>4, <1>5, <1>6, <1>7, <1>8 DEF Next, Lock

\* The fields of the limiter and of every request keep their types, and no
\* request is retried more than MaxRestRetries times after a server error.
THEOREM TypeCorrect == Spec => []TypeOK
BY TypeInit, TypeNext, PTL DEF Spec

----------------------------------------------------------------------------
(* Limits *)

LEMMA LimitedInit == Init => Limited
BY ConstantsAssumption DEF Init, Limited, Held, SleepCovers, CustomCovers

LEMMA HeldNext == TypeOK /\ Held /\ [Next]_vars => Held'
<1> SUFFICES ASSUME TypeOK, Held, [Next]_vars PROVE Held'
  OBVIOUS
<1> USE ConstantsAssumption DEF TypeOK, Held
<1>1. ASSUME NEW r \in Request, Call(r) PROVE Held'
  BY <1>1 DEF Call, buckets
<1>2. ASSUME NEW r \in Request, LockAndSleep(r) PROVE Held'
  BY <1>2 DEF LockAndSleep
<1>3. ASSUME NEW r \in Request, LockAndSend(r) PROVE Held'
  BY <1>3 DEF LockAndSend, Send
<1>4. ASSUME NEW r \in Request, Wake(r) PROVE Held'
  BY <1>4 DEF Wake, Send
<1>5. ASSUME NEW r \in Request, Respond(r) PROVE Held'
  <2>1. PICK h \in Headers : Released(r, h)
    BY <1>5, Responses
  <2>2. owner' = [owner EXCEPT ![bucket[r]] = NoRequest]
    BY <2>1 DEF Released, Release
  <2> QED
    BY <2>1, <2>2 DEF Released
<1>6. ASSUME NEW r \in Request, Retry(r) PROVE Held'
  BY <1>6 DEF Retry, buckets
<1>7. CASE Tick
  BY <1>7 DEF Tick
<1>8. CASE UNCHANGED vars
  BY <1>8 DEF vars
<1> QED
  BY <1>1, <1>2, <1>3, <1>4, <1>5, <1>6, <1>7, <1>8 DEF Next, Lock

\* Who sleeps has the bucket's mutex, so nobody else changes the bucket.
LEMMA SleepCoversNext ==
    TypeOK /\ Held /\ SleepCovers /\ [Next]_vars => SleepCovers'
<1> SUFFICES ASSUME TypeOK, Held, SleepCovers, [Next]_vars,
                    NEW q \in Request, pc'[q] = "sleep"
             PROVE  Remaining'[bucket'[q]] >= 1 \/ reset'[bucket'[q]] <= wait'[q]
  BY DEF SleepCovers
<1> DEFINE Covered == \/ Remaining'[bucket'[q]] >= 1
                      \/ reset'[bucket'[q]] <= wait'[q]
<1> USE ConstantsAssumption DEF TypeOK, SleepCovers
<1>1. ASSUME NEW r \in Request, Call(r) PROVE Covered
  BY <1>1 DEF Call, buckets
<1>2. ASSUME NEW r \in Request, LockAndSleep(r) PROVE Covered
  <2>1. CASE q = r
    BY <1>2, <2>1 DEF LockAndSleep, GetWaitTime
  <2>2. CASE q # r
    BY <1>2, <2>2 DEF LockAndSleep
  <2> QED
    BY <2>1, <2>2
<1>3. ASSUME NEW r \in Request, LockAndSend(r) PROVE Covered
  <2>1. pc[q] = "sleep" /\ bucket[q] # bucket[r]
    BY <1>3 DEF LockAndSend, Send, Held
  <2> QED
    BY <1>3, <2>1 DEF LockAndSend, Send
<1>4. ASSUME NEW r \in Request, Wake(r) PROVE Covered
  <2>1. pc[q] = "sleep" /\ bucket[q] # bucket[r]
    BY <1>4 DEF Wake, Send, Held
  <2> QED
    BY <1>4, <2>1 DEF Wake, Send
<1>5. ASSUME NEW r \in Request, Respond(r) PROVE Covered
  <2>1. PICK h \in Headers : Released(r, h)
    BY <1>5, Responses
  <2>2. q # r /\ pc[q] = "sleep"
    BY <2>1 DEF Released
  <2>3. bucket[q] # bucket[r]
    BY <2>1, <2>2 DEF Held, Released
  <2>4. /\ bucket[r] \in Bucket
        /\ bucket[q] \in Bucket
    OBVIOUS
  <2>5. /\ Remaining'[bucket[q]] = Remaining[bucket[q]]
        /\ reset'[bucket[q]] = reset[bucket[q]]
    BY <2>1, <2>3, <2>4, ReleaseTypes DEF Released
  <2> QED
    BY <2>1, <2>2, <2>5 DEF Released
<1>6. ASSUME NEW r \in Request, Retry(r) PROVE Covered
  BY <1>6 DEF Retry, buckets
<1>7. CASE Tick
  BY <1>7 DEF Tick, Earlier
<1>8. CASE UNCHANGED vars
  BY <1>8 DEF vars
<1> QED
  BY <1>1, <1>2, <1>3, <1>4, <1>5, <1>6, <1>7, <1>8 DEF Next, Lock

LEMMA CustomCoversNext == TypeOK /\ CustomCovers /\ [Next]_vars => CustomCovers'
<1> SUFFICES ASSUME TypeOK, CustomCovers, [Next]_vars, NEW b \in Custom
             PROVE  /\ window'[b] <= Window
                    /\ window'[b] <= reset'[b]
                    /\ Remaining'[b] >= 1 => window'[b] = 0
  BY DEF CustomCovers
<1> DEFINE Covered == /\ window'[b] <= Window
                      /\ window'[b] <= reset'[b]
                      /\ Remaining'[b] >= 1 => window'[b] = 0
<1> USE ConstantsAssumption DEF TypeOK, CustomCovers
<1>1. ASSUME NEW r \in Request, Call(r) PROVE Covered
  BY <1>1 DEF Call, buckets
<1>2. ASSUME NEW r \in Request, LockAndSleep(r) PROVE Covered
  BY <1>2 DEF LockAndSleep
<1>3. ASSUME NEW r \in Request, LockAndSend(r) PROVE Covered
  BY <1>3 DEF LockAndSend, Send
<1>4. ASSUME NEW r \in Request, Wake(r) PROVE Covered
  BY <1>4 DEF Wake, Send
<1>5. ASSUME NEW r \in Request, Respond(r) PROVE Covered
  <2>1. PICK h \in Headers : Released(r, h)
    BY <1>5, Responses
  <2>2. bucket[r] \in Bucket /\ b \in Bucket
    OBVIOUS
  <2>3. CASE bucket[r] = b
    BY <2>1, <2>3 DEF Released, Release, ReleaseCustom
  <2>4. CASE bucket[r] # b
    <3>1. /\ Remaining'[b] = Remaining[b]
          /\ reset'[b] = reset[b]
          /\ window'[b] = window[b]
      BY <2>1, <2>2, <2>4, ReleaseTypes DEF Released
    <3> QED
      BY <3>1
  <2> QED
    BY <2>3, <2>4
<1>6. ASSUME NEW r \in Request, Retry(r) PROVE Covered
  BY <1>6 DEF Retry, buckets
<1>7. CASE Tick
  BY <1>7 DEF Tick, Earlier
<1>8. CASE UNCHANGED vars
  BY <1>8 DEF vars
<1> QED
  BY <1>1, <1>2, <1>3, <1>4, <1>5, <1>6, <1>7, <1>8 DEF Next, Lock

LEMMA LimitedNext == TypeOK /\ Limited /\ [Next]_vars => Limited'
BY HeldNext, SleepCoversNext, CustomCoversNext DEF Limited

\* The mutex of a bucket is released exactly once on every path, a sleep
\* covers the bucket's reset, and a custom bucket with an open window has no
\* call left.
THEOREM AlwaysLimited == Spec => []Limited
<1>1. Init => TypeOK /\ Limited
  BY TypeInit, LimitedInit
<1>2. TypeOK /\ Limited /\ [Next]_vars => (TypeOK /\ Limited)'
  BY TypeNext, LimitedNext
<1> QED
  BY <1>1, <1>2, PTL DEF Spec

\* The two steps that send find the mutex's owner awake.
LEMMA Sending ==
    ASSUME TypeOK, Limited, [Next]_vars, NEW q \in Request, Sends(q)
    PROVE  \/ pc[q] = "lock" /\ GetWaitTime(bucket[q]) = 0
           \/ pc[q] = "sleep" /\ wait[q] = 0
<1> DEFINE Ready == \/ pc[q] = "lock" /\ GetWaitTime(bucket[q]) = 0
                    \/ pc[q] = "sleep" /\ wait[q] = 0
<1> USE DEF TypeOK, Sends
<1>1. ASSUME NEW r \in Request, Call(r) PROVE Ready
  BY <1>1 DEF Call
<1>2. ASSUME NEW r \in Request, LockAndSleep(r) PROVE Ready
  BY <1>2 DEF LockAndSleep
<1>3. ASSUME NEW r \in Request, LockAndSend(r) PROVE Ready
  BY <1>3 DEF LockAndSend, Send
<1>4. ASSUME NEW r \in Request, Wake(r) PROVE Ready
  BY <1>4 DEF Wake, Send
<1>5. ASSUME NEW r \in Request, Respond(r) PROVE Ready
  BY <1>5, Responses DEF Released
<1>6. ASSUME NEW r \in Request, Retry(r) PROVE Ready
  BY <1>6 DEF Retry
<1>7. CASE Tick
  BY <1>7 DEF Tick
<1>8. CASE UNCHANGED vars
  BY <1>8 DEF vars
<1> QED
  BY <1>1, <1>2, <1>3, <1>4, <1>5, <1>6, <1>7, <1>8 DEF Next, Lock

\* No request goes out on an exhausted bucket before the bucket's reset.
THEOREM LimiterRespectsBucket == Spec => BucketRespected
<1>1. ASSUME TypeOK, Limited, [Next]_vars, NEW q \in Request, Sends(q)
      PROVE  Remaining[bucket[q]] >= 1 \/ reset[bucket[q]] = 0
  <2>1. bucket[q] \in Bucket
    BY <1>1 DEF TypeOK
  <2>2. CASE pc[q] = "lock" /\ GetWaitTime(bucket[q]) = 0
    BY <1>1, <2>1, <2>2 DEF GetWaitTime, TypeOK
  <2>3. CASE pc[q] = "sleep" /\ wait[q] = 0
    BY <1>1, <2>1, <2>3 DEF TypeOK, Limited, SleepCovers
  <2> QED
    BY <1>1, <2>2, <2>3, Sending
<1>2. TypeOK /\ Limited /\ [Next]_vars =>
        [\A r \in Request : Sends(r) =>
            Remaining[bucket[r]] >= 1 \/ reset[bucket[r]] = 0]_vars
  BY <1>1
<1> QED
  BY <1>2, TypeCorrect, AlwaysLimited, PTL DEF Spec, BucketRespected

\* No request of a custom bucket goes out inside the window of another.
THEOREM LimiterRespectsCustom == Spec => CustomRespected
<1>1. ASSUME TypeOK, Limited, [Next]_vars, NEW q \in Request, Sends(q),
             bucket[q] \in Custom
      PROVE  window[bucket[q]] = 0
  <2>1. bucket[q] \in Bucket
    BY <1>1 DEF TypeOK
  <2>2. Remaining[bucket[q]] >= 1 \/ reset[bucket[q]] = 0
    <3>1. CASE pc[q] = "lock" /\ GetWaitTime(bucket[q]) = 0
      BY <1>1, <2>1, <3>1 DEF GetWaitTime, TypeOK
    <3>2. CASE pc[q] = "sleep" /\ wait[q] = 0
      BY <1>1, <2>1, <3>2 DEF TypeOK, Limited, SleepCovers
    <3> QED
      BY <1>1, <3>1, <3>2, Sending
  <2> QED
    BY <1>1, <2>1, <2>2 DEF Limited, CustomCovers, TypeOK
<1>2. TypeOK /\ Limited /\ [Next]_vars =>
        [\A r \in Request : Sends(r) /\ bucket[r] \in Custom =>
            window[bucket[r]] = 0]_vars
  BY <1>1
<1> QED
  BY <1>2, TypeCorrect, AlwaysLimited, PTL DEF Spec, CustomRespected
=============================================================================
