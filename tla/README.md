# Verification of discordgo

TLA+ modules for the library's stateful core and its REST methods, the TLC
configurations that check them and TLAPS proofs about them. Paths are relative
to `src/`.

    tlc -workers 2 -config MCGatewaySafety.cfg MCGateway.tla
    tlapm GatewayProofs.tla

## 1. The system

discordgo is a client library. A program creates a `Session`, opens a websocket
to Discord's gateway, receives events through handlers it registers, makes REST
requests through the same session and joins voice channels.

| part | state | operations | talks to |
|---|---|---|---|
| gateway session (`wsapi.go`) | `wsConn`, `listening`, `sequence`, `sessionID`, `resumeGatewayURL`, `LastHeartbeatAck`, `DataReady`, the session's `RWMutex` | `Open`, `CloseWithCode`, `reconnect`, the goroutines `listen` and `heartbeat`, `onEvent` | gateway over a websocket; event handlers (calls); voice connections (calls at the end of `reconnect`) |
| event handlers (`event.go`) | `handlers`, `onceHandlers`, `handlersMu` | `AddHandler`, `AddHandlerOnce`, the removal function, `handleEvent`, `handle` | called by every other part to emit an event |
| rate limiter and request loop (`ratelimit.go`, `restapi.go:166-316`) | a `Bucket` per key: mutex, `Remaining`, `reset`, `lastReset`; one `global` for all | `LockBucket`, `GetWaitTime`, `Release`, `RequestWithLockedBucket` | REST API; event handlers (`RateLimit`) |
| REST methods (`restapi.go`, `oauth2.go`, `endpoints.go`) | none | about 200 methods around `Request`, each with an address and a bucket id | the request loop |
| state cache (`state.go`) | guilds, channels, members and messages, in slices and in maps that point into them | a method for each kind of change, called by `OnInterface` and by the program | fed by `onInterface` |
| voice connection (`voice.go`) | a websocket, a UDP socket, `Ready`, `sessionID`, the stop channel `close` | `open`, `wsListen`, `onEvent`, `udpOpen`, `opusSender`, `opusReceiver`, `Close`, `Disconnect`, `reconnect` | voice gateway; the session's websocket; the DAVE controller |
| DAVE controller (`voice_dave_controller_libdave.go`, `dave/`) | MLS session, a key ratchet for each user, an encryptor, a decryptor for each SSRC | a handler for each DAVE opcode, `EncryptOpus`, `DecryptOpus`, `Close` | `libdave` through cgo |
| permissions (`restapi.go:518-583`, `state.go:1317-1338`) | none | pure functions | the state cache |
| data types, JSON, utilities, generated handlers | none | - | - |

What is hard in it:

- **Many goroutines act on one session**: those of the application, and `listen`
  and `heartbeat` of the current websocket and of earlier ones, any of which may
  be in `reconnect`. Several of them react to one failure; each reads fields
  under the lock, gives the lock back and acts on what it read. A voice
  connection has the same problem twice over, with a UDP socket and two audio
  goroutines on top.
- **Locks across calls**: `Open` waits for the network and calls `onEvent`, and
  so event handlers, with the session's lock held; `handleEvent` calls
  synchronous handlers with its read lock held; a bucket's mutex is locked by
  one function and unlocked by another, on every path of the request loop.
- **Locks not across calls**: the cache looks an object up in one critical
  section and changes it in another; the DAVE controller gives its mutex back
  around every call of the library.
- **Failure**: every read and write may fail at any step of a handshake, the
  gateway may send anything at any point, answers may have no headers or headers
  that cannot be read.
- **Time**: heartbeats that are not acknowledged, back-off, two rate limits that
  overlap, waits for a session id or for a connection to become ready.
- **Handles outside Go**: ratchets and MLS sessions are destroyed by hand.

What makes each part correct:

- gateway session: one websocket at most; an open session is served by both its
  goroutines and a closed websocket by none for ever; a session the application
  wants is established again after every failure; a resume loses no event;
- rate limiter: no request goes out on an exhausted bucket, every path unlocks
  the bucket, every request returns;
- REST methods: requests under one limit share a bucket and others do not;
- event handlers: none is lost, none is called after its removal, and
  registering or removing one returns;
- state cache: map and slice describe the same objects, and they are what the
  gateway says;
- voice connection: one goroutine at a time opens or closes it, nothing it
  started runs for ever, a lost websocket is looked after;
- DAVE: every ratchet is destroyed once, none is used for the wrong epoch.

## 2. The modules

| module | about | uses |
|---|---|---|
| `Gateway` | `wsapi.go`: the session, its goroutines and its lock | |
| `SessionLink` | what an application is promised of the session | `Gateway` implements it (`LinkSpec`) |
| `GatewayResume` | the sequence number and the session id a resume names, against the server's log | |
| `RateLimiter` | `ratelimit.go` and `RequestWithLockedBucket` | |
| `Endpoints` | what every REST method asks for, under which key | |
| `RestMethods` | callers of those methods | `Endpoints` |
| `EventDispatch` | `event.go` | |
| `StateCache` | `state.go` and the gateway that feeds it | |
| `VoiceConnection` | `voice.go` and the voice part of `wsapi.go` | |
| `DaveController` | `voice_dave_controller_libdave.go` and `dave/` | |
| `Permissions` | two pure functions of `restapi.go` and `state.go` | |
| `MC...` | model values, symmetry and constraints for TLC | |
| `...Proofs` | theorems; those of `RestProofs` are about `Endpoints`, `RestMethods` and `Permissions` | TLAPS |

In each of them `Next` is a disjunction of one action for each critical section
or call that other goroutines can come between. The definitions
commented "Mutant" are what a plausible slip in the code would make of the
definition that follows them; no specification uses them.

### Gateway

A goroutine is an element of `Proc` with a label in `pc`; `doing` is why it
closes or opens the session, which decides what it does afterwards. `lock` is
the writer of the session's `RWMutex`; a section under `RLock` is one step that
is possible while there is no writer.

| code | actions |
|---|---|
| `Open` (50-215) | `OpenAlreadyOpen`, `OpenBegin`, `Dial`/`DialError`, `Hello`, `Identify`, `Connected`, `HandshakeError` (the deferred function that closes the websocket when `err` is set), `HandshakeRelock` (a packet that makes `onEvent` ask for the lock `Open` holds) |
| `CloseWithCode` (951-1006) | `CloseWithCode` |
| `reconnect` (895-948) | `reconnect(p)`, `OpenBegin`..., `AfterFailure`, `BackOff` |
| `listen` (219-263) | `Read`, `ReadError`, `SameConnection`, `Select` |
| `onEvent` (566-710) | `OnDispatch`, `OnPing`, `OnReconnect` (Op 7 and 9), `OnAck`, `OnOther`, `ForgetSession`, `ForgetSequence` |
| `heartbeat` (287-330) | `Beat`, `BeatError`, `MarkReady`, `Tick`, `Stopped` |
| `ChannelVoiceJoinManual` (768-785) | the action of that name |

The abstractions:

- *Websockets are recycled.* `Conn` has as many names as websockets may be in
  use at a time: a name is free again when the client closed the websocket and
  both goroutines started for it have returned. The stop channel `Open` makes
  carries the name of its websocket.
- *`CloseWithCode` is one step.* It holds the lock throughout, and the only
  steps that read the fields it assigns without the lock are `Select` and
  `Stopped` (the stop channel), `Read` and `ReadError` (the websocket), `OnPing`
  and `ChannelVoiceJoinManual` (`wsConn`). Each of them looks at one field
  only, so each of its outcomes is had by placing it before or after the whole
  step. The event `Disconnect` it emits after it gave the lock back is not part
  of this module.
- *`sequence` is 0 or 1 and `sessionID` is "" or "id"*: whether there is one
  decides between Identify and Resume. Which one it is, is for `GatewayResume`.
- *`ack` is "fresh" or "stale"* instead of a time; `AckAges` may happen whenever
  there is a websocket.
- After `panicked` the program is dead and nothing happens.

### GatewayResume

The other half of the session: which number `*s.sequence` holds and which
session it came from. Discord is modelled by a log of numbered dispatches for
each session (`sent`), the sessions it would resume (`alive`) and what it has put
on each websocket (`inbox`). It answers Identify with dispatch 1 of a new
session, Resume with the dispatches after the number it is given, or refuses
with Op 9; it goes on dispatching while the client is away. `OpenBegin` reads
the sequence (65) and `Identify`/`Resume` read the session id after the dial
(132-163), with the steps of the old websocket's goroutines in between; a
`listen` goroutine reads, looks at the stop channel, stores the number (670) and
handles the packet in separate steps, and so does Op 9 clear the id (637-640)
and the number (641-646). `handled` counts how often each dispatch was handled;
`origin`, `loadedFrom`, `mixed` and `late` are history. A handshake that meets
the deadlock of section 6 ends in `FirstPacketHangs`.

### RateLimiter

A point in time is the number of ticks until it, with 0 for all of the past;
`Tick` lets time pass. `Bucket.Remaining` is only compared with 1, so it stops
at 0. `GetBucket` makes a bucket with the same fields whenever it does, so all
exist from the start. `LockBucketObject` is `LockAndSleep` and `Wake`, or
`LockAndSend`; `Release` is an operator of `RequestWithLockedBucket`'s actions
`TransportError`, `Answer`, `ServerError` (5xx, retried `MaxRestRetries` times)
and `TooManyRequests` (429, retried after the `retry_after` of the body).
`Headers` are all combinations of absent, unreadable and present values, with
the order in which `Release` gives up on them. The four statuses that are
retried are one action; the event `RateLimit` a 429 emits is not part of this
module.

### Endpoints and RestMethods

`Endpoints` is the table of the REST API as the code has it: for every method of
`restapi.go` and `oauth2.go` either the request it makes (HTTP method, path, and
the key under which the limiter counts it) or the methods it calls, in order.
`Sends(op, method, path, blank)` is the usual case, a key that is the path with
`Empty` for some arguments, which the code leaves out by passing ""; `SendsAs`
is a key of another form; `Calls` a method that makes no request itself. Path
and key are sequences of segments, as the functions of `endpoints.go` put them
together. A method that returns early for its arguments' sake is in `Checked`.
The rows are grouped as the methods follow
each other in the file, in groups small enough for a prover to look at one row
after the other.

`RestMethods` lets several goroutines call any of these methods with any
arguments. `Enter` calls one, `Delegate` replaces a method by those it calls,
`Ask` is `RequestWithBucketID`, `LockBucket` waits for the key's bucket,
`Succeed` and `Fail` are its release with the answer. An argument is an id, a
token or a code, and none is a word of an address (`IdAssumption`). "@me" for
the program's own id is an argument of one method only: `GuildMemberNickname`,
the one that looks at it (952), has a second row with its other address and key.
Elsewhere a key contains it only where the argument is the user of a voice state
or the member of a thread, and a request of `ThreadMember` that then shares the
key of `ThreadJoin` goes to the same address. `EnterWithMessage`,
`EnterAgain` and `RefuseEmbeds` follow the `MessageSend` or `MessageEdit` the
program owns and three methods change.

### EventDispatch

`handlersMu` is `writer` (a writer that has announced itself) and `depth` (how
many read locks a goroutine holds): as in `sync.RWMutex`, a reader waits while a
writer is waiting, and that writer waits for the readers inside. `handleEvent`
runs the loops of `handle` for `interface{}` and for the type of the event:
`stage` is the loop it is in and `rest` what the loop has still to call. A
synchronous handler is user code that runs inside `Call` and does what `Acts`
allows: emit an event (down to `MaxDepth`), add or remove a handler. An
asynchronous handler is a goroutine of its own and may do what any goroutine
may, so only its start is kept. The handlers of a type are a set. The write
`s.onceHandlers[t] = nil` under a read lock is a data race with the other
goroutines in the same place: `ClearOnce` is the outcome in which it goes
unnoticed, `MapRace` the one in which Go's runtime ends the program.

### StateCache

A slice is the set of ids in it, a map a function with `None` for what is not
there; a guild's `count` is its `MemberCount`, and `items` stands for any of the
lists that are handled alike and have no map. Each goroutine has in `todo` the
calls that an event, or the program, makes one after the other; most methods are
a `Look` (the lookup under the read lock) and a change under the write lock, and
between the two the object looked up may go: `looked` becomes "gone", and the
change goes to an object outside the cache but to the maps all the same. That is
why `torn` keeps the guilds to which this happened.

The actions of `GuildEvents` and `ChannelEvents` have the names of the events:
they change what is true at the gateway (`truth`, `joined`, `messages`) and, when
the client hears of it, give the loop the calls `OnInterface` makes for that
event and the `Track...` switches (`Tell`). `SessionLost` and `Ready` bring in
what was missed. `ProgramCalls` is a goroutine of the program that calls the
exported methods.

A `GuildCreate` brings any part of the members, and an event about a member may
name one the cache does not have; an offline presence adds nobody. `told` is
history: the members of each guild whom an event named. A deleted channel takes
its threads with it at the gateway, while the client hears of the channel only.
`leftOver` is history too: the guilds and channels that a map still has and no
list, because `onReady`, or a guild that came with new lists, replaced the list
and left the map as it was.

### VoiceConnection

`Voice` are the objects, `current` the one in `s.VoiceConnections`. A `Dial`
names everything one `open` makes: a websocket, the stop channel, the `wsListen`,
and the `opusSender` and `opusReceiver` its READY starts. A Dial nobody refers
to (`Used`) is used again, and so is a spare connection, so that the model goes
on for ever.

| code | actions |
|---|---|
| `Close` (213-267) | `CloseBegin`, `CloseEnd`: the lock is kept over the second in between, and others read the fields without it |
| `open` (497-591) | `OpenRefused`, `Open`, `OpenGotSessionID`, `OpenGivesUp`, `DialFails`, `DialSucceeds`, `IdentifyFails`, `Identify` |
| `wsListen`, `onEvent` (595-842) | `ListenLoop` (the read of `v.wsConn`, which may be another websocket by then, or nil), `Select`, `OnHello`, `UdpOpen...`, `LaunchOpus`, `ReadMoved` (4014) and `Abandon`, `ReadRefused` (4017), `ReadError`, `Reconnected`, `NotReconnected`, `Delete` |
| `wsHeartbeat`, `opusSender`, `opusReceiver` | `Beat`, `Sender...`, `Receiver...` |
| `ChannelVoiceJoin`, `Disconnect`, `reconnect` | `ChannelVoiceJoin` (the lookup) and `Insert`, `Ask`, `AskFails`, `Connected`, `NotConnected`; `Disconnect`; `ReconnectBegins`, `TryAgain`, `JoinFailed`, `ReconnectEnds` |
| `onVoiceStateUpdate`, `onVoiceServerUpdate` | `Deliver`, `OnVoiceStateUpdate`, and `Close` and `open` with a return address in `after` |

A method that calls another puts its own next label in `after`. `Abandon` takes
away whatever websocket the connection has when the goroutine gets the lock, be
it a new one. The session is
`online` or not, a packet has no contents, `moves` bounds what the program, the
network and the servers do, never what the library does in answer.
`udpKeepAlive` ends as the others do and writes nothing the model has.

### DaveController

A step is a critical section of `c.mu` or one call of a libdave handle; `call`
has where each of the three goroutines is and what it holds. `late` are those
that took the controller's pointer before `VoiceConnection.Close` detached it
and have not used it yet. A ratchet is a handle with a user and a number; `of`
has the live ones and their epochs, and `ratchets`, `encKey` and `decryptors`
refer to them. Left out are passthrough, the users a proposal is checked
against and the messages sent back: nothing read again depends on them. What the
library and the server do is taken from how the code uses them:
`GetKeyRatchet` returns nil if and only if the session is destroyed or the user
is not in the group, and the server gives an SSRC to another user only after the
first one's client has disconnected. A channel id that is no number makes
`ensureSession` return an error when there is no session (`NoGroup`). A controller
has one sender and one receiver: that those of a connection opened before may
take the new controller until they see their channels closed (`voice.go:947-955`)
is left out.

### Permissions

A bit mask is a set of names, so `|` is union and `& ^` difference. No two roles
and no two overwrites share an id, so the order of the loops and their `break`s
does not matter. There is no state and no run; TLAPS proves what they return.

## 3. The runs

| run | instance | shows |
|---|---|---|
| `gateway_safety` | 2 websockets, 2 application goroutines, all calls, Op 0, 1, 9, 11 and others, all unexpected packets | types; `Attended`; `Recovering`; the inductive invariant `Consistent`; `Gateway` implements `SessionLink` |
| `gateway_live` | 2 websockets, 1 application goroutine that opens the session | `Reconnects` |
| `gateway_stop` | 2 websockets, no automatic reconnect, Op 7 and unreadable Op 9, open and close | `LoopsEnd` |
| `gateway_invalid_session` | 1 application goroutine, Op 9 in the handshake | violated: `InvalidSessionAnswered` |
| `gateway_resume` | 3 websockets one after another, 3 dispatches in a session, close | `NothingLost`, `TwiceOnlyLate` |
| `rate_limiter` | 2 requests, a plain and a reactions bucket, all headers over remaining 0, 1 and reset 0, 2 | types, `Limited`, `BucketRespected`, `CustomRespected`, `RequestsReturn` |
| `rest_methods` | 2 callers, any two methods, 2 values for each argument | `Together`, `Apart`, `ReactionsLimited`, `ErrorsChangeNothing`, `NewMessageAccepted` |
| `event_dispatch` | 2 goroutines, an `interface{}` handler, a once handler of each kind, synchronous, depth 2 | types, `Registered`, `OnceKept`, `RemovedSilent` |
| `event_dispatch_live` | 2 goroutines, asynchronous handlers | `CallsReturn` |
| `state_cache` | 1 guild, user, text channel, thread and private channel, 2 messages of which 1 is kept, 7 events, 1 call of the program | `Agree`, `Current`, `MessagesKept` |
| `voice` | 2 connections, 2 Dials, 2 handlers, 2 reconnects, 1 application goroutine, 3 moves | `Exclusive`, `NothingLeft`, `Watched`, `ReadyHasSender` |
| `dave` | 1 other user with 1 SSRC, 2 epochs | `HandlesKept`, `Current`, `CloseReleases` |

`CHECK_DEADLOCK FALSE` is in the runs where the system may stop: the application
need not call anything and the gateway need send nothing (all of `Gateway`,
`GatewayResume`, `StateCache`, `VoiceConnection`, `DaveController`), `Open` may
block itself, a nil websocket ends the program, user code need do nothing and a
synchronous handler may block itself (`EventDispatch`), or a bound on what
happens outside is reached. `RateLimiter` and `RestMethods` are checked for
deadlock.

The bounds.

- *Gateway.* Two websockets are enough for an old one whose goroutines are still
  on their way and its successor; with two application goroutines and the up to
  four of the session every pair of closers meets. A third websocket would let a
  goroutine of the first meet the third, which it treats as it does the second:
  it compares identities only, and the proofs of section 5 hold for any number.
  Op 7 is left to `gateway_stop` and the proofs: it takes the path of Op 9
  without the two assignments, and doubles the instance. `gateway_live` has
  failures of the network for a cause of each reconnect, messages without effect
  and a session that stays wanted.
- *GatewayResume.* Three websockets are an old listener on its way while its
  successor is replaced as well; three dispatches let a late one be neither the
  first nor the last. The constraint `OneSessionAtATime` cuts behaviours after a
  Resume that mixes two sessions: `mixed` never becomes false again and both
  properties are about behaviours without one. `Open` called by the application
  once more only adds an opener like `reconnect`.
- *RateLimiter.* Two requests are the holder of a bucket's mutex and a waiter;
  reset 2 leaves a tick for another request's answer to change the bucket while
  one sleeps, and the proofs hold for any number of requests and any durations.
- *RestMethods.* The properties compare two requests, so two callers meet every
  pair of methods, and two values for each argument let the two agree or not.
  The proofs hold for any number of callers and any values.
- *EventDispatch.* A depth of two is a handler that emits inside a handler; three
  handlers are one for each path through `handle` but the plain typed one, which
  takes the same path as the `interface{}` one (the live run has it).
- *StateCache.* The methods relate one object to its guild or channel and look at
  no second one of its kind, but for the messages of a channel, of which there
  are two with room for one. Seven events are a guild heard of, filled, lost,
  changed meanwhile and heard of again; one call of the program meets each half
  of the loop's methods. The one user is in the `GuildCreate` or not, so that a
  guild comes with all its members or without some.
- *VoiceConnection.* Two connections are the one in the map and one deleted that
  still runs; two Dials an old websocket and its successor; two reconnects the
  one that works and the one that gives up. Three moves are what leads to each
  exception the properties name. One goroutine of the program: with a second, two
  `ChannelVoiceJoin`s may both find no connection and insert one, which doubles
  the instance and is left to the proofs, which hold for any number. Connections,
  Dials, handlers and reconnects are interchangeable (`Symmetry`). `EndsFirst` is
  an action constraint: the end of a goroutine that was told to stop and whose end
  changes nothing else is taken before any other step; no step needs such a
  goroutine to be still there.
- *DaveController.* Two epochs are the keys in use and their renewal; a third
  repeats it. Three handles of a user never are too few: with four the state
  space is the same.

What the properties say:

- `Attended`: an established session has both its goroutines. `Recovering`:
  while the application wants a session that is not established, somebody is on
  the way to `Open`. Several goroutines react to one failure and all but one
  give up with `ErrWSAlreadyOpen`; the properties say that the one they rely on
  does not give up as well. An Op 9 that cannot be read is the exception: the
  code closes the session and returns (632-635), and the property says so.
- `LinkSpec`: one websocket at a time, opened and closed in turn, its goroutines
  told to stop when it is closed, whatever fails in the middle of `Open`.
- `Reconnects`, `LoopsEnd`: `Reconnects` is checked without the unexpected
  packets that block `Open` (section 6). Both assume that a name of a websocket
  becomes free again and again (`Spare`), which only bounds the model.
- `NothingLost`: every dispatch up to the number the client would resume from was
  handled or is about to be. `TwiceOnlyLate`: one is handled twice only when a
  goroutine of a replaced websocket stored it, or an earlier one, late.
- `BucketRespected`, `CustomRespected`: a request that goes out has a call left
  in its bucket or the reset is over, whatever other requests, errors and
  unreadable headers came before.
- `Together`, `Apart`: the keys that 200 methods build by hand make requests of
  one limit wait for each other and others not. The methods that depart from it
  are listed in `PerObject`, `SharedKey` and `AnyOfThem`; a method added to the
  table with a key of the wrong shape breaks one of the two.
- `RemovedSilent`, `OnceKept`: a removed handler is in no list and in no loop; a
  once handler leaves its list by a call or its own removal.
- `Agree`: what the slices hold the maps find, and what the maps of guilds and
  channels find is in a slice or `leftOver`, through any interleaving of the
  halves of the methods; guilds that were changed through an object already
  replaced (`torn`) are the exception.
- `Current`: with only the events changing it, the cache has of each guild the
  client hears of what the gateway knows, whatever was lost between two sessions.
  The guild is found; the count of members is right although the cache need not
  have them all; of the members it has those an event named and nobody who left;
  the channels and the other lists are the guild's; every active thread is found
  and, unless it is left over, listed; a listed thread that has ended is archived
  or its channel was deleted.
- `MessagesKept`: the limit, no message twice, and a deleted message is in no
  channel or thread that such a guild lists, the threads of a deleted channel
  excepted.
- `NothingLeft`, `Watched`: no stop channel is lost, and a connection whose
  websocket is down has somebody on the way; the exceptions are those of
  section 6, made precise by `forgotten` and `gaveUp`.
- `HandlesKept`, `Current`, `CloseReleases`: no ratchet is lost or kept after its
  destruction; between calls, unless calls overlapped since the last epoch
  (`settled`), the keys in use are those of the group; what `Close` leaves alive
  is only what a call under way has in its hands.

Every property has a mutant in `PROJECT.json`: a change of one mapped definition
that a slip in the code could be, with which TLC finds the property violated.

## 4. Fairness

- `Gateway`: `Scheduled` is strong fairness of each goroutine's steps: Go
  schedules every goroutine that can run, and its mutexes starve no waiter.
  `Reachable` adds that the network does not fail every dial and every
  handshake. `LoopsEnd` needs the first only. Neither forces a break of the
  connection, a message or a call of the application.
- `RateLimiter`: goroutines run and time passes; the mutex starves nobody; a
  request is answered or fails, because the `http.Client` has a timeout; and the
  API does not limit or refuse a request for ever (a 429 is retried without
  bound).
- `EventDispatch`: goroutines run, an `RWMutex` starves neither readers nor
  writers, a synchronous handler returns.

The other modules state safety only, without fairness.

## 5. The proofs

All for any sets of websockets, goroutines, requests, buckets, handlers,
connections, guilds, channels, users and handles, any settings, durations and
depth. The assumptions are the `ASSUME`s of the modules: types of the constants,
sets that do not meet, and that the nil values are not among the real ones.
`GatewayResume` assumes besides that a session can have a dispatch at all
(`MaxSequence` is not 0), because Identify is answered with one, and
`StateCache` that guilds and channels have different ids, as Discord's
snowflakes do, and that there are finitely many users, since `MemberCount`
counts them. `RestMethods` assumes that an argument is not empty and not one of
the words the addresses are made of (`IdAssumption`), which no snowflake, token,
hash or template code is; the code of a vanity invitation may be one, but no key
contains it.

| theorem | argument |
|---|---|
| `GatewayProofs!TypeCorrect` | each action keeps each type |
| `GatewayProofs!SessionConsistent` | `Consistent` is inductive with `TypeOK` |
| `GatewayProofs!SessionAttended`, `SessionRecovering` | conjuncts of `Consistent` |
| `GatewayProofs!SessionImplementsLink` | under `Consistent` each action is an action of `SessionLink` or a stutter |
| `RateLimiterProofs!TypeCorrect`, `AlwaysLimited` | `Limited` is inductive |
| `RateLimiterProofs!LimiterRespectsBucket`, `LimiterRespectsCustom` | a request goes out in `LockAndSend` or `Wake`; `SleepCovers` and `CustomCovers` for the second |
| `EventDispatchProofs!TypeCorrect`, `AlwaysRegistered` | `Registered` is inductive |
| `EventDispatchProofs!RemovalIsFinal`, `OnceHandlersAreKept` | conjuncts of `Registered` |
| `GatewayResumeProofs!TypesHold`, `NothingLostHolds`, `TwiceOnlyLateHolds` | `IInv` is inductive: `Structure`, `Streams` and, without a mixed Resume, `Unmixed` |
| `StateCacheProofs!TypesHold`, `AgreeHolds` | `IInv` is inductive, and `Known` with it; each half of a method keeps them |
| `StateCacheProofs!CurrentHolds`, `MessagesKeptHolds` | `QInv`: the first and the last call of the loop are all the cache differs by from the gateway; `Stored` for the limit and the duplicates |
| `VoiceConnectionProofs!TypeCorrect`, `OneAtATime`, `NothingLeftOpen`, `ReadyOnlyWithSender` | `IInv` is inductive, one lemma for each action |
| `VoiceConnectionProofs!LossWatched` | `WInv` is inductive with `IInv` |
| `DaveControllerProofs!TypeCorrect`, `RatchetsKept`, `CloseReleasesAll` | `IInv` is inductive; `Close` from it |
| `DaveControllerProofs!KeysCurrent` | `KInv` is inductive with `IInv` |
| `RestProofs!RestInvariant`, `RestTypes` | `IInv` is inductive, one lemma for each action |
| `RestProofs!RequestsGoTogether` | `OneHolder` of `IInv`, and `OneKeyFilled`: the key of a method not counted by object follows from its address and the arguments Discord's limits depend on |
| `RestProofs!OthersDoNotWait` | `SameKey`, `SameAddress`, `SameMajor`: a key determines its row's pattern, the address but for six shapes of keys, and those arguments but for `AnyOfThem` |
| `RestProofs!ReactionsHaveTheLimit` | `ReactionKeys`: the suffix is found in the keys of the three methods, and no argument can make it |
| `RestProofs!FailedCallsChangedNothing`, `NewMessagesAreAccepted` | `WritesLast` and `MessageOnce` of `IInv` |
| `RestProofs!AdministratorHasChannel`, `AdministratorBypasses`, `OwnOverwriteDecides`, `RoleAllowBeatsRoleDeny`, `OthersOverwritesIgnored` | from `ApplyDecides`: what one pass over overwrites decides of one permission |
| `RestProofs!ColorOfHighestRole` | the roles in front of the one returned have no colour |

Why the invariants have the parts they have:

- `Consistent`. `Attended` is not inductive alone: a `Close` of another
  goroutine would leave a websocket whose goroutines are unknown. `ConnInv` says
  that the websocket that is not closed is `s.wsConn` and the stop channel that
  is not closed is its own; `LockInv` says that only a goroutine inside `Open`
  holds the lock, so that a section that waits for the lock sees the two
  together; `GarbledInv` excludes the one path on which nobody recovers.
  `Recovering` and `Attended` support each other: when a goroutine gives up
  because there is a websocket, that websocket is attended, and when the
  attending goroutine closes it, it goes on to `Open`.
- `Limited`. `BucketRespected` follows at `Wake` from what was true at
  `LockAndSleep`. In between other steps change the bucket's fields only through
  `Release`, whose caller owns the mutex: `Held`. `SleepCovers` carries the
  comparison over the sleep and `CustomCovers` ties the window to the reset.
- `Registered`. `RemovedSilent` needs that a handler about to be added is not
  one that was removed (`PlaceInv`) and that no loop is in progress while the
  write lock is held; `OnceKept` needs that every once handler in the list is
  still to be called or was called when the list is dropped (`OnceInv`).
- `VoiceConnectionProofs!IInv`. `Exclusive` needs to know where a reconnect may
  be while it serves a connection (`Reconnecting`: it never leaves its loop but
  by the deferred function). `Identify` starts a second goroutine, whose name
  has to be free and not the lock's holder: `Dialling` says that a websocket
  belongs to one connection and, until it is identified, to no goroutine.
  `Sources` says that every websocket that is read or kept was made for some
  connection, so that what a receiver starts when it fails is a reconnect of a
  real one. `NothingLeft` and `ReadyHasSender` then follow each action by
  action.
- `DaveControllerProofs!IInv`. `HandlesKept` is not inductive alone: a call may
  have obtained a ratchet and then install it over one another call has
  installed meanwhile. `Owned` gives every live ratchet one owner, the map or
  the one call that has not installed it yet, and `CallsInv` and `SessionInv`
  say what a call in each place holds and that `c.session` is live.

- `GatewayResumeProofs!IInv`. `NothingLost` is about the stored number alone,
  and other places hold numbers that may be stored next. `Whole` says the same
  of each of them: of the number `Open` has loaded (`Carried`), of the packet in
  a `listen`'s hand (`Held`), of the next one on a websocket (`ToCome`), and of
  the last one sent when a websocket has been read to its end (`CaughtUp`).
  `Streams` is why they follow from each other: packets on a websocket carry
  consecutive numbers of one session, up to the last one sent. `TwiceOnlyLate`
  needs the opposite (`News`): what is still to come on the current websocket,
  or would come after a Resume, was not handled yet, unless something was
  stored late. All of `Unmixed` fails after a Resume that names two sessions
  (section 6), and the two properties are about runs without one.
- `DaveControllerProofs!KInv`. Between calls `Current` is plain; within a call
  each use of a key is either current or is what this call will still renew.
  `Pending` and `Renewed` name what `refreshRatchets` has ahead of it, the
  other parts of `Keys` what a sender or receiver call has read. That the two
  do not cross is `Alone`, kept by what `settled` records.
- `VoiceConnectionProofs!WInv`. `Watched` fails if a `wsListen` could stop for a
  reason that is not its connection's. `Mine` and `Channels` say that websocket
  and stop channel belong to one connection, `Listening` that a `wsListen` works
  for the connection its websocket was made for and waits after a 4014 only if
  its websocket is no longer that connection's; so that one that ends has left
  a reconnect or a `Close`, which stays until the stop channel is closed.
- `StateCacheProofs!IInv`. The lists of a guild and its maps are changed in one
  critical section, but what the section changes was looked up in an earlier
  one. `Halves` says that an object looked up and not gone is still in the
  cache, and that the threads remembered are of its guild; `Homes` that a
  channel is in the lists of its own guild only, so that the deletion of one
  guild's channels leaves no gap in another's lists. `Known` is the other
  direction of `Agree` (`GuildsKnown`, `ChannelsKnown`): every step that takes
  something out of a list takes it out of the map or counts it as left over.
- `StateCacheProofs!QInv`. For each guild the client hears of, `RightNow` has
  an equation for the count, the channels and the items: the truth at the gateway
  is what the cached list becomes by the call on its way (`ChannelsThen`,
  `ItemsThen`). Of the members and the threads the cache need not have what the
  gateway has, and there are two bounds in place of the equation: the members
  become at least those named and at most the guild's (`MembersThen`), the
  threads at least the active ones (`Going`, `Coming`). An event changes the
  truth and adds the call, a call changes the list and goes. `Due` says that the call on the way is what the
  last event was about and `ThenDue` that at most a member's call follows it;
  `Fresh` is a guild that has come and has not been handled, about which the
  cache may hold anything. `Given` says that an id the cache or the gateway knows
  was given before, so that a thread whose channel was deleted is never one of a
  new channel.

- `RestProofs!IInv`. `ErrorsChangeNothing` is about the end of a call, and what
  it rests on is what is left of the call before: `ReadsFirst` says that of the
  methods still to be carried out all but the last only read, so that a request
  that changes something leaves nothing to do (`WritesLast`). `MessageOnce` is
  the same for a message: the method it was given to is the last. `OneHolder`
  is `LockBucket`'s mutual exclusion.
- The table. What `Together` and `Apart` say of pairs of requests is proved from
  facts about single rows (`Names`, `Addresses`, `Majors`, `KeysFollow` and
  others at the start of `RestProofs`), each with one case for every group of
  `Endpoints`. The pairs then follow from the shape of an address: the segment
  before an argument says which argument it is (`After`), and no argument looks
  like a literal segment, so that two keys which are equal once they are filled
  in were equal patterns with the same arguments. The exceptions are properties
  of the keys: six shapes that several addresses share (`Shares`, the sets of
  `SharedKey`), the keys that leave a webhook or an application out (`ForAny`),
  and nine methods whose key is not their address with segments left empty
  (`OwnKey`). A method added to the table with another kind of key fails the
  case of its group.

Two assertions were corrected because the proof did not go through, and TLC,
asked outside the run's bounds, then showed why: with `MaxSequence` 0 the model
of Discord had no answer to Identify; and `MessagesKept`, when it was about all
channels in the map, was false for a thread that is archived between two
sessions (section 6).

Model-checked only: the four liveness properties (`Reconnects`, `LoopsEnd`,
`RequestsReturn`, `CallsReturn`), because the prover does not handle fairness and
`ENABLED`. Every safety property that a passing run checks has its theorem.

## 6. What the code does not keep

One is a run that TLC ends with a counterexample (see "findings" in
`PROJECT.json`):

- `gateway_invalid_session`: a packet with Op 7, 9 or 11 during `Open`'s
  handshake blocks the session for ever, since `onEvent` asks for the lock `Open`
  holds (`wsapi.go:629`).

For the others the module has a definition that says what a comment of the code
promises, and no run. To see one fail, put it in place of the INVARIANTS and
PROPERTIES of the `.cfg` named; TLC finds a counterexample in seconds.

| definition | `.cfg` | the code says | what happens |
|---|---|---|---|
| `NoNilWebsocket` (invariant) | `MCGatewaySafety` | `ErrWSNotFound` is "thrown when you attempt to use a websocket that doesn't exist" (`wsapi.go:31-33`) | `ChannelVoiceJoinManual` dereferences nil (783) |
| `ListenClosesItsOwn` (action property) | `MCGatewaySafety` | `listen` looks whether a `Close()` has already happened (`wsapi.go:229-231`) | it looks first and closes later (239), and may close the websocket of the next session; `Attended` and `Recovering` hold all the same |
| `ResumesOneSession` (invariant) | `MCResume` | Op 2 for a new connection or Op 6 to resume (`wsapi.go:130-131`) | the number is read before the dial and the session id after it: a Resume may name a number of one session and the id of another |
| `GlobalRespected` (action property) | `MCRateLimiter` | "it will block all buckets until after Retry-After" (`ratelimit.go:147`) | a request that slept for its bucket does not look again (98) |
| `FiresOnce` (invariant) | `MCEventDispatch` | a once handler "will be fired the next time" (`event.go:123-124`) | two goroutines read the list before either drops it (183), which is also a write to a map under a read lock |
| `RemovalReturns` (invariant) | `MCEventDispatch` | the function returned "will remove the event handler" (`event.go:117-118`) | called by a synchronous handler it waits for the read lock it runs under (139) |
| `GuildMeansIn` (invariant) | `MCStateCache` | `State.Guild` is "useful for querying if @me is in a guild" (`state.go:178-181`) | `onReady` does not empty the maps (935): a guild left between two sessions is still found |
| `GuildsListed` (invariant) | `MCStateCache` | `GuildAdd` "adds a guild to the current world state" (`state.go:87`) | a guild left between two sessions and joined again in the second is still in the map, and so it is replaced there (115-143) and not listed in `Guilds` |
| `ThreadsHaveChannels` (invariant) | `MCStateCache` | `ChannelRemove` "removes a channel from current world state" (`state.go:528`) | the channel's threads end with it and stay in the guild's `Threads` and in `channelMap`, with their messages (577) |
| `LossNoticed` (invariant) | `MCVoice` | `reconnect` "will close down a voice connection then immediately try to reconnect" (`voice.go:1508-1509`) | a reconnect that sees another under way gives up (1518-1522), though the other may have looked at `Ready` already and be about to end: nobody is left who reconnects |
| `KeptAlive` (invariant) | `MCDave` | "we must keep it alive until the consuming Decryptor/Encryptor is done with it" (`dave/keyratchet.go:19-20`) | `installRatchet` destroys the old ratchet while a frame that found the outbound ratchet set is about to be encrypted with it |

Met while reading, and not stated as a property:

- `PermissionAdministrator` "allows all permissions and bypasses channel
  permission overwrites" (`structs.go:2788`): `PermissionAll` lacks the newer
  bits, and an overwrite that denies Administrator takes it away before it is
  looked at (`AdministratorBypasses` has the exact condition);
- `GetWaitTime` returns one of the two waits: while a bucket's reset is ahead, a
  longer global limit is not looked at (`ratelimit.go:76`);
- a synchronous handler that emits an event asks for the read lock it is called
  under (`event.go:191`), and waits for ever once another goroutine waits to
  write, as the removal in the table does;
- a failed identify returns with `v.wsConn` set and nobody who reads it
  (`voice.go:578`): every later `open` refuses to overwrite it;
- `open` gives the lock back while it waits for the session id and does not look
  at `v.wsConn` again (`voice.go:521`): two of them dial two websockets, and the
  second overwrites the first one's websocket and stop channel;
- the goroutine that read a 4014 takes away whatever websocket is there when it
  gets the lock, a new one included (`voice.go:608`); what this and the `open`s
  above leave behind is in `forgotten`;
- an `opusSender` that ends late resets `Ready` although the next one has set it
  (`voice.go:1273`);
- `EncryptOpus` marks the outbound ratchet as set before it sets one it read
  earlier (`voice_dave_controller_libdave.go:324`): an install in between leaves
  the encryptor with a ratchet that is destroyed. Two installs that overlap may
  come in the wrong order (470) and leave the older key;
- a thread that was archived between two sessions is in no list of the guild
  that comes with the next one, but `channelMap` still has it with the messages
  of before; when it is unarchived `ChannelAdd` finds it there and keeps them,
  deleted ones included (`state.go:488-502`, 935), and does not list it again;
- `GuildAdd` means to preserve the fields a guild does not contain
  (`state.go:115-116`) and leaves out `Stickers` and `StageInstances`;
- `ThreadMembersUpdate` compares a thread's id with user ids and removes nobody
  (`state.go:635`);
- `MLSFailureFunc` promises a callback on a failure of the protocol
  (`dave/callbacks.go:30`); the controller only logs it;
- "Destroy MUST be called by the owning code" (`dave/session.go:59`): a handler
  under way during `Close` may make a session that nobody destroys.

## 7. What is left out, and what comes next

Left out inside the modelled parts: the gateway's URL and its cache, compression
and the decoding of JSON (both can only fail, which is a read error or a message
without effect), the contents of Identify, the status updates and member requests
that write to the websocket and change no state, bodies and answers of REST
requests, encryption of voice packets, log output. `onInterface`'s routing is
part of `StateCache` (`Tell`) and `VoiceConnection` (`Deliver`); `setGuildIds`,
which copies an id into the parts of a guild, is left out.

Not modelled: data types, their JSON forms, logging and utilities have no state
and no order of steps; the event structs and generated handlers are declarations
and type assertions; the MLS protocol is inside the prebuilt libdave, of which
`DaveController` has what the controller can tell; `examples/` and `tools/` are
not part of the library.

Next, in the order of importance; the hazards without a property in
`PROJECT.json` name the lines:

1. `Gateway` composed with `EventDispatch`: the order in which `Connect` and
   `Disconnect` are handled (`wsapi.go:603`), and synchronous handlers that run
   inside `Open`'s lock (195).
2. `VoiceConnection` composed with `Gateway`, for the fields of the session a
   voice reconnect reads one by one (`voice.go:1544`).
3. A map of buckets that grows (`restapi.go:3189`).
