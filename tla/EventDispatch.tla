--------------------------- MODULE EventDispatch ---------------------------
(***************************************************************************)
(* Event handlers of a discordgo Session (event.go): AddHandler,           *)
(* AddHandlerOnce, the function they return, and handleEvent, which calls  *)
(* the handlers under the read lock of handlersMu.                         *)
(*                                                                         *)
(* There is one type of event besides "interface{}", which every event is  *)
(* dispatched to first.  The handlers of a type are a set: the slice's     *)
(* order shows in no property.  A handler that is not called synchronously *)
(* is a goroutine that does what any goroutine of the program may do, so   *)
(* only its start is kept here.                                            *)
(*                                                                         *)
(* sync.RWMutex: a writer announces itself, new readers wait from then on, *)
(* and it goes on when the readers before it have left.                    *)
(***************************************************************************)
EXTENDS Naturals

CONSTANTS
    Goroutine,     \* those that emit events or add and remove handlers
    Handler,       \* eventHandlerInstances
    OnceHandler,   \* the ones of AddHandlerOnce
    AnyHandler,    \* the ones for interface{} events
    SyncEvents,    \* the Session field of that name
    Acts,          \* what a handler does: "add", "remove", "emit"
    MaxDepth,      \* bound: how deep synchronous handlers emit events
    NoOne          \* no writer

ASSUME ConstantsAssumption ==
    /\ OnceHandler \subseteq Handler
    /\ AnyHandler \subseteq Handler
    /\ SyncEvents \in BOOLEAN
    /\ Acts \subseteq {"add", "remove", "emit"}
    /\ MaxDepth \in Nat \ {0}
    /\ NoOne \notin Goroutine
    /\ Handler # {}

VARIABLES
    handlers,      \* s.handlers
    onceHandlers,  \* s.onceHandlers
    writer,        \* who has announced itself in handlersMu.Lock
    pc,            \* where each goroutine is; at "user" it runs user code
    doing,         \* what it locks for
    target,        \* the handler it adds or removes
    depth,         \* how many handleEvents it is in: its read locks
    stage,         \* of each of them: 1, 2 for the interface{} handlers and
                   \* once handlers, 3, 4 for the typed ones, 5 at the end
    rest,          \* of each of them: the handlers the loop has still to call
    fired,         \* how often each handler was called, 2 for 2 and more
    made,          \* instances made: Handler bounds them
    known,         \* handlers that were added
    removed,       \* handlers whose removal function has returned
    died           \* "fatal error: concurrent map writes"

frames == <<depth, stage, rest>>
vars == <<handlers, onceHandlers, writer, pc, doing, target, depth, stage, rest,
          fired, made, known, removed, died>>

Level == 1..MaxDepth

TypeOK ==
    /\ handlers \subseteq Handler \ OnceHandler
    /\ onceHandlers \subseteq OnceHandler
    /\ writer \in Goroutine \cup {NoOne}
    /\ pc \in [Goroutine -> {"user", "rlock", "dispatch", "lock", "drain"}]
    /\ doing \in [Goroutine -> {"add", "remove"}]
    /\ target \in [Goroutine -> Handler]
    /\ depth \in [Goroutine -> 0..MaxDepth]
    /\ stage \in [Goroutine -> [Level -> 1..5]]
    /\ rest \in [Goroutine -> [Level -> SUBSET Handler]]
    /\ fired \in [Handler -> 0..2]
    /\ made \subseteq Handler
    /\ known \subseteq Handler
    /\ removed \subseteq Handler
    /\ died \in BOOLEAN

Init ==
    /\ handlers = {}
    /\ onceHandlers = {}
    /\ writer = NoOne
    /\ pc = [g \in Goroutine |-> "user"]
    /\ doing = [g \in Goroutine |-> "add"]
    /\ target = [g \in Goroutine |-> CHOOSE h \in Handler : TRUE]
    /\ depth = [g \in Goroutine |-> 0]
    /\ stage = [g \in Goroutine |-> [d \in Level |-> 1]]
    /\ rest = [g \in Goroutine |-> [d \in Level |-> {}]]
    /\ fired = [h \in Handler |-> 0]
    /\ made = {}
    /\ known = {}
    /\ removed = {}
    /\ died = FALSE

Goto(g, l) == pc' = [pc EXCEPT ![g] = l]

\* The handlers of the type a stage is about.
Typed(H, s) == IF s <= 2 THEN H \cap AnyHandler ELSE H \ AnyHandler

\* The innermost handleEvent of a goroutine.
Stage(g) == stage[g][depth[g]]
Rest(g) == rest[g][depth[g]]

\* At the end of a loop of handle.
LoopDone(g) == pc[g] = "dispatch" /\ Rest(g) = {}

\* About to read onceHandlers, and about to set an entry of it to nil.
Reads(g)  == LoopDone(g) /\ Stage(g) \in {1, 3}
Clears(g) == LoopDone(g) /\ Stage(g) \in {2, 4}

----------------------------------------------------------------------------
(* User code: a goroutine of the program, or a handler it is in *)

May(g, act) == pc[g] = "user" /\ (depth[g] = 0 \/ act \in Acts)

Emit(g) ==
    /\ May(g, "emit")
    /\ depth[g] < MaxDepth
    /\ Goto(g, "rlock")
    /\ UNCHANGED <<handlers, onceHandlers, writer, doing, target, frames,
                   fired, made, known, removed, died>>

AddHandler(g) ==
    /\ May(g, "add")
    /\ \E h \in Handler \ made :
          /\ made' = made \cup {h}
          /\ target' = [target EXCEPT ![g] = h]
    /\ doing' = [doing EXCEPT ![g] = "add"]
    /\ Goto(g, "lock")
    /\ UNCHANGED <<handlers, onceHandlers, writer, frames, fired, known,
                   removed, died>>

\* The function AddHandler returned is called.
RemoveHandler(g) ==
    /\ May(g, "remove")
    /\ \E h \in known : target' = [target EXCEPT ![g] = h]
    /\ doing' = [doing EXCEPT ![g] = "remove"]
    /\ Goto(g, "lock")
    /\ UNCHANGED <<handlers, onceHandlers, writer, frames, fired, made, known,
                   removed, died>>

\* A synchronous handler returns to handle.
Return(g) ==
    /\ pc[g] = "user"
    /\ depth[g] > 0
    /\ Goto(g, "dispatch")
    /\ UNCHANGED <<handlers, onceHandlers, writer, doing, target, frames,
                   fired, made, known, removed, died>>

----------------------------------------------------------------------------
(* addEventHandler, addEventHandlerOnce, removeEventHandlerInstance *)

Lock(g) ==
    /\ pc[g] = "lock"
    /\ writer = NoOne
    /\ writer' = g
    /\ Goto(g, "drain")
    /\ UNCHANGED <<handlers, onceHandlers, doing, target, frames, fired, made,
                   known, removed, died>>

\* A mutant: the write lock does not wait for the readers.
NoReadersIgnored == TRUE

NoReaders == \A g \in Goroutine : depth[g] = 0

addEventHandler(g) ==
    LET h == target[g] IN
    /\ pc[g] = "drain" /\ doing[g] = "add"
    /\ NoReaders
    /\ IF h \in OnceHandler
       THEN onceHandlers' = onceHandlers \cup {h} /\ UNCHANGED handlers
       ELSE handlers' = handlers \cup {h} /\ UNCHANGED onceHandlers
    /\ known' = known \cup {h}
    /\ writer' = NoOne
    /\ Goto(g, "user")
    /\ UNCHANGED <<doing, target, frames, fired, made, removed, died>>

\* A mutant: only the permanent handlers are searched.
removeEventHandlerInstanceHalf(g) ==
    /\ pc[g] = "drain" /\ doing[g] = "remove"
    /\ NoReaders
    /\ handlers' = handlers \ {target[g]}
    /\ removed' = removed \cup {target[g]}
    /\ writer' = NoOne
    /\ Goto(g, "user")
    /\ UNCHANGED <<onceHandlers, doing, target, frames, fired, made, known,
                   died>>

removeEventHandlerInstance(g) ==
    /\ pc[g] = "drain" /\ doing[g] = "remove"
    /\ NoReaders
    /\ handlers' = handlers \ {target[g]}
    /\ onceHandlers' = onceHandlers \ {target[g]}
    /\ removed' = removed \cup {target[g]}
    /\ writer' = NoOne
    /\ Goto(g, "user")
    /\ UNCHANGED <<doing, target, frames, fired, made, known, died>>

----------------------------------------------------------------------------
(* handleEvent and handle *)

\* The innermost handleEvent goes on with stage s and the handlers H.
Enter(g, d, s, H) ==
    /\ stage' = [stage EXCEPT ![g][d] = s]
    /\ rest' = [rest EXCEPT ![g][d] = H]

RLock(g) ==
    /\ pc[g] = "rlock"
    /\ writer = NoOne
    /\ depth' = [depth EXCEPT ![g] = @ + 1]
    /\ Enter(g, depth[g] + 1, 1, Typed(handlers, 1))
    /\ Goto(g, "dispatch")
    /\ UNCHANGED <<handlers, onceHandlers, writer, doing, target, fired, made,
                   known, removed, died>>

Call(g) ==
    /\ pc[g] = "dispatch"
    /\ \E h \in Rest(g) :
          /\ fired' = [fired EXCEPT ![h] = IF @ < 2 THEN @ + 1 ELSE 2]
          /\ rest' = [rest EXCEPT ![g][depth[g]] = @ \ {h}]
    /\ Goto(g, IF SyncEvents THEN "user" ELSE "dispatch")
    /\ UNCHANGED <<handlers, onceHandlers, writer, doing, target, depth, stage,
                   made, known, removed, died>>

\* if len(s.onceHandlers[t]) > 0: the loop over them, or the next type.
ReadOnce(g) ==
    LET list == Typed(onceHandlers, Stage(g)) IN
    /\ Reads(g)
    /\ IF list # {}
       THEN Enter(g, depth[g], Stage(g) + 1, list)
       ELSE Enter(g, depth[g], Stage(g) + 2,
                  IF Stage(g) = 1 THEN Typed(handlers, 3) ELSE {})
    /\ UNCHANGED <<handlers, onceHandlers, writer, pc, doing, target, depth,
                   fired, made, known, removed, died>>

\* A mutant: every once handler is forgotten, not the ones of this type.
ClearOnceAll(g) ==
    /\ Clears(g)
    /\ onceHandlers' = {}
    /\ Enter(g, depth[g], Stage(g) + 1,
             IF Stage(g) = 2 THEN Typed(handlers, 3) ELSE {})
    /\ UNCHANGED <<handlers, writer, pc, doing, target, depth, fired, made,
                   known, removed, died>>

\* s.onceHandlers[t] = nil, under the read lock.
ClearOnce(g) ==
    /\ Clears(g)
    /\ onceHandlers' = onceHandlers \ Typed(onceHandlers, Stage(g))
    /\ Enter(g, depth[g], Stage(g) + 1,
             IF Stage(g) = 2 THEN Typed(handlers, 3) ELSE {})
    /\ UNCHANGED <<handlers, writer, pc, doing, target, depth, fired, made,
                   known, removed, died>>

\* Go's runtime may stop a program that writes a map another goroutine uses.
MapRace(g) ==
    /\ Clears(g)
    /\ \E q \in Goroutine \ {g} : Reads(q) \/ Clears(q)
    /\ died' = TRUE
    /\ UNCHANGED <<handlers, onceHandlers, writer, pc, doing, target, frames,
                   fired, made, known, removed>>

\* A mutant: the read lock stays locked.
RUnlockMissing(g) ==
    /\ LoopDone(g)
    /\ Stage(g) = 5
    /\ Goto(g, "user")
    /\ UNCHANGED <<handlers, onceHandlers, writer, doing, target, frames,
                   fired, made, known, removed, died>>

\* A mutant: unlocked where it is done and once more by the defer.
RUnlockTwice(g) ==
    /\ LoopDone(g)
    /\ Stage(g) = 5
    /\ depth' = [depth EXCEPT ![g] = @ - 2]
    /\ Goto(g, "user")
    /\ UNCHANGED <<handlers, onceHandlers, writer, doing, target, stage, rest,
                   fired, made, known, removed, died>>

RUnlock(g) ==
    /\ LoopDone(g)
    /\ Stage(g) = 5
    /\ depth' = [depth EXCEPT ![g] = @ - 1]
    /\ Goto(g, "user")
    /\ UNCHANGED <<handlers, onceHandlers, writer, doing, target, stage, rest,
                   fired, made, known, removed, died>>

----------------------------------------------------------------------------

User(g) == Emit(g) \/ AddHandler(g) \/ RemoveHandler(g)

Locking(g) == Lock(g) \/ addEventHandler(g) \/ removeEventHandlerInstance(g)

Dispatching(g) ==
    \/ RLock(g) \/ Call(g) \/ ReadOnce(g) \/ ClearOnce(g) \/ MapRace(g)
    \/ RUnlock(g) \/ Return(g)

Next ==
    /\ ~died
    /\ \E g \in Goroutine : User(g) \/ Locking(g) \/ Dispatching(g)

Spec == Init /\ [][Next]_vars

----------------------------------------------------------------------------

\* Once a removal function has returned no event calls its handler: it is in
\* no list, and no handleEvent that read a list before has still to call it
\* (event.go:117-118, the write lock of removeEventHandlerInstance against the
\* read lock of handleEvent).
RemovedSilent ==
    \A h \in removed :
        /\ h \notin handlers \cup onceHandlers
        /\ \A g \in Goroutine : \A d \in 1..depth[g] : h \notin rest[g][d]

\* A once handler leaves the list by being called or by its own removal, never
\* otherwise: handle drops the whole list of a type (event.go:183), which must
\* not take along one that was added, or that another handleEvent read, in
\* between.
OnceKept ==
    \A h \in known \cap OnceHandler :
        h \in onceHandlers \/ h \in removed \/ fired[h] > 0

\* A handleEvent in a stage of once handlers has called, or has still to call,
\* each of them that is in the list.
OnceInv ==
    \A g \in Goroutine : \A d \in 1..depth[g] :
        stage[g][d] \in {2, 4} =>
            \A h \in Typed(onceHandlers, stage[g][d]) :
                h \in rest[g][d] \/ fired[h] > 0

Adding(g)   == pc[g] \in {"lock", "drain"} /\ doing[g] = "add"
Removing(g) == pc[g] \in {"lock", "drain"} /\ doing[g] = "remove"

PlaceInv ==
    /\ handlers \cup onceHandlers \cup removed \subseteq known
    /\ known \subseteq made
    /\ \A g \in Goroutine :
          /\ pc[g] = "dispatch" => depth[g] > 0
          /\ pc[g] = "rlock" => depth[g] < MaxDepth
          /\ Removing(g) => target[g] \in known
          /\ Adding(g) => /\ target[g] \in made \ known
                          /\ \A q \in Goroutine \ {g} :
                                Adding(q) => target[q] # target[g]

\* The inductive invariant: why no handler is lost and none comes back.
Registered == PlaceInv /\ OnceInv /\ OnceKept /\ RemovedSilent

\* event.go:123-124 "AddHandlerOnce allows you to add an event handler that
\* will be fired the next time the Discord WSAPI event that matches the
\* function fires": the next time, not the next two.  Two goroutines that
\* emit events read the list before either has dropped it.
FiresOnce == \A h \in OnceHandler : fired[h] <= 1

\* event.go:117-118 "The return value of this method is a function, that when
\* called will remove the event handler".  A goroutine that is in handleEvent
\* does not wait for the write lock, which waits for it.
RemovalReturns == \A g \in Goroutine : Removing(g) => depth[g] = 0

----------------------------------------------------------------------------
(* Fairness: goroutines run, an RWMutex starves nobody, a handler returns.    *)

FairSpec ==
    /\ Spec
    /\ \A g \in Goroutine :
          /\ SF_vars(Lock(g)) /\ SF_vars(RLock(g))
          /\ WF_vars(addEventHandler(g) \/ removeEventHandlerInstance(g))
          /\ WF_vars(Dispatching(g))

\* AddHandler, a removal function and handleEvent return, unless the program
\* has died: the goroutine that holds a lock is not one that waits for it.
CallsReturn ==
    \A g \in Goroutine : pc[g] # "user" ~> pc[g] = "user" \/ died
=============================================================================
