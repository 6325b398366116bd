------------------------ MODULE EventDispatchProofs ------------------------
(***************************************************************************)
(* No event handler of EventDispatch is lost and none comes back, for any  *)
(* goroutines and handlers, synchronous or not.                            *)
(***************************************************************************)
EXTENDS EventDispatch, TLAPS

LEMMA TypedSubset ==
    ASSUME NEW H, NEW s PROVE Typed(H, s) \subseteq H
BY DEF Typed

\* The step of a goroutine that enters or leaves a loop keeps the types of
\* what handleEvent remembers.
LEMMA EnterType ==
    ASSUME TypeOK, NEW g \in Goroutine, NEW d \in Level, NEW s \in 1..5,
           NEW H \in SUBSET Handler, Enter(g, d, s, H)
    PROVE  /\ stage' \in [Goroutine -> [Level -> 1..5]]
           /\ rest' \in [Goroutine -> [Level -> SUBSET Handler]]
BY DEF TypeOK, Enter

\* A dispatching goroutine is in at least one handleEvent.
Places == \A g \in Goroutine : /\ pc[g] = "dispatch" => depth[g] > 0
                               /\ pc[g] = "rlock" => depth[g] < MaxDepth

LEMMA TypeInit == Init => TypeOK
<1> SUFFICES ASSUME Init PROVE TypeOK
  OBVIOUS
<1>1. target \in [Goroutine -> Handler]
  <2>1. (CHOOSE h \in Handler : TRUE) \in Handler
    BY ConstantsAssumption
  <2> QED
    BY <2>1 DEF Init
<1>2. stage \in [Goroutine -> [Level -> 1..5]]
  <2>1. 1 \in 1..5
    OBVIOUS
  <2> QED
    BY <2>1 DEF Init
<1>3. depth \in [Goroutine -> 0..MaxDepth] /\ fired \in [Handler -> 0..2]
  <2>1. 0 \in 0..MaxDepth /\ 0 \in 0..2
    BY ConstantsAssumption
  <2> QED
    BY <2>1 DEF Init
<1>4. rest \in [Goroutine -> [Level -> SUBSET Handler]]
  BY DEF Init
<1>5. /\ pc \in [Goroutine -> {"user", "rlock", "dispatch", "lock", "drain"}]
      /\ doing \in [Goroutine -> {"add", "remove"}]
  BY DEF Init
<1> QED
  BY <1>1, <1>2, <1>3, <1>4, <1>5 DEF Init, TypeOK

LEMMA TypeNext == TypeOK /\ Places /\ [Next]_vars => TypeOK'
<1> SUFFICES ASSUME TypeOK, Places, [Next]_vars PROVE TypeOK'
  OBVIOUS
<1> USE ConstantsAssumption
<1>1. ASSUME NEW g \in Goroutine, Emit(g) PROVE TypeOK'
  BY <1>1 DEF TypeOK, Emit, Goto, frames
<1>2. ASSUME NEW g \in Goroutine, AddHandler(g) PROVE TypeOK'
  BY <1>2 DEF TypeOK, AddHandler, Goto, frames
<1>3. ASSUME NEW g \in Goroutine, RemoveHandler(g) PROVE TypeOK'
  BY <1>3 DEF TypeOK, RemoveHandler, Goto, frames
<1>4. ASSUME NEW g \in Goroutine, Return(g) PROVE TypeOK'
  BY <1>4 DEF TypeOK, Return, Goto, frames
<1>5. ASSUME NEW g \in Goroutine, Lock(g) PROVE TypeOK'
  BY <1>5 DEF TypeOK, Lock, Goto, frames
<1>6. ASSUME NEW g \in Goroutine, addEventHandler(g) PROVE TypeOK'
  BY <1>6 DEF TypeOK, addEventHandler, Goto, frames
<1>7. ASSUME NEW g \in Goroutine, removeEventHandlerInstance(g) PROVE TypeOK'
  BY <1>7 DEF TypeOK, removeEventHandlerInstance, Goto, frames
<1>8. ASSUME NEW g \in Goroutine, RLock(g) PROVE TypeOK'
  <2>1. depth[g] + 1 \in Level
    BY <1>8 DEF RLock, Places, TypeOK, Level
  <2>2. Typed(handlers, 1) \in SUBSET Handler
    BY TypedSubset DEF TypeOK
  <2>3. /\ stage' \in [Goroutine -> [Level -> 1..5]]
        /\ rest' \in [Goroutine -> [Level -> SUBSET Handler]]
    BY <1>8, <2>1, <2>2, EnterType DEF RLock
  <2>4. depth' \in [Goroutine -> 0..MaxDepth]
    BY <1>8, <2>1 DEF RLock, TypeOK, Level
  <2> QED
    BY <1>8, <2>3, <2>4 DEF RLock, TypeOK, Goto
<1>9. ASSUME NEW g \in Goroutine, Call(g) PROVE TypeOK'
  <2>1. depth[g] \in Level
    BY <1>9 DEF Call, Places, TypeOK, Level
  <2>2. PICK h \in Rest(g) :
            /\ fired' = [fired EXCEPT ![h] = IF @ < 2 THEN @ + 1 ELSE 2]
            /\ rest' = [rest EXCEPT ![g][depth[g]] = @ \ {h}]
    BY <1>9 DEF Call
  <2>3. fired' \in [Handler -> 0..2]
    <3>1. h \in Handler
      BY <2>1, <2>2 DEF TypeOK, Rest
    <3>2. \A n \in 0..2 : (IF n < 2 THEN n + 1 ELSE 2) \in 0..2
      OBVIOUS
    <3> QED
      BY <2>2, <3>1, <3>2 DEF TypeOK
  <2>4. rest' \in [Goroutine -> [Level -> SUBSET Handler]]
    BY <2>1, <2>2 DEF TypeOK
  <2> QED
    BY <1>9, <2>3, <2>4 DEF Call, TypeOK, Goto
<1>10. ASSUME NEW g \in Goroutine, ReadOnce(g) PROVE TypeOK'
  <2>1. depth[g] \in Level /\ Stage(g) \in {1, 3}
    BY <1>10 DEF ReadOnce, Reads, LoopDone, Places, TypeOK, Level
  <2>2. \E s \in 1..5, H \in SUBSET Handler : Enter(g, depth[g], s, H)
    <3>1. /\ Typed(onceHandlers, Stage(g)) \in SUBSET Handler
          /\ Typed(handlers, 3) \in SUBSET Handler
      BY TypedSubset DEF TypeOK
    <3>2. CASE Typed(onceHandlers, Stage(g)) # {}
      BY <1>10, <2>1, <3>1, <3>2 DEF ReadOnce
    <3>3. CASE Typed(onceHandlers, Stage(g)) = {}
      BY <1>10, <2>1, <3>1, <3>3 DEF ReadOnce
    <3> QED
      BY <3>2, <3>3
  <2>3. /\ stage' \in [Goroutine -> [Level -> 1..5]]
        /\ rest' \in [Goroutine -> [Level -> SUBSET Handler]]
    BY <2>1, <2>2, EnterType
  <2> QED
    BY <1>10, <2>3 DEF ReadOnce, TypeOK
<1>11. ASSUME NEW g \in Goroutine, ClearOnce(g) PROVE TypeOK'
  <2>1. depth[g] \in Level /\ Stage(g) \in {2, 4}
    BY <1>11 DEF ClearOnce, Clears, LoopDone, Places, TypeOK, Level
  <2>2. Typed(handlers, 3) \in SUBSET Handler
    BY TypedSubset DEF TypeOK
  <2>3. \E s \in 1..5, H \in SUBSET Handler : Enter(g, depth[g], s, H)
    BY <1>11, <2>1, <2>2 DEF ClearOnce
  <2>4. /\ stage' \in [Goroutine -> [Level -> 1..5]]
        /\ rest' \in [Goroutine -> [Level -> SUBSET Handler]]
    BY <2>1, <2>3, EnterType
  <2> QED
    BY <1>11, <2>4 DEF ClearOnce, TypeOK
<1>12. ASSUME NEW g \in Goroutine, MapRace(g) PROVE TypeOK'
  BY <1>12 DEF TypeOK, MapRace, frames
<1>13. ASSUME NEW g \in Goroutine, RUnlock(g) PROVE TypeOK'
  BY <1>13 DEF TypeOK, RUnlock, LoopDone, Places, Goto
<1>14. CASE UNCHANGED vars
  BY <1>14 DEF TypeOK, vars, frames
<1> QED
  BY <1>1, <1>2, <1>3, <1>4, <1>5, <1>6, <1>7, <1>8, <1>9, <1>10, <1>11,
     <1>12, <1>13, <1>14 DEF Next, User, Locking, Dispatching

----------------------------------------------------------------------------

LEMMA RegisteredInit == Init => Registered
BY ConstantsAssumption DEF Init, Registered, PlaceInv, OnceInv, OnceKept,
    RemovedSilent, Adding, Removing

LEMMA PlaceNext == TypeOK /\ PlaceInv /\ [Next]_vars => PlaceInv'
<1> SUFFICES ASSUME TypeOK, PlaceInv, [Next]_vars PROVE PlaceInv'
  OBVIOUS
<1> USE ConstantsAssumption DEF TypeOK, PlaceInv, Adding, Removing, Goto
<1>1. ASSUME NEW g \in Goroutine, Emit(g) PROVE PlaceInv'
  BY <1>1 DEF Emit, frames
<1>2. ASSUME NEW g \in Goroutine, AddHandler(g) PROVE PlaceInv'
  BY <1>2 DEF AddHandler, frames, May
<1>3. ASSUME NEW g \in Goroutine, RemoveHandler(g) PROVE PlaceInv'
  BY <1>3 DEF RemoveHandler, frames, May
<1>4. ASSUME NEW g \in Goroutine, Return(g) PROVE PlaceInv'
  BY <1>4 DEF Return, frames
<1>5. ASSUME NEW g \in Goroutine, Lock(g) PROVE PlaceInv'
  BY <1>5 DEF Lock, frames
<1>6. ASSUME NEW g \in Goroutine, addEventHandler(g) PROVE PlaceInv'
  BY <1>6 DEF addEventHandler, frames
<1>7. ASSUME NEW g \in Goroutine, removeEventHandlerInstance(g) PROVE PlaceInv'
  BY <1>7 DEF removeEventHandlerInstance, frames
<1>8. ASSUME NEW g \in Goroutine, RLock(g) PROVE PlaceInv'
  BY <1>8 DEF RLock
<1>9. ASSUME NEW g \in Goroutine, Call(g) PROVE PlaceInv'
  BY <1>9 DEF Call
<1>10. ASSUME NEW g \in Goroutine, ReadOnce(g) PROVE PlaceInv'
  BY <1>10 DEF ReadOnce
<1>11. ASSUME NEW g \in Goroutine, ClearOnce(g) PROVE PlaceInv'
  BY <1>11 DEF ClearOnce
<1>12. ASSUME NEW g \in Goroutine, MapRace(g) PROVE PlaceInv'
  BY <1>12 DEF MapRace, frames
<1>13. ASSUME NEW g \in Goroutine, RUnlock(g) PROVE PlaceInv'
  BY <1>13 DEF RUnlock, LoopDone
<1>14. CASE UNCHANGED vars
  BY <1>14 DEF vars, frames
<1> QED
  BY <1>1, <1>2, <1>3, <1>4, <1>5, <1>6, <1>7, <1>8, <1>9, <1>10, <1>11,
     <1>12, <1>13, <1>14 DEF Next, User, Locking, Dispatching

\* What handleEvent has still to do: its entries beyond depth[g] are old.
\* The write lock is held only when there is none.
LEMMA Nobody ==
    ASSUME TypeOK, NoReaders, NEW g \in Goroutine
    PROVE  1..depth[g] = {}
BY DEF TypeOK, NoReaders

\* The steps that leave the lists and every handleEvent alone.
Quiet == UNCHANGED <<handlers, onceHandlers, depth, stage, rest, fired, known,
                     removed>>

LEMMA QuietStep == Registered /\ Quiet => OnceInv' /\ OnceKept' /\ RemovedSilent'
BY DEF Registered, Quiet, OnceInv, OnceKept, RemovedSilent, Typed

LEMMA AddStep ==
    ASSUME TypeOK, Registered, NEW g \in Goroutine, addEventHandler(g)
    PROVE  OnceInv' /\ OnceKept' /\ RemovedSilent'
<1> USE DEF addEventHandler, frames
<1>1. target[g] \in Handler /\ target[g] \notin known
  BY DEF Registered, PlaceInv, Adding, TypeOK
<1>2. \A q \in Goroutine : 1..depth'[q] = {}
  BY Nobody
<1>3. OnceInv' /\ RemovedSilent'
  BY <1>1, <1>2 DEF OnceInv, RemovedSilent, Registered, PlaceInv
<1>4. OnceKept'
  BY <1>1 DEF OnceKept, Registered
<1> QED
  BY <1>3, <1>4

LEMMA RemoveStep ==
    ASSUME TypeOK, Registered, NEW g \in Goroutine,
           removeEventHandlerInstance(g)
    PROVE  OnceInv' /\ OnceKept' /\ RemovedSilent'
<1> USE DEF removeEventHandlerInstance, frames
<1>1. \A q \in Goroutine : 1..depth'[q] = {}
  BY Nobody
<1>2. OnceInv' /\ RemovedSilent'
  BY <1>1 DEF OnceInv, RemovedSilent, Registered
<1>3. OnceKept'
  BY DEF OnceKept, Registered
<1> QED
  BY <1>2, <1>3

\* A handleEvent that begins or goes on to a stage s has in its loop handlers
\* that are in a list now.
LEMMA EnterStep ==
    ASSUME TypeOK, Registered, NEW g \in Goroutine, NEW d \in Level,
           NEW s \in 1..5, NEW H, H \subseteq handlers \cup onceHandlers,
           s \in {2, 4} => H = Typed(onceHandlers, s),
           depth' \in [Goroutine -> 0..MaxDepth],
           \A q \in Goroutine :
              depth'[q] <= depth[q] \/ (q = g /\ depth'[q] = d /\ d = depth[q] + 1),
           Enter(g, d, s, H),
           onceHandlers' \subseteq onceHandlers,
           UNCHANGED <<handlers, fired, removed>>
    PROVE  OnceInv' /\ RemovedSilent'
<1>1. ASSUME NEW q \in Goroutine, NEW e \in 1..depth'[q]
      PROVE  /\ e \in Level
             /\ \/ q = g /\ e = d
                \/ e \in 1..depth[q] /\ ~(q = g /\ e = d)
  <2>1. depth'[q] \in 0..MaxDepth /\ depth[q] \in 0..MaxDepth
    BY DEF TypeOK
  <2>2. /\ MaxDepth \in Nat
        /\ e \in Nat /\ 1 <= e /\ e <= depth'[q]
    BY <1>1, <2>1, ConstantsAssumption
  <2>3. e \in Level
    BY <2>1, <2>2 DEF Level
  <2>4. CASE depth'[q] <= depth[q]
    BY <2>1, <2>2, <2>3, <2>4
  <2>5. CASE q = g /\ depth'[q] = d /\ d = depth[q] + 1
    BY <2>1, <2>2, <2>3, <2>5
  <2> QED
    BY <2>4, <2>5
<1>2. ASSUME NEW q \in Goroutine, NEW e \in Level
      PROVE  /\ stage'[q][e] = IF q = g /\ e = d THEN s ELSE stage[q][e]
             /\ rest'[q][e] = IF q = g /\ e = d THEN H ELSE rest[q][e]
  BY <1>2 DEF Enter, TypeOK
<1>3. OnceInv'
  <2> SUFFICES ASSUME NEW q \in Goroutine, NEW e \in 1..depth'[q],
                      stage'[q][e] \in {2, 4},
                      NEW h \in Typed(onceHandlers', stage'[q][e])
               PROVE  h \in rest'[q][e] \/ fired[h] > 0
    BY DEF OnceInv, Typed
  <2>1. h \in Typed(onceHandlers, stage'[q][e])
    BY DEF Typed
  <2>2. CASE q = g /\ e = d
    BY <1>1, <1>2, <2>1, <2>2
  <2>3. CASE e \in 1..depth[q] /\ ~(q = g /\ e = d)
    BY <1>1, <1>2, <2>1, <2>3 DEF Registered, OnceInv
  <2> QED
    BY <1>1, <2>2, <2>3
<1>4. RemovedSilent'
  <2> SUFFICES ASSUME NEW h \in removed
               PROVE  /\ h \notin handlers \cup onceHandlers'
                      /\ \A q \in Goroutine : \A e \in 1..depth'[q] :
                            h \notin rest'[q][e]
    BY DEF RemovedSilent
  <2>1. h \notin handlers \cup onceHandlers
    BY DEF Registered, RemovedSilent
  <2>2. ASSUME NEW q \in Goroutine, NEW e \in 1..depth'[q]
        PROVE  h \notin rest'[q][e]
    <3>1. CASE q = g /\ e = d
      BY <1>1, <1>2, <2>1, <3>1
    <3>2. CASE e \in 1..depth[q] /\ ~(q = g /\ e = d)
      BY <1>1, <1>2, <3>2 DEF Registered, RemovedSilent
    <3> QED
      BY <1>1, <3>1, <3>2
  <2> QED
    BY <2>1, <2>2
<1> QED
  BY <1>3, <1>4

LEMMA StayStep ==
    ASSUME TypeOK, Registered, NEW g \in Goroutine, depth[g] \in Level,
           NEW s \in 1..5, NEW H, H \subseteq handlers \cup onceHandlers,
           s \in {2, 4} => H = Typed(onceHandlers, s),
           depth' = depth,
           Enter(g, depth[g], s, H),
           onceHandlers' \subseteq onceHandlers,
           UNCHANGED <<handlers, fired, removed>>
    PROVE  OnceInv' /\ RemovedSilent'
<1>1. \A q \in Goroutine :
          depth'[q] <= depth[q] \/ (q = g /\ depth'[q] = depth[g]
                                          /\ depth[g] = depth[q] + 1)
  BY DEF TypeOK
<1>2. depth' \in [Goroutine -> 0..MaxDepth]
  BY DEF TypeOK
<1> QED
  BY <1>1, <1>2, EnterStep

LEMMA CallStep ==
    ASSUME TypeOK, Registered, NEW g \in Goroutine, Call(g)
    PROVE  OnceInv' /\ OnceKept' /\ RemovedSilent'
<1>1. PICK h \in Rest(g) :
          /\ fired' = [fired EXCEPT ![h] = IF @ < 2 THEN @ + 1 ELSE 2]
          /\ rest' = [rest EXCEPT ![g][depth[g]] = @ \ {h}]
  BY DEF Call
<1>2. depth[g] \in Level
  BY DEF Call, Registered, PlaceInv, TypeOK, Level
<1>3. h \in Handler
  BY <1>1, <1>2 DEF TypeOK, Rest
<1>4. ASSUME NEW k \in Handler
      PROVE  fired'[k] > 0 <=> (k = h \/ fired[k] > 0)
  <2>1. fired[k] \in 0..2
    BY DEF TypeOK
  <2>2. fired'[k] = IF k # h THEN fired[k] ELSE IF fired[k] < 2 THEN fired[k] + 1 ELSE 2
    BY <1>1, <1>3 DEF TypeOK
  <2> QED
    BY <2>1, <2>2
<1>5. ASSUME NEW q \in Goroutine, NEW e \in 1..depth[q]
      PROVE  /\ rest'[q][e] \subseteq rest[q][e]
             /\ rest[q][e] \subseteq rest'[q][e] \cup {h}
  <2>1. e \in Level
    BY <1>5, ConstantsAssumption DEF TypeOK, Level
  <2> QED
    BY <1>1, <1>2, <2>1 DEF TypeOK
<1>6. OnceInv'
  <2> SUFFICES ASSUME NEW q \in Goroutine, NEW e \in 1..depth[q],
                      stage[q][e] \in {2, 4},
                      NEW k \in Typed(onceHandlers, stage[q][e])
               PROVE  k \in rest'[q][e] \/ fired'[k] > 0
    BY DEF Call, OnceInv, Typed
  <2>1. k \in Handler
    BY ConstantsAssumption DEF Typed, TypeOK
  <2>2. k \in rest[q][e] \/ fired[k] > 0
    BY DEF Registered, OnceInv
  <2> QED
    BY <1>4, <1>5, <2>1, <2>2
<1>7. OnceKept'
  BY <1>4, ConstantsAssumption DEF Call, OnceKept, Registered
<1>8. RemovedSilent'
  BY <1>5 DEF Call, RemovedSilent, Registered
<1> QED
  BY <1>6, <1>7, <1>8

LEMMA RLockStep ==
    ASSUME TypeOK, Registered, NEW g \in Goroutine, RLock(g)
    PROVE  OnceInv' /\ OnceKept' /\ RemovedSilent'
<1>1. /\ depth[g] + 1 \in Level
      /\ depth' = [depth EXCEPT ![g] = @ + 1]
      /\ depth' \in [Goroutine -> 0..MaxDepth]
  <2>1. depth[g] \in 0..MaxDepth /\ depth[g] < MaxDepth /\ MaxDepth \in Nat
    BY ConstantsAssumption DEF RLock, Registered, PlaceInv, TypeOK
  <2>2. depth[g] + 1 \in 0..MaxDepth /\ depth[g] + 1 \in Level
    BY <2>1 DEF Level
  <2> QED
    BY <2>2 DEF RLock, TypeOK
<1>2. \A q \in Goroutine :
          depth'[q] <= depth[q] \/ (q = g /\ depth'[q] = depth[g] + 1
                                          /\ depth[g] + 1 = depth[q] + 1)
  BY <1>1 DEF TypeOK
<1>3. Typed(handlers, 1) \subseteq handlers
  BY TypedSubset
<1>4. OnceInv' /\ RemovedSilent'
  BY <1>1, <1>2, <1>3, EnterStep DEF RLock
<1>5. OnceKept'
  BY DEF RLock, Registered, OnceKept
<1> QED
  BY <1>4, <1>5

LEMMA ReadOnceStep ==
    ASSUME TypeOK, Registered, NEW g \in Goroutine, ReadOnce(g)
    PROVE  OnceInv' /\ OnceKept' /\ RemovedSilent'
<1> DEFINE once == Typed(onceHandlers, Stage(g))
<1>1. /\ depth[g] \in Level
      /\ Stage(g) \in {1, 3}
      /\ depth' = depth
      /\ UNCHANGED <<handlers, fired, removed>>
      /\ onceHandlers' \subseteq onceHandlers
  BY DEF ReadOnce, Reads, LoopDone, Registered, PlaceInv, TypeOK, Level
<1>2. Typed(handlers, 3) \subseteq handlers /\ once \subseteq onceHandlers
  BY TypedSubset
<1>3. Typed(onceHandlers, Stage(g) + 1) = once
  BY <1>1 DEF Typed
<1>4. OnceKept'
  BY DEF ReadOnce, Registered, OnceKept
<1>5. CASE once # {}
  <2>1. Enter(g, depth[g], Stage(g) + 1, once) /\ Stage(g) + 1 \in 1..5
    BY <1>1, <1>5 DEF ReadOnce
  <2> QED
    BY <1>1, <1>2, <1>3, <1>4, <2>1, StayStep
<1>6. CASE once = {}
  <2> DEFINE H == IF Stage(g) = 1 THEN Typed(handlers, 3) ELSE {}
  <2>1. /\ Enter(g, depth[g], Stage(g) + 2, H)
        /\ Stage(g) + 2 \in 1..5
        /\ Stage(g) + 2 \notin {2, 4}
        /\ H \subseteq handlers
    BY <1>1, <1>2, <1>6 DEF ReadOnce
  <2> QED
    BY <1>1, <1>4, <2>1, StayStep
<1> QED
  BY <1>5, <1>6

\* Only handlers that were called are forgotten.
LEMMA ClearOnceStep ==
    ASSUME TypeOK, Registered, NEW g \in Goroutine, ClearOnce(g)
    PROVE  OnceInv' /\ OnceKept' /\ RemovedSilent'
<1> DEFINE H == IF Stage(g) = 2 THEN Typed(handlers, 3) ELSE {}
<1>1. /\ depth[g] \in Level
      /\ Stage(g) \in {2, 4}
      /\ Rest(g) = {}
      /\ depth' = depth
      /\ UNCHANGED <<handlers, fired, removed>>
      /\ onceHandlers' \subseteq onceHandlers
  BY DEF ClearOnce, Clears, LoopDone, Registered, PlaceInv, TypeOK, Level
<1>2. /\ Enter(g, depth[g], Stage(g) + 1, H)
      /\ Stage(g) + 1 \in 1..5
      /\ Stage(g) + 1 \notin {2, 4}
      /\ H \subseteq handlers
  BY <1>1, TypedSubset DEF ClearOnce
<1>3. OnceInv' /\ RemovedSilent'
  BY <1>1, <1>2, StayStep
<1>4. \A h \in Typed(onceHandlers, Stage(g)) : fired[h] > 0
  <2>1. depth[g] \in 1..depth[g]
    BY <1>1 DEF Level
  <2> QED
    BY <1>1, <2>1 DEF Registered, OnceInv, Stage, Rest
<1>5. OnceKept'
  BY <1>1, <1>4 DEF ClearOnce, OnceKept, Registered
<1> QED
  BY <1>3, <1>5

LEMMA RUnlockStep ==
    ASSUME TypeOK, Registered, NEW g \in Goroutine, RUnlock(g)
    PROVE  OnceInv' /\ OnceKept' /\ RemovedSilent'
<1>1. ASSUME NEW q \in Goroutine, NEW e \in 1..depth'[q]
      PROVE  e \in 1..depth[q]
  BY <1>1, ConstantsAssumption DEF RUnlock, TypeOK
<1>2. OnceInv'
  BY <1>1 DEF RUnlock, Registered, OnceInv, Typed
<1>3. RemovedSilent'
  BY <1>1 DEF RUnlock, Registered, RemovedSilent
<1>4. OnceKept'
  BY DEF RUnlock, Registered, OnceKept
<1> QED
  BY <1>2, <1>3, <1>4

LEMMA RegisteredNext == TypeOK /\ Registered /\ [Next]_vars => Registered'
<1> SUFFICES ASSUME TypeOK, Registered, [Next]_vars PROVE Registered'
  OBVIOUS
<1> DEFINE Kept == OnceInv' /\ OnceKept' /\ RemovedSilent'
<1>1. PlaceInv'
  BY PlaceNext DEF Registered
<1>2. ASSUME NEW g \in Goroutine, User(g) PROVE Quiet
  BY <1>2 DEF User, Emit, AddHandler, RemoveHandler, Quiet, frames
<1>3. ASSUME NEW g \in Goroutine, Return(g) \/ Lock(g) \/ MapRace(g)
      PROVE  Quiet
  BY <1>3 DEF Return, Lock, MapRace, Quiet, frames
<1>4. ASSUME NEW g \in Goroutine, User(g) \/ Locking(g) \/ Dispatching(g)
      PROVE  Kept
  <2>1. CASE User(g) \/ Return(g) \/ Lock(g) \/ MapRace(g)
    BY <1>2, <1>3, <2>1, QuietStep
  <2>2. CASE addEventHandler(g) \/ removeEventHandlerInstance(g)
    BY <2>2, AddStep, RemoveStep
  <2>3. CASE RLock(g) \/ Call(g) \/ ReadOnce(g) \/ ClearOnce(g) \/ RUnlock(g)
    BY <2>3, RLockStep, CallStep, ReadOnceStep, ClearOnceStep, RUnlockStep
  <2> QED
    BY <1>4, <2>1, <2>2, <2>3 DEF Locking, Dispatching
<1>5. Kept
  <2>1. CASE UNCHANGED vars
    BY <2>1, QuietStep DEF vars, Quiet, frames
  <2>2. CASE Next
    BY <1>4, <2>2 DEF Next
  <2> QED
    BY <2>1, <2>2
<1> QED
  BY <1>1, <1>5 DEF Registered

LEMMA RegisteredPlaces == Registered => Places
BY DEF Registered, PlaceInv, Places

----------------------------------------------------------------------------

\* No list and no counter leaves its type; the read locks are given back.
THEOREM TypeCorrect == Spec => []TypeOK
<1>1. Init => TypeOK /\ Registered
  BY TypeInit, RegisteredInit
<1>2. TypeOK /\ Registered /\ [Next]_vars => (TypeOK /\ Registered)'
  BY TypeNext, RegisteredNext, RegisteredPlaces
<1> QED
  BY <1>1, <1>2, PTL DEF Spec

\* No handler is lost and none comes back, at any depth of events.
THEOREM AlwaysRegistered == Spec => []Registered
<1>1. Init => TypeOK /\ Registered
  BY TypeInit, RegisteredInit
<1>2. TypeOK /\ Registered /\ [Next]_vars => (TypeOK /\ Registered)'
  BY TypeNext, RegisteredNext, RegisteredPlaces
<1> QED
  BY <1>1, <1>2, PTL DEF Spec

\* A removed handler is not called any more.
THEOREM RemovalIsFinal == Spec => []RemovedSilent
<1>1. Registered => RemovedSilent
  BY DEF Registered
<1> QED
  BY <1>1, AlwaysRegistered, PTL

\* A once handler is not dropped before it is called.
THEOREM OnceHandlersAreKept == Spec => []OnceKept
<1>1. Registered => OnceKept
  BY DEF Registered
<1> QED
  BY <1>1, AlwaysRegistered, PTL
=============================================================================
