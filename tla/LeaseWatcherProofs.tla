------------------------- MODULE LeaseWatcherProofs -------------------------
(***************************************************************************)
(* Theorems about LeaseWatcher, for any numbers of holds and callers.      *)
(* Except for the types they need Serial: that the calls of AcquireTopic   *)
(* and ReleaseTopic for a topic come one after the other.                  *)
(***************************************************************************)
EXTENDS LeaseWatcher, TLAPS

-----------------------------------------------------------------------------
\* The inductive invariant

Stopping(c) == pc[c] \in {"stop", "restop"}

\* The goroutine of a handle has been spawned and its done channel is not closed.
Alive(h) == gor[h] \in {"wait", "cancel", "exit"}

OneCall == \A c, d \in Caller : pc[c] # "idle" /\ pc[d] # "idle" => c = d

\* Whatever goroutine is left over is in the running map, or a Stop waits for it; and
\* the map is empty while a call runs.
Accounted ==
    /\ running # Nobody => Alive(running)
    /\ \A h \in Hold :
          Alive(h) => h = running \/ \E c \in Caller : Stopping(c) /\ target[c] = h
    /\ \A h \in Hold : gor[h] = "new" => cause[h] = "none"
    /\ \A c \in Caller : pc[c] # "idle" => running = Nobody
    /\ \A c \in Caller : pc[c] = "restop" => target[c] = Nobody

\* What a call knows of the lease: nobody held it if Stop found no watcher, and the
\* lease that AcquireTopic has written is held until its watcher has started.
LeaseKnown ==
    /\ \A c \in Caller : pc[c] \in {"stop", "write"} /\ ~report[c] => lease = "lapsing"
    /\ \A c \in Caller : pc[c] \in {"start", "restop", "store"} => lease = "held"

IInv ==
    /\ TypeOK
    /\ OneCall
    /\ Accounted
    /\ LeaseKnown
    /\ HeldIffWatched

-----------------------------------------------------------------------------
\* Types

(***************************************************************************)
(* Every step of a goroutine or of a call keeps the types.                 *)
(***************************************************************************)
LEMMA StepType ==
    ASSUME TypeOK, [Next]_vars
    PROVE  TypeOK'
<1>1. ASSUME NEW h \in Hold, HoldCtxEnds(h) \/ Wakes(h) \/ OnCancel(h) \/ Exits(h)
      PROVE  TypeOK'
  BY <1>1 DEF TypeOK, HoldCtxEnds, Wakes, OnCancel, Exits, Removed
<1>2. ASSUME NEW c \in Caller, CallStop(c) \/ StartStops(c) PROVE TypeOK'
  <2>1. Cancelled \in [Hold -> {"none", "ended", "stopped"}]
    BY DEF TypeOK, Cancelled
  <2> QED
    BY <1>2, <2>1 DEF TypeOK, CallStop, StartStops
<1>3. ASSUME NEW c \in Caller, StopReturns(c) PROVE TypeOK'
  BY <1>3 DEF TypeOK, StopReturns
<1>4. ASSUME NEW c \in Caller, Acquired(c) \/ Released(c) \/ Fails(c) PROVE TypeOK'
  BY <1>4 DEF TypeOK, Acquired, Released, Fails, EndCall
<1>5. ASSUME NEW c \in Caller, NEW h \in Hold, StartStores(c, h) PROVE TypeOK'
  BY <1>5 DEF TypeOK, StartStores, EndCall
<1>6. CASE UNCHANGED vars
  BY <1>6 DEF TypeOK, vars
<1> QED
  BY <1>1, <1>2, <1>3, <1>4, <1>5, <1>6 DEF Next

(***************************************************************************)
(* Type correctness of the watcher, also when calls run side by side.      *)
(***************************************************************************)
THEOREM TypeCorrect == Spec => []TypeOK
<1>1. Init => TypeOK
  BY DEF Init, TypeOK
<1> QED
  BY <1>1, StepType, PTL DEF Spec

-----------------------------------------------------------------------------
\* The steps of a goroutine

(***************************************************************************)
(* A call that has stopped the watcher is alone: it has the last word.     *)
(***************************************************************************)
LEMMA LastWordHolds ==
    ASSUME IInv, NEW c \in Caller, pc[c] \in {"write", "start", "restop", "store"}
    PROVE  running = Nobody /\ \A h \in Hold : gor[h] \in {"new", "done"} /\ ~MayWrite(h)
<1> USE DEF IInv
<1>1. running = Nobody
  BY DEF Accounted
<1>2. ASSUME NEW h \in Hold PROVE ~Alive(h)
  <2> SUFFICES ASSUME Alive(h) PROVE FALSE
    OBVIOUS
  <2>1. PICK d \in Caller : Stopping(d) /\ target[d] = h
    BY <1>1, NobodyIsNoHold DEF Accounted
  <2>2. d = c
    BY <2>1 DEF OneCall, Stopping
  <2> QED
    BY <2>1, <2>2, NobodyIsNoHold DEF Accounted, Stopping
<1>3. \A h \in Hold : gor[h] \in {"new", "done"}
  BY <1>2 DEF Alive, TypeOK
<1> QED
  BY <1>1, <1>3 DEF MayWrite

(***************************************************************************)
(* Between calls only the goroutine in the running map is left.            *)
(***************************************************************************)
LEMMA IdleFacts ==
    ASSUME IInv, \A c \in Caller : pc[c] = "idle", NEW h \in Hold, h # running
    PROVE  ~Alive(h) /\ ~MayWrite(h)
  BY DEF IInv, Accounted, Alive, MayWrite, Stopping

(***************************************************************************)
(* The end of a hold's ctx, the wake-up of its goroutine and onCancel keep *)
(* the invariant: the hold lapses with the write of its expiry, while no   *)
(* call is past its Stop.                                                  *)
(***************************************************************************)
LEMMA GoroutineRunsInv ==
    ASSUME IInv, TypeOK', NEW h \in Hold, HoldCtxEnds(h) \/ Wakes(h) \/ OnCancel(h)
    PROVE  IInv'
<1> USE DEF IInv
<1>1. /\ UNCHANGED <<running, pc, target, report>>
      /\ gor[h] \in {"wait", "cancel"} /\ gor'[h] \in {"wait", "cancel", "exit"}
      /\ \A k \in Hold : k # h => gor'[k] = gor[k] /\ cause'[k] = cause[k]
      /\ lease' \in {lease, "lapsing"}
      /\ MayWrite(h) \/ ~MayWrite(h)'
  BY DEF HoldCtxEnds, Wakes, OnCancel, TypeOK, MayWrite
<1>2. OneCall'
  BY <1>1 DEF OneCall
<1>3. Accounted'
  <2>1. \A k \in Hold : Alive(k)' <=> Alive(k)
    BY <1>1 DEF Alive
  <2>2. \A k \in Hold : gor'[k] = "new" => cause'[k] = "none"
    BY <1>1 DEF Accounted
  <2> QED
    BY <1>1, <2>1, <2>2, NobodyIsNoHold DEF Accounted, Stopping, TypeOK
<1>4. \A c \in Caller : pc[c] \in {"idle", "stop"}
  BY <1>1, LastWordHolds DEF TypeOK
<1>5. LeaseKnown'
  BY <1>1, <1>4 DEF LeaseKnown
<1>6. HeldIffWatched'
  <2> SUFFICES ASSUME \A c \in Caller : pc[c] = "idle"
               PROVE  lease' = "held" <=> \E k \in Hold : MayWrite(k)'
    BY <1>1 DEF HeldIffWatched
  <2>1. h = running /\ \A k \in Hold : k # h => ~MayWrite(k)'
    BY <1>1, IdleFacts DEF Alive, MayWrite
  <2>2. lease = "held" <=> MayWrite(h)
    BY <2>1, IdleFacts DEF HeldIffWatched
  <2>3. lease' = "held" <=> MayWrite(h)'
    BY <2>2, <1>1 DEF HoldCtxEnds, Wakes, OnCancel, MayWrite, TypeOK
  <2> QED
    BY <2>1, <2>3
<1> QED
  BY <1>2, <1>3, <1>5, <1>6

(***************************************************************************)
(* The end of a goroutine keeps the invariant: the deferred                *)
(* CompareAndDelete takes its own entry out of the map and no other.       *)
(***************************************************************************)
LEMMA ExitsInv ==
    ASSUME IInv, TypeOK', NEW h \in Hold, Exits(h)
    PROVE  IInv'
<1> USE DEF IInv
<1>1. /\ UNCHANGED <<cause, pc, target, report, lease>>
      /\ running' = IF running = h THEN Nobody ELSE running
      /\ gor[h] = "exit"
      /\ \A k \in Hold : gor'[k] = IF k = h THEN "done" ELSE gor[k]
  BY DEF Exits, Removed, TypeOK
<1>2. Accounted'
  BY <1>1, NobodyIsNoHold DEF Accounted, Alive, Stopping, TypeOK
<1>3. \A k \in Hold : MayWrite(k)' <=> MayWrite(k)
  BY <1>1 DEF MayWrite
<1>4. HeldIffWatched'
  BY <1>1, <1>3 DEF HeldIffWatched
<1> QED
  BY <1>1, <1>2, <1>4 DEF OneCall, LeaseKnown

-----------------------------------------------------------------------------
\* The steps of a call

(***************************************************************************)
(* Stop on entry keeps the invariant: it takes the only goroutine out of   *)
(* the map and waits for it, and reports whether the lease may be held.    *)
(***************************************************************************)
LEMMA CallStopInv ==
    ASSUME IInv, TypeOK', Serial, NEW c \in Caller, CallStop(c)
    PROVE  IInv'
<1> USE DEF IInv
<1>1. \A d \in Caller : pc[d] = "idle"
  BY DEF CallStop
<1>2. /\ \A d \in Caller : pc'[d] = IF d = c THEN "stop" ELSE "idle"
      /\ running' = Nobody /\ UNCHANGED <<gor, lease>>
      /\ target'[c] = running
      /\ report'[c] = (running # Nobody)
  BY <1>1 DEF CallStop, TypeOK
<1>3. \A h \in Hold : cause'[h] = cause[h] \/ h = running
  BY DEF CallStop, Cancelled
<1>4. OneCall'
  BY <1>2 DEF OneCall
<1>5. Accounted'
  <2>1. \A h \in Hold : Alive(h)' => h = running
    BY <1>1, <1>2, IdleFacts DEF Alive
  <2>2. \A h \in Hold : gor'[h] = "new" => cause'[h] = "none"
    BY <1>2, <1>3, NobodyIsNoHold DEF Accounted, Alive
  <2> QED
    BY <1>2, <2>1, <2>2 DEF Accounted, Stopping
<1>6. LeaseKnown'
  <2>1. running = Nobody => lease = "lapsing"
    BY <1>1, IdleFacts, NobodyIsNoHold DEF HeldIffWatched, TypeOK
  <2> QED
    BY <1>2, <2>1 DEF LeaseKnown
<1>7. HeldIffWatched'
  BY <1>2 DEF HeldIffWatched
<1> QED
  BY <1>4, <1>5, <1>6, <1>7

(***************************************************************************)
(* A Stop that returns leaves no goroutine behind.                         *)
(***************************************************************************)
LEMMA StopReturnsInv ==
    ASSUME IInv, TypeOK', NEW c \in Caller, StopReturns(c)
    PROVE  IInv'
<1> USE DEF IInv
<1>1. /\ UNCHANGED <<running, cause, gor, report, lease>>
      /\ Stopping(c)
      /\ target[c] # Nobody => gor[target[c]] = "done"
      /\ \A d \in Caller : pc'[d] = IF d # c THEN pc[d]
                                    ELSE IF pc[c] = "stop" THEN "write" ELSE "store"
      /\ \A d \in Caller : target'[d] = IF d = c THEN Nobody ELSE target[d]
  BY DEF StopReturns, Stopping, TypeOK
<1>2. OneCall'
  BY <1>1 DEF OneCall, Stopping
<1>3. Accounted'
  <2>1. running = Nobody
    BY <1>1 DEF Accounted, Stopping
  <2>2. ASSUME NEW h \in Hold PROVE ~Alive(h)
    <3> SUFFICES ASSUME Alive(h) PROVE FALSE
      OBVIOUS
    <3>1. PICK d \in Caller : Stopping(d) /\ target[d] = h
      BY <2>1, NobodyIsNoHold DEF Accounted
    <3>2. d = c
      BY <1>1, <3>1 DEF OneCall, Stopping
    <3> QED
      BY <1>1, <3>1, <3>2, NobodyIsNoHold DEF Alive
  <2> QED
    BY <1>1, <2>1, <2>2 DEF Accounted, Alive, Stopping
<1>4. LeaseKnown'
  BY <1>1 DEF LeaseKnown, Stopping
<1>5. HeldIffWatched'
  BY <1>1 DEF HeldIffWatched
<1> QED
  BY <1>2, <1>3, <1>4, <1>5

(***************************************************************************)
(* The writes of AcquireTopic and ReleaseTopic, and the calls that fail,   *)
(* keep the invariant: an acquired lease has no watcher yet and the call   *)
(* goes on to start one, and every other end of a call leaves the lease    *)
(* lapsing.                                                                *)
(***************************************************************************)
LEMMA CallWritesInv ==
    ASSUME IInv, TypeOK', NEW c \in Caller, Acquired(c) \/ Released(c) \/ Fails(c)
    PROVE  IInv'
<1> USE DEF IInv
<1>1. pc[c] = "write" /\ \A d \in Caller : d # c => pc[d] = "idle"
  BY DEF Acquired, Released, Fails, OneCall
<1>2. /\ UNCHANGED <<running, cause, gor, target>>
      /\ pc'[c] \in {"idle", "start"} /\ \A d \in Caller : d # c => pc'[d] = pc[d]
      /\ pc'[c] = "start" => lease' = "held"
      /\ pc'[c] = "idle" => lease' = "lapsing"
  BY <1>1 DEF Acquired, Released, Fails, EndCall, LeaseKnown, TypeOK
<1>3. running = Nobody /\ \A h \in Hold : ~Alive(h) /\ ~MayWrite(h)
  BY <1>1, LastWordHolds DEF Alive
<1>4. OneCall'
  BY <1>1, <1>2 DEF OneCall
<1>5. Accounted'
  BY <1>1, <1>2, <1>3 DEF Accounted, Alive, Stopping
<1>6. LeaseKnown'
  BY <1>1, <1>2 DEF LeaseKnown
<1>7. HeldIffWatched'
  BY <1>2, <1>3 DEF HeldIffWatched, MayWrite
<1> QED
  BY <1>4, <1>5, <1>6, <1>7

(***************************************************************************)
(* The Stop inside Start finds nothing.                                    *)
(***************************************************************************)
LEMMA StartStopsFacts ==
    ASSUME IInv, NEW c \in Caller, StartStops(c)
    PROVE  UNCHANGED <<running, cause, gor, report, lease>> /\ target'[c] = Nobody
<1>1. running = Nobody
  BY LastWordHolds DEF StartStops
<1>2. Cancelled = cause
  BY <1>1, NobodyIsNoHold DEF IInv, TypeOK, Cancelled
<1> QED
  BY <1>1, <1>2 DEF StartStops, IInv, TypeOK

(***************************************************************************)
(* Start keeps the invariant: it watches a held lease that nobody watches. *)
(***************************************************************************)
LEMMA StartInv ==
    ASSUME IInv, TypeOK', NEW c \in Caller, StartStops(c) \/ \E h \in Hold : StartStores(c, h)
    PROVE  IInv'
<1> USE DEF IInv
<1>1. pc[c] \in {"start", "store"} /\ \A d \in Caller : d # c => pc[d] = "idle"
  BY DEF StartStops, StartStores, OneCall
<1>2. lease = "held"
  BY <1>1 DEF LeaseKnown
<1>3. running = Nobody /\ \A h \in Hold : ~Alive(h) /\ ~MayWrite(h)
  BY <1>1, LastWordHolds DEF Alive
<1>4. CASE StartStops(c)
  <2>1. /\ UNCHANGED <<running, cause, gor, report, lease>>
        /\ target'[c] = Nobody
        /\ \A d \in Caller : pc'[d] = IF d = c THEN "restop" ELSE pc[d]
    BY <1>4, StartStopsFacts DEF StartStops, TypeOK
  <2> QED
    BY <1>1, <1>2, <1>3, <2>1
       DEF OneCall, Accounted, Alive, Stopping, LeaseKnown, HeldIffWatched, MayWrite
<1>5. ASSUME NEW h \in Hold, StartStores(c, h) PROVE IInv'
  <2>1. /\ running' = h /\ UNCHANGED <<cause, target, lease>>
        /\ gor[h] = "new" /\ \A k \in Hold : gor'[k] = IF k = h THEN "wait" ELSE gor[k]
        /\ \A d \in Caller : pc'[d] = "idle"
    BY <1>1, <1>5 DEF StartStores, EndCall, Ran, TypeOK
  <2>2. cause[h] = "none"
    BY <2>1 DEF Accounted
  <2>3. Accounted'
    BY <1>3, <2>1 DEF Accounted, Alive
  <2>4. HeldIffWatched'
    BY <1>2, <2>1, <2>2 DEF HeldIffWatched, MayWrite
  <2> QED
    BY <2>1, <2>3, <2>4 DEF OneCall, LeaseKnown
<1> QED
  BY <1>4, <1>5

-----------------------------------------------------------------------------
\* The theorems

(***************************************************************************)
(* IInv holds at the start.                                                *)
(***************************************************************************)
LEMMA InitInv == Init => IInv
  BY DEF Init, IInv, TypeOK, OneCall, Accounted, Alive, Stopping, LeaseKnown,
         HeldIffWatched, MayWrite

(***************************************************************************)
(* IInv is kept by every step, if calls come one after the other.          *)
(***************************************************************************)
LEMMA StepInv ==
    ASSUME Serial, IInv, [Next]_vars
    PROVE  IInv'
<1>1. TypeOK'
  BY StepType DEF IInv
<1>2. CASE UNCHANGED vars
  BY <1>2 DEF vars, IInv, TypeOK, OneCall, Accounted, Alive, Stopping, LeaseKnown,
              HeldIffWatched, MayWrite
<1>3. ASSUME NEW h \in Hold, HoldCtxEnds(h) \/ Wakes(h) \/ OnCancel(h) \/ Exits(h)
      PROVE  IInv'
  BY <1>1, <1>3, GoroutineRunsInv, ExitsInv
<1>4. ASSUME NEW c \in Caller,
             \/ CallStop(c) \/ StopReturns(c) \/ Acquired(c) \/ Released(c)
             \/ Fails(c) \/ StartStops(c) \/ \E h \in Hold : StartStores(c, h)
      PROVE  IInv'
  BY <1>1, <1>4, CallStopInv, StopReturnsInv, CallWritesInv, StartInv
<1> QED
  BY <1>2, <1>3, <1>4 DEF Next

(***************************************************************************)
(* The inductive invariant holds in every behaviour with serial calls.     *)
(***************************************************************************)
THEOREM Inductive ==
    ASSUME Serial
    PROVE  Spec => []IInv
<1>1. IInv /\ [Next]_vars => IInv'
  BY StepInv
<1> QED
  BY <1>1, InitInv, PTL DEF Spec

(***************************************************************************)
(* A caller that has stopped the watcher writes its lease state after any  *)
(* onCancel, never before or during one.                                   *)
(***************************************************************************)
THEOREM CallerHasTheLastWord ==
    ASSUME Serial
    PROVE  Spec => []LastWord
<1>1. IInv => LastWord
  BY LastWordHolds DEF LastWord
<1> QED
  BY <1>1, Inductive, PTL

(***************************************************************************)
(* Between calls a lease is held exactly while a watcher can still end it. *)
(***************************************************************************)
THEOREM WatchedWhileHeld ==
    ASSUME Serial
    PROVE  Spec => []HeldIffWatched
<1>1. IInv => HeldIffWatched
  BY DEF IInv
<1> QED
  BY <1>1, Inductive, PTL

(***************************************************************************)
(* No two goroutines that may still write the lease ("exactly one watcher  *)
(* ever runs per topic at a time").                                        *)
(***************************************************************************)
THEOREM OneWatcherWhenSerial ==
    ASSUME Serial
    PROVE  Spec => []OneWatcher
<1>1. IInv => OneWatcher
  <2> SUFFICES ASSUME IInv, NEW h \in Hold, NEW k \in Hold, MayWrite(h), MayWrite(k)
               PROVE  h = k
    BY DEF OneWatcher
  <2>1. \A l \in Hold : MayWrite(l) =>
            l = running \/ \E c \in Caller : Stopping(c) /\ target[c] = l
    BY DEF IInv, Accounted, Alive, MayWrite
  <2> QED
    BY <2>1, NobodyIsNoHold DEF IInv, OneCall, Accounted, Stopping
<1> QED
  BY <1>1, Inductive, PTL

-----------------------------------------------------------------------------
\* The refinement of HoldPromise

(***************************************************************************)
(* What HoldPromise sees of a hold: whether its goroutine may still write. *)
(***************************************************************************)
LEMMA HoldStateFacts ==
    ASSUME TypeOK, NEW h \in Hold
    PROVE  /\ gor[h] = "new" <=> holdState[h] = "none"
           /\ gor[h] = "wait" /\ cause[h] = "none" <=> holdState[h] = "watched"
           /\ gor[h] = "cancel" \/ (gor[h] = "wait" /\ cause[h] = "ended")
                 <=> holdState[h] = "ending"
           /\ gor[h] \in {"exit", "done"} \/ (gor[h] = "wait" /\ cause[h] = "stopped")
                 <=> holdState[h] = "over"
           /\ MayWrite(h) <=> holdState[h] \in {"watched", "ending"}
  BY DEF TypeOK, holdState, MayWrite

(***************************************************************************)
(* Of two states of the watcher HoldPromise sees the same, if every hold   *)
(* is in the same state; and it sees one hold move, if the others stay.    *)
(***************************************************************************)
LEMMA HoldStateMoves ==
    /\ (\A h \in Hold : holdState'[h] = holdState[h]) => UNCHANGED holdState
    /\ \A h \in Hold : (\A k \in Hold : k # h => holdState'[k] = holdState[k])
                           => holdState' = [holdState EXCEPT ![h] = holdState'[h]]
  BY DEF holdState

(***************************************************************************)
(* A goroutine that wakes up or exits is not seen; the end of its ctx and  *)
(* onCancel are steps of its hold alone.                                   *)
(***************************************************************************)
LEMMA GoroutineKeepsPromise ==
    ASSUME IInv, TypeOK', NEW h \in Hold,
           HoldCtxEnds(h) \/ Wakes(h) \/ OnCancel(h) \/ Exits(h)
    PROVE  [Promise!Next]_holdState
<1> USE DEF IInv
<1>1. \A k \in Hold : k # h => gor'[k] = gor[k] /\ cause'[k] = cause[k]
  BY DEF HoldCtxEnds, Wakes, OnCancel, Exits, TypeOK
<1>2. \A k \in Hold : k # h => holdState'[k] = holdState[k]
  BY <1>1 DEF holdState
<1>3. holdState' = [holdState EXCEPT ![h] = holdState'[h]]
  BY <1>2, HoldStateMoves
<1>4. CASE HoldCtxEnds(h)
  <2>1. holdState[h] = "watched"
    BY <1>4, HoldStateFacts DEF HoldCtxEnds
  <2>2. holdState'[h] = "ending"
    BY <1>4 DEF HoldCtxEnds, TypeOK, holdState
  <2> QED
    BY <1>3, <2>1, <2>2 DEF Promise!Next, Promise!CtxEnds, Promise!Move
<1>5. CASE OnCancel(h)
  <2>1. holdState[h] = "ending"
    BY <1>5, HoldStateFacts DEF OnCancel
  <2>2. holdState'[h] = "over"
    BY <1>5 DEF OnCancel, TypeOK, holdState
  <2> QED
    BY <1>3, <2>1, <2>2 DEF Promise!Next, Promise!Write, Promise!Move
<1>6. CASE Wakes(h) \/ Exits(h)
  <2>1. holdState'[h] = holdState[h]
    BY <1>6 DEF Wakes, Exits, TypeOK, holdState
  <2> QED
    BY <1>2, <2>1, HoldStateMoves
<1> QED
  BY <1>4, <1>5, <1>6

(***************************************************************************)
(* Stop suppresses the hold in the map if its ctx has not ended.           *)
(***************************************************************************)
LEMMA StopKeepsPromise ==
    ASSUME IInv, TypeOK', NEW c \in Caller, CallStop(c) \/ StartStops(c)
    PROVE  [Promise!Next]_holdState
<1> USE DEF IInv
<1>1. /\ UNCHANGED gor
      /\ \A k \in Hold : cause'[k] = IF k = running /\ cause[k] = "none"
                                     THEN "stopped" ELSE cause[k]
  BY DEF CallStop, StartStops, Cancelled
<1>2. CASE \E h \in Hold : h = running /\ gor[h] = "wait" /\ cause[h] = "none"
  <2>1. PICK h \in Hold : h = running /\ gor[h] = "wait" /\ cause[h] = "none"
    BY <1>2
  <2>2. \A k \in Hold : k # h => holdState'[k] = holdState[k]
    BY <1>1, <2>1 DEF holdState
  <2>3. holdState[h] = "watched" /\ holdState'[h] = "over"
    BY <1>1, <2>1 DEF holdState
  <2> QED
    BY <2>2, <2>3, HoldStateMoves DEF Promise!Next, Promise!Suppress, Promise!Move
<1>3. CASE \A h \in Hold : ~(h = running /\ gor[h] = "wait" /\ cause[h] = "none")
  <2>1. \A k \in Hold : holdState'[k] = holdState[k]
    BY <1>1, <1>3 DEF holdState, Accounted, Alive
  <2> QED
    BY <2>1, HoldStateMoves
<1> QED
  BY <1>2, <1>3

(***************************************************************************)
(* Start begins a hold when no other may still write.                      *)
(***************************************************************************)
LEMMA StartKeepsPromise ==
    ASSUME IInv, TypeOK', NEW c \in Caller, NEW h \in Hold, StartStores(c, h)
    PROVE  [Promise!Next]_holdState
<1> USE DEF IInv
<1>1. \A k \in Hold : ~MayWrite(k)
  BY LastWordHolds DEF StartStores
<1>2. \A k \in Hold : holdState[k] \notin {"watched", "ending"}
  BY <1>1, HoldStateFacts
<1>3. /\ UNCHANGED cause
      /\ gor[h] = "new" /\ cause[h] = "none"
      /\ \A k \in Hold : gor'[k] = IF k = h THEN "wait" ELSE gor[k]
  BY DEF StartStores, Ran, Accounted, TypeOK
<1>4. holdState[h] = "none" /\ holdState'[h] = "watched"
  BY <1>3 DEF holdState
<1>5. \A k \in Hold : k # h => holdState'[k] = holdState[k]
  BY <1>3 DEF holdState
<1> QED
  BY <1>2, <1>4, <1>5, HoldStateMoves
     DEF Promise!Next, Promise!Begin, Promise!Active, Promise!Move

(***************************************************************************)
(* The holds of a topic follow one another: each begins when no other may  *)
(* still write, and ends once, by its grace-period expiry or by being      *)
(* suppressed.                                                             *)
(***************************************************************************)
THEOREM PromiseKept ==
    ASSUME Serial
    PROVE  Spec => HoldsFollowEachOther
<1>1. Init => Promise!Init
  BY DEF Init, Promise!Init, holdState
<1>2. IInv /\ [Next]_vars => [Promise!Next]_holdState
  <2> SUFFICES ASSUME IInv, [Next]_vars PROVE [Promise!Next]_holdState
    OBVIOUS
  <2>1. TypeOK'
    BY StepType DEF IInv
  <2>2. CASE UNCHANGED <<gor, cause>>
    BY <2>2 DEF holdState
  <2>3. ASSUME NEW h \in Hold, HoldCtxEnds(h) \/ Wakes(h) \/ OnCancel(h) \/ Exits(h)
        PROVE  [Promise!Next]_holdState
    BY <2>1, <2>3, GoroutineKeepsPromise
  <2>4. ASSUME NEW c \in Caller, CallStop(c) \/ StartStops(c)
        PROVE  [Promise!Next]_holdState
    BY <2>1, <2>4, StopKeepsPromise
  <2>5. ASSUME NEW c \in Caller, StopReturns(c) \/ Acquired(c) \/ Released(c) \/ Fails(c)
        PROVE  [Promise!Next]_holdState
    BY <2>2, <2>5 DEF StopReturns, Acquired, Released, Fails
  <2>6. ASSUME NEW c \in Caller, NEW h \in Hold, StartStores(c, h)
        PROVE  [Promise!Next]_holdState
    BY <2>1, <2>6, StartKeepsPromise
  <2> QED
    BY <2>2, <2>3, <2>4, <2>5, <2>6 DEF Next, vars
<1> QED
  BY <1>1, <1>2, Inductive, PTL DEF Spec, HoldsFollowEachOther, Promise!Spec
=============================================================================
