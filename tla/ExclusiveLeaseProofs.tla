------------------------ MODULE ExclusiveLeaseProofs ------------------------
(***************************************************************************)
(* Theorems about ExclusiveLease, for any sets of instances, workers and   *)
(* producers and any lease duration.                                       *)
(***************************************************************************)
EXTENDS ExclusiveLease, TLAPS

(***************************************************************************)
(* Counting a timestamp down keeps it a timestamp, and NULL stays NULL.    *)
(***************************************************************************)
LEMMA OlderFacts ==
    /\ \A t \in Lifetime : Older(t) \in Lifetime
    /\ \A t \in Expiry : Older(t) \in Expiry
    /\ \A t \in Expiry : Older(t) = None <=> t = None
  BY LeaseDurType DEF Older, Lifetime, Expiry, None

(***************************************************************************)
(* The timestamps the code computes.                                       *)
(***************************************************************************)
LEMMA TimestampFacts ==
    /\ LeaseDur \in Lifetime
    /\ 0 \in Lifetime
    /\ Lifetime \subseteq Expiry
    /\ None \in Expiry
    /\ None \notin Lifetime
  BY LeaseDurType DEF Lifetime, Expiry, None

(***************************************************************************)
(* A renewal of the row by its holder writes a timestamp or nothing.       *)
(***************************************************************************)
LEMMA RenewRowType ==
    ASSUME NEW i \in Instance, NEW t \in Expiry, TypeOK, RenewRow(i, t)
    PROVE  seen' \in BOOLEAN /\ holder' \in Holder /\ override' \in Expiry
  BY DEF TypeOK, RenewRow

(***************************************************************************)
(* However a call ends, its local variables keep their types.              *)
(***************************************************************************)
LEMMA EndCallType ==
    ASSUME NEW i \in Instance, TypeOK, EndCall(i) \/ FailCall(i)
    PROVE  /\ mgr' \in [Instance -> MgrState]
           /\ stopped' \in [Instance -> BOOLEAN]
           /\ expiry' \in [Instance -> Lifetime]
  BY TimestampFacts DEF TypeOK, EndCall, FailCall, MgrState

-----------------------------------------------------------------------------
(***************************************************************************)
(* Every step of an instance keeps the types.                              *)
(***************************************************************************)
LEMMA InstanceStepType ==
    ASSUME NEW i \in Instance, TypeOK, InstanceStep(i)
    PROVE  TypeOK'
<1> USE DEF rowVars, mgrVars, watchVars, procVars
<1>1. CASE NewOutbox(i)
  BY <1>1, TimestampFacts DEF TypeOK, NewOutbox
<1>2. CASE Heartbeat(i) \/ HeartbeatDelayed(i) \/ HeartbeatFails(i)
  BY <1>2, TimestampFacts DEF TypeOK, Heartbeat, HeartbeatDelayed, HeartbeatFails
<1>3. CASE SweepSession(i)
  BY <1>3, TimestampFacts DEF TypeOK, SweepSession
<1>4. CASE Crash(i)
  <2>1. /\ up' \in [Instance -> {"new", "up", "down"}]
        /\ mgr' \in [Instance -> MgrState]
        /\ stopped' \in [Instance -> BOOLEAN]
        /\ expiry' \in [Instance -> Lifetime]
        /\ watching' \in [Instance -> BOOLEAN]
        /\ firing' \in [Instance -> Expiry]
        /\ beat' \in [Instance -> Expiry]
    BY <1>4, TimestampFacts DEF TypeOK, Crash, MgrState
  <2>2. /\ proc' \in [Worker -> ProcState]
        /\ snapHolder' \in [Worker -> Holder]
        /\ snapSession' \in [Worker -> Expiry]
    BY <1>4, TimestampFacts DEF TypeOK, Crash, ProcState, Holder
  <2>3. rowLock' \in Instance \cup Worker \cup Producer \cup {Free}
    BY <1>4 DEF TypeOK, Crash
  <2> QED
    BY <1>4, <2>1, <2>2, <2>3 DEF TypeOK, Crash
<1>5. CASE AcquireTopic(i) \/ ReleaseTopic(i)
  BY <1>5 DEF TypeOK, AcquireTopic, ReleaseTopic, StopWatcher, MgrState
<1>6. CASE StopReturns(i)
  BY <1>6 DEF TypeOK, StopReturns, MgrState
<1>7. CASE HoldCtxEnds(i)
  BY <1>7, TimestampFacts DEF TypeOK, HoldCtxEnds
<1>8. CASE WatcherWrites(i)
  <2>1. seen' \in BOOLEAN /\ holder' \in Holder /\ override' \in Expiry
    <3>1. firing[i] \in Expiry
      BY DEF TypeOK
    <3> QED
      BY <1>8, <3>1, RenewRowType DEF TypeOK, WatcherWrites, RenewTimesOut
  <2> QED
    BY <1>8, <2>1, TimestampFacts DEF TypeOK, WatcherWrites
<1>9. CASE TryAcquire(i)
  BY <1>9, TimestampFacts DEF TypeOK, TryAcquire, MgrState
<1>10. CASE Acquired(i) \/ CommitAckLost(i)
  <2>1. /\ mgr' \in [Instance -> MgrState]
        /\ stopped' \in [Instance -> BOOLEAN]
        /\ expiry' \in [Instance -> Lifetime]
    BY <1>10, EndCallType DEF Acquired, CommitAckLost
  <2>2. /\ seen' \in BOOLEAN /\ holder' \in Holder /\ override' \in Expiry
        /\ session' \in [Instance -> Expiry]
        /\ rowLock' \in Instance \cup Worker \cup Producer \cup {Free}
    BY <1>10, TimestampFacts DEF TypeOK, Acquired, CommitAckLost, TakeLease, Holder
  <2> QED
    BY <1>10, <2>1, <2>2 DEF TypeOK, Acquired, CommitAckLost
<1>11. CASE AcquireFails(i)
  <2>1. /\ mgr' \in [Instance -> MgrState]
        /\ stopped' \in [Instance -> BOOLEAN]
        /\ expiry' \in [Instance -> Lifetime]
    BY <1>11, EndCallType DEF AcquireFails
  <2> QED
    BY <1>11, <2>1 DEF TypeOK, AcquireFails, Unlocked
<1>12. CASE Retry(i)
  BY <1>12 DEF TypeOK, Retry, MgrState
<1>13. CASE Released(i) \/ ReleaseFails(i) \/ GraceWritten(i)
  <2>1. /\ mgr' \in [Instance -> MgrState]
        /\ stopped' \in [Instance -> BOOLEAN]
        /\ expiry' \in [Instance -> Lifetime]
    BY <1>13, EndCallType DEF Released, ReleaseFails, GraceWritten
  <2>2. seen' \in BOOLEAN /\ holder' \in Holder /\ override' \in Expiry
    <3>1. expiry[i] \in Expiry /\ 0 \in Expiry
      BY TimestampFacts DEF TypeOK
    <3> QED
      BY <1>13, <3>1, RenewRowType
         DEF TypeOK, Released, ReleaseFails, GraceWritten, RenewTimesOut
  <2> QED
    BY <1>13, <2>1, <2>2 DEF TypeOK, Released, ReleaseFails, GraceWritten
<1> QED
  BY <1>1, <1>2, <1>3, <1>4, <1>5, <1>6, <1>7, <1>8, <1>9, <1>10, <1>11, <1>12,
     <1>13 DEF InstanceStep

(***************************************************************************)
(* Every step of a worker or a producer, and of time, keeps the types.     *)
(***************************************************************************)
LEMMA OtherStepType ==
    ASSUME TypeOK,
           \/ Tick
           \/ \E w \in Worker : WorkerStep(w)
           \/ \E p \in Producer : ProducerStep(p)
    PROVE  TypeOK'
<1> USE DEF rowVars, mgrVars, watchVars, procVars
<1>1. CASE Tick
  BY <1>1, OlderFacts DEF TypeOK, Tick
<1>2. ASSUME NEW w \in Worker, WorkerStep(w) PROVE TypeOK'
  <2>1. CASE ProcessBegins(w)
    <3>1. SessionOf(holder) \in Expiry
      BY TimestampFacts DEF TypeOK, SessionOf
    <3> QED
      BY <2>1, <3>1 DEF TypeOK, ProcessBegins, ProcState
  <2>2. CASE CheckExclusiveAccess(w)
    BY <2>2, TimestampFacts DEF TypeOK, CheckExclusiveAccess, ProcState, Holder
  <2>3. CASE FlushBegins(w)
    BY <2>3 DEF TypeOK, FlushBegins, ProcState
  <2>4. CASE ProcessEnds(w)
    BY <2>4 DEF TypeOK, ProcessEnds, ProcState, Unlocked
  <2>5. CASE ProcessCancelled(w)
    BY <2>5, TimestampFacts DEF TypeOK, ProcessCancelled, ProcState, Holder
  <2> QED
    BY <1>2, <2>1, <2>2, <2>3, <2>4, <2>5 DEF WorkerStep
<1>3. ASSUME NEW p \in Producer, ProducerStep(p) PROVE TypeOK'
  BY <1>3 DEF TypeOK, ProducerStep, AddMessages, ProducerCommits, ProducerRollsBack,
              Unlocked
<1> QED
  BY <1>1, <1>2, <1>3

(***************************************************************************)
(* The types hold at the start.                                            *)
(***************************************************************************)
LEMMA InitType == Init => TypeOK
  BY TimestampFacts, FlagsType
     DEF Init, TypeOK, Holder, MgrState, ProcState

(***************************************************************************)
(* Every step keeps the types.                                             *)
(***************************************************************************)
LEMMA StepType == TypeOK /\ [Next]_vars => TypeOK'
<1> SUFFICES ASSUME TypeOK, [Next]_vars PROVE TypeOK'
  OBVIOUS
<1>1. CASE UNCHANGED vars
  BY <1>1 DEF TypeOK, vars
<1>2. CASE Next
  BY <1>2, InstanceStepType, OtherStepType DEF Next
<1> QED
  BY <1>1, <1>2

(***************************************************************************)
(* The type invariant: every variable of the model keeps its type, so no   *)
(* step of the code's handlers writes a value outside its domain.          *)
(***************************************************************************)
THEOREM TypeCorrect == Spec => []TypeOK
  BY InitType, StepType, PTL DEF Spec

-----------------------------------------------------------------------------
(***************************************************************************)
(* Steps of an instance keep the discipline of the row lock: a transaction *)
(* that moves the lease has the lock, so nobody is flushing.               *)
(***************************************************************************)
LEMMA InstanceStepLock ==
    ASSUME NEW i \in Instance, TypeOK, LockInv, InstanceStep(i)
    PROVE  LockInv'
<1> USE DEF rowVars, mgrVars, watchVars, procVars
<1>1. CASE NewOutbox(i) \/ SweepSession(i) \/ HoldCtxEnds(i)
           \/ Heartbeat(i) \/ HeartbeatDelayed(i) \/ HeartbeatFails(i)
  BY <1>1 DEF LockInv, NewOutbox, SweepSession, HoldCtxEnds, Heartbeat, HeartbeatDelayed,
     HeartbeatFails
<1>2. CASE Crash(i)
  BY <1>2, OwnersDistinct, HomeType DEF TypeOK, LockInv, Crash
<1>3. CASE AcquireTopic(i) \/ ReleaseTopic(i) \/ StopReturns(i) \/ Retry(i)
  BY <1>3 DEF TypeOK, LockInv, AcquireTopic, ReleaseTopic, StopWatcher, StopReturns, Retry
<1>4. CASE WatcherWrites(i)
  BY <1>4 DEF LockInv, WatcherWrites, RenewRow, RenewTimesOut
<1>5. CASE TryAcquire(i)
  BY <1>5, OwnersDistinct DEF TypeOK, LockInv, TryAcquire
<1>6. CASE Acquired(i) \/ CommitAckLost(i)
  <2>1. rowLock = i /\ mgr'[i] # "commit" /\ \A j \in Instance \ {i} : mgr'[j] = mgr[j]
    BY <1>6 DEF TypeOK, LockInv, Acquired, CommitAckLost, EndCall, FailCall
  <2>2. \A w \in Worker : proc[w] \notin {"checked", "flushing"}
    BY <2>1, OwnersDistinct DEF LockInv
  <2> QED
    BY <1>6, <2>1, <2>2 DEF LockInv, Acquired, CommitAckLost, TakeLease
<1>7. CASE AcquireFails(i)
  <2>1. mgr'[i] # "commit" /\ \A j \in Instance \ {i} : mgr'[j] = mgr[j]
    BY <1>7 DEF TypeOK, AcquireFails, EndCall, FailCall
  <2> QED
    BY <1>7, <2>1, OwnersDistinct DEF LockInv, AcquireFails, Unlocked
<1>8. CASE Released(i) \/ ReleaseFails(i) \/ GraceWritten(i)
  <2>1. mgr'[i] # "commit" /\ \A j \in Instance \ {i} : mgr'[j] = mgr[j]
    BY <1>8 DEF TypeOK, Released, ReleaseFails, GraceWritten, EndCall, FailCall
  <2> QED
    BY <1>8, <2>1
       DEF LockInv, Released, ReleaseFails, GraceWritten, RenewRow, RenewTimesOut
<1> QED
  BY <1>1, <1>2, <1>3, <1>4, <1>5, <1>6, <1>7, <1>8 DEF InstanceStep

(***************************************************************************)
(* So do the other steps: a check passes only with the lock free, and a    *)
(* call gives the lock up only when it ends.                               *)
(***************************************************************************)
LEMMA OtherStepLock ==
    ASSUME TypeOK, LockInv,
           \/ Tick
           \/ \E w \in Worker : WorkerStep(w)
           \/ \E p \in Producer : ProducerStep(p)
    PROVE  LockInv'
<1> USE DEF rowVars, mgrVars, watchVars, procVars
<1>1. CASE Tick
  BY <1>1 DEF LockInv, Tick
<1>2. ASSUME NEW w \in Worker, WorkerStep(w) PROVE LockInv'
  <2>1. CASE ProcessBegins(w) \/ ProcessCancelled(w)
    BY <2>1 DEF TypeOK, LockInv, ProcessBegins, ProcessCancelled
  <2>2. CASE CheckExclusiveAccess(w)
    BY <2>2, OwnersDistinct DEF TypeOK, LockInv, CheckExclusiveAccess, CheckPasses
  <2>3. CASE FlushBegins(w)
    BY <2>3 DEF TypeOK, LockInv, FlushBegins
  <2>4. CASE ProcessEnds(w)
    BY <2>4, OwnersDistinct DEF TypeOK, LockInv, ProcessEnds, Unlocked
  <2> QED
    BY <1>2, <2>1, <2>2, <2>3, <2>4 DEF WorkerStep
<1>3. ASSUME NEW p \in Producer, ProducerStep(p) PROVE LockInv'
  BY <1>3, OwnersDistinct
     DEF LockInv, ProducerStep, AddMessages, ProducerCommits, ProducerRollsBack, Unlocked
<1> QED
  BY <1>1, <1>2, <1>3

(***************************************************************************)
(* On a topic that has its row from the start, a flush runs only under the *)
(* lease of its own instance, or while the topic has no exclusive          *)
(* consumer: checkExclusiveAccessForUpdate closes the gap between the      *)
(* check and the commit.                                                   *)
(***************************************************************************)
THEOREM FlushUnderLease ==
    ASSUME TopicSeen
    PROVE  Spec => []ExclusiveFlush
<1>1. Init => LockInv
  BY TopicSeen DEF Init, LockInv
<1>2. TypeOK /\ LockInv /\ [Next]_vars => LockInv'
  <2> SUFFICES ASSUME TypeOK, LockInv, [Next]_vars PROVE LockInv'
    OBVIOUS
  <2>1. CASE UNCHANGED vars
    BY <2>1 DEF LockInv, vars
  <2>2. CASE Next
    BY <2>2, InstanceStepLock, OtherStepLock DEF Next
  <2> QED
    BY <2>1, <2>2
<1>3. LockInv => ExclusiveFlush
  BY DEF LockInv, ExclusiveFlush
<1> QED
  BY <1>1, <1>2, <1>3, TypeCorrect, PTL DEF Spec

(***************************************************************************)
(* Steps of an instance take the row lock when it is free and move the     *)
(* lease only with it, whether or not the topic has its row.               *)
(***************************************************************************)
LEMMA InstanceStepOwner ==
    ASSUME NEW i \in Instance, TypeOK, OwnerInv, InstanceStep(i)
    PROVE  OwnerInv'
<1> USE DEF rowVars, mgrVars, watchVars, procVars
<1>1. CASE NewOutbox(i) \/ SweepSession(i) \/ HoldCtxEnds(i)
           \/ Heartbeat(i) \/ HeartbeatDelayed(i) \/ HeartbeatFails(i)
  BY <1>1 DEF OwnerInv, NewOutbox, SweepSession, HoldCtxEnds, Heartbeat, HeartbeatDelayed,
     HeartbeatFails
<1>2. CASE Crash(i)
  <2>1. /\ UNCHANGED holder
        /\ mgr'[i] = "idle" /\ \A j \in Instance \ {i} : mgr'[j] = mgr[j]
        /\ \A w \in Worker : Home[w] # i => proc'[w] = proc[w]
        /\ IF rowLock = i \/ (rowLock \in Worker /\ Home[rowLock] = i)
             THEN rowLock' = Free ELSE rowLock' = rowLock
    BY <1>2 DEF TypeOK, Crash
  <2> QED
    BY <2>1, OwnersDistinct DEF OwnerInv
<1>3. CASE AcquireTopic(i) \/ ReleaseTopic(i) \/ StopReturns(i) \/ Retry(i)
  BY <1>3 DEF TypeOK, OwnerInv, AcquireTopic, ReleaseTopic, StopWatcher, StopReturns, Retry
<1>4. CASE WatcherWrites(i)
  BY <1>4 DEF OwnerInv, WatcherWrites, RenewRow, RenewTimesOut
<1>5. CASE TryAcquire(i)
  BY <1>5, OwnersDistinct DEF TypeOK, OwnerInv, TryAcquire
<1>6. CASE Acquired(i) \/ CommitAckLost(i)
  <2>1. rowLock = i /\ mgr'[i] # "commit" /\ \A j \in Instance \ {i} : mgr'[j] = mgr[j]
    BY <1>6 DEF TypeOK, OwnerInv, Acquired, CommitAckLost, EndCall, FailCall
  <2>2. rowLock' = Free
    BY <1>6 DEF Acquired, CommitAckLost, TakeLease
  <2> QED
    BY <2>1, <2>2, OwnersDistinct DEF OwnerInv
<1>7. CASE AcquireFails(i)
  <2>1. mgr'[i] # "commit" /\ \A j \in Instance \ {i} : mgr'[j] = mgr[j]
    BY <1>7 DEF TypeOK, AcquireFails, EndCall, FailCall
  <2> QED
    BY <1>7, <2>1, OwnersDistinct DEF OwnerInv, AcquireFails, Unlocked
<1>8. CASE Released(i) \/ ReleaseFails(i) \/ GraceWritten(i)
  <2>1. mgr'[i] # "commit" /\ \A j \in Instance \ {i} : mgr'[j] = mgr[j]
    BY <1>8 DEF TypeOK, Released, ReleaseFails, GraceWritten, EndCall, FailCall
  <2> QED
    BY <1>8, <2>1
       DEF OwnerInv, Released, ReleaseFails, GraceWritten, RenewRow, RenewTimesOut
<1> QED
  BY <1>1, <1>2, <1>3, <1>4, <1>5, <1>6, <1>7, <1>8 DEF InstanceStep

(***************************************************************************)
(* Nobody else moves the lease, and a call is given the lock only by a     *)
(* check that has passed.                                                  *)
(***************************************************************************)
LEMMA OtherStepOwner ==
    ASSUME TypeOK, OwnerInv,
           \/ Tick
           \/ \E w \in Worker : WorkerStep(w)
           \/ \E p \in Producer : ProducerStep(p)
    PROVE  OwnerInv'
<1> USE DEF rowVars, mgrVars, watchVars, procVars
<1>1. CASE Tick
  BY <1>1 DEF OwnerInv, Tick
<1>2. ASSUME NEW w \in Worker, WorkerStep(w) PROVE OwnerInv'
  <2>1. CASE ProcessBegins(w) \/ ProcessCancelled(w)
    BY <2>1 DEF TypeOK, OwnerInv, ProcessBegins, ProcessCancelled
  <2>2. CASE CheckExclusiveAccess(w)
    BY <2>2, OwnersDistinct DEF TypeOK, OwnerInv, CheckExclusiveAccess, CheckPasses
  <2>3. CASE FlushBegins(w)
    BY <2>3 DEF TypeOK, OwnerInv, FlushBegins
  <2>4. CASE ProcessEnds(w)
    BY <2>4, OwnersDistinct DEF TypeOK, OwnerInv, ProcessEnds, Unlocked
  <2> QED
    BY <1>2, <2>1, <2>2, <2>3, <2>4 DEF WorkerStep
<1>3. ASSUME NEW p \in Producer, ProducerStep(p) PROVE OwnerInv'
  BY <1>3, OwnersDistinct
     DEF OwnerInv, ProducerStep, AddMessages, ProducerCommits, ProducerRollsBack, Unlocked
<1> QED
  BY <1>1, <1>2, <1>3

(***************************************************************************)
(* On a topic that may not have its row yet, what remains of exclusivity:  *)
(* a flush of a call that owns the row lock runs only under the lease of   *)
(* its own instance.  Only a call whose check found no row flushes without *)
(* the lock, which is why checkExclusiveAccessForUpdate says nothing for   *)
(* an unregistered topic.                                                  *)
(***************************************************************************)
THEOREM LockedFlush ==
    Spec => [](\A w \in Worker : proc[w] = "flushing" /\ rowLock = w =>
                   holder \in {NoInstance, Home[w]})
<1>1. Init => OwnerInv
  BY OwnersDistinct DEF Init, OwnerInv
<1>2. TypeOK /\ OwnerInv /\ [Next]_vars => OwnerInv'
  <2> SUFFICES ASSUME TypeOK, OwnerInv, [Next]_vars PROVE OwnerInv'
    OBVIOUS
  <2>1. CASE UNCHANGED vars
    BY <2>1 DEF OwnerInv, vars
  <2>2. CASE Next
    BY <2>2, InstanceStepOwner, OtherStepOwner DEF Next
  <2> QED
    BY <2>1, <2>2
<1>3. OwnerInv => \A w \in Worker : proc[w] = "flushing" /\ rowLock = w =>
                      holder \in {NoInstance, Home[w]}
  BY DEF OwnerInv
<1> QED
  BY <1>1, <1>2, <1>3, TypeCorrect, PTL DEF Spec

-----------------------------------------------------------------------------
(***************************************************************************)
(* Every step of an instance leaves it one source of lease writes.         *)
(***************************************************************************)
LEMMA InstanceStepWriter ==
    ASSUME NEW i \in Instance, TypeOK, WatcherInv, InstanceStep(i)
    PROVE  WatcherInv'
<1> USE DEF rowVars, mgrVars, watchVars, procVars, WatcherInv, OneWriter, HoldDeferred
<1>1. CASE NewOutbox(i) \/ SweepSession(i)
           \/ Heartbeat(i) \/ HeartbeatDelayed(i) \/ HeartbeatFails(i)
  BY <1>1 DEF NewOutbox, SweepSession, Heartbeat, HeartbeatDelayed, HeartbeatFails
<1>2. CASE Crash(i)
  BY <1>2 DEF TypeOK, Crash
<1>3. CASE AcquireTopic(i) \/ ReleaseTopic(i)
  BY <1>3 DEF TypeOK, AcquireTopic, ReleaseTopic, StopWatcher
<1>4. CASE StopReturns(i) \/ TryAcquire(i) \/ Retry(i)
  BY <1>4 DEF TypeOK, StopReturns, TryAcquire, Retry
<1>5. CASE HoldCtxEnds(i)
  BY <1>5 DEF TypeOK, HoldCtxEnds
<1>6. CASE WatcherWrites(i)
  \* The row is written only as its holder, which has no waiting watcher now.
  <2>1. ~watching[i]
    BY <1>6 DEF WatcherWrites
  <2> QED
    BY <1>6, <2>1 DEF TypeOK, WatcherWrites, RenewRow, RenewTimesOut
<1>7. CASE Acquired(i)
  BY <1>7 DEF TypeOK, Acquired, TakeLease, EndCall
<1>8. CASE CommitAckLost(i)
  BY <1>8 DEF TypeOK, CommitAckLost, TakeLease, EndCall, FailCall
<1>9. CASE AcquireFails(i)
  BY <1>9 DEF TypeOK, AcquireFails, EndCall, FailCall
<1>10. CASE Released(i) \/ ReleaseFails(i) \/ GraceWritten(i)
  <2>1. ~watching[i] /\ firing[i] = None
    BY <1>10 DEF Released, ReleaseFails, GraceWritten
  <2>2. /\ \A j \in Instance : watching'[j] => mgr'[j] = "idle" /\ firing'[j] = None
        /\ \A j \in Instance :
             firing'[j] # None => mgr'[j] \in {"idle", "acquire", "release"}
    BY <1>10, <2>1 DEF TypeOK, Released, ReleaseFails, GraceWritten, EndCall, FailCall
  <2>3. holder' = holder /\ (holder # i => override' = override)
    BY <1>10 DEF Released, ReleaseFails, GraceWritten, RenewRow, RenewTimesOut
  <2> QED
    BY <1>10, <2>1, <2>2, <2>3 DEF Released, ReleaseFails, GraceWritten
<1> QED
  BY <1>1, <1>2, <1>3, <1>4, <1>5, <1>6, <1>7, <1>8, <1>9, <1>10 DEF InstanceStep

(***************************************************************************)
(* There is no watcher at the start.                                       *)
(***************************************************************************)
LEMMA InitWatcher == Init => WatcherInv
  BY DEF Init, WatcherInv, OneWriter, HoldDeferred, None

(***************************************************************************)
(* Every step leaves an instance one source of lease writes.               *)
(***************************************************************************)
LEMMA StepWatcher == TypeOK /\ WatcherInv /\ [Next]_vars => WatcherInv'
<1> SUFFICES ASSUME TypeOK, WatcherInv, [Next]_vars PROVE WatcherInv'
  OBVIOUS
<1> USE DEF WatcherInv, OneWriter, HoldDeferred
<1>1. CASE UNCHANGED vars
  BY <1>1 DEF vars
<1>2. CASE Tick
  BY <1>2, OlderFacts DEF TypeOK, Tick
<1>3. ASSUME NEW i \in Instance, InstanceStep(i) PROVE WatcherInv'
  BY <1>3, InstanceStepWriter
<1>4. ASSUME NEW w \in Worker, WorkerStep(w) PROVE WatcherInv'
  BY <1>4 DEF WorkerStep, ProcessBegins, CheckExclusiveAccess, FlushBegins, ProcessEnds,
              ProcessCancelled, rowVars, mgrVars, watchVars
<1>5. ASSUME NEW p \in Producer, ProducerStep(p) PROVE WatcherInv'
  BY <1>5 DEF ProducerStep, AddMessages, ProducerCommits, ProducerRollsBack, rowVars,
              mgrVars, watchVars
<1> QED
  BY <1>1, <1>2, <1>3, <1>4, <1>5 DEF Next

(***************************************************************************)
(* A fresh hold is never poisoned: AcquireTopic has the last word over the *)
(* watcher and the grace-period write of every earlier hold of the         *)
(* instance, whatever replies are lost and whatever writes are abandoned.  *)
(***************************************************************************)
THEOREM AcquireHasTheLastWord == Spec => []HoldDeferred
<1>1. WatcherInv => HoldDeferred
  BY DEF WatcherInv
<1> QED
  BY <1>1, InitWatcher, StepWatcher, TypeCorrect, PTL DEF Spec

-----------------------------------------------------------------------------
(***************************************************************************)
(* When no reply is lost and no write is abandoned, every step of an       *)
(* instance passes the duty to end a hold on.                              *)
(***************************************************************************)
LEMMA InstanceStepDuty ==
    ASSUME ~AckLoss, ~WriteTimeouts,
           NEW i \in Instance, TypeOK, DutyInv, InstanceStep(i)
    PROVE  DutyInv'
<1> USE DEF rowVars, mgrVars, watchVars, procVars, DutyInv, OneWriter, NoStrandedLease,
            EndsTheHold
<1>1. CASE NewOutbox(i) \/ SweepSession(i)
           \/ Heartbeat(i) \/ HeartbeatDelayed(i) \/ HeartbeatFails(i)
  BY <1>1 DEF TypeOK, NewOutbox, SweepSession, Heartbeat, HeartbeatDelayed, HeartbeatFails
<1>2. CASE Crash(i)
  BY <1>2 DEF TypeOK, Crash
<1>3. CASE AcquireTopic(i) \/ ReleaseTopic(i)
  \* Only i moves, from "idle"; stopped[i] records whether it had a watcher.
  <2> USE DEF TypeOK, AcquireTopic, ReleaseTopic, StopWatcher
  <2>1. UNCHANGED <<rowVars, up, firing>> /\ mgr[i] = "idle" /\ up[i] = "up"
    BY <1>3
  <2>2. \A j \in Instance \ {i} :
           mgr'[j] = mgr[j] /\ stopped'[j] = stopped[j] /\ watching'[j] = watching[j]
    BY <1>3
  <2>3. ~watching'[i] /\ mgr'[i] # "idle" /\ (stopped'[i] <=> watching[i] \/ firing[i] # None)
    BY <1>3
  <2>4. (firing[i] # None => mgr'[i] \in {"acquire", "release"})
        /\ (mgr'[i] \in {"acquire", "release"} => firing[i] # None)
    BY <1>3
  <2> HIDE DEF TypeOK, AcquireTopic, ReleaseTopic, StopWatcher
  <2>5. \A j \in Instance \ {i} :
           (EndsTheHold(j) <=> EndsTheHold(j)') /\ (OneWriter(j) <=> OneWriter(j)')
    BY <2>1, <2>2
  <2>6. EndsTheHold(i) => EndsTheHold(i)'
    BY <2>1, <2>3
  <2> QED
    BY <2>1, <2>2, <2>3, <2>4, <2>5, <2>6
<1>4. CASE StopReturns(i) \/ TryAcquire(i) \/ Retry(i)
  BY <1>4 DEF TypeOK, StopReturns, TryAcquire, Retry
<1>5. CASE HoldCtxEnds(i)
  BY <1>5, TimestampFacts DEF TypeOK, HoldCtxEnds
<1>6. CASE WatcherWrites(i)
  <2>1. RenewRow(i, firing[i]) /\ firing[i] # None
    BY <1>6 DEF WatcherWrites, RenewTimesOut
  <2> QED
    BY <1>6, <2>1 DEF TypeOK, WatcherWrites, RenewRow
<1>7. CASE Acquired(i)
  BY <1>7 DEF TypeOK, Acquired, TakeLease, EndCall
<1>8. CASE CommitAckLost(i)
  BY <1>8 DEF CommitAckLost
<1>9. CASE AcquireFails(i)
  BY <1>9 DEF TypeOK, AcquireFails, EndCall, FailCall
<1>10. CASE Released(i) \/ GraceWritten(i)
  <2>1. PICK t \in Lifetime : RenewRow(i, t)
    BY <1>10, TimestampFacts DEF TypeOK, Released, GraceWritten, RenewTimesOut
  <2>2. t # None
    BY TimestampFacts
  <2> QED
    BY <1>10, <2>1, <2>2 DEF TypeOK, Released, GraceWritten, EndCall, RenewRow
<1>11. CASE ReleaseFails(i)
  BY <1>11 DEF TypeOK, ReleaseFails, EndCall, FailCall
<1> QED
  BY <1>1, <1>2, <1>3, <1>4, <1>5, <1>6, <1>7, <1>8, <1>9, <1>10, <1>11 DEF InstanceStep

(***************************************************************************)
(* Without lost replies and abandoned writes, a lease that rides on the    *)
(* heartbeat of a running instance always has a watcher, or a call that    *)
(* has taken the duty over, to end it.                                     *)
(***************************************************************************)
THEOREM HoldsAreEnded ==
    ASSUME ~AckLoss, ~WriteTimeouts
    PROVE  Spec => []NoStrandedLease
<1>1. Init => DutyInv
  BY OwnersDistinct DEF Init, DutyInv, OneWriter, NoStrandedLease, EndsTheHold, None
<1>2. TypeOK /\ DutyInv /\ [Next]_vars => DutyInv'
  <2> SUFFICES ASSUME TypeOK, DutyInv, [Next]_vars PROVE DutyInv'
    OBVIOUS
  <2> USE DEF DutyInv, OneWriter, NoStrandedLease, EndsTheHold
  <2>1. CASE UNCHANGED vars
    BY <2>1 DEF vars
  <2>2. CASE Tick
    BY <2>2, OlderFacts DEF TypeOK, Tick
  <2>3. ASSUME NEW i \in Instance, InstanceStep(i) PROVE DutyInv'
    BY <2>3, InstanceStepDuty, ~AckLoss, ~WriteTimeouts
  <2>4. ASSUME NEW w \in Worker, WorkerStep(w) PROVE DutyInv'
    BY <2>4 DEF WorkerStep, ProcessBegins, CheckExclusiveAccess, FlushBegins, ProcessEnds,
                ProcessCancelled, rowVars, mgrVars, watchVars
  <2>5. ASSUME NEW p \in Producer, ProducerStep(p) PROVE DutyInv'
    BY <2>5 DEF ProducerStep, AddMessages, ProducerCommits, ProducerRollsBack, rowVars,
                mgrVars, watchVars
  <2> QED
    BY <2>1, <2>2, <2>3, <2>4, <2>5 DEF Next
<1>3. DutyInv => NoStrandedLease
  BY DEF DutyInv
<1> QED
  BY <1>1, <1>2, <1>3, TypeCorrect, PTL DEF Spec

-----------------------------------------------------------------------------
(***************************************************************************)
(* Comparing timestamps: counting down keeps their order and whether one   *)
(* of two was in the future when the earlier still is.                     *)
(***************************************************************************)
LEMMA OlderMonotone ==
    \A s, t \in Expiry : (t > 0 => s >= t) => (Older(t) > 0 => Older(s) >= Older(t))
  BY LeaseDurType DEF Older, Expiry, Lifetime, None

(***************************************************************************)
(* A heartbeat that waits comes from an instance that runs and whose       *)
(* heartbeats may wait; every other step of an instance leaves its waiting *)
(* heartbeat alone, or is the end of it.                                   *)
(***************************************************************************)
LEMMA BeatSteps ==
    ASSUME NEW i \in Instance, TypeOK, InstanceStep(i), NEW j \in Instance
    PROVE  \/ beat'[j] = beat[j] /\ (up[j] = "up" => up'[j] = "up")
           \/ beat'[j] = None
           \/ j \in Delayed /\ beat'[j] = LeaseDur /\ up'[j] = "up"
<1> USE DEF TypeOK
<1>1. CASE HeartbeatDelayed(i)
  BY <1>1 DEF HeartbeatDelayed
<1>2. CASE Heartbeat(i) \/ HeartbeatFails(i)
  BY <1>2 DEF Heartbeat, HeartbeatFails
<1>3. CASE Crash(i)
  BY <1>3 DEF Crash
<1>4. CASE NewOutbox(i) \/ SweepSession(i)
  BY <1>4 DEF NewOutbox, SweepSession
<1>5. CASE AcquireTopic(i) \/ ReleaseTopic(i) \/ StopReturns(i) \/ HoldCtxEnds(i)
           \/ WatcherWrites(i) \/ TryAcquire(i) \/ Acquired(i) \/ CommitAckLost(i)
           \/ AcquireFails(i) \/ Retry(i) \/ Released(i) \/ ReleaseFails(i)
           \/ GraceWritten(i)
  BY <1>5 DEF AcquireTopic, ReleaseTopic, StopWatcher, StopReturns, HoldCtxEnds, WatcherWrites,
     TryAcquire, Acquired, CommitAckLost, AcquireFails, Retry, Released, ReleaseFails, GraceWritten
<1> QED
  BY <1>1, <1>2, <1>3, <1>4, <1>5 DEF InstanceStep

(***************************************************************************)
(* Workers and producers have nothing to do with heartbeats.               *)
(***************************************************************************)
LEMMA OthersKeepBeat ==
    ASSUME \/ \E w \in Worker : WorkerStep(w)
           \/ \E p \in Producer : ProducerStep(p)
           \/ UNCHANGED vars
    PROVE  UNCHANGED <<beat, up>>
  BY DEF WorkerStep, ProcessBegins, CheckExclusiveAccess, FlushBegins, ProcessEnds,
     ProcessCancelled, ProducerStep, AddMessages, ProducerCommits, ProducerRollsBack, vars

(***************************************************************************)
(* A session row written by an instance is never earlier than a snapshot   *)
(* of the old one: a heartbeat that has not waited writes the full         *)
(* duration, and an acquire that has computed its expiry keeps the         *)
(* heartbeat out until it commits.                                         *)
(***************************************************************************)
LEMMA InstanceStepSnapshot ==
    ASSUME NEW i \in Instance, TypeOK, SnapshotInv, InstanceStep(i),
           \A j \in Instance : beat[j] = None
    PROVE  SnapshotInv'
<1> USE DEF rowVars, mgrVars, watchVars, procVars
<1>1. /\ \A j \in Instance : session[j] \in Expiry /\ session[j] <= LeaseDur
      /\ \A w \in Worker : snapSession[w] \in Expiry /\ snapSession[w] <= LeaseDur
      /\ LeaseDur > 0
  BY LeaseDurType DEF TypeOK, Expiry, Lifetime, None
\* What a step has to keep of the rows and of the snapshots.
<1>2. ASSUME UNCHANGED procVars,
             \A j \in Instance : session'[j] >= session[j] \/ session[j] = 0
      PROVE  \A w \in Worker : snapSession'[w] > 0 =>
                snapHolder'[w] \in Instance /\ session'[snapHolder'[w]] >= snapSession'[w]
  <2> SUFFICES ASSUME NEW w \in Worker, snapSession[w] > 0
               PROVE  snapHolder[w] \in Instance /\ session'[snapHolder[w]] >= snapSession[w]
    BY <1>2
  <2>1. snapHolder[w] \in Instance /\ session[snapHolder[w]] >= snapSession[w]
    BY DEF SnapshotInv
  <2>2. session'[snapHolder[w]] >= session[snapHolder[w]]
    <3>1. session[snapHolder[w]] # 0
      BY <1>1, <2>1 DEF Expiry, Lifetime, None
    <3> QED
      BY <1>2, <2>1, <3>1
  <2>3. session[snapHolder[w]] \in Int /\ session'[snapHolder[w]] \in Int /\ snapSession[w] \in Int
    <3>1. session' \in [Instance -> Expiry]
      BY InstanceStepType DEF TypeOK
    <3> QED
      BY <1>1, <2>1, <3>1, LeaseDurType DEF Expiry, Lifetime, None
  <2> QED
    BY <2>1, <2>2, <2>3
<1>3. CASE NewOutbox(i) \/ Heartbeat(i)
  <2>1. /\ UNCHANGED <<holder, override, mgr, expiry, procVars>>
        /\ mgr[i] # "commit"
        /\ \A j \in Instance : up[j] = "up" => up'[j] = "up"
        /\ \A j \in Instance \ {i} : session'[j] = session[j]
        /\ session'[i] \in {session[i], LeaseDur}
    BY <1>3 DEF NewOutbox, Heartbeat, SnapshotInv, TypeOK
  <2>2. \A j \in Instance : session'[j] >= session[j]
    BY <1>1, <2>1, LeaseDurType DEF Expiry, Lifetime, None
  <2> QED
    BY <1>2, <2>1, <2>2 DEF SnapshotInv
<1>4. CASE SweepSession(i)
  <2>1. /\ UNCHANGED <<holder, override, mgr, up, expiry, procVars>>
        /\ mgr[i] # "commit" /\ session[i] = 0
        /\ \A j \in Instance \ {i} : session'[j] = session[j]
    BY <1>4 DEF SweepSession, TypeOK
  <2>2. \A j \in Instance : session'[j] >= session[j] \/ session[j] = 0
    BY <1>1, <2>1, LeaseDurType DEF Expiry, Lifetime, None
  <2> QED
    BY <1>2, <2>1, <2>2 DEF SnapshotInv
<1>5. CASE Crash(i)
  <2>1. /\ UNCHANGED <<holder, override, session>>
        /\ mgr'[i] = "idle"
        /\ \A j \in Instance \ {i} : UNCHANGED <<mgr[j], up[j], expiry[j]>>
        /\ \A w \in Worker : \/ snapSession'[w] = None
                             \/ UNCHANGED <<snapSession[w], snapHolder[w]>>
    BY <1>5 DEF Crash, TypeOK
  <2> QED
    BY <2>1 DEF SnapshotInv, None
<1>6. CASE Acquired(i) \/ CommitAckLost(i)
  <2>1. /\ holder' = i /\ UNCHANGED <<up, procVars>>
        /\ mgr[i] = "commit" /\ mgr'[i] # "commit" /\ session' = [session EXCEPT ![i] = expiry[i]]
        /\ \A j \in Instance \ {i} : UNCHANGED <<mgr[j], expiry[j]>>
    BY <1>6 DEF Acquired, CommitAckLost, TakeLease, EndCall, FailCall, TypeOK
  <2>2. \A j \in Instance : session'[j] >= session[j]
    BY <1>1, <2>1, LeaseDurType DEF SnapshotInv, TypeOK, Expiry, Lifetime, None
  <2>3. i # NoInstance
    BY OwnersDistinct
  <2> QED
    BY <1>2, <2>1, <2>2, <2>3 DEF SnapshotInv, TypeOK
<1>7. CASE TryAcquire(i)
  <2>1. /\ UNCHANGED <<holder, override, session, up, procVars>>
        /\ mgr[i] # "idle" /\ (mgr'[i] = "commit" => expiry'[i] = LeaseDur)
        /\ \A j \in Instance \ {i} : UNCHANGED <<mgr[j], expiry[j]>>
    BY <1>7 DEF TryAcquire, TypeOK
  <2> QED
    BY <1>1, <2>1 DEF SnapshotInv
<1>8. CASE AcquireTopic(i) \/ ReleaseTopic(i) \/ StopReturns(i) \/ HoldCtxEnds(i)
           \/ WatcherWrites(i) \/ AcquireFails(i) \/ Retry(i) \/ Released(i)
           \/ ReleaseFails(i) \/ GraceWritten(i)
  <2>1. /\ UNCHANGED <<session, up, procVars>>
        /\ \A j \in Instance \ {i} : UNCHANGED <<mgr[j], expiry[j]>>
    BY <1>8 DEF AcquireTopic, ReleaseTopic, StopWatcher, StopReturns, HoldCtxEnds, WatcherWrites,
       AcquireFails, Retry, Released, ReleaseFails, GraceWritten, EndCall, FailCall, TypeOK
  <2>2. mgr'[i] # "commit" \/ UNCHANGED <<mgr[i], expiry[i]>>
    BY <1>8 DEF AcquireTopic, ReleaseTopic, StopWatcher, StopReturns, HoldCtxEnds, WatcherWrites,
       AcquireFails, Retry, Released, ReleaseFails, GraceWritten, EndCall, FailCall, TypeOK
  <2>3. mgr'[i] # "idle" => up[i] = "up"
    <3>1. mgr[i] = "idle" =>
             HoldCtxEnds(i) \/ WatcherWrites(i) \/ AcquireTopic(i) \/ ReleaseTopic(i)
      BY <1>8 DEF StopReturns, AcquireFails, Retry, Released, ReleaseFails, GraceWritten
    <3> QED
      BY <3>1 DEF SnapshotInv, HoldCtxEnds, WatcherWrites, AcquireTopic, ReleaseTopic, StopWatcher
  <2>4. holder' = NoInstance => override' = None
    <3>1. holder' = holder /\ (holder # i => override' = override)
      BY <1>8 DEF AcquireTopic, ReleaseTopic, StopWatcher, StopReturns, HoldCtxEnds,
         WatcherWrites, AcquireFails, Retry, Released, ReleaseFails, GraceWritten, RenewRow,
         RenewTimesOut
    <3> QED
      BY <3>1, OwnersDistinct DEF SnapshotInv
  <2> QED
    BY <2>1, <2>2, <2>3, <2>4 DEF SnapshotInv
<1>9. CASE HeartbeatDelayed(i) \/ HeartbeatFails(i)
  BY <1>9 DEF SnapshotInv, HeartbeatDelayed, HeartbeatFails
<1> QED
  BY <1>3, <1>4, <1>5, <1>6, <1>7, <1>8, <1>9 DEF InstanceStep

(***************************************************************************)
(* Time counts the snapshot and the table down alike; a locking read takes *)
(* its snapshot of the session that is there.                              *)
(***************************************************************************)
LEMMA OtherStepSnapshot ==
    ASSUME TypeOK, SnapshotInv,
           \/ Tick
           \/ \E w \in Worker : WorkerStep(w)
           \/ \E p \in Producer : ProducerStep(p)
    PROVE  SnapshotInv'
<1> USE DEF rowVars, mgrVars, watchVars, procVars
<1>1. CASE Tick
  <2>1. /\ UNCHANGED <<holder, up, mgr, snapHolder>> /\ override' = Older(override)
        /\ \A i \in Instance : session'[i] = Older(session[i]) /\ expiry'[i] = Older(expiry[i])
        /\ \A w \in Worker : snapSession'[w] = Older(snapSession[w])
    BY <1>1 DEF Tick
  <2>2. override = None => Older(override) = None
    BY DEF Older, None
  <2>3. \A i \in Instance : mgr[i] = "commit" => Older(expiry[i]) >= Older(session[i])
    <3>1. \A s \in Lifetime, t \in Expiry : s >= t => Older(s) >= Older(t)
      BY LeaseDurType DEF Older, Expiry, Lifetime, None
    <3> QED
      BY <3>1 DEF SnapshotInv, TypeOK
  <2>4. \A w \in Worker : snapSession'[w] > 0 =>
           snapHolder[w] \in Instance /\ session'[snapHolder[w]] >= snapSession'[w]
    <3> SUFFICES ASSUME NEW w \in Worker, Older(snapSession[w]) > 0
                 PROVE  /\ snapHolder[w] \in Instance
                        /\ Older(session[snapHolder[w]]) >= Older(snapSession[w])
      BY <2>1, Zenon
    <3>1. snapSession[w] \in Expiry /\ snapSession[w] > 0
      BY LeaseDurType DEF TypeOK, Older, Expiry, Lifetime, None
    <3>2. snapHolder[w] \in Instance /\ session[snapHolder[w]] >= snapSession[w]
      BY <3>1 DEF SnapshotInv
    <3>3. session[snapHolder[w]] \in Expiry
      BY <3>2 DEF TypeOK
    <3> QED
      BY <3>1, <3>2, <3>3, OlderMonotone
  <2> QED
    BY <2>1, <2>2, <2>3, <2>4 DEF SnapshotInv
<1>2. ASSUME NEW w \in Worker, WorkerStep(w) PROVE SnapshotInv'
  <2>1. CASE ProcessBegins(w)
    <3>1. CASE UNCHANGED <<snapHolder, snapSession>>
      BY <2>1, <3>1 DEF ProcessBegins, SnapshotInv
    <3>2. CASE /\ snapHolder' = [snapHolder EXCEPT ![w] = holder]
               /\ snapSession' = [snapSession EXCEPT ![w] = SessionOf(holder)]
      <4>1. SessionOf(holder) > 0 => holder \in Instance /\ session[holder] >= SessionOf(holder)
        BY LeaseDurType DEF SessionOf, TypeOK, Expiry, Lifetime, None
      <4> QED
        BY <2>1, <3>2, <4>1 DEF ProcessBegins, SnapshotInv, TypeOK
    <3> QED
      BY <2>1, <3>1, <3>2 DEF ProcessBegins
  <2>2. CASE CheckExclusiveAccess(w) \/ ProcessCancelled(w)
    BY <2>2 DEF CheckExclusiveAccess, ProcessCancelled, SnapshotInv, TypeOK, None
  <2>3. CASE FlushBegins(w) \/ ProcessEnds(w)
    BY <2>3 DEF FlushBegins, ProcessEnds, SnapshotInv
  <2> QED
    BY <1>2, <2>1, <2>2, <2>3 DEF WorkerStep
<1>3. ASSUME NEW p \in Producer, ProducerStep(p) PROVE SnapshotInv'
  BY <1>3 DEF ProducerStep, AddMessages, ProducerCommits, ProducerRollsBack, SnapshotInv
<1> QED
  BY <1>1, <1>2, <1>3

(***************************************************************************)
(* ErrExclusiveLeaseHeld is true when it is returned, if no heartbeat      *)
(* waits between computing its expiry and writing it: the row is re-read   *)
(* under its lock, and the session the statement has joined long before    *)
(* can only have been renewed since.                                       *)
(***************************************************************************)
THEOREM HeldErrorIsTrue ==
    ASSUME Delayed = {}
    PROVE  Spec => HeldIsTrue
<1> DEFINE NoBeat == \A i \in Instance : beat[i] = None
<1>1. Init => SnapshotInv /\ NoBeat
  BY LeaseDurType, OwnersDistinct DEF Init, SnapshotInv, None
<1>2. TypeOK /\ NoBeat /\ [Next]_vars => NoBeat'
  <2> SUFFICES ASSUME TypeOK, NoBeat, [Next]_vars PROVE NoBeat'
    OBVIOUS
  <2>1. CASE Tick
    BY <2>1 DEF Tick, Older, None
  <2>2. ASSUME NEW i \in Instance, InstanceStep(i) PROVE NoBeat'
    BY <2>2, BeatSteps, Delayed = {}
  <2>3. CASE UNCHANGED beat
    BY <2>3
  <2> QED
    BY <2>1, <2>2, <2>3, OthersKeepBeat DEF Next
<1>3. TypeOK /\ SnapshotInv /\ NoBeat /\ [Next]_vars => SnapshotInv'
  <2> SUFFICES ASSUME TypeOK, SnapshotInv, NoBeat, [Next]_vars PROVE SnapshotInv'
    OBVIOUS
  <2>1. CASE UNCHANGED vars
    BY <2>1 DEF SnapshotInv, vars
  <2>2. ASSUME NEW i \in Instance, InstanceStep(i) PROVE SnapshotInv'
    BY <2>2, InstanceStepSnapshot
  <2>3. CASE Next
    BY <2>2, <2>3, OtherStepSnapshot DEF Next
  <2> QED
    BY <2>1, <2>3
<1>4. ASSUME TypeOK, SnapshotInv, [Next]_vars, NEW w \in Worker, proc[w] # "held", proc'[w] = "held"
      PROVE  holder # Home[w] /\ LeaseLive
  <2>1. CheckExclusiveAccess(w)
    <3>1. CASE Tick \/ UNCHANGED vars
      BY <1>4, <3>1 DEF Tick, vars
    <3>2. ASSUME NEW i \in Instance, InstanceStep(i) PROVE FALSE
      BY <1>4, <3>2 DEF InstanceStep, NewOutbox, Heartbeat, HeartbeatDelayed, HeartbeatFails,
         SweepSession, Crash, AcquireTopic,
         ReleaseTopic, StopWatcher, StopReturns, HoldCtxEnds, WatcherWrites, TryAcquire, Acquired,
         CommitAckLost, AcquireFails, Retry, Released, ReleaseFails, GraceWritten, procVars
    <3>3. ASSUME NEW p \in Producer, ProducerStep(p) PROVE FALSE
      BY <1>4, <3>3 DEF ProducerStep, AddMessages, ProducerCommits, ProducerRollsBack, procVars
    <3>4. ASSUME NEW u \in Worker, WorkerStep(u) PROVE CheckExclusiveAccess(w)
      BY <1>4, <3>4 DEF WorkerStep, ProcessBegins, CheckExclusiveAccess, FlushBegins, ProcessEnds,
         ProcessCancelled, TypeOK
    <3> QED
      BY <1>4, <3>1, <3>2, <3>3, <3>4 DEF Next
  <2>2. holder # Home[w] /\ InFuture(ReadAfterWait(w)) /\ ~CheckPasses(w)
    BY <1>4, <2>1 DEF CheckExclusiveAccess, TypeOK
  <2>3. holder # NoInstance
    BY <2>2 DEF CheckPasses
  <2>4. InFuture(LeaseExpiry)
    <3>1. CASE override # None
      BY <2>2, <3>1 DEF ReadAfterWait, LeaseExpiry, Coalesce
    <3>2. CASE override = None
      <4>1. holder = snapHolder[w] /\ snapSession[w] > 0
        BY <2>2, <3>2 DEF ReadAfterWait, Coalesce, InFuture, None
      <4>2. holder \in Instance /\ session[holder] >= snapSession[w]
        BY <1>4, <4>1 DEF SnapshotInv
      <4>3. session[holder] \in Int /\ snapSession[w] \in Int
        BY <1>4, <4>2, LeaseDurType DEF TypeOK, Expiry, Lifetime, None
      <4>4. session[holder] > 0
        BY <4>1, <4>2, <4>3
      <4> QED
        BY <3>2, <4>2, <4>4 DEF LeaseExpiry, Coalesce, SessionOf, InFuture
    <3> QED
      BY <3>1, <3>2
  <2> QED
    BY <2>2, <2>3, <2>4 DEF LeaseLive
<1>5. TypeOK /\ SnapshotInv /\ [Next]_vars =>
         [\A w \in Worker :
             proc[w] # "held" /\ proc'[w] = "held" => holder # Home[w] /\ LeaseLive]_vars
  BY <1>4
<1> HIDE DEF NoBeat
<1> QED
  BY <1>1, <1>2, <1>3, <1>5, TypeCorrect, PTL DEF Spec, HeldIsTrue

-----------------------------------------------------------------------------
(***************************************************************************)
(* While a hold runs, its lease is live.                                   *)
(***************************************************************************)
LEMMA RunningHoldIsLive ==
    ASSUME TypeOK, WatcherInv, HoldInv, NEW i \in Instance, holder = i, watching[i]
    PROVE  LeaseLive
<1>1. override = None
  BY DEF WatcherInv, HoldDeferred
<1>2. session[i] > 0
  BY DEF HoldInv
<1> QED
  BY <1>1, <1>2, OwnersDistinct DEF LeaseLive, LeaseExpiry, Coalesce, SessionOf, InFuture

(***************************************************************************)
(* An acquire decides and commits under the row lock, and decides for a    *)
(* lease that is not live, so never for that of a running hold.            *)
(***************************************************************************)
LEMMA InstanceStepHold ==
    ASSUME NEW i \in Instance, TypeOK, WatcherInv, BeatInv, HoldInv, InstanceStep(i)
    PROVE  HoldInv'
<1> USE DEF rowVars, mgrVars, watchVars, procVars
<1>1. CASE NewOutbox(i) \/ Heartbeat(i)
  <2>1. UNCHANGED <<holder, rowLock, mgr, expiry, watching>>
    BY <1>1 DEF NewOutbox, Heartbeat
  <2>2. \A j \in Instance : up[j] = "up" => up'[j] = "up"
    BY <1>1 DEF NewOutbox, Heartbeat, TypeOK
  <2>3. ASSUME NEW j \in Instance
        PROVE  \/ session'[j] = session[j]
               \/ session'[j] = LeaseDur
               \/ session'[j] = beat[j] /\ beat[j] # None
    <3>1. CASE NewOutbox(i)
      BY <3>1 DEF NewOutbox, TypeOK
    <3>2. CASE Heartbeat(i)
      BY <3>2 DEF Heartbeat, TypeOK
    <3> QED
      BY <1>1, <3>1, <3>2
  <2> QED
    BY <2>1, <2>2, <2>3, LeaseDurType DEF HoldInv, BeatInv
<1>2. CASE SweepSession(i)
  <2>1. /\ UNCHANGED <<holder, rowLock, up, mgr, expiry, watching>>
        /\ session[i] = 0 /\ \A j \in Instance \ {i} : session'[j] = session[j]
    BY <1>2 DEF SweepSession, TypeOK
  <2> QED
    BY <2>1 DEF HoldInv
<1>3. CASE Crash(i)
  <2>1. /\ UNCHANGED <<holder, session>>
        /\ mgr'[i] = "idle" /\ ~watching'[i]
        /\ \A j \in Instance \ {i} : UNCHANGED <<up[j], mgr[j], expiry[j], watching[j]>>
        /\ rowLock' = rowLock \/ rowLock = i \/ rowLock \in Worker
    BY <1>3 DEF Crash, TypeOK
  <2>2. \A j \in Instance \ {i} : mgr[j] = "commit" => rowLock' = j
    BY <2>1, OwnersDistinct DEF HoldInv
  <2> QED
    BY <2>1, <2>2 DEF HoldInv
<1>4. CASE TryAcquire(i)
  <2>1. /\ UNCHANGED <<holder, session, up, watching>>
        /\ mgr[i] = "try" /\ mgr'[i] \in {"wait", "commit"} /\ rowLock = Free
        /\ \A j \in Instance \ {i} : UNCHANGED <<mgr[j], expiry[j]>>
        /\ mgr'[i] = "commit" => expiry'[i] = LeaseDur /\ rowLock' = i
    BY <1>4 DEF TryAcquire, TypeOK
  <2>2. \A j \in Instance : mgr[j] # "commit"
    BY <2>1, OwnersDistinct DEF HoldInv
  <2>3. mgr'[i] = "commit" => ~(holder # i /\ LeaseLive)
    BY <1>4 DEF TryAcquire, TypeOK
  <2>4. ASSUME NEW j \in Instance, holder = j, watching[j] PROVE mgr'[i] # "commit"
    <3>1. j # i
      BY <2>1, <2>4 DEF WatcherInv, OneWriter
    <3> QED
      BY <2>3, <2>4, <3>1, RunningHoldIsLive
  <2> QED
    BY <2>1, <2>2, <2>4, LeaseDurType DEF HoldInv
<1>5. CASE Acquired(i) \/ CommitAckLost(i)
  <2>1. /\ mgr[i] = "commit" /\ mgr'[i] # "commit" /\ holder' = i /\ UNCHANGED up
        /\ session'[i] = expiry[i] /\ \A j \in Instance \ {i} : session'[j] = session[j]
        /\ \A j \in Instance \ {i} : UNCHANGED <<mgr[j], expiry[j], watching[j]>>
    BY <1>5 DEF Acquired, CommitAckLost, TakeLease, EndCall, FailCall, TypeOK
  <2>2. up[i] = "up" /\ rowLock = i /\ expiry[i] > 0
    BY <2>1 DEF HoldInv
  <2>3. \A j \in Instance : mgr'[j] # "commit"
    BY <2>1, <2>2 DEF HoldInv
  <2> QED
    BY <2>1, <2>2, <2>3 DEF HoldInv
<1>6. CASE AcquireTopic(i) \/ ReleaseTopic(i) \/ StopReturns(i) \/ HoldCtxEnds(i)
           \/ WatcherWrites(i) \/ AcquireFails(i) \/ Retry(i) \/ Released(i)
           \/ ReleaseFails(i) \/ GraceWritten(i)
  <2>1. /\ UNCHANGED <<holder, session, up>>
        /\ \A j \in Instance \ {i} : UNCHANGED <<mgr[j], expiry[j], watching[j]>>
        /\ watching'[i] => watching[i]
    BY <1>6 DEF AcquireTopic, ReleaseTopic, StopWatcher, StopReturns, HoldCtxEnds, WatcherWrites,
       AcquireFails, Retry, Released, ReleaseFails, GraceWritten, EndCall, FailCall, RenewRow,
       RenewTimesOut, TypeOK
  <2>2. mgr'[i] = "commit" => UNCHANGED <<mgr[i], expiry[i], rowLock>>
    BY <1>6 DEF AcquireTopic, ReleaseTopic, StopWatcher, StopReturns, HoldCtxEnds, WatcherWrites,
       AcquireFails, Retry, Released, ReleaseFails, GraceWritten, EndCall, FailCall, TypeOK
  <2>3. \A j \in Instance \ {i} : rowLock = j => rowLock' = j
    BY <1>6 DEF AcquireTopic, ReleaseTopic, StopWatcher, StopReturns, HoldCtxEnds, WatcherWrites,
       AcquireFails, Retry, Released, ReleaseFails, GraceWritten, Unlocked
  <2>4. mgr'[i] # "idle" => up[i] = "up"
    <3>1. mgr[i] = "idle" =>
             HoldCtxEnds(i) \/ WatcherWrites(i) \/ AcquireTopic(i) \/ ReleaseTopic(i)
      BY <1>6 DEF StopReturns, AcquireFails, Retry, Released, ReleaseFails, GraceWritten
    <3> QED
      BY <3>1 DEF HoldInv, HoldCtxEnds, WatcherWrites, AcquireTopic, ReleaseTopic, StopWatcher
  <2> QED
    BY <2>1, <2>2, <2>3, <2>4 DEF HoldInv
<1>7. CASE HeartbeatDelayed(i) \/ HeartbeatFails(i)
  BY <1>7 DEF HoldInv, HeartbeatDelayed, HeartbeatFails
<1> QED
  BY <1>1, <1>2, <1>3, <1>4, <1>5, <1>6, <1>7 DEF InstanceStep

(***************************************************************************)
(* Time does not run a session of a running instance out when its writes   *)
(* are on time, and nobody else ends an acquire or takes its row lock.     *)
(***************************************************************************)
LEMMA OtherStepHold ==
    ASSUME Timely, TypeOK, HoldInv,
           \/ Tick
           \/ \E w \in Worker : WorkerStep(w)
           \/ \E p \in Producer : ProducerStep(p)
    PROVE  HoldInv'
<1> USE DEF rowVars, mgrVars, watchVars, procVars
<1>1. CASE Tick
  <2>1. /\ UNCHANGED <<holder, rowLock, up, mgr, watching>>
        /\ \A i \in Instance : session'[i] = Older(session[i]) /\ expiry'[i] = Older(expiry[i])
    BY <1>1 DEF Tick
  <2>2. \A i \in Instance : up[i] = "up" =>
           /\ session[i] # None => session[i] > 1
           /\ mgr[i] = "commit" => expiry[i] > 1
    BY <1>1, Timely DEF Tick, SessionsRenewed
  <2>3. \A t \in Expiry : t > 1 => Older(t) > 0
    BY LeaseDurType DEF Older, Expiry, Lifetime, None
  <2>4. \A i \in Instance : mgr[i] = "commit" => rowLock = i /\ expiry'[i] > 0
    BY <2>1, <2>2, <2>3, TimestampFacts DEF HoldInv, TypeOK
  <2>5. \A i \in Instance : holder = i /\ watching[i] => session'[i] > 0
    <3> SUFFICES ASSUME NEW i \in Instance, holder = i, watching[i] PROVE Older(session[i]) > 0
      BY <2>1
    <3>1. up[i] = "up" /\ session[i] > 0
      BY DEF HoldInv
    <3>2. session[i] > 1
      BY <2>2, <3>1 DEF None
    <3> QED
      BY <2>3, <3>2 DEF TypeOK
  <2> QED
    BY <2>1, <2>4, <2>5 DEF HoldInv
<1>2. ASSUME NEW w \in Worker, WorkerStep(w) PROVE HoldInv'
  <2>1. UNCHANGED <<holder, session, up, mgr, expiry, watching>>
    BY <1>2 DEF WorkerStep, ProcessBegins, CheckExclusiveAccess, FlushBegins, ProcessEnds,
       ProcessCancelled
  <2>2. \A j \in Instance : rowLock = j => rowLock' = j
    BY <1>2, OwnersDistinct DEF WorkerStep, ProcessBegins, CheckExclusiveAccess, FlushBegins,
       ProcessEnds, ProcessCancelled, Unlocked
  <2> QED
    BY <2>1, <2>2 DEF HoldInv
<1>3. ASSUME NEW p \in Producer, ProducerStep(p) PROVE HoldInv'
  <2>1. UNCHANGED <<holder, session, up, mgr, expiry, watching>>
    BY <1>3 DEF ProducerStep, AddMessages, ProducerCommits, ProducerRollsBack
  <2>2. \A j \in Instance : rowLock = j => rowLock' = j
    BY <1>3, OwnersDistinct DEF ProducerStep, AddMessages, ProducerCommits, ProducerRollsBack,
       Unlocked
  <2> QED
    BY <2>1, <2>2 DEF HoldInv
<1> QED
  BY <1>1, <1>2, <1>3

(***************************************************************************)
(* When session writes are on time, a heartbeat does not wait for as long  *)
(* as the lease lasts.                                                     *)
(***************************************************************************)
LEMMA StepBeat == Timely /\ TypeOK /\ BeatInv /\ [Next]_vars => BeatInv'
<1> SUFFICES ASSUME Timely, TypeOK, BeatInv, [Next]_vars PROVE BeatInv'
  OBVIOUS
<1>1. CASE Tick
  <2> SUFFICES ASSUME NEW i \in Instance, Older(beat[i]) # None
               PROVE  up[i] = "up" /\ Older(beat[i]) > 0
    BY <1>1 DEF Tick, BeatInv
  <2>1. beat[i] \in Expiry
    BY DEF TypeOK
  <2>2. beat[i] # None
    BY <2>1, OlderFacts
  <2>3. up[i] = "up"
    BY <2>2 DEF BeatInv
  <2>4. beat[i] > 1
    BY <1>1, <2>2, <2>3 DEF Tick, SessionsRenewed
  <2> QED
    BY <2>1, <2>3, <2>4, LeaseDurType DEF Older, Expiry, Lifetime, None
<1>2. ASSUME NEW i \in Instance, InstanceStep(i) PROVE BeatInv'
  BY <1>2, BeatSteps, LeaseDurType DEF BeatInv
<1>3. CASE UNCHANGED <<beat, up>>
  BY <1>3 DEF BeatInv
<1> QED
  BY <1>1, <1>2, <1>3, OthersKeepBeat DEF Next

(***************************************************************************)
(* Nobody takes the lease from an instance whose hold goes on and whose    *)
(* session writes land in time, whether or not the topic has its row, and  *)
(* whatever replies are lost and whatever writes are abandoned.            *)
(***************************************************************************)
THEOREM HoldIsKept ==
    ASSUME Timely
    PROVE  Spec => HoldNeverStolen
<1> DEFINE Inv == TypeOK /\ WatcherInv /\ BeatInv /\ HoldInv
<1>1. Init => Inv
  <2>1. Init => HoldInv /\ BeatInv
    BY DEF Init, HoldInv, BeatInv
  <2> QED
    BY <2>1, InitWatcher, InitType
<1>2. Inv /\ [Next]_vars => Inv'
  <2>1. ASSUME Inv, [Next]_vars PROVE HoldInv'
    <3>1. CASE UNCHANGED vars
      BY <2>1, <3>1 DEF HoldInv, vars
    <3>2. CASE Next
      BY <2>1, <3>2, Timely, InstanceStepHold, OtherStepHold DEF Next
    <3> QED
      BY <2>1, <3>1, <3>2
  <2> QED
    BY <2>1, Timely, StepType, StepWatcher, StepBeat
<1>3. ASSUME Inv, [Next]_vars, NEW i \in Instance, holder = i, watching[i], up[i] = "up"
      PROVE  holder' = i
  <2>1. \A j \in Instance : mgr[j] # "commit"
    BY <1>3 DEF HoldInv
  <2>2. holder' = holder
    <3>1. ASSUME NEW j \in Instance, InstanceStep(j) PROVE holder' = holder
      BY <2>1, <3>1 DEF InstanceStep, NewOutbox, Heartbeat, HeartbeatDelayed, HeartbeatFails,
         SweepSession, Crash, AcquireTopic,
         ReleaseTopic, StopWatcher, StopReturns, HoldCtxEnds, WatcherWrites, TryAcquire, Acquired,
         CommitAckLost, AcquireFails, Retry, Released, ReleaseFails, GraceWritten, RenewRow,
         RenewTimesOut, rowVars
    <3>2. ASSUME NEW w \in Worker, WorkerStep(w) PROVE holder' = holder
      BY <3>2 DEF WorkerStep, ProcessBegins, CheckExclusiveAccess, FlushBegins, ProcessEnds,
         ProcessCancelled, rowVars
    <3>3. ASSUME NEW p \in Producer, ProducerStep(p) PROVE holder' = holder
      BY <3>3 DEF ProducerStep, AddMessages, ProducerCommits, ProducerRollsBack, rowVars
    <3>4. CASE Tick \/ UNCHANGED vars
      BY <3>4 DEF Tick, vars
    <3> QED
      BY <1>3, <3>1, <3>2, <3>3, <3>4 DEF Next
  <2> QED
    BY <1>3, <2>2
<1>4. Inv /\ [Next]_vars =>
         [\A i \in Instance : holder = i /\ watching[i] /\ up[i] = "up" => holder' = i]_vars
  BY <1>3
<1> QED
  BY <1>1, <1>2, <1>4, PTL DEF Spec, HoldNeverStolen

=============================================================================
