--------------------------- MODULE ExclusiveLease ---------------------------
(***************************************************************************)
(* The exclusive-consumer lease of one topic: its row of the topics table, *)
(* the consumer_sessions table the lease defers to, the row lock that      *)
(* AcquireTopic, ProcessMessages and the insert trigger compete for, and   *)
(* the per-topic lease watcher of every instance.                          *)
(*                                                                         *)
(* Time.  A timestamp is the lifetime it has left: a number of ticks that  *)
(* Tick counts down, in the tables as well as in the local variable of a   *)
(* call that has computed an expiry and not written it yet.  0 is a        *)
(* timestamp that is no longer in the future.  Time is not bounded.        *)
(*                                                                         *)
(* Calls.  Every instance runs at most one AcquireTopic or ReleaseTopic    *)
(* for the topic at a time (concurrent ones are the subject of             *)
(* LeaseWatcher), any number of ProcessMessages calls (one per Worker),    *)
(* the session heartbeat and one watcher.  Producers are transactions of   *)
(* any process that insert messages.                                       *)
(***************************************************************************)
EXTENDS Integers

CONSTANTS
    Instance,     \* outbox instances; an id is never reused (uuid.New per NewOutbox)
    Worker,       \* goroutines that call ProcessMessages
    Home,         \* the instance a worker belongs to
    Producer,     \* transactions that call AddMessages
    Legacy,       \* a holder that runs a version without consumer sessions
    NoInstance,   \* NULL exclusive_consumer_id
    Free,         \* nobody holds the row lock
    LeaseDur,     \* exclusiveLeaseDuration, in ticks
    TopicSeen,    \* the topics row exists in the initial state
    AckLoss,      \* a commit may reach the database although the caller sees an error
    WriteTimeouts,\* a best-effort lease write may time out behind the row lock
    Delayed,      \* instances whose heartbeat may wait between computing its expiry and writing it
    Timely        \* session writes land within the lease duration

ASSUME OwnersDistinct ==
    /\ Instance \cap Worker = {}
    /\ Instance \cap Producer = {}
    /\ Worker \cap Producer = {}
    /\ NoInstance \notin Instance
    /\ Legacy \notin Instance
    /\ Legacy # NoInstance
    /\ Free \notin Instance \cup Worker \cup Producer

ASSUME HomeType == Home \in [Worker -> Instance]

ASSUME LeaseDurType == LeaseDur \in Nat \ {0}

ASSUME FlagsType ==
    /\ TopicSeen \in BOOLEAN
    /\ AckLoss \in BOOLEAN
    /\ WriteTimeouts \in BOOLEAN
    /\ Delayed \subseteq Instance
    /\ Timely \in BOOLEAN

None == -1                      \* SQL NULL: as an expiry it is never in the future
Lifetime == 0..LeaseDur
Expiry == Lifetime \cup {None}
Holder == Instance \cup {NoInstance, Legacy}

VARIABLES
    seen,       \* the topics row is committed
    holder,     \* topics.exclusive_consumer_id
    override,   \* topics.exclusive_consumer_expires_at
    session,    \* consumer_sessions.expires_at of every instance; None: no row
    beat,       \* the expiry of a heartbeat that has yet to be written; None: no such one
    rowLock,    \* the transaction that holds the row lock, or has inserted the row
    up,         \* "new", "up" or "down" for every instance
    mgr,        \* the AcquireTopic or ReleaseTopic call of an instance
    stopped,    \* it has stopped a watcher that will now never fire
    expiry,     \* the timestamp it has computed and not yet written
    watching,   \* a watcher of the instance waits for its ctx to end
    firing,     \* the timestamp a fired watcher is about to write; None: no such watcher
    proc,       \* the ProcessMessages call of a worker, or the error it last returned
    snapHolder, \* exclusive_consumer_id in the snapshot of its locking read
    snapSession,\* the session expiry joined to it in that snapshot
    prod        \* the transaction of a producer

rowVars  == <<seen, holder, override>>
mgrVars  == <<mgr, stopped, expiry>>
watchVars == <<watching, firing>>
procVars == <<proc, snapHolder, snapSession>>
vars == <<seen, holder, override, session, beat, rowLock, up, mgr, stopped, expiry,
          watching, firing, proc, snapHolder, snapSession, prod>>

MgrState  == {"idle", "acquire", "try", "commit", "wait", "release", "write", "grace"}
ProcState == {"idle", "waiting", "checked", "flushing", "held", "required"}

-----------------------------------------------------------------------------
\* Reading the row

\* expires_at of a holder's consumer session; only session-aware instances have one.
SessionOf(h) == IF h \in Instance THEN session[h] ELSE None

\* COALESCE(t.exclusive_consumer_expires_at, s.expires_at)
Coalesce(a, b) == IF a # None THEN a ELSE b

\* Mutant: the read forgets the join with consumer_sessions.
LeaseExpiryUnjoined == override

LeaseExpiry == Coalesce(override, SessionOf(holder))

\* time.Time.After(now), false for NULL
InFuture(t) == t > 0

\* Mutant: a holder is taken for a live one whatever its expiry.
LeaseLiveUnchecked == holder # NoInstance

\* A lease is live when its expiry, the session's included, is in the future.
LeaseLive == holder # NoInstance /\ InFuture(LeaseExpiry)

\* Mutant: the session of the old holder is still joined to the new row.
ReadAfterWaitUnmatched(w) == Coalesce(override, snapSession[w])

\* What GetTopicForUpdate returns to a worker once it has the row lock.  If the
\* row changed while the statement waited, PostgreSQL re-evaluates the join with
\* the new topics row and the session row of the statement's own snapshot, which
\* no longer matches when the holder is another one.
ReadAfterWait(w) ==
    Coalesce(override, IF holder = snapHolder[w] THEN snapSession[w] ELSE None)

-----------------------------------------------------------------------------
Init ==
    /\ seen = TopicSeen
    /\ \/ holder = NoInstance /\ override = None
       \/ TopicSeen /\ holder = Legacy /\ override = LeaseDur
    /\ session = [i \in Instance |-> None]
    /\ beat = [i \in Instance |-> None]
    /\ rowLock = Free
    /\ up = [i \in Instance |-> "new"]
    /\ mgr = [i \in Instance |-> "idle"]
    /\ stopped = [i \in Instance |-> FALSE]
    /\ expiry = [i \in Instance |-> 0]
    /\ watching = [i \in Instance |-> FALSE]
    /\ firing = [i \in Instance |-> None]
    /\ proc = [w \in Worker |-> "idle"]
    /\ snapHolder = [w \in Worker |-> NoInstance]
    /\ snapSession = [w \in Worker |-> None]
    /\ prod = [p \in Producer |-> "idle"]

-----------------------------------------------------------------------------
\* Time and sessions

Older(t) == IF t > 0 THEN t - 1 ELSE t

\* When Timely, no session of a running instance reaches its expiry: heartbeats
\* and the session refresh inside an acquire land in time.
SessionsRenewed ==
    \A i \in Instance : up[i] = "up" =>
        /\ session[i] # None => session[i] > 1
        /\ beat[i] # None => beat[i] > 1
        /\ mgr[i] = "commit" => expiry[i] > 1

Tick ==
    /\ Timely => SessionsRenewed
    /\ override' = Older(override)
    /\ session' = [i \in Instance |-> Older(session[i])]
    /\ beat' = [i \in Instance |-> Older(beat[i])]
    /\ expiry' = [i \in Instance |-> Older(expiry[i])]
    /\ firing' = [i \in Instance |-> Older(firing[i])]
    /\ snapSession' = [w \in Worker |-> Older(snapSession[w])]
    /\ UNCHANGED <<seen, holder, rowLock, up, mgr, stopped, watching, proc,
                   snapHolder, prod>>

\* NewOutbox: ensureTopicRow for a topic with an expiration, then the initial
\* session upsert.  Both are best-effort.
NewOutbox(i) ==
    /\ up[i] = "new"
    /\ up' = [up EXCEPT ![i] = "up"]
    /\ \/ rowLock = Free /\ seen' = TRUE
       \/ UNCHANGED seen
    /\ \/ session' = [session EXCEPT ![i] = LeaseDur]
       \/ UNCHANGED session
    /\ UNCHANGED <<holder, override, beat, rowLock, mgrVars, watchVars, procVars, prod>>

\* A renewal of runConsumerSessionRenewer has computed its expiry and waits, for a
\* connection of the pool or behind an acquire.
HeartbeatDelayed(i) ==
    /\ i \in Delayed
    /\ up[i] = "up"
    /\ beat[i] = None
    /\ beat' = [beat EXCEPT ![i] = LeaseDur]
    /\ UNCHANGED <<rowVars, session, rowLock, up, mgrVars, watchVars, procVars, prod>>

\* Mutant: the renewal extends the expiry it finds.
HeartbeatExtends(i) ==
    /\ up[i] = "up"
    /\ mgr[i] # "commit"
    /\ session' = [session EXCEPT ![i] = @ + LeaseDur]
    /\ beat' = [beat EXCEPT ![i] = None]
    /\ UNCHANGED <<rowVars, rowLock, up, mgrVars, watchVars, procVars, prod>>

\* One renewal is written, over a later expiry too.  An acquire transaction that has
\* refreshed the session holds the lock on its row until it ends.
Heartbeat(i) ==
    /\ up[i] = "up"
    /\ mgr[i] # "commit"
    /\ session' = [session EXCEPT ![i] = IF beat[i] = None THEN LeaseDur ELSE beat[i]]
    /\ beat' = [beat EXCEPT ![i] = None]
    /\ UNCHANGED <<rowVars, rowLock, up, mgrVars, watchVars, procVars, prod>>

\* The write fails, which is only logged.
HeartbeatFails(i) ==
    /\ beat[i] # None
    /\ beat' = [beat EXCEPT ![i] = None]
    /\ UNCHANGED <<rowVars, session, rowLock, up, mgrVars, watchVars, procVars, prod>>

\* DeleteExpiredConsumerSessions in somebody's catch-up sweep.  How long ago the
\* session expired is not kept, so any expired row may be swept.
SweepSession(i) ==
    /\ session[i] = 0
    /\ mgr[i] # "commit"
    /\ session' = [session EXCEPT ![i] = None]
    /\ UNCHANGED <<rowVars, beat, rowLock, up, mgrVars, watchVars, procVars, prod>>

\* The process of i dies: its calls are gone and its transactions roll back.
Crash(i) ==
    /\ up[i] = "up"
    /\ up' = [up EXCEPT ![i] = "down"]
    /\ beat' = [beat EXCEPT ![i] = None]
    /\ mgr' = [mgr EXCEPT ![i] = "idle"]
    /\ stopped' = [stopped EXCEPT ![i] = FALSE]
    /\ expiry' = [expiry EXCEPT ![i] = 0]
    /\ watching' = [watching EXCEPT ![i] = FALSE]
    /\ firing' = [firing EXCEPT ![i] = None]
    /\ proc' = [w \in Worker |-> IF Home[w] = i THEN "idle" ELSE proc[w]]
    /\ snapHolder' = [w \in Worker |-> IF Home[w] = i THEN NoInstance ELSE snapHolder[w]]
    /\ snapSession' = [w \in Worker |-> IF Home[w] = i THEN None ELSE snapSession[w]]
    /\ rowLock' = IF rowLock = i \/ (rowLock \in Worker /\ Home[rowLock] = i)
                  THEN Free ELSE rowLock
    /\ UNCHANGED <<rowVars, session, prod>>

-----------------------------------------------------------------------------
\* The lease watcher

\* leaseWatcher.Stop on entry to a call: a waiting watcher is suppressed, one that
\* has fired is waited for, and without a watcher there is nothing to stop.
StopWatcher(i, call, next) ==
    /\ up[i] = "up"
    /\ mgr[i] = "idle"
    /\ stopped' = [stopped EXCEPT ![i] = watching[i] \/ firing[i] # None]
    /\ watching' = [watching EXCEPT ![i] = FALSE]
    /\ mgr' = [mgr EXCEPT ![i] = IF firing[i] # None THEN call ELSE next]
    /\ UNCHANGED <<rowVars, session, beat, rowLock, up, expiry, firing, procVars, prod>>

\* Mutant: Stop returns although the fired watcher has yet to write.
StopReturnsEarly(i) ==
    /\ mgr[i] \in {"acquire", "release"}
    /\ mgr' = [mgr EXCEPT ![i] = IF mgr[i] = "acquire" THEN "try" ELSE "write"]
    /\ UNCHANGED <<rowVars, session, beat, rowLock, up, stopped, expiry, watchVars,
                   procVars, prod>>

\* The goroutine of the fired watcher has exited; Stop returns.
StopReturns(i) ==
    /\ mgr[i] \in {"acquire", "release"}
    /\ firing[i] = None
    /\ mgr' = [mgr EXCEPT ![i] = IF mgr[i] = "acquire" THEN "try" ELSE "write"]
    /\ UNCHANGED <<rowVars, session, beat, rowLock, up, stopped, expiry, watchVars,
                   procVars, prod>>

\* The AcquireTopic ctx ends by itself: onCancel computes the grace-period expiry.
HoldCtxEnds(i) ==
    /\ watching[i]
    /\ watching' = [watching EXCEPT ![i] = FALSE]
    /\ firing' = [firing EXCEPT ![i] = LeaseDur]
    /\ UNCHANGED <<rowVars, session, beat, rowLock, up, mgrVars, procVars, prod>>

\* Mutant: the write only ever extends an override.
RenewRowOverridden(i, t) ==
    /\ seen /\ holder = i => rowLock = Free
    /\ override' = IF seen /\ holder = i /\ override # None THEN t ELSE override
    /\ UNCHANGED <<seen, holder>>

\* RenewTopicExclusiveConsumer: waits for the row lock only if the row matches,
\* and does nothing if another instance has taken over.
RenewRow(i, t) ==
    /\ seen /\ holder = i => rowLock = Free
    /\ override' = IF seen /\ holder = i THEN t ELSE override
    /\ UNCHANGED <<seen, holder>>

\* The same write, abandoned after exclusiveLeaseWriteTimeout behind the row lock.
RenewTimesOut(i) ==
    /\ WriteTimeouts
    /\ seen /\ holder = i /\ rowLock # Free
    /\ UNCHANGED rowVars

WatcherWrites(i) ==
    /\ firing[i] # None
    /\ RenewRow(i, firing[i]) \/ RenewTimesOut(i)
    /\ firing' = [firing EXCEPT ![i] = None]
    /\ UNCHANGED <<session, beat, rowLock, up, mgrVars, watching, procVars, prod>>

-----------------------------------------------------------------------------
\* AcquireTopic and ReleaseTopic

\* The call of i ends, or fails: the duty of a watcher it has stopped is now its
\* own, and expireLeaseIfWatcherOrphaned computes the grace-period expiry.
EndCall(i) ==
    /\ mgr' = [mgr EXCEPT ![i] = "idle"]
    /\ stopped' = [stopped EXCEPT ![i] = FALSE]
    /\ expiry' = [expiry EXCEPT ![i] = 0]

\* Mutant: a failing call forgets the watcher it has stopped.
FailCallForgetful(i) == EndCall(i)

FailCall(i) ==
    \/ ~stopped[i] /\ EndCall(i)
    \/ /\ stopped[i]
       /\ mgr' = [mgr EXCEPT ![i] = "grace"]
       /\ stopped' = [stopped EXCEPT ![i] = FALSE]
       /\ expiry' = [expiry EXCEPT ![i] = LeaseDur]

Unlocked(x) == IF rowLock = x THEN Free ELSE rowLock

AcquireTopic(i) == StopWatcher(i, "acquire", "try")

ReleaseTopic(i) == StopWatcher(i, "release", "write")

\* tryAcquireTopicLease up to its commit.  InsertTopicIfAbsent inserts the row or
\* locks it, so the read that follows sees the last commit; the session it joins
\* only ever gets later.  The session refresh computes its expiry here.
TryAcquire(i) ==
    /\ mgr[i] = "try"
    /\ rowLock = Free
    /\ \/ /\ holder # i /\ LeaseLive
          /\ mgr' = [mgr EXCEPT ![i] = "wait"]
          /\ UNCHANGED <<rowLock, expiry>>
       \/ /\ ~(holder # i /\ LeaseLive)
          /\ mgr' = [mgr EXCEPT ![i] = "commit"]
          /\ rowLock' = i
          /\ expiry' = [expiry EXCEPT ![i] = LeaseDur]
    /\ UNCHANGED <<rowVars, session, beat, up, stopped, watchVars, procVars, prod>>

\* The commit of the acquire transaction, in the database.
TakeLease(i) ==
    /\ seen' = TRUE
    /\ holder' = i
    /\ override' = None
    /\ session' = [session EXCEPT ![i] = expiry[i]]
    /\ rowLock' = Free

\* The acquire commits and AcquireTopic starts the new watcher.
Acquired(i) ==
    /\ mgr[i] = "commit"
    /\ TakeLease(i)
    /\ watching' = [watching EXCEPT ![i] = TRUE]
    /\ EndCall(i)
    /\ UNCHANGED <<beat, up, firing, procVars, prod>>

\* It commits, and the caller sees an error (a lost connection, a ctx that ends).
CommitAckLost(i) ==
    /\ AckLoss
    /\ mgr[i] = "commit"
    /\ TakeLease(i)
    /\ FailCall(i)
    /\ UNCHANGED <<beat, up, watchVars, procVars, prod>>

\* A statement fails or the ctx of the call ends; the transaction rolls back.
AcquireFails(i) ==
    /\ mgr[i] \in {"try", "commit", "wait"}
    /\ rowLock' = Unlocked(i)
    /\ FailCall(i)
    /\ UNCHANGED <<rowVars, session, beat, up, watchVars, procVars, prod>>

\* exclusiveLeaseRetryInterval has passed.
Retry(i) ==
    /\ mgr[i] = "wait"
    /\ mgr' = [mgr EXCEPT ![i] = "try"]
    /\ UNCHANGED <<rowVars, session, beat, rowLock, up, stopped, expiry, watchVars,
                   procVars, prod>>

\* ReleaseTopic writes an expiry that has passed.
Released(i) ==
    /\ mgr[i] = "write"
    /\ RenewRow(i, 0)
    /\ EndCall(i)
    /\ UNCHANGED <<session, beat, rowLock, up, watchVars, procVars, prod>>

ReleaseFails(i) ==
    /\ mgr[i] = "write"
    /\ UNCHANGED rowVars \/ (AckLoss /\ RenewRow(i, 0))
    /\ FailCall(i)
    /\ UNCHANGED <<session, beat, rowLock, up, watchVars, procVars, prod>>

\* expireLeaseIfWatcherOrphaned writes the grace-period expiry.
GraceWritten(i) ==
    /\ mgr[i] = "grace"
    /\ RenewRow(i, expiry[i]) \/ RenewTimesOut(i)
    /\ EndCall(i)
    /\ UNCHANGED <<session, beat, rowLock, up, watchVars, procVars, prod>>

-----------------------------------------------------------------------------
\* ProcessMessages

\* checkExclusiveAccessForUpdate sends its locking read: without a row there is
\* nothing to lock and the topic is not exclusive, else the statement fixes its
\* snapshot and queues for the row lock.
ProcessBegins(w) ==
    /\ up[Home[w]] = "up"
    /\ proc[w] \in {"idle", "held", "required"}
    /\ \/ /\ ~seen
          /\ proc' = [proc EXCEPT ![w] = "checked"]
          /\ UNCHANGED <<snapHolder, snapSession>>
       \/ /\ seen
          /\ proc' = [proc EXCEPT ![w] = "waiting"]
          /\ snapHolder' = [snapHolder EXCEPT ![w] = holder]
          /\ snapSession' = [snapSession EXCEPT ![w] = SessionOf(holder)]
    /\ UNCHANGED <<rowVars, session, beat, rowLock, up, mgrVars, watchVars, prod>>

\* Mutant: the check compares the expiry and not the holder.
CheckPassesAnyHolder(w) == holder = NoInstance \/ InFuture(ReadAfterWait(w))

CheckPasses(w) ==
    \/ holder = NoInstance
    \/ holder = Home[w] /\ InFuture(ReadAfterWait(w))

\* The read returns with the row lock; a failed check rolls back.
CheckExclusiveAccess(w) ==
    /\ proc[w] = "waiting"
    /\ rowLock = Free
    /\ \/ /\ CheckPasses(w)
          /\ rowLock' = w
          /\ proc' = [proc EXCEPT ![w] = "checked"]
       \/ /\ ~CheckPasses(w)
          /\ proc' = [proc EXCEPT ![w] =
                IF holder # Home[w] /\ InFuture(ReadAfterWait(w)) THEN "held" ELSE "required"]
          /\ UNCHANGED rowLock
    /\ snapHolder' = [snapHolder EXCEPT ![w] = NoInstance]
    /\ snapSession' = [snapSession EXCEPT ![w] = None]
    /\ UNCHANGED <<rowVars, session, beat, up, mgrVars, watchVars, prod>>

\* AcquireMessagesByTopic finds messages (their insert has registered the topic)
\* and the flusher is called.
FlushBegins(w) ==
    /\ proc[w] = "checked"
    /\ seen
    /\ proc' = [proc EXCEPT ![w] = "flushing"]
    /\ UNCHANGED <<rowVars, session, beat, rowLock, up, mgrVars, watchVars, snapHolder,
                   snapSession, prod>>

\* The transaction ends: no messages, a failed flush, or the commit of the deletes.
ProcessEnds(w) ==
    /\ proc[w] \in {"checked", "flushing"}
    /\ proc' = [proc EXCEPT ![w] = "idle"]
    /\ rowLock' = Unlocked(w)
    /\ UNCHANGED <<rowVars, session, beat, up, mgrVars, watchVars, snapHolder, snapSession,
                   prod>>

\* The ctx of the caller ends in the queue.
ProcessCancelled(w) ==
    /\ proc[w] = "waiting"
    /\ proc' = [proc EXCEPT ![w] = "idle"]
    /\ snapHolder' = [snapHolder EXCEPT ![w] = NoInstance]
    /\ snapSession' = [snapSession EXCEPT ![w] = None]
    /\ UNCHANGED <<rowVars, session, beat, rowLock, up, mgrVars, watchVars, prod>>

-----------------------------------------------------------------------------
\* Producers

\* The insert trigger registers a topic that has no committed row, waiting for
\* another transaction that is doing so; its activity bump skips a locked row and
\* one that is recent.
AddMessages(p) ==
    /\ prod[p] = "idle"
    /\ prod' = [prod EXCEPT ![p] = "open"]
    /\ \/ rowLock = Free /\ rowLock' = p
       \/ seen /\ UNCHANGED rowLock
    /\ UNCHANGED <<rowVars, session, beat, up, mgrVars, watchVars, procVars>>

ProducerCommits(p) ==
    /\ prod[p] = "open"
    /\ prod' = [prod EXCEPT ![p] = "idle"]
    /\ seen' = TRUE
    /\ rowLock' = Unlocked(p)
    /\ UNCHANGED <<holder, override, session, beat, up, mgrVars, watchVars, procVars>>

ProducerRollsBack(p) ==
    /\ prod[p] = "open"
    /\ prod' = [prod EXCEPT ![p] = "idle"]
    /\ rowLock' = Unlocked(p)
    /\ UNCHANGED <<rowVars, session, beat, up, mgrVars, watchVars, procVars>>

-----------------------------------------------------------------------------
InstanceStep(i) ==
    \/ NewOutbox(i)
    \/ HeartbeatDelayed(i)
    \/ Heartbeat(i)
    \/ HeartbeatFails(i)
    \/ SweepSession(i)
    \/ Crash(i)
    \/ AcquireTopic(i)
    \/ ReleaseTopic(i)
    \/ StopReturns(i)
    \/ HoldCtxEnds(i)
    \/ WatcherWrites(i)
    \/ TryAcquire(i)
    \/ Acquired(i)
    \/ CommitAckLost(i)
    \/ AcquireFails(i)
    \/ Retry(i)
    \/ Released(i)
    \/ ReleaseFails(i)
    \/ GraceWritten(i)

WorkerStep(w) ==
    \/ ProcessBegins(w)
    \/ CheckExclusiveAccess(w)
    \/ FlushBegins(w)
    \/ ProcessEnds(w)
    \/ ProcessCancelled(w)

ProducerStep(p) ==
    \/ AddMessages(p)
    \/ ProducerCommits(p)
    \/ ProducerRollsBack(p)

Next ==
    \/ Tick
    \/ \E i \in Instance : InstanceStep(i)
    \/ \E w \in Worker : WorkerStep(w)
    \/ \E p \in Producer : ProducerStep(p)

Spec == Init /\ [][Next]_vars

\* The next step of a call that is left alone.
CallStep(i) ==
    \/ StopReturns(i)
    \/ TryAcquire(i)
    \/ Acquired(i)
    \/ Retry(i)
    \/ Released(i)
    \/ GraceWritten(i)

\* Time passes, a transaction that holds the row lock ends, and PostgreSQL serves
\* the queue for a row lock in order, so a statement that is again and again able
\* to run does run.  The heartbeat has a goroutine and a timer of its own.  Nothing
\* makes a user call AcquireTopic or a ctx end.
Fairness ==
    /\ WF_vars(Tick)
    /\ \A i \in Instance :
        /\ SF_vars(CallStep(i))
        /\ SF_vars(WatcherWrites(i))
        /\ SF_vars(Heartbeat(i))
    /\ \A w \in Worker : WF_vars(ProcessEnds(w))
    /\ \A p \in Producer : WF_vars(ProducerCommits(p))

FairSpec == Spec /\ Fairness

-----------------------------------------------------------------------------
(***************************************************************************)
(* Type correctness.  It includes which local values are in use when: an   *)
(* instance or a worker that is not in a call keeps none.                  *)
(***************************************************************************)
TypeOK ==
    /\ seen \in BOOLEAN
    /\ holder \in Holder
    /\ override \in Expiry
    /\ session \in [Instance -> Expiry]
    /\ beat \in [Instance -> Expiry]
    /\ rowLock \in Instance \cup Worker \cup Producer \cup {Free}
    /\ up \in [Instance -> {"new", "up", "down"}]
    /\ mgr \in [Instance -> MgrState]
    /\ stopped \in [Instance -> BOOLEAN]
    /\ expiry \in [Instance -> Lifetime]
    /\ watching \in [Instance -> BOOLEAN]
    /\ firing \in [Instance -> Expiry]
    /\ proc \in [Worker -> ProcState]
    /\ snapHolder \in [Worker -> Holder]
    /\ snapSession \in [Worker -> Expiry]
    /\ prod \in [Producer -> {"idle", "open"}]

(***************************************************************************)
(* A flush runs only while its instance is the registered holder, or while *)
(* the topic has none: the row lock taken by the check is kept until the   *)
(* deletes commit, so no acquire can move the lease under a running flush  *)
(* (checkExclusiveAccessForUpdate, "closes the gap between validating      *)
(* ownership and committing the work done under it").                      *)
(***************************************************************************)
ExclusiveFlush ==
    \A w \in Worker : proc[w] = "flushing" => holder \in {NoInstance, Home[w]}

(***************************************************************************)
(* A running hold defers to the session: nothing left over from an earlier *)
(* hold of this instance (a fired watcher, a release, a grace period) has  *)
(* put an expiry on the lease that AcquireTopic has just returned, which   *)
(* no heartbeat would then keep alive (AcquireTopic: "the acquire always   *)
(* has the last word").                                                    *)
(***************************************************************************)
HoldDeferred ==
    \A i \in Instance : watching[i] /\ holder = i => override = None

(***************************************************************************)
(* A lease that defers to the session of a running instance has somebody   *)
(* who will end it: a watcher, a fired watcher that has yet to write, or a *)
(* call that has taken that duty over (AcquireTopic: "the old lease would  *)
(* stay session-deferred forever with nothing left to expire it").         *)
(***************************************************************************)
EndsTheHold(i) ==
    \/ watching[i]
    \/ firing[i] # None
    \/ mgr[i] # "idle" /\ stopped[i]
    \/ mgr[i] = "grace"

NoStrandedLease ==
    \A i \in Instance :
        up[i] = "up" /\ holder = i /\ override = None => EndsTheHold(i)

(***************************************************************************)
(* As long as an instance runs, renews its session in time and neither     *)
(* ends nor releases its hold, nobody takes the lease from it: not an      *)
(* acquire that had read an older row, nor a registration of the topic.    *)
(***************************************************************************)
HoldNeverStolen ==
    [][\A i \in Instance :
        holder = i /\ watching[i] /\ up[i] = "up" => holder' = i]_vars

(***************************************************************************)
(* ErrExclusiveLeaseHeld is the truth at the moment it is returned, however *)
(* long the locking read has waited since it fixed its snapshot: another   *)
(* instance has the lease, and it is live.                                 *)
(***************************************************************************)
HeldIsTrue ==
    [][\A w \in Worker :
        proc[w] # "held" /\ proc'[w] = "held" => holder # Home[w] /\ LeaseLive]_vars

(***************************************************************************)
(* Failover: an instance that keeps trying to acquire does not wait for    *)
(* ever for a holder that has crashed.                                     *)
(***************************************************************************)
HolderCrashed == holder \in Instance /\ up[holder] = "down"

Acquiring(i) == mgr[i] \in {"acquire", "try", "commit", "wait"}

CrashedHolderReplaced ==
    \A i \in Instance : Acquiring(i) /\ HolderCrashed ~> ~Acquiring(i) \/ ~HolderCrashed

(***************************************************************************)
(* A hold that its user has ended, by cancelling the ctx of AcquireTopic,  *)
(* by ReleaseTopic or by a later AcquireTopic that failed, does not keep   *)
(* the lease alive for ever, whatever the heartbeat does: the lease lapses,*)
(* moves on, or is taken into another call.                                *)
(***************************************************************************)
Abandoned(i) == holder = i /\ up[i] = "up" /\ ~watching[i] /\ mgr[i] \notin {"acquire", "try", "commit"}

AbandonedLeaseLapses ==
    \A i \in Instance : Abandoned(i) /\ LeaseLive ~> ~(Abandoned(i) /\ LeaseLive)

-----------------------------------------------------------------------------
(***************************************************************************)
(* Inductive invariants.                                                   *)
(*                                                                         *)
(* On a registered topic, a ProcessMessages call that has passed its check *)
(* owns the row lock until it ends, an acquire that will write the lease   *)
(* owns it too, and the holder the check has seen has not changed.         *)
(***************************************************************************)
LockInv ==
    /\ seen
    /\ \A w \in Worker : proc[w] \in {"checked", "flushing"} =>
            rowLock = w /\ holder \in {NoInstance, Home[w]}
    /\ \A i \in Instance : mgr[i] = "commit" => rowLock = i

(***************************************************************************)
(* On any topic, a call that owns the row lock is between its check and    *)
(* its end, and the holder its check has seen has not changed.             *)
(***************************************************************************)
OwnerInv ==
    /\ \A w \in Worker : rowLock = w =>
            proc[w] \in {"checked", "flushing"} /\ holder \in {NoInstance, Home[w]}
    /\ \A i \in Instance : mgr[i] = "commit" => rowLock = i

(***************************************************************************)
(* An instance has one source of lease writes at a time: a watcher waits   *)
(* only between calls, and a fired watcher outlives no entry of a call     *)
(* into Stop.                                                              *)
(***************************************************************************)
OneWriter(i) ==
    /\ watching[i] => mgr[i] = "idle" /\ firing[i] = None
    /\ firing[i] # None => mgr[i] \in {"idle", "acquire", "release"}

WatcherInv ==
    /\ \A i \in Instance : OneWriter(i)
    /\ HoldDeferred

(***************************************************************************)
(* When no reply is lost and no write abandoned, the duty to end a hold is *)
(* handed from the watcher to the call that stops it and on to the expiry  *)
(* that the call writes.                                                   *)
(***************************************************************************)
DutyInv ==
    /\ \A i \in Instance :
        /\ OneWriter(i)
        /\ mgr[i] \in {"acquire", "release"} => stopped[i]
        /\ mgr[i] # "idle" \/ watching[i] \/ firing[i] # None => up[i] # "new"
        /\ holder = i => seen /\ up[i] # "new"
    /\ NoStrandedLease

(***************************************************************************)
(* The session in the snapshot of a waiting locking read is never later    *)
(* than the one in the table: when no heartbeat is delayed, a session row  *)
(* that is replaced is replaced by a later expiry.                         *)
(***************************************************************************)
SnapshotInv ==
    /\ holder = NoInstance => override = None
    /\ \A i \in Instance :
        /\ mgr[i] # "idle" => up[i] = "up"
        /\ mgr[i] = "commit" => expiry[i] >= session[i]
    /\ \A w \in Worker : snapSession[w] > 0 =>
            snapHolder[w] \in Instance /\ session[snapHolder[w]] >= snapSession[w]

(***************************************************************************)
(* A heartbeat that is late is still on its way to a live session.         *)
(***************************************************************************)
BeatInv == \A i \in Instance : beat[i] # None => up[i] = "up" /\ beat[i] > 0

(***************************************************************************)
(* When session writes land in time, the session under a running hold is   *)
(* live, and no other acquire is between its decision and its commit.      *)
(***************************************************************************)
HoldInv ==
    \A i \in Instance :
        /\ mgr[i] # "idle" \/ watching[i] => up[i] = "up"
        /\ mgr[i] = "commit" => rowLock = i /\ expiry[i] > 0
        /\ holder = i /\ watching[i] => session[i] > 0 /\ \A j \in Instance : mgr[j] # "commit"

=============================================================================
