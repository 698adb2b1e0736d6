------------------------------ MODULE Delivery ------------------------------
(***************************************************************************)
(* The life of the messages of one topic: transactions of producers that   *)
(* add them, ProcessMessages calls that lock, flush and delete batches of  *)
(* them, and the maintenance transaction that deletes expired ones, all    *)
(* competing for row locks of PostgreSQL.  A crash of a process is the     *)
(* rollback of its transactions.  The exclusive lease of the topic is the  *)
(* subject of ExclusiveLease; here the topic has none.                     *)
(***************************************************************************)
EXTENDS Naturals, FiniteSets

CONSTANTS
    MaxId,      \* bound: ids that the identity column hands out
    Producer,   \* transactions that call AddMessages
    Worker,     \* goroutines that call ProcessMessages
    Sweeper,    \* the owner of row locks that runMaintenance holds
    BatchSize,  \* WithBatchSize
    Free        \* nobody holds a row lock

ASSUME BoundsType == MaxId \in Nat /\ BatchSize \in Nat \ {0}

ASSUME OwnersDistinct ==
    /\ Producer \cap Worker = {}
    /\ Free \notin Producer \cup Worker
    /\ Sweeper \notin Producer \cup Worker \cup {Free}

Id == 1..MaxId

VARIABLES
    lastId,     \* the last id handed out
    row,        \* "none", "staged", "live" or "gone": a row of the messages table
    tx,         \* the messages a producer has inserted and not committed
    seen,       \* the topics row is committed
    topicLock,  \* who holds the lock on it, or has inserted it
    msgLock,    \* who holds the lock on a message
    proc,       \* where a ProcessMessages call is
    batch,      \* the messages it has acquired
    sent,       \* messages a flusher has handed to the outside world
    relayed,    \* how often the writes of a flusher through ctx.Tx() are committed
    old,        \* messages that are older than the expiration of the topic
    sweep,      \* "idle" or "delete": the maintenance transaction
    doomed,     \* the messages its DELETE has found
    expired     \* the messages it has deleted for good

prodVars  == <<lastId, tx>>
workVars  == <<proc, batch, sent, relayed>>
sweepVars == <<old, sweep, doomed, expired>>
vars == <<lastId, row, tx, seen, topicLock, msgLock, proc, batch, sent, relayed, old,
          sweep, doomed, expired>>

ProcState == {"idle", "waiting", "checked", "flushing", "flushed"}

Init ==
    /\ lastId = 0
    /\ row = [m \in Id |-> "none"]
    /\ tx = [p \in Producer |-> {}]
    /\ seen = FALSE
    /\ topicLock = Free
    /\ msgLock = [m \in Id |-> Free]
    /\ proc = [w \in Worker |-> "idle"]
    /\ batch = [w \in Worker |-> {}]
    /\ sent = {}
    /\ relayed = [m \in Id |-> 0]
    /\ old = {}
    /\ sweep = "idle"
    /\ doomed = {}
    /\ expired = {}

-----------------------------------------------------------------------------
\* Locks

TopicUnlocked(x) == IF topicLock = x THEN Free ELSE topicLock

MsgsUnlocked(x) == [m \in Id |-> IF msgLock[m] = x THEN Free ELSE msgLock[m]]

Become(S, state) == [m \in Id |-> IF m \in S THEN state ELSE row[m]]

-----------------------------------------------------------------------------
\* Producers

\* AddMessages inserts one more message in the transaction of its caller.  Ids are
\* handed out at once, in whatever order the transactions commit later.  The insert
\* trigger registers an unknown topic, waiting for another transaction that does
\* so; its activity bump takes the lock of a known one, skipping a locked row.
AddMessage(p) ==
    /\ lastId < MaxId
    /\ lastId' = lastId + 1
    /\ row' = Become({lastId + 1}, "staged")
    /\ tx' = [tx EXCEPT ![p] = @ \cup {lastId + 1}]
    /\ \/ topicLock \in {Free, p} /\ topicLock' = p
       \/ seen /\ UNCHANGED topicLock
    /\ UNCHANGED <<seen, msgLock, workVars, sweepVars>>

ProducerCommits(p) ==
    /\ tx[p] # {}
    /\ row' = Become(tx[p], "live")
    /\ tx' = [tx EXCEPT ![p] = {}]
    /\ seen' = TRUE
    /\ topicLock' = TopicUnlocked(p)
    /\ UNCHANGED <<lastId, msgLock, workVars, sweepVars>>

ProducerRollsBack(p) ==
    /\ tx[p] # {}
    /\ row' = Become(tx[p], "none")
    /\ tx' = [tx EXCEPT ![p] = {}]
    /\ topicLock' = TopicUnlocked(p)
    /\ UNCHANGED <<lastId, seen, msgLock, workVars, sweepVars>>

-----------------------------------------------------------------------------
\* ProcessMessages

\* checkExclusiveAccessForUpdate sends its locking read; an unknown topic has no
\* row to lock.
ProcessBegins(w) ==
    /\ proc[w] = "idle"
    /\ proc' = [proc EXCEPT ![w] = IF seen THEN "waiting" ELSE "checked"]
    /\ UNCHANGED <<prodVars, row, seen, topicLock, msgLock, batch, sent, relayed, sweepVars>>

LocksTopic(w) ==
    /\ proc[w] = "waiting"
    /\ topicLock = Free
    /\ topicLock' = w
    /\ proc' = [proc EXCEPT ![w] = "checked"]
    /\ UNCHANGED <<prodVars, row, seen, msgLock, batch, sent, relayed, sweepVars>>

\* Mutant: FOR UPDATE SKIP LOCKED is missing.
AvailableUnskipped == {m \in Id : row[m] = "live"}

Available == {m \in Id : row[m] = "live" /\ msgLock[m] = Free}

\* Mutant: ids are taken for positions that start at 0.
LowestShifted(n, S) == {m - 1 : m \in {l \in S : Cardinality({k \in S : k < l}) < n}}

\* ORDER BY id LIMIT n
Lowest(n, S) == {m \in S : Cardinality({k \in S : k < m}) < n}

\* AcquireMessagesByTopic locks the batch and Flush is called.
FlushBegins(w) ==
    /\ proc[w] = "checked"
    /\ Available # {}
    /\ proc' = [proc EXCEPT ![w] = "flushing"]
    /\ batch' = [batch EXCEPT ![w] = Lowest(BatchSize, Available)]
    /\ msgLock' = [m \in Id |-> IF m \in batch'[w] THEN w ELSE msgLock[m]]
    /\ UNCHANGED <<prodVars, row, seen, topicLock, sent, relayed, sweepVars>>

FlushSucceeds(w) ==
    /\ proc[w] = "flushing"
    /\ proc' = [proc EXCEPT ![w] = "flushed"]
    /\ sent' = sent \cup batch[w]
    /\ UNCHANGED <<prodVars, row, seen, topicLock, msgLock, batch, relayed, sweepVars>>

EndCall(w) ==
    /\ proc' = [proc EXCEPT ![w] = "idle"]
    /\ batch' = [batch EXCEPT ![w] = {}]
    /\ topicLock' = TopicUnlocked(w)
    /\ msgLock' = MsgsUnlocked(w)

\* Mutant: an error of the flusher does not stop the deletes.
RollsBackDeleted(w) ==
    /\ proc[w] # "idle"
    /\ row' = Become(batch[w], "gone")
    /\ UNCHANGED sent
    /\ EndCall(w)
    /\ UNCHANGED <<prodVars, seen, relayed, sweepVars>>

\* Mutant: the deferred rollback is missing.
RollsBackNever(w) ==
    /\ proc[w] # "idle"
    /\ proc' = [proc EXCEPT ![w] = "idle"]
    /\ batch' = [batch EXCEPT ![w] = {}]
    /\ UNCHANGED <<prodVars, row, seen, topicLock, msgLock, sent, relayed, sweepVars>>

\* The call ends without a commit: no messages, a cancelled wait, a flusher that
\* fails after part of its work, a failing delete, bump or commit, or a crash.
RollsBack(w) ==
    /\ proc[w] # "idle"
    /\ proc[w] = "checked" => Available = {}
    /\ \E part \in SUBSET batch[w] :
        /\ proc[w] # "flushing" => part = {}
        /\ sent' = sent \cup part
    /\ EndCall(w)
    /\ UNCHANGED <<prodVars, row, seen, relayed, sweepVars>>

\* Mutant: the deletes are forgotten.
CommitsUndeleted(w) ==
    /\ proc[w] = "flushed"
    /\ relayed' = [m \in Id |-> IF m \in batch[w] THEN relayed[m] + 1 ELSE relayed[m]]
    /\ EndCall(w)
    /\ UNCHANGED <<prodVars, row, seen, sent, sweepVars>>

\* The deletes commit together with what the flusher wrote through ctx.Tx(),
\* whether or not the caller gets the reply.
Commits(w) ==
    /\ proc[w] = "flushed"
    /\ row' = Become(batch[w], "gone")
    /\ relayed' = [m \in Id |-> IF m \in batch[w] THEN relayed[m] + 1 ELSE relayed[m]]
    /\ EndCall(w)
    /\ UNCHANGED <<prodVars, seen, sent, sweepVars>>

-----------------------------------------------------------------------------
\* Maintenance

Ages(m) ==
    /\ row[m] \in {"staged", "live"}
    /\ old' = old \cup {m}
    /\ UNCHANGED <<prodVars, row, seen, topicLock, msgLock, workVars, sweep, doomed, expired>>

\* DeleteExpiredMessages: the DELETE of runMaintenance finds the expired messages.
SweepBegins ==
    /\ sweep = "idle"
    /\ sweep' = "delete"
    /\ doomed' = {m \in old : row[m] = "live"}
    /\ UNCHANGED <<prodVars, row, seen, topicLock, msgLock, workVars, old, expired>>

\* It locks one of them, or waits for its lock and finds it deleted.
SweepLocks(m) ==
    /\ sweep = "delete"
    /\ m \in doomed
    /\ msgLock[m] = Free
    /\ \/ row[m] = "live" /\ msgLock' = [msgLock EXCEPT ![m] = Sweeper] /\ UNCHANGED doomed
       \/ row[m] = "gone" /\ doomed' = doomed \ {m} /\ UNCHANGED msgLock
    /\ UNCHANGED <<prodVars, row, seen, topicLock, workVars, old, sweep, expired>>

\* Mutant: the DELETE does not wait for the locks of a batch.
SweepCommitsUnlocked ==
    /\ sweep = "delete"
    /\ row' = Become(doomed, "gone")
    /\ expired' = expired \cup doomed
    /\ sweep' = "idle"
    /\ doomed' = {}
    /\ msgLock' = MsgsUnlocked(Sweeper)
    /\ UNCHANGED <<prodVars, seen, topicLock, workVars, old>>

SweepCommits ==
    /\ sweep = "delete"
    /\ \A m \in doomed : msgLock[m] = Sweeper
    /\ row' = Become(doomed, "gone")
    /\ expired' = expired \cup doomed
    /\ sweep' = "idle"
    /\ doomed' = {}
    /\ msgLock' = MsgsUnlocked(Sweeper)
    /\ UNCHANGED <<prodVars, seen, topicLock, workVars, old>>

SweepFails ==
    /\ sweep = "delete"
    /\ sweep' = "idle"
    /\ doomed' = {}
    /\ msgLock' = MsgsUnlocked(Sweeper)
    /\ UNCHANGED <<prodVars, row, seen, topicLock, workVars, old, expired>>

-----------------------------------------------------------------------------
ProducerStep(p) == AddMessage(p) \/ ProducerCommits(p) \/ ProducerRollsBack(p)

WorkerStep(w) ==
    \/ ProcessBegins(w)
    \/ LocksTopic(w)
    \/ FlushBegins(w)
    \/ FlushSucceeds(w)
    \/ RollsBack(w)
    \/ Commits(w)

SweeperStep ==
    \/ \E m \in Id : Ages(m) \/ SweepLocks(m)
    \/ SweepBegins
    \/ SweepCommits
    \/ SweepFails

Next ==
    \/ \E p \in Producer : ProducerStep(p)
    \/ \E w \in Worker : WorkerStep(w)
    \/ SweeperStep

Spec == Init /\ [][Next]_vars

\* Some caller keeps calling ProcessMessages, as Subscribe does; among all the flushes
\* that are tried, one succeeds and commits now and then; transactions end, and row
\* locks are granted.  Maintenance does not fail for ever, else its locks could hide a
\* message from every batch.  Nothing makes messages expire.
Fairness ==
    /\ \A p \in Producer : WF_vars(ProducerCommits(p))
    /\ \A w \in Worker : WF_vars(ProcessBegins(w) \/ (proc[w] = "checked" /\ RollsBack(w)))
    /\ WF_vars(\E w \in Worker : FlushBegins(w))
    /\ SF_vars(\E w \in Worker : LocksTopic(w))
    /\ SF_vars(\E w \in Worker : FlushSucceeds(w))
    /\ SF_vars(\E w \in Worker : Commits(w))
    /\ WF_vars((\E m \in Id : SweepLocks(m)) \/ SweepCommits)
    /\ <>[][~SweepFails]_vars

FairSpec == Spec /\ Fairness

-----------------------------------------------------------------------------
TypeOK ==
    /\ lastId \in 0..MaxId
    /\ row \in [Id -> {"none", "staged", "live", "gone"}]
    /\ tx \in [Producer -> SUBSET Id]
    /\ seen \in BOOLEAN
    /\ topicLock \in Producer \cup Worker \cup {Free}
    /\ msgLock \in [Id -> Worker \cup {Sweeper, Free}]
    /\ proc \in [Worker -> ProcState]
    /\ batch \in [Worker -> SUBSET Id]
    /\ sent \in SUBSET Id
    /\ relayed \in [Id -> Nat]
    /\ old \in SUBSET Id
    /\ sweep \in {"idle", "delete"}
    /\ doomed \in SUBSET Id
    /\ expired \in SUBSET Id

(***************************************************************************)
(* Every message that has left the table was either relayed exactly once   *)
(* or expired, and nothing else was relayed: the writes of a flusher       *)
(* through ctx.Tx() commit with the deletes of its batch or not at all,    *)
(* and maintenance never takes a message out of a batch.                   *)
(***************************************************************************)
RelayedOnce ==
    \A m \in Id :
        relayed[m] = IF row[m] = "gone" /\ m \notin expired THEN 1 ELSE 0

(***************************************************************************)
(* At least once: a message that was not expired is deleted only after a   *)
(* flush of it has succeeded; and a message whose transaction has not      *)
(* committed is never handed to a flusher ("discarded if it rolls back").  *)
(***************************************************************************)
SentBeforeDeleted ==
    /\ \A m \in Id : row[m] = "gone" /\ m \notin expired => m \in sent
    /\ \A m \in sent : row[m] \in {"live", "gone"}

(***************************************************************************)
(* Two running flushes never share a message, and no message of a running  *)
(* batch is deleted under it, also when they run side by side because they *)
(* began before the topic had a row to lock.                               *)
(***************************************************************************)
BatchesDisjoint ==
    /\ \A v, w \in Worker : v # w => batch[v] \cap batch[w] = {}
    /\ \A w \in Worker : \A m \in batch[w] : row[m] = "live"

(***************************************************************************)
(* Again and again no committed message is left in the table: each of them *)
(* leaves it, whatever flushes fail on the way and in whatever order ids   *)
(* were committed.                                                         *)
(***************************************************************************)
Drained == []<>(\A m \in Id : row[m] # "live")

(***************************************************************************)
(* The tables keep the promise of OutboxPromise.                           *)
(***************************************************************************)
Promise == INSTANCE OutboxPromise WITH
    Message <- Id,
    queued <- {m \in Id : row[m] = "live"},
    delivered <- {m \in Id : relayed[m] > 0},
    expired <- expired

KeepsPromise == Promise!Spec

=============================================================================
