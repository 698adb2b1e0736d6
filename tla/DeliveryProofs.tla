--------------------------- MODULE DeliveryProofs ---------------------------
(***************************************************************************)
(* Theorems about Delivery, for any sets of producers and workers, any     *)
(* number of messages and any batch size.                                  *)
(***************************************************************************)
EXTENDS Delivery, TLAPS

-----------------------------------------------------------------------------
\* The inductive invariant

\* The messages of an open transaction are staged and its own, and ids that were
\* not handed out have no row.
StagedByOne ==
    /\ \A p \in Producer : \A m \in tx[p] : m <= lastId /\ row[m] = "staged"
    /\ \A p, q \in Producer : p # q => tx[p] \cap tx[q] = {}
    /\ \A m \in Id : m > lastId => row[m] = "none"

\* A call holds the locks of exactly the messages of its batch, and it has one only
\* between AcquireMessagesByTopic and the end of the transaction.
BatchLocked ==
    /\ \A w \in Worker : \A m \in Id : m \in batch[w] <=> msgLock[m] = w
    /\ \A w \in Worker : \A m \in batch[w] : row[m] = "live"
    /\ \A w \in Worker : batch[w] # {} => proc[w] \in {"flushing", "flushed"}
    /\ \A w \in Worker : proc[w] = "flushed" => batch[w] \subseteq sent

\* The DELETE of maintenance locks what it found, and only what is still there.
SweepLocked ==
    /\ \A m \in Id :
          msgLock[m] = Sweeper => sweep = "delete" /\ m \in doomed /\ row[m] = "live"
    /\ \A m \in doomed : row[m] \in {"live", "gone"}
    /\ \A m \in expired : row[m] = "gone"

IInv ==
    /\ TypeOK
    /\ StagedByOne
    /\ BatchLocked
    /\ SweepLocked
    /\ RelayedOnce
    /\ SentBeforeDeleted

-----------------------------------------------------------------------------
\* Types

(***************************************************************************)
(* Writing one state into some rows, and releasing the locks of one owner, *)
(* keep the types of the table and of the lock tables; a batch is part of  *)
(* the messages it is taken from.                                          *)
(***************************************************************************)
LEMMA HelperFacts ==
    ASSUME TypeOK
    PROVE  /\ \A S \in SUBSET Id : \A state \in {"none", "staged", "live", "gone"} :
                  Become(S, state) \in [Id -> {"none", "staged", "live", "gone"}]
           /\ \A x : TopicUnlocked(x) \in Producer \cup Worker \cup {Free}
           /\ \A x : MsgsUnlocked(x) \in [Id -> Worker \cup {Sweeper, Free}]
           /\ \A n, S : Lowest(n, S) \subseteq S
  BY DEF TypeOK, Become, TopicUnlocked, MsgsUnlocked, Lowest

(***************************************************************************)
(* The id that AddMessage takes is one of the identity column.             *)
(***************************************************************************)
LEMMA NextId ==
    ASSUME TypeOK, lastId < MaxId
    PROVE  lastId + 1 \in Id /\ lastId + 1 \in 0..MaxId
  BY BoundsType DEF TypeOK, Id

(***************************************************************************)
(* Every step keeps the types of the tables, of the locks and of the local *)
(* variables of the calls.                                                 *)
(***************************************************************************)
LEMMA StepType ==
    ASSUME TypeOK, [Next]_vars
    PROVE  TypeOK'
<1> USE DEF prodVars, workVars, sweepVars
<1>1. ASSUME NEW p \in Producer, ProducerStep(p) PROVE TypeOK'
  <2>1. CASE AddMessage(p)
    BY <2>1, NextId, HelperFacts DEF TypeOK, AddMessage
  <2>2. CASE ProducerCommits(p)
    BY <2>2, HelperFacts DEF TypeOK, ProducerCommits
  <2>3. CASE ProducerRollsBack(p)
    BY <2>3, HelperFacts DEF TypeOK, ProducerRollsBack
  <2> QED
    BY <1>1, <2>1, <2>2, <2>3 DEF ProducerStep
<1>2. ASSUME NEW w \in Worker, WorkerStep(w) PROVE TypeOK'
  <2>1. CASE ProcessBegins(w)
    BY <2>1 DEF TypeOK, ProcessBegins, ProcState
  <2>2. CASE LocksTopic(w)
    BY <2>2 DEF TypeOK, LocksTopic, ProcState
  <2>3. CASE FlushBegins(w)
    <3>1. Lowest(BatchSize, Available) \in SUBSET Id
      BY HelperFacts DEF Available
    <3> QED
      BY <2>3, <3>1 DEF TypeOK, FlushBegins, ProcState
  <2>4. CASE FlushSucceeds(w)
    BY <2>4 DEF TypeOK, FlushSucceeds, ProcState
  <2>5. CASE RollsBack(w)
    BY <2>5, HelperFacts DEF TypeOK, RollsBack, EndCall, ProcState
  <2>6. CASE Commits(w)
    BY <2>6, HelperFacts DEF TypeOK, Commits, EndCall, ProcState
  <2> QED
    BY <1>2, <2>1, <2>2, <2>3, <2>4, <2>5, <2>6 DEF WorkerStep
<1>3. CASE SweeperStep
  <2>1. ASSUME NEW m \in Id, Ages(m) PROVE TypeOK'
    BY <2>1 DEF TypeOK, Ages
  <2>2. ASSUME NEW m \in Id, SweepLocks(m) PROVE TypeOK'
    BY <2>2 DEF TypeOK, SweepLocks
  <2>3. CASE SweepBegins
    BY <2>3 DEF TypeOK, SweepBegins
  <2>4. CASE SweepCommits
    BY <2>4, HelperFacts DEF TypeOK, SweepCommits
  <2>5. CASE SweepFails
    BY <2>5, HelperFacts DEF TypeOK, SweepFails
  <2> QED
    BY <1>3, <2>1, <2>2, <2>3, <2>4, <2>5 DEF SweeperStep
<1>4. CASE UNCHANGED vars
  BY <1>4 DEF TypeOK, vars
<1> QED
  BY <1>1, <1>2, <1>3, <1>4 DEF Next

(***************************************************************************)
(* The tables and the calls start with their types.                        *)
(***************************************************************************)
LEMMA InitType == Init => TypeOK
<1> SUFFICES ASSUME Init PROVE TypeOK
  OBVIOUS
<1>1. lastId \in 0..MaxId
  BY BoundsType DEF Init
<1>2. relayed \in [Id -> Nat]
  BY DEF Init
<1> QED
  BY <1>1, <1>2 DEF Init, TypeOK, ProcState

(***************************************************************************)
(* Type correctness of the outbox tables and of the calls on them.         *)
(***************************************************************************)
THEOREM TypeCorrect == Spec => []TypeOK
<1> QED
  BY InitType, StepType, PTL DEF Spec

-----------------------------------------------------------------------------
\* The steps of producers

(***************************************************************************)
(* AddMessage keeps the invariant: the new id belongs to no transaction    *)
(* and has no row, no lock and no history.                                 *)
(***************************************************************************)
LEMMA AddMessageInv ==
    ASSUME IInv, TypeOK', NEW p \in Producer, AddMessage(p)
    PROVE  IInv'
<1> USE DEF IInv, prodVars, workVars, sweepVars
<1> DEFINE new == lastId + 1
<1>1. new \in Id
  BY NextId DEF AddMessage
<1>2. row[new] = "none"
  BY <1>1 DEF StagedByOne, TypeOK
<1>3. row' = [row EXCEPT ![new] = "staged"]
  BY <1>1, Zenon DEF TypeOK, AddMessage, Become
<1>4. StagedByOne'
  <2>1. /\ \A q \in Producer : tx'[q] = IF q = p THEN tx[p] \cup {new} ELSE tx[q]
        /\ lastId' = new
    BY DEF AddMessage, TypeOK
  <2>2. \A q \in Producer : \A m \in tx[q] : m \in Id /\ m <= lastId /\ m # new
    BY DEF StagedByOne, TypeOK, Id
  <2>3. \A q \in Producer : \A m \in tx'[q] : m <= new /\ row'[m] = "staged"
    BY <1>1, <1>3, <2>1, <2>2 DEF StagedByOne, TypeOK, Id
  <2>4. \A m \in Id : m > new => row'[m] = "none"
    BY <1>3 DEF StagedByOne, TypeOK, Id
  <2> QED
    BY <2>1, <2>2, <2>3, <2>4 DEF StagedByOne
<1>5. BatchLocked'
  BY <1>1, <1>2, <1>3 DEF AddMessage, BatchLocked, TypeOK
<1>6. SweepLocked'
  BY <1>1, <1>2, <1>3 DEF AddMessage, SweepLocked, TypeOK
<1>7. RelayedOnce'
  BY <1>1, <1>2, <1>3 DEF AddMessage, RelayedOnce, TypeOK
<1>8. SentBeforeDeleted'
  BY <1>1, <1>2, <1>3 DEF AddMessage, SentBeforeDeleted, TypeOK
<1> QED
  BY <1>4, <1>5, <1>6, <1>7, <1>8

(***************************************************************************)
(* A commit or a rollback of a producer keeps the invariant: it changes    *)
(* the rows of its own messages, which were staged, so nobody had locked,  *)
(* sent or relayed them.                                                   *)
(***************************************************************************)
LEMMA ProducerEndsInv ==
    ASSUME IInv, TypeOK', NEW p \in Producer, ProducerCommits(p) \/ ProducerRollsBack(p)
    PROVE  IInv'
<1> USE DEF IInv, prodVars, workVars, sweepVars
<1>1. PICK state \in {"live", "none"} : row' = Become(tx[p], state)
  BY DEF ProducerCommits, ProducerRollsBack
<1>2. \A m \in Id : row'[m] = IF m \in tx[p] THEN state ELSE row[m]
  BY <1>1 DEF Become
<1>3. \A m \in tx[p] : m \in Id /\ m <= lastId /\ row[m] = "staged"
  BY DEF StagedByOne, TypeOK
<1>4. /\ tx' = [tx EXCEPT ![p] = {}]
      /\ UNCHANGED <<lastId, msgLock, workVars, sweepVars>>
  BY DEF ProducerCommits, ProducerRollsBack
<1>5. StagedByOne'
  <2>1. \A q \in Producer : tx'[q] = IF q = p THEN {} ELSE tx[q]
    BY <1>4 DEF TypeOK
  <2>2. \A q \in Producer : \A m \in tx'[q] : m <= lastId' /\ row'[m] = "staged"
    BY <2>1, <1>2, <1>4 DEF StagedByOne, TypeOK
  <2>3. \A m \in Id : m > lastId' => row'[m] = "none"
    BY <1>2, <1>3, <1>4 DEF StagedByOne, TypeOK, Id
  <2> QED
    BY <2>1, <2>2, <2>3 DEF StagedByOne
<1>6. BatchLocked'
  BY <1>2, <1>3, <1>4 DEF BatchLocked, TypeOK
<1>7. SweepLocked'
  BY <1>2, <1>3, <1>4 DEF SweepLocked, TypeOK
<1>8. RelayedOnce'
  BY <1>1, <1>2, <1>3, <1>4 DEF RelayedOnce, TypeOK
<1>9. SentBeforeDeleted'
  BY <1>1, <1>2, <1>3, <1>4 DEF SentBeforeDeleted, TypeOK
<1> QED
  BY <1>5, <1>6, <1>7, <1>8, <1>9

-----------------------------------------------------------------------------
\* The steps of ProcessMessages

(***************************************************************************)
(* Reading and locking the topics row concerns no message.                 *)
(***************************************************************************)
LEMMA CallBeginsInv ==
    ASSUME IInv, TypeOK', NEW w \in Worker, ProcessBegins(w) \/ LocksTopic(w)
    PROVE  IInv'
<1> USE DEF IInv, prodVars, workVars, sweepVars
<1>1. /\ \A v \in Worker : proc'[v] = proc[v] \/ v = w
      /\ proc[w] \in {"idle", "waiting"} /\ proc'[w] \in {"waiting", "checked"}
  BY DEF ProcessBegins, LocksTopic, TypeOK
<1>2. UNCHANGED <<prodVars, row, msgLock, batch, sent, relayed, sweepVars>>
  BY DEF ProcessBegins, LocksTopic
<1>3. BatchLocked'
  BY <1>1, <1>2 DEF BatchLocked
<1> QED
  BY <1>2, <1>3 DEF StagedByOne, SweepLocked, RelayedOnce, SentBeforeDeleted

(***************************************************************************)
(* AcquireMessagesByTopic keeps the invariant: FOR UPDATE SKIP LOCKED      *)
(* takes live messages that neither a call nor maintenance has locked.     *)
(***************************************************************************)
LEMMA FlushBeginsInv ==
    ASSUME IInv, TypeOK', NEW w \in Worker, FlushBegins(w)
    PROVE  IInv'
<1> USE DEF IInv, prodVars, workVars, sweepVars
<1> DEFINE B == Lowest(BatchSize, Available)
<1>1. \A m \in B : m \in Id /\ row[m] = "live" /\ msgLock[m] = Free
  BY HelperFacts DEF Available
<1>2. /\ \A v \in Worker : batch'[v] = IF v = w THEN B ELSE batch[v]
      /\ \A v \in Worker : proc'[v] = IF v = w THEN "flushing" ELSE proc[v]
      /\ \A m \in Id : msgLock'[m] = IF m \in B THEN w ELSE msgLock[m]
  BY DEF FlushBegins, TypeOK
<1>3. UNCHANGED <<prodVars, row, sent, relayed, sweepVars>>
  BY DEF FlushBegins
<1>4. batch[w] = {}
  BY DEF FlushBegins, BatchLocked
<1>5. BatchLocked'
  <2>1. \A v \in Worker : \A m \in Id : m \in batch'[v] <=> msgLock'[m] = v
    BY <1>1, <1>2, <1>4, OwnersDistinct DEF BatchLocked
  <2> QED
    BY <1>1, <1>2, <1>3, <2>1 DEF BatchLocked
<1>6. SweepLocked'
  BY <1>2, <1>3, OwnersDistinct DEF SweepLocked
<1> QED
  BY <1>3, <1>5, <1>6 DEF StagedByOne, RelayedOnce, SentBeforeDeleted

(***************************************************************************)
(* A flusher that returns nil has sent its batch, which is live.           *)
(***************************************************************************)
LEMMA FlushSucceedsInv ==
    ASSUME IInv, TypeOK', NEW w \in Worker, FlushSucceeds(w)
    PROVE  IInv'
<1> USE DEF IInv, prodVars, workVars, sweepVars
<1>1. /\ \A v \in Worker : proc'[v] = IF v = w THEN "flushed" ELSE proc[v]
      /\ sent' = sent \cup batch[w]
      /\ UNCHANGED <<prodVars, row, msgLock, batch, relayed, sweepVars>>
  BY DEF FlushSucceeds, TypeOK
<1>2. BatchLocked'
  BY <1>1 DEF BatchLocked
<1>3. SentBeforeDeleted'
  BY <1>1 DEF BatchLocked, SentBeforeDeleted
<1> QED
  BY <1>1, <1>2, <1>3 DEF StagedByOne, SweepLocked, RelayedOnce

(***************************************************************************)
(* The end of a transaction releases exactly the locks of its call.        *)
(***************************************************************************)
LEMMA EndCallFacts ==
    ASSUME TypeOK, NEW w \in Worker, EndCall(w)
    PROVE  /\ \A v \in Worker : batch'[v] = IF v = w THEN {} ELSE batch[v]
           /\ \A v \in Worker : proc'[v] = IF v = w THEN "idle" ELSE proc[v]
           /\ \A m \in Id : msgLock'[m] = IF msgLock[m] = w THEN Free ELSE msgLock[m]
  BY DEF EndCall, TypeOK, MsgsUnlocked

(***************************************************************************)
(* A call that fails gives its batch back; what its flusher has sent by    *)
(* then is still live.                                                     *)
(***************************************************************************)
LEMMA RollsBackInv ==
    ASSUME IInv, TypeOK', NEW w \in Worker, RollsBack(w)
    PROVE  IInv'
<1> USE DEF IInv, prodVars, workVars, sweepVars
<1>1. /\ UNCHANGED <<prodVars, row, relayed, sweepVars>>
      /\ sent \subseteq sent' /\ sent' \subseteq sent \cup batch[w]
  BY DEF RollsBack
<1>2. EndCall(w)
  BY DEF RollsBack
<1>3. BatchLocked'
  <2>1. \A v \in Worker : \A m \in Id : m \in batch'[v] <=> msgLock'[m] = v
    BY <1>2, EndCallFacts, OwnersDistinct DEF BatchLocked
  <2> QED
    BY <1>1, <1>2, <2>1, EndCallFacts DEF BatchLocked
<1>4. SweepLocked'
  BY <1>1, <1>2, EndCallFacts, OwnersDistinct DEF SweepLocked
<1>5. SentBeforeDeleted'
  BY <1>1 DEF BatchLocked, SentBeforeDeleted
<1> QED
  BY <1>1, <1>3, <1>4, <1>5 DEF StagedByOne, RelayedOnce

(***************************************************************************)
(* The commit of a call deletes its batch and relays it: nobody else holds *)
(* one of its messages, it was sent, and it was not relayed before.        *)
(***************************************************************************)
LEMMA CommitsInv ==
    ASSUME IInv, TypeOK', NEW w \in Worker, Commits(w)
    PROVE  IInv'
<1> USE DEF IInv, prodVars, workVars, sweepVars
<1>1. /\ \A m \in Id : row'[m] = IF m \in batch[w] THEN "gone" ELSE row[m]
      /\ \A m \in Id :
            relayed'[m] = IF m \in batch[w] THEN relayed[m] + 1 ELSE relayed[m]
      /\ UNCHANGED <<prodVars, sent, sweepVars>>
  BY DEF Commits, Become
<1>2. EndCall(w)
  BY DEF Commits
<1>3. \A m \in batch[w] :
         m \in Id /\ row[m] = "live" /\ msgLock[m] = w /\ m \in sent /\ m \notin expired
  BY DEF Commits, BatchLocked, SweepLocked, TypeOK
<1>4. StagedByOne'
  <2>1. \A m \in Id : row[m] # "live" => row'[m] = row[m]
    BY <1>1, <1>3
  <2> QED
    BY <1>1, <2>1 DEF StagedByOne, TypeOK
<1>5. BatchLocked'
  <2>1. \A v \in Worker : \A m \in Id : m \in batch'[v] <=> msgLock'[m] = v
    BY <1>2, EndCallFacts, OwnersDistinct DEF BatchLocked
  <2>2. \A v \in Worker : \A m \in batch'[v] : row'[m] = "live"
    BY <1>1, <1>2, <1>3, EndCallFacts DEF BatchLocked, TypeOK
  <2> QED
    BY <1>1, <1>2, <2>1, <2>2, EndCallFacts DEF BatchLocked
<1>6. SweepLocked'
  BY <1>1, <1>2, <1>3, EndCallFacts, OwnersDistinct DEF SweepLocked, TypeOK
<1>7. RelayedOnce'
  BY <1>1, <1>3 DEF RelayedOnce, TypeOK
<1>8. SentBeforeDeleted'
  BY <1>1, <1>3 DEF SentBeforeDeleted, TypeOK
<1> QED
  BY <1>4, <1>5, <1>6, <1>7, <1>8

-----------------------------------------------------------------------------
\* The steps of maintenance

(***************************************************************************)
(* Time, the search of the DELETE and its locks change no row.             *)
(***************************************************************************)
LEMMA SweepRunsInv ==
    ASSUME IInv, TypeOK', SweepBegins \/ \E m \in Id : Ages(m) \/ SweepLocks(m)
    PROVE  IInv'
<1> USE DEF IInv, prodVars, workVars, sweepVars
<1>1. UNCHANGED <<prodVars, row, workVars, expired>>
  BY DEF Ages, SweepBegins, SweepLocks
<1>2. StagedByOne' /\ RelayedOnce' /\ SentBeforeDeleted'
  BY <1>1 DEF StagedByOne, RelayedOnce, SentBeforeDeleted
<1>3. BatchLocked' /\ SweepLocked'
  <2>1. CASE SweepBegins
    BY <1>1, <2>1 DEF SweepBegins, BatchLocked, SweepLocked, TypeOK
  <2>2. ASSUME NEW m \in Id, Ages(m) PROVE BatchLocked' /\ SweepLocked'
    BY <1>1, <2>2 DEF Ages, BatchLocked, SweepLocked
  <2>3. ASSUME NEW m \in Id, SweepLocks(m) PROVE BatchLocked' /\ SweepLocked'
    <3>1. m \in doomed /\ msgLock[m] = Free /\ sweep = "delete" /\ sweep' = sweep
      BY <2>3 DEF SweepLocks
    <3>2. CASE row[m] = "live" /\ msgLock' = [msgLock EXCEPT ![m] = Sweeper]
               /\ UNCHANGED doomed
      <4>1. \A l \in Id : msgLock'[l] = IF l = m THEN Sweeper ELSE msgLock[l]
        BY <3>2 DEF TypeOK
      <4> QED
        BY <1>1, <3>1, <3>2, <4>1, OwnersDistinct DEF BatchLocked, SweepLocked
    <3>3. CASE row[m] = "gone" /\ doomed' = doomed \ {m} /\ UNCHANGED msgLock
      BY <1>1, <3>1, <3>3, OwnersDistinct DEF BatchLocked, SweepLocked
    <3> QED
      BY <2>3, <3>2, <3>3 DEF SweepLocks
  <2> QED
    BY <2>1, <2>2, <2>3
<1> QED
  BY <1>2, <1>3

(***************************************************************************)
(* The end of the DELETE keeps the invariant: what it deletes it has       *)
(* locked, so that no call holds it and it was not relayed.                *)
(***************************************************************************)
LEMMA SweepEndsInv ==
    ASSUME IInv, TypeOK', SweepCommits \/ SweepFails
    PROVE  IInv'
<1> USE DEF IInv, prodVars, workVars, sweepVars
<1>1. /\ UNCHANGED <<prodVars, workVars>>
      /\ doomed' = {}
      /\ \A m \in Id : msgLock'[m] = IF msgLock[m] = Sweeper THEN Free ELSE msgLock[m]
  BY DEF SweepCommits, SweepFails, MsgsUnlocked
<1>2. PICK D \in SUBSET doomed :
         /\ \A m \in Id : row'[m] = IF m \in D THEN "gone" ELSE row[m]
         /\ expired' = expired \cup D
         /\ \A m \in D : msgLock[m] = Sweeper
  <2>1. CASE SweepCommits
    BY <2>1 DEF SweepCommits, Become
  <2>2. CASE SweepFails
    <3> WITNESS {} \in SUBSET doomed
    <3> QED
      BY <2>2 DEF SweepFails
  <2> QED
    BY <2>1, <2>2
<1>3. \A m \in D :
         m \in Id /\ row[m] = "live" /\ \A w \in Worker : m \notin batch[w]
  BY <1>2, OwnersDistinct DEF SweepLocked, BatchLocked, TypeOK
<1>4. StagedByOne'
  <2>1. \A m \in Id : row[m] # "live" => row'[m] = row[m]
    BY <1>2, <1>3
  <2> QED
    BY <1>1, <2>1 DEF StagedByOne, TypeOK
<1>5. BatchLocked'
  <2>1. \A v \in Worker : \A m \in Id : m \in batch'[v] <=> msgLock'[m] = v
    BY <1>1, OwnersDistinct DEF BatchLocked
  <2>2. \A v \in Worker : \A m \in batch'[v] : row'[m] = "live"
    BY <1>1, <1>2, <1>3 DEF BatchLocked, TypeOK
  <2> QED
    BY <1>1, <2>1, <2>2 DEF BatchLocked
<1>6. SweepLocked'
  BY <1>1, <1>2, <1>3, OwnersDistinct DEF SweepLocked, TypeOK
<1>7. RelayedOnce'
  BY <1>1, <1>2, <1>3 DEF RelayedOnce, TypeOK
<1>8. SentBeforeDeleted'
  BY <1>1, <1>2, <1>3 DEF SentBeforeDeleted, TypeOK
<1> QED
  BY <1>4, <1>5, <1>6, <1>7, <1>8

-----------------------------------------------------------------------------
\* The theorems

(***************************************************************************)
(* IInv holds of an empty outbox.                                          *)
(***************************************************************************)
LEMMA InitInv == Init => IInv
<1> SUFFICES ASSUME Init PROVE IInv
  OBVIOUS
<1>1. \A m \in Id : row[m] = "none" /\ msgLock[m] = Free /\ relayed[m] = 0
  BY DEF Init
<1> QED
  BY <1>1, InitType, OwnersDistinct
     DEF Init, IInv, StagedByOne, BatchLocked, SweepLocked, RelayedOnce,
         SentBeforeDeleted

(***************************************************************************)
(* IInv is kept by every step of producers, calls and maintenance.         *)
(***************************************************************************)
LEMMA StepInv ==
    ASSUME IInv, [Next]_vars
    PROVE  IInv'
<1>1. TypeOK'
  BY StepType DEF IInv
<1>2. CASE UNCHANGED vars
  BY <1>2 DEF vars, IInv, TypeOK, StagedByOne, BatchLocked, SweepLocked, RelayedOnce,
              SentBeforeDeleted
<1>3. ASSUME NEW p \in Producer, ProducerStep(p) PROVE IInv'
  BY <1>1, <1>3, AddMessageInv, ProducerEndsInv DEF ProducerStep
<1>4. ASSUME NEW w \in Worker, WorkerStep(w) PROVE IInv'
  BY <1>1, <1>4, CallBeginsInv, FlushBeginsInv, FlushSucceedsInv, RollsBackInv, CommitsInv
     DEF WorkerStep
<1>5. CASE SweeperStep
  BY <1>1, <1>5, SweepRunsInv, SweepEndsInv DEF SweeperStep
<1> QED
  BY <1>2, <1>3, <1>4, <1>5 DEF Next

(***************************************************************************)
(* The inductive invariant holds in every behaviour of the outbox.         *)
(***************************************************************************)
THEOREM Inductive == Spec => []IInv
  BY InitInv, StepInv, PTL DEF Spec

(***************************************************************************)
(* The flusher's writes through ctx.Tx() are committed exactly once for    *)
(* each message that leaves the table other than by its expiration.        *)
(***************************************************************************)
THEOREM RelayedExactlyOnce == Spec => []RelayedOnce
<1>1. IInv => RelayedOnce
  BY DEF IInv
<1> QED
  BY <1>1, Inductive, PTL

(***************************************************************************)
(* A message is deleted only after a flush of it has succeeded, unless it  *)
(* expired, and is flushed only after the transaction that added it has    *)
(* committed.                                                              *)
(***************************************************************************)
THEOREM AtLeastOnce == Spec => []SentBeforeDeleted
<1>1. IInv => SentBeforeDeleted
  BY DEF IInv
<1> QED
  BY <1>1, Inductive, PTL

(***************************************************************************)
(* Any number of calls flush side by side, each a batch of its own that no *)
(* other call and no maintenance deletes under it.                         *)
(***************************************************************************)
THEOREM NoSharedMessage == Spec => []BatchesDisjoint
<1>1. IInv => BatchesDisjoint
  BY DEF IInv, BatchLocked, BatchesDisjoint, TypeOK
<1> QED
  BY <1>1, Inductive, PTL

-----------------------------------------------------------------------------
\* The refinement of OutboxPromise

\* The refinement mapping: the messages that OutboxPromise sees queued and delivered.
Queued == {m \in Id : row[m] = "live"}
Delivered == {m \in Id : relayed[m] > 0}

(***************************************************************************)
(* A step that neither changes which messages are live nor relays or       *)
(* expires one is a stuttering step of the promise.                        *)
(***************************************************************************)
LEMMA Stutters ==
    ASSUME \A m \in Id : row'[m] = "live" <=> row[m] = "live",
           relayed' = relayed, expired' = expired
    PROVE  UNCHANGED <<Queued, Delivered, expired>>
  BY DEF Queued, Delivered

(***************************************************************************)
(* The steps of a producer: its commit adds the messages of its            *)
(* transaction, and nothing else of it is seen.                            *)
(***************************************************************************)
LEMMA ProducerKeepsPromise ==
    ASSUME IInv, NEW p \in Producer, ProducerStep(p)
    PROVE  [Promise!Next]_<<Queued, Delivered, expired>>
<1> USE DEF IInv, workVars, sweepVars
<1>1. UNCHANGED <<relayed, expired>>
  BY DEF ProducerStep, AddMessage, ProducerCommits, ProducerRollsBack
<1>2. CASE AddMessage(p)
  <2>1. \A m \in Id : row'[m] = IF m = lastId + 1 THEN "staged" ELSE row[m]
    BY <1>2 DEF AddMessage, Become
  <2>2. lastId + 1 \in Id /\ row[lastId + 1] = "none"
    BY <1>2, NextId DEF AddMessage, StagedByOne, TypeOK
  <2> QED
    BY <1>1, <2>1, <2>2, Stutters
<1>3. CASE ProducerRollsBack(p)
  <2>1. \A m \in Id : row'[m] = IF m \in tx[p] THEN "none" ELSE row[m]
    BY <1>3 DEF ProducerRollsBack, Become
  <2> QED
    BY <1>1, <2>1, Stutters DEF StagedByOne
<1>4. CASE ProducerCommits(p)
  <2>1. \A m \in Id : row'[m] = IF m \in tx[p] THEN "live" ELSE row[m]
    BY <1>4 DEF ProducerCommits, Become
  <2>2. PICK S \in SUBSET Id : S = tx[p]
    BY DEF TypeOK
  <2>3. \A m \in S : row[m] = "staged"
    BY <2>2 DEF StagedByOne
  <2>4. S \cap (Queued \cup Delivered \cup expired) = {}
    BY <2>3 DEF Queued, Delivered, RelayedOnce, SweepLocked
  <2>5. Queued' = Queued \cup S
    BY <2>1, <2>2 DEF Queued
  <2> QED
    BY <1>1, <2>4, <2>5 DEF Promise!Next, Promise!Add, Queued, Delivered
<1> QED
  BY <1>2, <1>3, <1>4 DEF ProducerStep

(***************************************************************************)
(* The steps of a call: its commit delivers its batch, and nothing else of *)
(* it is seen.                                                             *)
(***************************************************************************)
LEMMA WorkerKeepsPromise ==
    ASSUME IInv, NEW w \in Worker, WorkerStep(w)
    PROVE  [Promise!Next]_<<Queued, Delivered, expired>>
<1> USE DEF IInv, prodVars, sweepVars
<1>1. UNCHANGED expired
  BY DEF WorkerStep, ProcessBegins, LocksTopic, FlushBegins, FlushSucceeds, RollsBack, Commits
<1>2. CASE Commits(w)
  <2>1. /\ \A m \in Id : row'[m] = IF m \in batch[w] THEN "gone" ELSE row[m]
        /\ \A m \in Id :
              relayed'[m] = IF m \in batch[w] THEN relayed[m] + 1 ELSE relayed[m]
    BY <1>2 DEF Commits, Become
  <2>2. PICK S \in SUBSET Id : S = batch[w]
    BY DEF TypeOK
  <2>3. S \subseteq Queued
    BY <2>2 DEF Queued, BatchLocked
  <2>4. Queued' = Queued \ S
    BY <2>1, <2>2 DEF Queued
  <2>5. Delivered' = Delivered \cup S
    BY <2>1, <2>2 DEF Delivered, TypeOK
  <2> QED
    BY <1>1, <2>3, <2>4, <2>5 DEF Promise!Next, Promise!Deliver, Queued, Delivered
<1>3. CASE ~ Commits(w)
  <2>1. UNCHANGED <<row, relayed>>
    BY <1>3 DEF WorkerStep, ProcessBegins, LocksTopic, FlushBegins, FlushSucceeds, RollsBack
  <2> QED
    BY <1>1, <2>1, Stutters
<1> QED
  BY <1>2, <1>3

(***************************************************************************)
(* The steps of maintenance: the commit of its DELETE expires what it has  *)
(* locked, and nothing else of it is seen.                                 *)
(***************************************************************************)
LEMMA SweeperKeepsPromise ==
    ASSUME IInv, SweeperStep
    PROVE  [Promise!Next]_<<Queued, Delivered, expired>>
<1> USE DEF IInv, workVars
<1>1. UNCHANGED relayed
  BY DEF SweeperStep, Ages, SweepLocks, SweepBegins, SweepCommits, SweepFails
<1>2. CASE SweepCommits
  <2>1. /\ \A m \in Id : row'[m] = IF m \in doomed THEN "gone" ELSE row[m]
        /\ expired' = expired \cup doomed
    BY <1>2 DEF SweepCommits, Become
  <2>2. doomed \subseteq Queued
    BY <1>2 DEF SweepCommits, SweepLocked, Queued, TypeOK
  <2>3. Queued' = Queued \ doomed
    BY <2>1 DEF Queued
  <2>4. PICK S \in SUBSET Id : S = doomed
    BY DEF TypeOK
  <2> QED
    BY <1>1, <2>1, <2>2, <2>3, <2>4
       DEF Promise!Next, Promise!Expire, Queued, Delivered
<1>3. CASE ~ SweepCommits
  <2>1. UNCHANGED <<row, expired>>
    BY <1>3 DEF SweeperStep, Ages, SweepLocks, SweepBegins, SweepFails
  <2> QED
    BY <1>1, <2>1, Stutters
<1> QED
  BY <1>2, <1>3

(***************************************************************************)
(* The tables keep the promise of the outbox: every step of a producer, a  *)
(* call, maintenance or a crash adds, delivers or expires messages that    *)
(* may be added, delivered or expired, or is not seen.                     *)
(***************************************************************************)
THEOREM PromiseKept == Spec => KeepsPromise
<1>1. Init => Promise!Init
  BY DEF Init, Promise!Init
<1>2. IInv /\ [Next]_vars => [Promise!Next]_<<Queued, Delivered, expired>>
  <2> SUFFICES ASSUME IInv, [Next]_vars
               PROVE  [Promise!Next]_<<Queued, Delivered, expired>>
    OBVIOUS
  <2>1. CASE UNCHANGED vars
    BY <2>1, Stutters DEF vars
  <2> QED
    BY <2>1, ProducerKeepsPromise, WorkerKeepsPromise, SweeperKeepsPromise DEF Next
<1> QED
  BY <1>1, <1>2, Inductive, PTL DEF Spec, KeepsPromise, Promise!Spec, Queued, Delivered
=============================================================================
