----------------------------- MODULE Maintenance -----------------------------
(***************************************************************************)
(* The deletion of expired messages: the scanner of every outbox instance, *)
(* the maintenance leases it claims, the loops it manages, their dormancy  *)
(* exit, the consumer sessions the leases defer to, the registration of    *)
(* expirations and the activity stamp of a topic.  Producers and flushes   *)
(* are reduced to what they do to the messages and to the stamp; the row   *)
(* locks between a sweep and a batch are the subject of Delivery.          *)
(***************************************************************************)
EXTENDS Naturals, FiniteSets

CONSTANTS
    Instance,   \* outbox instances; a restarted process is another one
    Legacy,     \* the holder of leases of a version without sessions
    Nobody,     \* the holder of a lease row that is absent
    Topic,
    Message,
    TopicOf,    \* the topic of every message
    Default,    \* WithDefaultExpiration of every instance, 0 for none
    Explicit,   \* WithTopicExpiration of every instance and topic, 0 for none
    Faulty,     \* bound: instances that stop, lose their session or whose statements fail
    Slack,      \* maintenanceActivitySlack
    MaxAge      \* bound: older than any expiration and its slack

ASSUME HoldersDistinct == Legacy # Nobody /\ {Legacy, Nobody} \cap Instance = {}

ASSUME FaultyType == Faulty \subseteq Instance

ASSUME DurationsType ==
    /\ Slack \in Nat \ {0}
    /\ MaxAge \in Nat /\ Slack <= MaxAge
    /\ TopicOf \in [Message -> Topic]
    /\ Default \in [Instance -> Nat]
    /\ Explicit \in [Instance -> [Topic -> Nat]]
    /\ \A i \in Instance, t \in Topic :
        Default[i] + Slack <= MaxAge /\ Explicit[i][t] + Slack <= MaxAge

VARIABLES
    up,         \* "new", "up" or "down": the ctx of NewOutbox
    session,    \* "none", "live" or "lapsed": the row of consumer_sessions
    ttl,        \* topics.expiration_nanos, 0 for NULL
    stamp,      \* the age of topics.last_inserted_at
    row,        \* "none", "live" or "gone"
    age,        \* of a message
    holder,     \* maintenance_leases.holder_id
    fresh,      \* acquired_at is not older than maintenanceLeaseTimeout
    scan,       \* where the scanner of an instance is, and what it has read
    managed,    \* the topics in the managed map
    loop        \* the goroutine of a managed topic

dbVars == <<ttl, stamp, row, age, holder, fresh>>
vars == <<up, session, ttl, stamp, row, age, holder, fresh, scan, managed, loop>>

Holder == Instance \cup {Legacy, Nobody}

\* What a scan has read of a topic: its TTL, its class, and whose its lease is.
Out == [is |-> "out", ttl |-> 0, explicit |-> FALSE]
Idle == [pc |-> "idle", include |-> {}, view |-> [t \in Topic |-> Out]]

\* A goroutine that has not started or has exited.
Over == [pc |-> "over", ttl |-> 0, cancelled |-> FALSE, dormant |-> FALSE, last |-> FALSE]

\* A topic may be registered before, and its lease may be left by a Legacy holder.
Init ==
    /\ up = [i \in Instance |-> "new"]
    /\ session = [i \in Instance |-> "none"]
    /\ ttl = [t \in Topic |-> 0]
    /\ stamp = [t \in Topic |-> MaxAge]
    /\ row = [m \in Message |-> "none"]
    /\ age = [m \in Message |-> 0]
    /\ holder \in [Topic -> {Legacy, Nobody}]
    /\ fresh = [t \in Topic |-> holder[t] = Legacy]
    /\ scan = [i \in Instance |-> Idle]
    /\ managed = [i \in Instance |-> {}]
    /\ loop = [i \in Instance |-> [t \in Topic |-> Over]]

-----------------------------------------------------------------------------
\* Queries

\* Without a row the trigger or ensureTopicRow inserts one, which is then active.
Known(t) ==
    ttl[t] # 0 \/ stamp[t] < MaxAge \/ \E m \in Message : TopicOf[m] = t /\ row[m] # "none"

Live(t) == {m \in Message : TopicOf[m] = t /\ row[m] = "live"}

Deleted(S) ==
    /\ row' = [m \in Message |-> IF m \in S THEN "gone" ELSE row[m]]
    /\ age' = [m \in Message |-> IF m \in S THEN 0 ELSE age[m]]

Expired(t, limit) == {m \in Live(t) : age[m] >= limit}

\* Mutant: liveness of a lease looks at sessions only.
GoneSessionOnly(t) == holder[t] \in Instance /\ session[holder[t]] = "lapsed"

\* lease_expired: the session of the holder decides, without one acquired_at.
Gone(t) ==
    IF holder[t] \in Instance /\ session[holder[t]] # "none"
    THEN session[holder[t]] = "lapsed"
    ELSE ~fresh[t]

\* The transaction of a runMaintenance has locked, or inserted, the lease row.
Locked(t) == \E i \in Instance : loop[i][t].pc = "sweep"

-----------------------------------------------------------------------------
\* Time, producers and flushes

Aged(a, oldest) == IF a < oldest THEN a + 1 ELSE a

\* A message as old as any expiration need not grow older.
Oldest == MaxAge - Slack

Tick ==
    /\ stamp' = [t \in Topic |-> Aged(stamp[t], MaxAge)]
    /\ age' = [m \in Message |-> IF row[m] = "live" THEN Aged(age[m], Oldest) ELSE age[m]]
    /\ UNCHANGED <<up, session, ttl, row, holder, fresh, scan, managed, loop>>

\* acquired_at is looked at, and so ages, only when its holder has no session row.
AcquiredAges(t) ==
    /\ fresh[t]
    /\ holder[t] \in Instance => session[holder[t]] = "none"
    /\ fresh' = [fresh EXCEPT ![t] = FALSE]
    /\ UNCHANGED <<up, session, ttl, stamp, row, age, holder, scan, managed, loop>>

\* AddMessages commits.  Both the message and the stamp have the age of its
\* transaction.  The trigger leaves the stamp of a row somebody has locked alone.
AddMessages(m) ==
    LET t == TopicOf[m] IN
    /\ row[m] = "none"
    /\ row' = [row EXCEPT ![m] = "live"]
    /\ \E a \in 0..MaxAge :
        /\ age' = [age EXCEPT ![m] = IF a < Oldest THEN a ELSE Oldest]
        /\ \/ stamp' = [stamp EXCEPT ![t] = IF a < @ THEN a ELSE @]
           \/ Known(t) /\ UNCHANGED stamp
    /\ UNCHANGED <<up, session, ttl, holder, fresh, scan, managed, loop>>

\* ProcessMessages deletes a batch and bumps the stamp to the start of its transaction.
FlushCommits(t) ==
    /\ \E batch \in SUBSET Live(t) \ {{}} : Deleted(batch)
    /\ \E a \in 0..stamp[t] : stamp' = [stamp EXCEPT ![t] = a]
    /\ UNCHANGED <<up, session, ttl, holder, fresh, scan, managed, loop>>

-----------------------------------------------------------------------------
\* Instances

\* NewOutbox publishes its topic expirations, where the first one stays, and its
\* session; a write that fails is logged and not repeated, but for the session.
NewOutbox(i) ==
    /\ up[i] = "new"
    /\ up' = [up EXCEPT ![i] = "up"]
    /\ \E published \in SUBSET {t \in Topic : Explicit[i][t] > 0} :
        /\ ttl' = [t \in Topic |-> IF t \in published /\ ttl[t] = 0 THEN Explicit[i][t] ELSE ttl[t]]
        /\ stamp' = [t \in Topic |-> IF t \in published /\ ~Known(t) THEN 0 ELSE stamp[t]]
    /\ \E s \in {"none", "live"} :
        /\ i \in Faulty \/ s = "live"
        /\ session' = [session EXCEPT ![i] = s]
    /\ UNCHANGED <<row, age, holder, fresh, scan, managed, loop>>

Heartbeat(i) ==
    /\ up[i] = "up"
    /\ session[i] # "live"
    /\ session' = [session EXCEPT ![i] = "live"]
    /\ UNCHANGED <<up, dbVars, scan, managed, loop>>

SessionLapses(i) ==
    /\ i \in Faulty
    /\ session[i] = "live"
    /\ session' = [session EXCEPT ![i] = "lapsed"]
    /\ UNCHANGED <<up, dbVars, scan, managed, loop>>

\* The process crashes, or the ctx of NewOutbox ends and only dormancy exits go on.
\* Other transactions roll back; the leases stay.
Stops(i) ==
    /\ i \in Faulty
    /\ up[i] = "up"
    /\ up' = [up EXCEPT ![i] = "down"]
    /\ scan' = [scan EXCEPT ![i] = Idle]
    /\ managed' = [managed EXCEPT ![i] = {}]
    /\ \E crash \in BOOLEAN :
        loop' = [loop EXCEPT ![i] = [t \in Topic |-> IF crash \/ ~@[t].dormant THEN Over ELSE @[t]]]
    /\ UNCHANGED <<session, dbVars>>

-----------------------------------------------------------------------------
\* The scanner

\* Mutant: a cancelled loop leaves the map before it has exited.
ReapedCancelled(i) == {t \in managed[i] : loop[i][t].pc # "over" /\ ~loop[i][t].cancelled}

Reaped(i) == {t \in managed[i] : loop[i][t].pc # "over"}

\* Mutant: messages are listed for topics.
CatchupMessages(i) == {m \in Message : row[m] = "live"}

Catchup(i) == {t \in Topic : Live(t) # {}}

\* reapExitedLoops, and on the catch-up cadence GetTopicsWithMessages and the
\* deletion of session rows that lapsed long ago.
ScanBegins(i, catchup) ==
    /\ up[i] = "up"
    /\ scan[i].pc = "idle"
    /\ managed' = [managed EXCEPT ![i] = Reaped(i)]
    /\ scan' = [scan EXCEPT ![i].pc = "begun", ![i].include = IF catchup THEN Catchup(i) ELSE {}]
    /\ \E stranded \in SUBSET {j \in Instance : session[j] = "lapsed"} :
        /\ catchup \/ stranded = {}
        /\ session' = [j \in Instance |-> IF j \in stranded THEN "none" ELSE session[j]]
    /\ UNCHANGED <<up, dbVars, loop>>

TtlFor(i, t) == IF ttl[t] # 0 THEN ttl[t] ELSE Default[i]

Candidate(i, t) ==
    /\ TtlFor(i, t) > 0
    /\ t \in scan[i].include \/ stamp[t] < TtlFor(i, t) + Slack

\* GetMaintenanceCandidateTopics
ScanReads(i) ==
    /\ scan[i].pc = "begun"
    /\ scan' = [scan EXCEPT ![i] = [pc |-> "read", include |-> {}, view |-> [t \in Topic |->
        IF ~Candidate(i, t) THEN Out
        ELSE [is |-> CASE holder[t] = i -> "mine"
                       [] holder[t] = Nobody -> "unleased"
                       [] OTHER -> IF Gone(t) THEN "stale" ELSE "other",
              ttl |-> TtlFor(i, t), explicit |-> ttl[t] # 0]]]]
    /\ UNCHANGED <<up, session, dbVars, managed, loop>>

ScanFails(i) ==
    /\ scan[i].pc = "begun"
    /\ scan' = [scan EXCEPT ![i] = Idle]
    /\ UNCHANGED <<up, session, dbVars, managed, loop>>

\* ceil(candidates / instances) - held, at least one
Share(candidates, held, instances) ==
    LET n == IF instances < 1 THEN 1 ELSE instances
        ceiling == (candidates + n - 1) \div n
    IN  IF ceiling > held THEN ceiling - held ELSE 1

Class(i, explicit) ==
    {t \in Topic : scan[i].view[t].is # "out" /\ scan[i].view[t].explicit = explicit}

\* CountLiveConsumerSessions: those that can maintain the topics of a class.
Maintainers(explicit) ==
    {j \in Instance : session[j] = "live" /\ (explicit \/ Default[j] > 0)}

Budget(i, explicit) ==
    LET class == Class(i, explicit) IN
    Share(Cardinality(class), Cardinality({t \in class : scan[i].view[t].is = "mine"}),
          Cardinality(Maintainers(explicit)))

\* InsertMaintenanceLeases loses to a row that is there, or waits until it is;
\* ClaimMaintenanceLeases skips locked rows and those that are alive again.
Winnable(i) ==
    {t \in Topic : ~Locked(t) /\ \/ scan[i].view[t].is = "unleased" /\ holder[t] = Nobody
                                 \/ scan[i].view[t].is = "stale" /\ holder[t] # Nobody /\ Gone(t)}

\* The class of a topic matters to the claims alone, and is dropped after them.
ClaimsAre(i, won) ==
    /\ scan[i].pc = "read"
    /\ \A explicit \in BOOLEAN : Cardinality(won \cap Class(i, explicit)) <= Budget(i, explicit)
    /\ holder' = [t \in Topic |-> IF t \in won THEN i ELSE holder[t]]
    /\ fresh' = [t \in Topic |-> t \in won \/ fresh[t]]
    /\ scan' = [scan EXCEPT ![i].pc = "claimed", ![i].view = [t \in Topic |->
                    IF t \in won \/ @[t].is = "mine"
                    THEN [@[t] EXCEPT !.is = "mine", !.explicit = FALSE]
                    ELSE IF @[t].is = "out" THEN Out ELSE [Out EXCEPT !.is = "other"]]]
    /\ UNCHANGED <<up, session, ttl, stamp, row, age, managed, loop>>

Claims(i) ==
    \E won \in SUBSET Winnable(i) : (won = {} => Winnable(i) = {}) /\ ClaimsAre(i, won)

\* A count or a claim fails; the scan goes on with what the instance holds.
ClaimFails(i) == Winnable(i) # {} /\ ClaimsAre(i, {})

\* Mutant: reconcileLoops only stops loops that have lost their lease.
CancelledIfLost(i, t) ==
    IF scan[i].view[t].is \in {"out", "mine"} THEN loop[i][t]
    ELSE [loop[i][t] EXCEPT !.cancelled = TRUE]

\* A loop stops when its topic is no candidate, or its lease somebody else's.
Cancelled(i, t) ==
    IF scan[i].view[t].is = "mine" \/ loop[i][t].pc = "over" THEN loop[i][t]
    ELSE [loop[i][t] EXCEPT !.cancelled = TRUE, !.dormant = @ \/ scan[i].view[t].is = "out"]

\* reconcileLoops
Reconciles(i) ==
    LET held == {t \in Topic : scan[i].view[t].is = "mine"} IN
    /\ scan[i].pc = "claimed"
    /\ scan' = [scan EXCEPT ![i] = Idle]
    /\ managed' = [managed EXCEPT ![i] = @ \cup held]
    /\ loop' = [loop EXCEPT ![i] = [t \in Topic |->
            IF t \in managed[i] THEN Cancelled(i, t)
            ELSE IF t \in held THEN [Over EXCEPT !.pc = "run", !.ttl = scan[i].view[t].ttl]
            ELSE @[t]]]
    /\ UNCHANGED <<up, session, dbVars>>

-----------------------------------------------------------------------------
\* The loop of a managed topic

Becomes(i, t, state) == loop' = [loop EXCEPT ![i][t] = state]

Goto(i, t, pc) == Becomes(i, t, [loop[i][t] EXCEPT !.pc = pc])

\* A pass is repeated later, the final one is not.
PassEnds(i, t) == IF loop[i][t].last THEN Becomes(i, t, Over) ELSE Goto(i, t, "run")

\* The oldest message has expired, or this is the final pass.
PassDue(i, t) ==
    \/ loop[i][t].pc = "run" /\ ~loop[i][t].cancelled /\ Expired(t, loop[i][t].ttl) # {}
    \/ loop[i][t].pc = "final"

\* Mutant: errLeaseHeld is forgotten.
LoopLocksAnybodys(i, t) ==
    /\ PassDue(i, t)
    /\ ~Locked(t)
    /\ Goto(i, t, "sweep")
    /\ UNCHANGED <<up, session, dbVars, scan, managed>>

\* runMaintenance inserts the lease row or waits for its lock, and gives up if somebody
\* alive holds it.  The holder and its session are those of after a wait; the code may
\* know an older session, and none of a new holder, whose acquired_at then decides.
LoopLocks(i, t) ==
    /\ PassDue(i, t)
    /\ ~Locked(t)
    /\ IF holder[t] \in {i, Nobody} \/ Gone(t) THEN Goto(i, t, "sweep") ELSE PassEnds(i, t)
    /\ UNCHANGED <<up, session, dbVars, scan, managed>>

\* UpdateMaintenanceLease, DeleteExpiredMessages and the commit.
SweepCommits(i, t) ==
    /\ loop[i][t].pc = "sweep"
    /\ Deleted(Expired(t, loop[i][t].ttl))
    /\ holder' = [holder EXCEPT ![t] = i]
    /\ fresh' = [fresh EXCEPT ![t] = TRUE]
    /\ Goto(i, t, IF loop[i][t].last THEN "verify" ELSE "run")
    /\ UNCHANGED <<up, session, ttl, stamp, scan, managed>>

PassFails(i, t) ==
    /\ loop[i][t].pc \in {"sweep", "final", "verify", "release"}
    /\ PassEnds(i, t)
    /\ UNCHANGED <<up, session, dbVars, scan, managed>>

\* A cancelled loop exits, a dormant one through finishDormantTopic.  A sweep under
\* way is rolled back, unless its commit is faster; the final one is not cancelled.
LoopStops(i, t) ==
    /\ loop[i][t].pc \in {"run", "sweep"}
    /\ loop[i][t].cancelled /\ ~loop[i][t].last
    /\ Becomes(i, t, IF loop[i][t].dormant
                     THEN [loop[i][t] EXCEPT !.pc = "final", !.last = TRUE] ELSE Over)
    /\ UNCHANGED <<up, session, dbVars, scan, managed>>

Verifies(i, t) ==
    /\ loop[i][t].pc = "verify"
    /\ IF Live(t) = {} THEN Goto(i, t, "release") ELSE Becomes(i, t, Over)
    /\ UNCHANGED <<up, session, dbVars, scan, managed>>

\* Mutant: the lease row is deleted whoever holds it.
ReleasesAnybodys(i, t) ==
    /\ loop[i][t].pc = "release"
    /\ ~Locked(t)
    /\ holder' = [holder EXCEPT ![t] = Nobody]
    /\ fresh' = [fresh EXCEPT ![t] = FALSE]
    /\ Becomes(i, t, Over)
    /\ UNCHANGED <<up, session, ttl, stamp, row, age, scan, managed>>

\* ReleaseMaintenanceLease
Releases(i, t) ==
    /\ loop[i][t].pc = "release"
    /\ ~Locked(t)
    /\ holder' = [holder EXCEPT ![t] = IF @ = i THEN Nobody ELSE @]
    /\ fresh' = [fresh EXCEPT ![t] = holder[t] # i /\ @]
    /\ Becomes(i, t, Over)
    /\ UNCHANGED <<up, session, ttl, stamp, row, age, scan, managed>>

-----------------------------------------------------------------------------
ScanStep(i) ==
    \/ \E catchup \in BOOLEAN : ScanBegins(i, catchup)
    \/ ScanReads(i)
    \/ Claims(i)
    \/ Reconciles(i)

LoopStep(i, t) ==
    \/ LoopLocks(i, t)
    \/ SweepCommits(i, t)
    \/ LoopStops(i, t)
    \/ Verifies(i, t)
    \/ Releases(i, t)

Fails(i) ==
    \/ ScanFails(i)
    \/ ClaimFails(i)
    \/ \E t \in Topic : PassFails(i, t)

Next ==
    \/ Tick
    \/ \E m \in Message : AddMessages(m)
    \/ \E t \in Topic : AcquiredAges(t) \/ FlushCommits(t)
    \/ \E i \in Instance :
        \/ NewOutbox(i)
        \/ Heartbeat(i)
        \/ SessionLapses(i)
        \/ Stops(i)
        \/ ScanStep(i)
        \/ \E t \in Topic : LoopStep(i, t)
    \/ \E i \in Faulty : Fails(i)

Spec == Init /\ [][Next]_vars

\* Time passes, goroutines run, the catch-up comes round again and again.  Statements
\* do not fail for ever, and the heartbeat of an instance that stays is on time in the
\* end.  Nothing makes an instance start or stop.
Fairness ==
    /\ WF_vars(Tick)
    /\ \A t \in Topic : WF_vars(AcquiredAges(t))
    /\ WF_vars(\E i \in Instance : Heartbeat(i) \/ (up[i] = "down" /\ SessionLapses(i)))
    /\ \A i \in Instance :
        /\ WF_vars(ScanStep(i))
        /\ SF_vars(ScanBegins(i, TRUE))
        /\ \A t \in Topic : WF_vars(LoopStep(i, t))
    /\ <>[][\A i \in Faulty : ~Fails(i) /\ (SessionLapses(i) => up[i] = "down")]_vars

FairSpec == Spec /\ Fairness

-----------------------------------------------------------------------------
TypeOK ==
    /\ up \in [Instance -> {"new", "up", "down"}]
    /\ session \in [Instance -> {"none", "live", "lapsed"}]
    /\ ttl \in [Topic -> 0..MaxAge]
    /\ stamp \in [Topic -> 0..MaxAge]
    /\ row \in [Message -> {"none", "live", "gone"}]
    /\ age \in [Message -> 0..MaxAge]
    /\ holder \in [Topic -> Holder]
    /\ fresh \in [Topic -> BOOLEAN]
    /\ scan \in [Instance -> [pc : {"idle", "begun", "read", "claimed"},
                              include : SUBSET Topic,
                              view : [Topic -> [is : {"out", "mine", "unleased", "stale", "other"},
                                                ttl : 0..MaxAge, explicit : BOOLEAN]]]]
    /\ managed \in [Instance -> SUBSET Topic]
    /\ loop \in [Instance -> [Topic ->
            [pc : {"over", "run", "sweep", "final", "verify", "release"},
             ttl : 0..MaxAge, cancelled : BOOLEAN, dormant : BOOLEAN, last : BOOLEAN]]]

(***************************************************************************)
(* A topic that reactivates during its dormancy exit never gets a second   *)
(* loop: reconcileLoops starts one only when the last has exited.          *)
(***************************************************************************)
NoSecondLoop ==
    [][\A i \in Instance : \A t \in managed'[i] \ managed[i] : loop[i][t].pc = "over"]_vars

(***************************************************************************)
(* A lease row disappears only as the release of its holder, whoever has   *)
(* taken it over since the topic was found empty ("a lease that was        *)
(* concurrently taken over is never deleted").                             *)
(***************************************************************************)
ReleasedByHolder ==
    [][\A t \in Topic : holder[t] # Nobody /\ holder'[t] = Nobody =>
            holder[t] \in Instance /\ loop[holder[t]][t].pc = "release"]_vars

(***************************************************************************)
(* An instance whose heartbeat is on time keeps a lease until it releases  *)
(* it: no loop that another instance has left over from a lease it lost,   *)
(* and no final pass, takes the topic away.                                *)
(***************************************************************************)
LeaseKept ==
    [][\A t \in Topic : holder[t] \in Instance \ Faulty /\ holder'[t] # holder[t] =>
            loop[holder[t]][t].pc = "release" /\ holder'[t] = Nobody]_vars

(***************************************************************************)
(* Expired messages go away: again and again there is no message that an   *)
(* instance that is up has an expiration for.  Crashes, lapsed sessions,   *)
(* leases of instances that are gone, failed passes, an expiration that    *)
(* is registered late and an activity stamp that was not refreshed do not  *)
(* leave one behind.                                                       *)
(***************************************************************************)
AllExpire ==
    []<>(\A t \in Topic : Live(t) # {} => \A i \in Instance : up[i] = "up" => TtlFor(i, t) = 0)

(***************************************************************************)
(* When no messages are added any more, no loop is left in the end: the    *)
(* scanner stops every goroutine of a topic that has left its candidates,  *)
(* and the dormancy exit comes to its end, whatever fails or changes hands *)
(* in between.  It says nothing of the lease row, see DormantCostsNothing. *)
(***************************************************************************)
QuietLoopsEnd == <>[](\A i \in Instance, t \in Topic : loop[i][t].pc = "over")

\* No messages, and the last insert is longer ago than any TTL and its slack.
Dormant(t) == Live(t) = {} /\ stamp[t] = MaxAge

(***************************************************************************)
(* "Dormant topics cost nothing on any instance: no goroutine, no peek     *)
(* queries, no lease row" (runTopicScanner), "dormant topics carry no      *)
(* lease row at all" (ReleaseMaintenanceLease).  A row that a Legacy       *)
(* instance has left is not held against this version.                     *)
(***************************************************************************)
DormantCostsNothing ==
    <>[](\A t \in Topic : Dormant(t) =>
            holder[t] \notin Instance /\ \A i \in Instance : loop[i][t].pc = "over")

(***************************************************************************)
(* The expiration of a topic takes precedence over the default one         *)
(* (WithTopicExpiration): no message of the topic is deleted before it.    *)
(***************************************************************************)
ExpirationHonoured ==
    [][\A i \in Instance, t \in Topic : SweepCommits(i, t) =>
            \A m \in Live(t) : row'[m] = "gone" => age[m] >= ttl[t]]_vars

=============================================================================
