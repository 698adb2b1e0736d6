-------------------------- MODULE MaintenanceProofs --------------------------
(***************************************************************************)
(* Theorems about Maintenance, for any sets of instances, topics and       *)
(* messages, any expirations and any choice of the instances that fail.    *)
(***************************************************************************)
EXTENDS Maintenance, Integers, TLAPS

-----------------------------------------------------------------------------
\* The inductive invariant

\* Instances that stay up and whose heartbeat is on time.
Punctual == Instance \ Faulty

\* Before NewOutbox there is nothing, and only an instance that is up scans.
StartsEmpty ==
    /\ \A i \in Instance : up[i] = "new" => \A t \in Topic : loop[i][t].pc = "over"
    /\ \A i \in Instance : scan[i].pc # "idle" => up[i] = "up"

\* A goroutine that has not exited is in the managed map, until its scanner is gone.
LoopsManaged ==
    \A i \in Instance : up[i] # "down" =>
        \A t \in Topic : loop[i][t].pc # "over" => t \in managed[i]

\* A lease is held by an instance that was started, or by one of before, and the
\* session of an instance whose heartbeat is on time is live.
SessionsLive ==
    /\ \A t \in Topic : holder[t] \in Instance => up[holder[t]] # "new"
    /\ \A i \in Punctual : up[i] # "new" => session[i] = "live"

\* A sweep holds the row lock of the lease alone, and the lease it will take was not
\* that of another instance whose heartbeat is on time.
SweepsLocked ==
    \A t \in Topic : \A i \in Instance : loop[i][t].pc = "sweep" =>
        /\ holder[t] \notin Punctual \ {i}
        /\ \A j \in Instance : loop[j][t].pc = "sweep" => j = i

IInv ==
    /\ TypeOK
    /\ StartsEmpty
    /\ LoopsManaged
    /\ SessionsLive
    /\ SweepsLocked

-----------------------------------------------------------------------------
\* Types

LoopState ==
    [pc : {"over", "run", "sweep", "final", "verify", "release"},
     ttl : 0..MaxAge, cancelled : BOOLEAN, dormant : BOOLEAN, last : BOOLEAN]

ViewState ==
    [is : {"out", "mine", "unleased", "stale", "other"}, ttl : 0..MaxAge, explicit : BOOLEAN]

ScanState ==
    [pc : {"idle", "begun", "read", "claimed"}, include : SUBSET Topic,
     view : [Topic -> ViewState]]

(***************************************************************************)
(* Growing older keeps ages within the bound; an expiration that a         *)
(* statement uses, explicit or by default, is a time.                      *)
(***************************************************************************)
LEMMA AgeFacts ==
    /\ Oldest \in 0..MaxAge
    /\ \A a \in 0..MaxAge : Aged(a, MaxAge) \in 0..MaxAge /\ Aged(a, Oldest) \in 0..MaxAge
    /\ \A i \in Instance, t \in Topic : Default[i] \in 0..MaxAge /\ Explicit[i][t] \in 0..MaxAge
    /\ TypeOK => \A i \in Instance, t \in Topic : TtlFor(i, t) \in 0..MaxAge
<1> USE DurationsType
<1>1. Oldest \in 0..MaxAge
  BY DEF Oldest
<1>2. \A a \in 0..MaxAge : Aged(a, MaxAge) \in 0..MaxAge /\ Aged(a, Oldest) \in 0..MaxAge
  BY <1>1 DEF Aged
<1>3. ASSUME NEW i \in Instance, NEW t \in Topic
      PROVE  Default[i] \in 0..MaxAge /\ Explicit[i][t] \in 0..MaxAge
  <2>1. Default[i] \in Nat /\ Explicit[i][t] \in Nat
    OBVIOUS
  <2>2. Default[i] + Slack <= MaxAge /\ Explicit[i][t] + Slack <= MaxAge
    OBVIOUS
  <2> QED
    BY <2>1, <2>2
<1>4. TypeOK => \A i \in Instance, t \in Topic : TtlFor(i, t) \in 0..MaxAge
  BY <1>3 DEF TypeOK, TtlFor
<1> QED
  BY <1>1, <1>2, <1>3, <1>4

(***************************************************************************)
(* A DELETE changes rows to gone.                                          *)
(***************************************************************************)
LEMMA DeletedType ==
    ASSUME TypeOK, NEW S, Deleted(S)
    PROVE  /\ row' \in [Message -> {"none", "live", "gone"}]
           /\ age' \in [Message -> 0..MaxAge]
  BY DurationsType DEF TypeOK, Deleted

(***************************************************************************)
(* A step of a loop is a step of no other loop.                            *)
(***************************************************************************)
LEMMA LoopMoves ==
    ASSUME TypeOK, NEW i \in Instance, NEW t \in Topic, NEW s \in LoopState, Becomes(i, t, s)
    PROVE  /\ loop' \in [Instance -> [Topic -> LoopState]]
           /\ loop'[i][t] = s
           /\ \A j \in Instance, u \in Topic : j # i \/ u # t => loop'[j][u] = loop[j][u]
<1>1. loop \in [Instance -> [Topic -> LoopState]]
  BY DEF TypeOK, LoopState
<1> QED
  BY <1>1 DEF Becomes

(***************************************************************************)
(* The states a loop can take: it has exited, or it is somewhere else.     *)
(***************************************************************************)
LEMMA LoopStates ==
    ASSUME TypeOK, NEW i \in Instance, NEW t \in Topic
    PROVE  /\ Over \in LoopState
           /\ \A pc \in {"run", "sweep", "final", "verify", "release"} :
                  [loop[i][t] EXCEPT !.pc = pc] \in LoopState
           /\ [loop[i][t] EXCEPT !.pc = "final", !.last = TRUE] \in LoopState
           /\ \A v \in 0..MaxAge : [Over EXCEPT !.pc = "run", !.ttl = v] \in LoopState
           /\ Cancelled(i, t) \in LoopState /\ Cancelled(i, t).pc = loop[i][t].pc
<1>1. loop[i][t] \in LoopState
  BY DEF TypeOK, LoopState
<1>2. Over \in LoopState
  BY DurationsType DEF Over, LoopState
<1>3. Cancelled(i, t) \in LoopState /\ Cancelled(i, t).pc = loop[i][t].pc
  BY <1>1 DEF Cancelled, LoopState
<1> QED
  BY <1>1, <1>2, <1>3 DEF LoopState, Over

(***************************************************************************)
(* Every step of a loop is one of a goroutine that has not exited, leaves  *)
(* the scanner alone and brings the goroutine to one of its states.        *)
(***************************************************************************)
LEMMA LoopStepFacts ==
    ASSUME TypeOK, NEW i \in Instance, NEW t \in Topic, LoopStep(i, t) \/ PassFails(i, t)
    PROVE  /\ \E s \in LoopState : Becomes(i, t, s)
           /\ loop[i][t].pc # "over"
           /\ UNCHANGED <<up, session, ttl, stamp, scan, managed>>
<1> USE LoopStates DEF Goto, dbVars
<1>1. CASE PassFails(i, t)
  BY <1>1 DEF PassFails, PassEnds
<1>2. CASE LoopLocks(i, t)
  BY <1>2 DEF LoopLocks, PassDue, PassEnds
<1>3. CASE SweepCommits(i, t)
  BY <1>3 DEF SweepCommits
<1>4. CASE LoopStops(i, t)
  BY <1>4 DEF LoopStops
<1>5. CASE Verifies(i, t)
  BY <1>5 DEF Verifies
<1>6. CASE Releases(i, t)
  BY <1>6 DEF Releases
<1> QED
  BY <1>1, <1>2, <1>3, <1>4, <1>5, <1>6 DEF LoopStep

(***************************************************************************)
(* Time, producers and flushes keep the types.                             *)
(***************************************************************************)
LEMMA TopicStepType ==
    ASSUME TypeOK,
           \/ Tick
           \/ \E m \in Message : AddMessages(m)
           \/ \E t \in Topic : AcquiredAges(t) \/ FlushCommits(t)
    PROVE  TypeOK'
<1> USE DurationsType
<1>1. CASE Tick
  <2>1. /\ stamp' \in [Topic -> 0..MaxAge]
        /\ age' \in [Message -> 0..MaxAge]
    BY <1>1, AgeFacts DEF Tick, TypeOK
  <2> QED
    BY <1>1, <2>1 DEF Tick, TypeOK
<1>2. ASSUME NEW m \in Message, AddMessages(m) PROVE TypeOK'
  <2>1. PICK a \in 0..MaxAge :
          /\ age' = [age EXCEPT ![m] = IF a < Oldest THEN a ELSE Oldest]
          /\ \/ stamp' = [stamp EXCEPT ![TopicOf[m]] =
                              IF a < stamp[TopicOf[m]] THEN a ELSE stamp[TopicOf[m]]]
             \/ UNCHANGED stamp
    BY <1>2, Zenon DEF AddMessages
  <2>2. age' \in [Message -> 0..MaxAge]
    BY <2>1, AgeFacts DEF TypeOK
  <2>3. stamp' \in [Topic -> 0..MaxAge]
    BY <2>1 DEF TypeOK
  <2>4. row' \in [Message -> {"none", "live", "gone"}]
    BY <1>2 DEF AddMessages, TypeOK
  <2> QED
    BY <1>2, <2>2, <2>3, <2>4 DEF AddMessages, TypeOK
<1>3. ASSUME NEW t \in Topic, AcquiredAges(t) PROVE TypeOK'
  BY <1>3 DEF AcquiredAges, TypeOK
<1>4. ASSUME NEW t \in Topic, FlushCommits(t) PROVE TypeOK'
  <2>1. stamp' \in [Topic -> 0..MaxAge]
    BY <1>4 DEF FlushCommits, TypeOK
  <2>2. PICK batch \in SUBSET Live(t) \ {{}} : Deleted(batch)
    BY <1>4 DEF FlushCommits
  <2> QED
    BY <1>4, <2>1, <2>2, DeletedType DEF FlushCommits, TypeOK
<1> QED
  BY <1>1, <1>2, <1>3, <1>4

(***************************************************************************)
(* The life of an instance and of its session keeps the types.             *)
(***************************************************************************)
LEMMA InstanceStepType ==
    ASSUME TypeOK, NEW i \in Instance,
           NewOutbox(i) \/ Heartbeat(i) \/ SessionLapses(i) \/ Stops(i)
    PROVE  TypeOK'
<1> USE DurationsType DEF dbVars
<1>1. CASE NewOutbox(i)
  <2>1. ttl' \in [Topic -> 0..MaxAge] /\ stamp' \in [Topic -> 0..MaxAge]
    BY <1>1, AgeFacts DEF NewOutbox, TypeOK
  <2>2. /\ up' \in [Instance -> {"new", "up", "down"}]
        /\ session' \in [Instance -> {"none", "live", "lapsed"}]
    BY <1>1 DEF NewOutbox, TypeOK
  <2> QED
    BY <1>1, <2>1, <2>2 DEF NewOutbox, TypeOK
<1>2. CASE Heartbeat(i) \/ SessionLapses(i)
  BY <1>2 DEF Heartbeat, SessionLapses, TypeOK
<1>3. CASE Stops(i)
  <2>1. loop' \in [Instance -> [Topic -> LoopState]]
    <3>1. loop \in [Instance -> [Topic -> LoopState]]
      BY DEF TypeOK, LoopState
    <3>2. PICK crash \in BOOLEAN :
            loop' = [loop EXCEPT ![i] =
                [t \in Topic |-> IF crash \/ ~loop[i][t].dormant THEN Over ELSE loop[i][t]]]
      BY <1>3 DEF Stops
    <3>3. \A t \in Topic :
            (IF crash \/ ~loop[i][t].dormant THEN Over ELSE loop[i][t]) \in LoopState
      BY <3>1, LoopStates
    <3> QED
      BY <3>1, <3>2, <3>3
  <2>2. scan' \in [Instance -> ScanState]
    <3>1. scan \in [Instance -> ScanState]
      BY DEF TypeOK, ScanState, ViewState
    <3>2. Idle \in ScanState
      BY DEF Idle, Out, ScanState, ViewState
    <3> QED
      BY <1>3, <3>1, <3>2 DEF Stops
  <2>3. /\ up' \in [Instance -> {"new", "up", "down"}]
        /\ managed' \in [Instance -> SUBSET Topic]
    BY <1>3 DEF Stops, TypeOK
  <2> QED
    BY <1>3, <2>1, <2>2, <2>3 DEF Stops, TypeOK, LoopState, ScanState, ViewState
<1> QED
  BY <1>1, <1>2, <1>3

(***************************************************************************)
(* The scanner keeps the types.                                            *)
(***************************************************************************)
LEMMA ScanStepType ==
    ASSUME TypeOK, NEW i \in Instance, ScanStep(i) \/ ScanFails(i) \/ ClaimFails(i)
    PROVE  TypeOK'
<1> USE DurationsType DEF dbVars
<1> DEFINE ScanType == scan \in [Instance -> ScanState]
<1>1. ScanType /\ scan[i] \in ScanState
  BY DEF TypeOK, ScanState, ViewState
<1>2. Idle \in ScanState
  BY DEF Idle, Out, ScanState, ViewState
<1>3. ASSUME NEW catchup \in BOOLEAN, ScanBegins(i, catchup) PROVE TypeOK'
  <2>1. Catchup(i) \in SUBSET Topic /\ Reaped(i) \in SUBSET Topic
    BY DEF Catchup, Reaped, TypeOK
  <2>2. ScanType'
    BY <1>1, <1>3, <2>1 DEF ScanBegins, ScanState
  <2>3. /\ managed' \in [Instance -> SUBSET Topic]
        /\ session' \in [Instance -> {"none", "live", "lapsed"}]
    BY <1>3, <2>1 DEF ScanBegins, TypeOK
  <2> QED
    BY <1>3, <2>2, <2>3 DEF ScanBegins, TypeOK, ScanState, ViewState
<1>4. CASE ScanReads(i)
  <2> DEFINE view == [t \in Topic |->
          IF ~Candidate(i, t) THEN Out
          ELSE [is |-> CASE holder[t] = i -> "mine"
                         [] holder[t] = Nobody -> "unleased"
                         [] OTHER -> IF Gone(t) THEN "stale" ELSE "other",
                ttl |-> TtlFor(i, t), explicit |-> ttl[t] # 0]]
  <2>1. view \in [Topic -> ViewState]
    BY AgeFacts DEF Out, ViewState
  <2>2. [pc |-> "read", include |-> {}, view |-> view] \in ScanState
    BY <2>1 DEF ScanState
  <2>3. scan' = [scan EXCEPT ![i] = [pc |-> "read", include |-> {}, view |-> view]]
    BY <1>4 DEF ScanReads
  <2>4. ScanType'
    BY <1>1, <2>2, <2>3
  <2> QED
    BY <1>4, <2>4 DEF ScanReads, TypeOK, ScanState, ViewState
<1>5. CASE ScanFails(i)
  <2>1. ScanType'
    BY <1>1, <1>2, <1>5 DEF ScanFails
  <2> QED
    BY <1>5, <2>1 DEF ScanFails, TypeOK, ScanState, ViewState
<1>6. ASSUME NEW won \in SUBSET Topic, ClaimsAre(i, won) PROVE TypeOK'
  <2> DEFINE view == [t \in Topic |->
          IF t \in won \/ scan[i].view[t].is = "mine"
          THEN [scan[i].view[t] EXCEPT !.is = "mine", !.explicit = FALSE]
          ELSE IF scan[i].view[t].is = "out" THEN Out ELSE [Out EXCEPT !.is = "other"]]
  <2>1. view \in [Topic -> ViewState]
    <3>1. \A t \in Topic : scan[i].view[t] \in ViewState
      BY <1>1 DEF ScanState
    <3>2. \A v \in ViewState :
             /\ [v EXCEPT !.is = "mine", !.explicit = FALSE] \in ViewState
             /\ [v EXCEPT !.is = "other"] \in ViewState
      BY DEF ViewState
    <3>3. Out \in ViewState
      BY DEF Out, ViewState
    <3> QED
      BY <3>1, <3>2, <3>3
  <2>2. scan' = [scan EXCEPT ![i].pc = "claimed", ![i].view = view]
    BY <1>6 DEF ClaimsAre
  <2>3. ScanType'
    BY <1>1, <2>1, <2>2 DEF ScanState
  <2>4. holder' \in [Topic -> Holder] /\ fresh' \in [Topic -> BOOLEAN]
    BY <1>6 DEF ClaimsAre, TypeOK, Holder
  <2> QED
    BY <1>6, <2>3, <2>4 DEF ClaimsAre, TypeOK, ScanState, ViewState
<1>7. CASE Claims(i) \/ ClaimFails(i)
  <2>1. \E won \in SUBSET Topic : ClaimsAre(i, won)
    BY <1>7 DEF Claims, ClaimFails, Winnable
  <2> QED
    BY <1>6, <2>1
<1>8. CASE Reconciles(i)
  <2> DEFINE held == {t \in Topic : scan[i].view[t].is = "mine"}
             state(t) == IF t \in managed[i] THEN Cancelled(i, t)
                         ELSE IF t \in held
                              THEN [Over EXCEPT !.pc = "run", !.ttl = scan[i].view[t].ttl]
                              ELSE loop[i][t]
  <2>1. \A t \in Topic : state(t) \in LoopState
    <3>1. \A t \in Topic : scan[i].view[t].ttl \in 0..MaxAge /\ loop[i][t] \in LoopState
      BY <1>1 DEF TypeOK, ScanState, ViewState, LoopState
    <3> QED
      BY <3>1, LoopStates
  <2>2. loop' = [loop EXCEPT ![i] = [t \in Topic |-> state(t)]]
    BY <1>8 DEF Reconciles
  <2>3. loop' \in [Instance -> [Topic -> LoopState]]
    <3>1. loop \in [Instance -> [Topic -> LoopState]]
      BY DEF TypeOK, LoopState
    <3> HIDE DEF state
    <3> QED
      BY <2>1, <2>2, <3>1
  <2>4. ScanType' /\ managed' \in [Instance -> SUBSET Topic]
    BY <1>1, <1>2, <1>8 DEF Reconciles, TypeOK
  <2> QED
    BY <1>8, <2>3, <2>4 DEF Reconciles, TypeOK, LoopState, ScanState, ViewState
<1> QED
  BY <1>3, <1>4, <1>5, <1>7, <1>8 DEF ScanStep

(***************************************************************************)
(* The loops keep the types.                                               *)
(***************************************************************************)
LEMMA LoopStepType ==
    ASSUME TypeOK, NEW i \in Instance, NEW t \in Topic, LoopStep(i, t) \/ PassFails(i, t)
    PROVE  TypeOK'
<1>1. loop' \in [Instance -> [Topic -> LoopState]]
  BY LoopStepFacts, LoopMoves
<1>2. /\ holder' \in [Topic -> Holder] /\ fresh' \in [Topic -> BOOLEAN]
      /\ row' \in [Message -> {"none", "live", "gone"}] /\ age' \in [Message -> 0..MaxAge]
  <2>1. CASE SweepCommits(i, t)
    BY <2>1, DeletedType DEF SweepCommits, TypeOK, Holder
  <2>2. CASE Releases(i, t)
    BY <2>2 DEF Releases, TypeOK, Holder
  <2>3. CASE UNCHANGED dbVars
    BY <2>3 DEF dbVars, TypeOK
  <2> QED
    BY <2>1, <2>2, <2>3 DEF LoopStep, LoopLocks, LoopStops, Verifies, PassFails
<1> QED
  BY <1>1, <1>2, LoopStepFacts DEF TypeOK, LoopState

(***************************************************************************)
(* Every step keeps the types.                                             *)
(***************************************************************************)
LEMMA StepType ==
    ASSUME TypeOK, [Next]_vars
    PROVE  TypeOK'
<1>1. CASE UNCHANGED vars
  BY <1>1 DEF vars, TypeOK
<1>2. ASSUME NEW i \in Faulty, Fails(i) PROVE TypeOK'
  BY <1>2, FaultyType, ScanStepType, LoopStepType DEF Fails
<1> QED
  BY <1>1, <1>2, TopicStepType, InstanceStepType, ScanStepType, LoopStepType DEF Next

(***************************************************************************)
(* The types hold at the start.                                            *)
(***************************************************************************)
LEMMA InitType == Init => TypeOK
<1> SUFFICES ASSUME Init PROVE TypeOK
  OBVIOUS
<1> USE DurationsType
<1>1. loop \in [Instance -> [Topic -> LoopState]]
  BY DEF Init, Over, LoopState
<1>2. scan \in [Instance -> ScanState]
  BY DEF Init, Idle, Out, ScanState, ViewState
<1>3. /\ ttl \in [Topic -> 0..MaxAge] /\ stamp \in [Topic -> 0..MaxAge]
      /\ age \in [Message -> 0..MaxAge]
  BY DEF Init
<1>4. holder \in [Topic -> Holder] /\ fresh \in [Topic -> BOOLEAN]
  BY DEF Init, Holder
<1> QED
  BY <1>1, <1>2, <1>3, <1>4 DEF Init, TypeOK, LoopState, ScanState, ViewState

(***************************************************************************)
(* Type correctness of the maintenance tables, scanners and loops.         *)
(***************************************************************************)
THEOREM TypeCorrect == Spec => []TypeOK
<1>1. TypeOK /\ [Next]_vars => TypeOK'
  BY StepType
<1> QED
  BY <1>1, InitType, PTL DEF Spec

-----------------------------------------------------------------------------
\* The steps of topics, instances, scanners and loops

(***************************************************************************)
(* Time, producers and flushes concern neither leases nor goroutines.      *)
(***************************************************************************)
LEMMA TopicStepInv ==
    ASSUME IInv, TypeOK',
           \/ Tick
           \/ \E m \in Message : AddMessages(m)
           \/ \E t \in Topic : AcquiredAges(t) \/ FlushCommits(t)
    PROVE  IInv'
<1>1. UNCHANGED <<up, session, holder, scan, managed, loop>>
  BY DEF Tick, AddMessages, AcquiredAges, FlushCommits
<1> QED
  BY <1>1 DEF IInv, StartsEmpty, LoopsManaged, SessionsLive, SweepsLocked

(***************************************************************************)
(* An instance begins with a session and without goroutines, and when it   *)
(* stops at most its dormancy exits go on.                                 *)
(***************************************************************************)
LEMMA InstanceStepInv ==
    ASSUME IInv, TypeOK', NEW i \in Instance,
           NewOutbox(i) \/ Heartbeat(i) \/ SessionLapses(i) \/ Stops(i)
    PROVE  IInv'
<1> USE DEF IInv, dbVars, Punctual
<1>1. UNCHANGED holder
  BY DEF NewOutbox, Heartbeat, SessionLapses, Stops
<1>2. \A j \in Instance : j # i =>
         UNCHANGED <<up[j], session[j], scan[j], managed[j], loop[j]>>
  BY DEF NewOutbox, Heartbeat, SessionLapses, Stops, TypeOK
<1>3. CASE NewOutbox(i)
  <2>1. /\ up[i] = "new" /\ up'[i] = "up" /\ UNCHANGED <<scan, managed, loop>>
        /\ i \in Punctual => session'[i] = "live"
    BY <1>3 DEF NewOutbox, TypeOK
  <2>2. StartsEmpty'
    BY <1>2, <2>1 DEF StartsEmpty
  <2>3. LoopsManaged'
    <3>1. \A t \in Topic : loop[i][t].pc = "over"
      BY <2>1 DEF StartsEmpty
    <3> QED
      BY <1>2, <2>1, <3>1 DEF LoopsManaged
  <2>4. SessionsLive'
    BY <1>1, <1>2, <2>1 DEF SessionsLive
  <2>5. SweepsLocked'
    BY <1>1, <2>1 DEF SweepsLocked
  <2> QED
    BY <2>2, <2>3, <2>4, <2>5
<1>4. CASE Heartbeat(i) \/ SessionLapses(i)
  <2>1. UNCHANGED <<up, scan, managed, loop>> /\ (i \in Punctual => session'[i] = "live")
    BY <1>4 DEF Heartbeat, SessionLapses, TypeOK
  <2> QED
    BY <1>1, <1>2, <2>1 DEF StartsEmpty, LoopsManaged, SessionsLive, SweepsLocked
<1>5. CASE Stops(i)
  <2>1. /\ up'[i] = "down" /\ scan'[i] = Idle /\ i \notin Punctual /\ UNCHANGED session
        /\ up[i] # "new"
    BY <1>5 DEF Stops, TypeOK
  <2>2. \A t \in Topic : loop'[i][t].pc \in {"over", loop[i][t].pc}
    BY <1>5 DEF Stops, TypeOK, Over
  <2>3. StartsEmpty'
    BY <1>2, <2>1 DEF StartsEmpty, Idle
  <2>4. LoopsManaged'
    BY <1>2, <2>1 DEF LoopsManaged
  <2>5. SessionsLive'
    BY <1>1, <1>2, <2>1 DEF SessionsLive
  <2>6. SweepsLocked'
    <3>1. \A j \in Instance, t \in Topic : loop'[j][t].pc = "sweep" => loop[j][t].pc = "sweep"
      BY <1>2, <2>2
    <3> QED
      BY <1>1, <3>1 DEF SweepsLocked
  <2> QED
    BY <2>3, <2>4, <2>5, <2>6
<1> QED
  BY <1>3, <1>4, <1>5

(***************************************************************************)
(* A lease that a scan may claim is not under a sweep and not that of an   *)
(* instance whose heartbeat is on time.                                    *)
(***************************************************************************)
LEMMA WinnableFacts ==
    ASSUME IInv, NEW i \in Instance, NEW t \in Winnable(i)
    PROVE  /\ t \in Topic
           /\ holder[t] \notin Punctual
           /\ \A j \in Instance : loop[j][t].pc # "sweep"
  BY HoldersDistinct DEF IInv, Winnable, Gone, Locked, SessionsLive, Punctual

(***************************************************************************)
(* Claims go to an instance that is up; the others keep their leases.      *)
(***************************************************************************)
LEMMA ClaimsInv ==
    ASSUME IInv, TypeOK', NEW i \in Instance, NEW won \in SUBSET Winnable(i), ClaimsAre(i, won)
    PROVE  IInv'
<1> USE DEF IInv
<1>1. /\ UNCHANGED <<up, session, managed, loop>>
      /\ scan[i].pc = "read"
      /\ \A j \in Instance : j # i => scan'[j] = scan[j]
      /\ \A t \in Topic : holder'[t] = IF t \in won THEN i ELSE holder[t]
  <2>1. UNCHANGED <<up, session, managed, loop>> /\ scan[i].pc = "read"
    BY DEF ClaimsAre
  <2>2. \A t \in Topic : holder'[t] = IF t \in won THEN i ELSE holder[t]
    BY DEF ClaimsAre
  <2>3. \A j \in Instance : j # i => scan'[j] = scan[j]
    <3>1. \E view : scan' = [scan EXCEPT ![i].pc = "claimed", ![i].view = view]
      BY DEF ClaimsAre
    <3>2. scan \in [Instance -> ScanState]
      BY DEF TypeOK, ScanState, ViewState
    <3> QED
      BY <3>1, <3>2
  <2> QED
    BY <2>1, <2>2, <2>3
<1>2. up[i] = "up"
  BY <1>1 DEF StartsEmpty
<1>3. StartsEmpty'
  BY <1>1, <1>2 DEF StartsEmpty
<1>4. LoopsManaged'
  BY <1>1 DEF LoopsManaged
<1>5. SessionsLive'
  BY <1>1, <1>2 DEF SessionsLive
<1>6. SweepsLocked'
  BY <1>1, WinnableFacts DEF SweepsLocked
<1> QED
  BY <1>3, <1>4, <1>5, <1>6

(***************************************************************************)
(* The reap keeps every goroutine that has not exited in the map, and the  *)
(* catch-up deletes no session that is live.                               *)
(***************************************************************************)
LEMMA ScanBeginsInv ==
    ASSUME IInv, TypeOK', NEW i \in Instance, NEW catchup \in BOOLEAN, ScanBegins(i, catchup)
    PROVE  IInv'
<1> USE DEF IInv, dbVars
<1>1. /\ UNCHANGED <<up, holder, loop>>
      /\ up[i] = "up"
      /\ \A j \in Instance : j # i => UNCHANGED <<scan[j], managed[j]>>
      /\ managed'[i] = Reaped(i)
      /\ \A j \in Instance : session[j] = "live" => session'[j] = "live"
  BY DEF ScanBegins, TypeOK
<1>2. StartsEmpty'
  BY <1>1 DEF StartsEmpty
<1>3. LoopsManaged'
  BY <1>1 DEF LoopsManaged, Reaped
<1>4. SessionsLive'
  BY <1>1 DEF SessionsLive, Punctual
<1>5. SweepsLocked'
  BY <1>1 DEF SweepsLocked
<1> QED
  BY <1>2, <1>3, <1>4, <1>5

(***************************************************************************)
(* reconcileLoops starts goroutines in the map only, and only for topics   *)
(* that have none; those that go on are where they were.                   *)
(***************************************************************************)
LEMMA ReconcilesFacts ==
    ASSUME IInv, NEW i \in Instance, Reconciles(i)
    PROVE  /\ UNCHANGED <<up, session, holder>>
           /\ up[i] = "up"
           /\ scan'[i].pc = "idle"
           /\ \A j \in Instance : j # i => UNCHANGED <<scan[j], managed[j], loop[j]>>
           /\ managed[i] \subseteq managed'[i]
           /\ \A t \in Topic :
                 \/ loop'[i][t].pc = loop[i][t].pc
                 \/ loop[i][t].pc = "over" /\ loop'[i][t].pc = "run" /\ t \in managed'[i]
           /\ \A t \in managed'[i] \ managed[i] : loop[i][t].pc = "over"
<1> USE DEF IInv, dbVars
<1>1. UNCHANGED <<up, session, holder>> /\ up[i] = "up"
  BY DEF Reconciles, StartsEmpty
<1>2. scan'[i].pc = "idle" /\ \A j \in Instance : j # i => UNCHANGED <<scan[j], managed[j]>>
  BY DEF Reconciles, TypeOK, Idle
<1>3. managed'[i] = managed[i] \cup {t \in Topic : scan[i].view[t].is = "mine"}
  BY DEF Reconciles, TypeOK
<1>4. \A t \in managed'[i] \ managed[i] : loop[i][t].pc = "over"
  BY <1>1, <1>3 DEF LoopsManaged
<1>5. \A j \in Instance : j # i => loop'[j] = loop[j]
  BY DEF Reconciles, TypeOK
<1>6. \A t \in Topic :
         loop'[i][t] = IF t \in managed[i] THEN Cancelled(i, t)
                       ELSE IF scan[i].view[t].is = "mine"
                            THEN [Over EXCEPT !.pc = "run", !.ttl = scan[i].view[t].ttl]
                            ELSE loop[i][t]
  <2> DEFINE state(t) ==
          IF t \in managed[i] THEN Cancelled(i, t)
          ELSE IF t \in {u \in Topic : scan[i].view[u].is = "mine"}
               THEN [Over EXCEPT !.pc = "run", !.ttl = scan[i].view[t].ttl]
               ELSE loop[i][t]
  <2>1. loop' = [loop EXCEPT ![i] = [t \in Topic |-> state(t)]]
    BY DEF Reconciles
  <2>2. \A t \in Topic : loop'[i][t] = state(t)
    <3> HIDE DEF state
    <3> QED
      BY <2>1 DEF TypeOK
  <2> QED
    BY <2>2
<1>7. \A v : [Over EXCEPT !.pc = "run", !.ttl = v].pc = "run"
  BY DEF Over
<1>8. \A t \in Topic :
         \/ loop'[i][t].pc = loop[i][t].pc
         \/ loop[i][t].pc = "over" /\ loop'[i][t].pc = "run" /\ t \in managed'[i]
  <2> TAKE t \in Topic
  <2>1. CASE t \in managed[i]
    <3>1. Cancelled(i, t).pc = loop[i][t].pc
      BY LoopStates
    <3> QED
      BY <1>6, <2>1, <3>1
  <2>2. CASE t \notin managed[i] /\ scan[i].view[t].is = "mine"
    <3>1. loop'[i][t].pc = "run"
      BY <1>6, <1>7, <2>2
    <3>2. t \in managed'[i] \ managed[i]
      BY <1>3, <2>2
    <3> QED
      BY <1>4, <3>1, <3>2
  <2>3. CASE t \notin managed[i] /\ scan[i].view[t].is # "mine"
    BY <1>6, <2>3
  <2> QED
    BY <2>1, <2>2, <2>3
<1> QED
  BY <1>1, <1>2, <1>3, <1>4, <1>5, <1>8

(***************************************************************************)
(* The scanner keeps the invariant.                                        *)
(***************************************************************************)
LEMMA ScanStepInv ==
    ASSUME IInv, TypeOK', NEW i \in Instance, ScanStep(i) \/ ScanFails(i) \/ ClaimFails(i)
    PROVE  IInv'
<1> USE DEF IInv, dbVars
<1>1. CASE ScanReads(i) \/ ScanFails(i)
  <2>1. /\ UNCHANGED <<up, session, holder, managed, loop>>
        /\ scan[i].pc # "idle" /\ \A j \in Instance : j # i => scan'[j] = scan[j]
    BY <1>1 DEF ScanReads, ScanFails, TypeOK
  <2> QED
    BY <2>1 DEF StartsEmpty, LoopsManaged, SessionsLive, SweepsLocked
<1>2. CASE Reconciles(i)
  <2>1. StartsEmpty'
    BY <1>2, ReconcilesFacts DEF StartsEmpty
  <2>2. LoopsManaged'
    BY <1>2, ReconcilesFacts DEF LoopsManaged
  <2>3. SessionsLive'
    BY <1>2, ReconcilesFacts DEF SessionsLive
  <2>4. SweepsLocked'
    <3>1. \A j \in Instance, t \in Topic : loop'[j][t].pc = "sweep" => loop[j][t].pc = "sweep"
      BY <1>2, ReconcilesFacts
    <3> QED
      BY <1>2, <3>1, ReconcilesFacts DEF SweepsLocked
  <2> QED
    BY <2>1, <2>2, <2>3, <2>4
<1>3. CASE Claims(i) \/ ClaimFails(i)
  BY <1>3, ClaimsInv DEF Claims, ClaimFails
<1> QED
  BY <1>1, <1>2, <1>3, ScanBeginsInv DEF ScanStep

(***************************************************************************)
(* A loop that gets the lock of the lease row sweeps alone, and only a     *)
(* lease that it may take; the commit of a sweep, and a release, change    *)
(* only that lease.                                                        *)
(***************************************************************************)
LEMMA LoopStepInv ==
    ASSUME IInv, TypeOK', NEW i \in Instance, NEW t \in Topic, LoopStep(i, t) \/ PassFails(i, t)
    PROVE  IInv'
<1> USE DEF IInv, dbVars
<1>1. /\ UNCHANGED <<up, session, scan, managed>>
      /\ loop[i][t].pc # "over"
      /\ \A j \in Instance, u \in Topic : j # i \/ u # t => loop'[j][u] = loop[j][u]
  BY LoopStepFacts, LoopMoves
<1>2. up[i] # "new"
  BY <1>1 DEF StartsEmpty
<1>3. StartsEmpty'
  BY <1>1, <1>2 DEF StartsEmpty
<1>4. LoopsManaged'
  BY <1>1 DEF LoopsManaged
<1>5. /\ \A u \in Topic : u # t => holder'[u] = holder[u]
      /\ holder'[t] \in {holder[t], i, Nobody}
  BY DEF LoopStep, LoopLocks, SweepCommits, LoopStops, Verifies, Releases, PassFails, TypeOK
<1>6. SessionsLive'
  BY <1>1, <1>2, <1>5, HoldersDistinct DEF SessionsLive
<1>7. SweepsLocked'
  <2>1. ASSUME \A j \in Instance : loop[j][t].pc # "sweep" \/ j = i,
               loop'[i][t].pc = "sweep" => holder'[t] \notin Punctual \ {i}
        PROVE  SweepsLocked'
    BY <1>1, <1>5, <2>1 DEF SweepsLocked
  <2>2. CASE LoopLocks(i, t)
    <3>1. \A j \in Instance : loop[j][t].pc # "sweep"
      BY <2>2 DEF LoopLocks, Locked
    <3>2. UNCHANGED holder
      BY <2>2 DEF LoopLocks
    <3>3. CASE holder[t] \in {i, Nobody} \/ Gone(t)
      BY <2>1, <3>1, <3>2, <3>3, HoldersDistinct DEF Gone, SessionsLive, Punctual
    <3>4. CASE ~(holder[t] \in {i, Nobody} \/ Gone(t))
      <4>1. PassEnds(i, t)
        BY <2>2, <3>4 DEF LoopLocks
      <4>2. loop'[i][t].pc \in {"over", "run"}
        BY <4>1 DEF PassEnds, Goto, Becomes, Over, TypeOK
      <4> QED
        BY <2>1, <3>1, <4>2
    <3> QED
      BY <3>3, <3>4
  <2>3. CASE SweepCommits(i, t)
    <3>1. loop[i][t].pc = "sweep" /\ holder'[t] = i
      BY <2>3 DEF SweepCommits, TypeOK
    <3> QED
      BY <2>1, <3>1 DEF SweepsLocked
  <2>4. CASE Releases(i, t)
    <3>1. \A j \in Instance : loop[j][t].pc # "sweep"
      BY <2>4 DEF Releases, Locked
    <3>2. loop'[i][t].pc = "over"
      BY <2>4 DEF Releases, Becomes, Over, TypeOK
    <3> QED
      BY <2>1, <3>1, <3>2
  <2>5. CASE LoopStops(i, t) \/ Verifies(i, t) \/ PassFails(i, t)
    <3>1. UNCHANGED holder
      BY <2>5 DEF LoopStops, Verifies, PassFails
    <3>2. loop'[i][t].pc # "sweep"
      <4>1. \E s \in LoopState : Becomes(i, t, s) /\ s.pc # "sweep"
        <5>1. /\ Over \in LoopState /\ Over.pc # "sweep"
              /\ \A pc \in {"run", "release"} :
                    /\ [loop[i][t] EXCEPT !.pc = pc] \in LoopState
                    /\ [loop[i][t] EXCEPT !.pc = pc].pc # "sweep"
              /\ [loop[i][t] EXCEPT !.pc = "final", !.last = TRUE] \in LoopState
              /\ [loop[i][t] EXCEPT !.pc = "final", !.last = TRUE].pc # "sweep"
          <6>1. loop[i][t] \in LoopState
            BY DEF TypeOK, LoopState
          <6>2. \A s \in LoopState :
                   /\ \A pc \in {"run", "release"} : [s EXCEPT !.pc = pc].pc # "sweep"
                   /\ [s EXCEPT !.pc = "final", !.last = TRUE].pc # "sweep"
            BY DEF LoopState
          <6>3. Over.pc # "sweep"
            BY DEF Over
          <6> QED
            BY <6>1, <6>2, <6>3, LoopStates
        <5>2. CASE LoopStops(i, t)
          BY <5>1, <5>2 DEF LoopStops
        <5>3. CASE Verifies(i, t)
          BY <5>1, <5>3 DEF Verifies, Goto
        <5>4. CASE PassFails(i, t)
          BY <5>1, <5>4 DEF PassFails, PassEnds, Goto
        <5> QED
          BY <2>5, <5>2, <5>3, <5>4
      <4> QED
        BY <4>1, LoopMoves
    <3> QED
      BY <1>1, <3>1, <3>2 DEF SweepsLocked
  <2> QED
    BY <2>2, <2>3, <2>4, <2>5 DEF LoopStep
<1> QED
  BY <1>3, <1>4, <1>6, <1>7

(***************************************************************************)
(* Failures keep the invariant: those of a scan leave the scanner alone or *)
(* idle, those of a pass never leave a loop in a sweep.                    *)
(***************************************************************************)
LEMMA FailsInv ==
    ASSUME IInv, TypeOK', NEW i \in Faulty, Fails(i)
    PROVE  IInv'
<1>1. i \in Instance
  BY FaultyType
<1>2. ScanFails(i) \/ ClaimFails(i) \/ \E t \in Topic : PassFails(i, t)
  BY DEF Fails
<1> QED
  BY <1>1, <1>2, ScanStepInv, LoopStepInv

-----------------------------------------------------------------------------
\* Every step, and the invariants

(***************************************************************************)
(* Nothing has started in an initial state: there is no loop, no managed   *)
(* topic, and no lease but one that a Legacy holder has left.              *)
(***************************************************************************)
LEMMA InitInv == Init => IInv
<1> SUFFICES ASSUME Init PROVE IInv
  OBVIOUS
<1>1. \A i \in Instance : /\ scan[i].pc = "idle" /\ up[i] = "new"
                          /\ \A t \in Topic : loop[i][t].pc = "over"
  BY DEF Init, Idle, Over
<1>2. \A t \in Topic : holder[t] \notin Instance
  BY HoldersDistinct DEF Init
<1>3. StartsEmpty /\ LoopsManaged /\ SweepsLocked
  BY <1>1 DEF StartsEmpty, LoopsManaged, SweepsLocked
<1>4. SessionsLive
  BY <1>1, <1>2 DEF SessionsLive, Punctual
<1> QED
  BY <1>3, <1>4, InitType DEF IInv

(***************************************************************************)
(* Every step keeps the invariant.                                         *)
(***************************************************************************)
LEMMA StepInv ==
    ASSUME IInv, [Next]_vars
    PROVE  IInv'
<1>1. TypeOK'
  BY StepType DEF IInv
<1>2. CASE UNCHANGED vars
  BY <1>1, <1>2 DEF vars, IInv, StartsEmpty, LoopsManaged, SessionsLive, SweepsLocked
<1>3. CASE Next
  BY <1>1, <1>3, TopicStepInv, InstanceStepInv, ScanStepInv, LoopStepInv, FailsInv DEF Next
<1> QED
  BY <1>2, <1>3

(***************************************************************************)
(* The inductive invariant of the maintenance: who may be in a sweep, who  *)
(* has a session, and which goroutines the managed map knows.              *)
(***************************************************************************)
THEOREM Inductive == Spec => []IInv
<1>1. IInv /\ [Next]_vars => IInv'
  BY StepInv
<1> QED
  BY <1>1, InitInv, PTL DEF Spec

-----------------------------------------------------------------------------
\* What a step may do to the leases and to the managed map

(***************************************************************************)
(* A lease changes hands in three ways only: a claim of one that is free   *)
(* or has expired, the commit of a sweep, and the release of its holder.   *)
(***************************************************************************)
LEMMA LeaseMoves ==
    ASSUME IInv, [Next]_vars, NEW t \in Topic, holder'[t] # holder[t]
    PROVE  \/ holder[t] \notin Punctual /\ holder'[t] \in Instance
           \/ /\ holder[t] \in Instance /\ loop[holder[t]][t].pc = "release"
              /\ holder'[t] = Nobody
<1> USE DEF IInv
<1>1. holder' # holder
  OBVIOUS
<1>2. PICK i \in Instance :
         \/ Claims(i) \/ ClaimFails(i)
         \/ \E u \in Topic : SweepCommits(i, u) \/ Releases(i, u)
  BY <1>1, FaultyType DEF Next, vars, dbVars, Tick, AddMessages, AcquiredAges, FlushCommits,
     NewOutbox, Heartbeat, SessionLapses, Stops, Fails, ScanStep, LoopStep, ScanBegins,
     ScanReads, ScanFails, Reconciles, LoopLocks, LoopStops, Verifies, PassFails
<1>3. CASE Claims(i) \/ ClaimFails(i)
  <2>1. PICK won \in SUBSET Winnable(i) : ClaimsAre(i, won)
    BY <1>3 DEF Claims, ClaimFails
  <2>2. holder'[t] = IF t \in won THEN i ELSE holder[t]
    BY <2>1 DEF ClaimsAre
  <2>3. t \in Winnable(i) /\ holder'[t] = i
    BY <2>2
  <2> QED
    BY <2>3, WinnableFacts
<1>4. CASE \E u \in Topic : SweepCommits(i, u)
  <2>1. loop[i][t].pc = "sweep" /\ holder'[t] = i
    BY <1>4 DEF SweepCommits, TypeOK
  <2> QED
    BY <2>1 DEF SweepsLocked
<1>5. CASE \E u \in Topic : Releases(i, u)
  <2>1. loop[i][t].pc = "release" /\ holder[t] = i /\ holder'[t] = Nobody
    BY <1>5 DEF Releases, TypeOK
  <2> QED
    BY <2>1
<1> QED
  BY <1>2, <1>3, <1>4, <1>5

(***************************************************************************)
(* A lease row disappears only as the release of its holder: the DELETE of *)
(* finishDormantTopic never takes the lease of whoever has claimed it      *)
(* since the topic was found empty.                                        *)
(***************************************************************************)
THEOREM ReleaseIsTheHolders == Spec => ReleasedByHolder
<1>1. ASSUME IInv, [Next]_vars, NEW t \in Topic, holder[t] # Nobody, holder'[t] = Nobody
      PROVE  holder[t] \in Instance /\ loop[holder[t]][t].pc = "release"
  BY <1>1, LeaseMoves, HoldersDistinct
<1>2. IInv /\ [Next]_vars =>
         [\A t \in Topic : holder[t] # Nobody /\ holder'[t] = Nobody =>
             holder[t] \in Instance /\ loop[holder[t]][t].pc = "release"]_vars
  BY <1>1
<1> QED
  BY <1>2, Inductive, PTL DEF Spec, ReleasedByHolder

(***************************************************************************)
(* An instance whose heartbeat is on time loses a lease only by releasing  *)
(* it: not to a claim, and not to the sweep of a loop, dormant or not,     *)
(* that another instance has left over.                                    *)
(***************************************************************************)
THEOREM PunctualKeepsLease == Spec => LeaseKept
<1>1. ASSUME IInv, [Next]_vars, NEW t \in Topic,
             holder[t] \in Instance \ Faulty, holder'[t] # holder[t]
      PROVE  loop[holder[t]][t].pc = "release" /\ holder'[t] = Nobody
  BY <1>1, LeaseMoves DEF Punctual
<1>2. IInv /\ [Next]_vars =>
         [\A t \in Topic : holder[t] \in Instance \ Faulty /\ holder'[t] # holder[t] =>
             loop[holder[t]][t].pc = "release" /\ holder'[t] = Nobody]_vars
  BY <1>1
<1> QED
  BY <1>2, Inductive, PTL DEF Spec, LeaseKept

(***************************************************************************)
(* A topic never has two loops in one instance: reconcileLoops starts one  *)
(* only when the last has exited, even if the topic was dropped as dormant *)
(* and is active again.                                                    *)
(***************************************************************************)
THEOREM OneLoopPerTopic == Spec => NoSecondLoop
<1>1. ASSUME IInv, [Next]_vars, NEW i \in Instance, NEW t \in managed'[i] \ managed[i]
      PROVE  loop[i][t].pc = "over"
  <2> USE DEF IInv
  <2>1. managed' # managed
    OBVIOUS
  <2>2. PICK j \in Instance :
           Stops(j) \/ Reconciles(j) \/ \E catchup \in BOOLEAN : ScanBegins(j, catchup)
    <3>1. ASSUME NEW j \in Instance, Claims(j) \/ ClaimFails(j) PROVE FALSE
      BY <2>1, <3>1 DEF Claims, ClaimFails, ClaimsAre
    <3>2. ASSUME NEW j \in Instance, NEW u \in Topic, LoopStep(j, u) \/ PassFails(j, u)
          PROVE  FALSE
      BY <1>1, <2>1, <3>2, LoopStepFacts
    <3>3. ASSUME NEW j \in Instance,
                 \/ NewOutbox(j) \/ Heartbeat(j) \/ SessionLapses(j)
                 \/ ScanReads(j) \/ ScanFails(j)
          PROVE  FALSE
      BY <2>1, <3>3 DEF NewOutbox, Heartbeat, SessionLapses, ScanReads, ScanFails
    <3>4. ASSUME \/ Tick
                 \/ \E m \in Message : AddMessages(m)
                 \/ \E u \in Topic : AcquiredAges(u) \/ FlushCommits(u)
                 \/ UNCHANGED vars
          PROVE  FALSE
      BY <2>1, <3>4 DEF vars, Tick, AddMessages, AcquiredAges, FlushCommits
    <3>5. ASSUME NEW j \in Faulty, Fails(j) PROVE FALSE
      BY <3>1, <3>2, <3>3, <3>5, FaultyType DEF Fails
    <3> QED
      BY <1>1, <3>1, <3>2, <3>3, <3>4, <3>5 DEF Next, ScanStep
  <2>3. CASE Stops(j)
    <3>1. managed' = [managed EXCEPT ![j] = {}]
      BY <2>3 DEF Stops
    <3>2. managed'[i] \subseteq managed[i]
      BY <3>1 DEF TypeOK
    <3> QED
      BY <1>1, <3>2
  <2>4. CASE \E catchup \in BOOLEAN : ScanBegins(j, catchup)
    <3>1. managed' = [managed EXCEPT ![j] = Reaped(j)]
      BY <2>4 DEF ScanBegins
    <3>2. managed'[i] \subseteq managed[i]
      BY <3>1 DEF Reaped, TypeOK
    <3> QED
      BY <1>1, <3>2
  <2>5. CASE Reconciles(j)
    BY <1>1, <2>5, ReconcilesFacts
  <2> QED
    BY <2>2, <2>3, <2>4, <2>5
<1>2. IInv /\ [Next]_vars =>
         [\A i \in Instance : \A t \in managed'[i] \ managed[i] : loop[i][t].pc = "over"]_vars
  BY <1>1
<1> QED
  BY <1>2, Inductive, PTL DEF Spec, NoSecondLoop

-----------------------------------------------------------------------------
\* Fair shares

(***************************************************************************)
(* (candidates + instances - 1) / instances, as claimClassShare divides,   *)
(* rounds up.                                                              *)
(***************************************************************************)
LEMMA CeilingCovers ==
    ASSUME NEW candidates \in Nat, NEW n \in Nat \ {0}
    PROVE  n * ((candidates + n - 1) \div n) >= candidates
<1> DEFINE ceiling == (candidates + n - 1) \div n
<1>1. candidates + n - 1 \in Int /\ n \in Int /\ n > 0
  OBVIOUS
<1>2. ceiling \in Int
  BY <1>1
<1>3. candidates + n - 1 < n * ceiling + n
  BY <1>1
<1> QED
  BY <1>2, <1>3

(***************************************************************************)
(* The fair share leaves no candidate without an instance that may claim   *)
(* it: instances that hold what they hold and claim their share have room  *)
(* for all candidates of the class.  A share is never zero, so that one    *)
(* more topic can be claimed by whoever sees it first.                     *)
(***************************************************************************)
THEOREM SharesCoverCandidates ==
    ASSUME NEW candidates \in Nat, NEW held \in Nat, NEW instances \in Nat
    PROVE  LET n == IF instances < 1 THEN 1 ELSE instances
           IN  /\ Share(candidates, held, instances) >= 1
               /\ n * (held + Share(candidates, held, instances)) >= candidates
<1> DEFINE n == IF instances < 1 THEN 1 ELSE instances
           ceiling == (candidates + n - 1) \div n
           share == Share(candidates, held, instances)
<1>1. n \in Nat \ {0}
  OBVIOUS
<1>2. ceiling \in Int
  BY <1>1
<1>3. share = IF ceiling > held THEN ceiling - held ELSE 1
  BY DEF Share
<1>4. n * ceiling >= candidates
  BY <1>1, CeilingCovers
<1> HIDE DEF n, ceiling, share
<1>5. share \in Nat /\ share >= 1 /\ held + share >= ceiling
  BY <1>2, <1>3
<1>6. n * (held + share) >= n * ceiling
  BY <1>1, <1>2, <1>5
<1>7. n * (held + share) >= candidates
  BY <1>1, <1>2, <1>4, <1>5, <1>6
<1> QED
  BY <1>5, <1>7 DEF n, share

-----------------------------------------------------------------------------
\* Which expiration a sweep uses

\* No default expiration is shorter than the expiration of a topic.
DefaultsAreLonger ==
    \A i, j \in Instance, t \in Topic : Default[i] = 0 \/ Default[i] >= Explicit[j][t]

\* An age at which the message has expired by the expiration of its topic, now and
\* whenever one is registered later.
Honours(v, t) ==
    \/ ttl[t] # 0 /\ v = ttl[t]
    \/ \A j \in Instance : v >= Explicit[j][t]

TtlKnown == \A t \in Topic : ttl[t] # 0 => \E j \in Instance : ttl[t] = Explicit[j][t]

ViewsHonour ==
    \A i \in Instance, t \in Topic :
        scan[i].view[t].is \in {"mine", "unleased", "stale"} => Honours(scan[i].view[t].ttl, t)

LoopsHonour ==
    \A i \in Instance, t \in Topic : loop[i][t].pc # "over" => Honours(loop[i][t].ttl, t)

TtlInv == TtlKnown /\ ViewsHonour /\ LoopsHonour

(***************************************************************************)
(* The first registration of a topic's expiration stays, and is that of    *)
(* an instance; so what was right for the topic before stays right.        *)
(***************************************************************************)
LEMMA TtlMoves ==
    ASSUME TypeOK, TtlKnown, [Next]_vars
    PROVE  TtlKnown' /\ \A v \in Nat, t \in Topic : Honours(v, t) => Honours(v, t)'
<1>1. ASSUME \A t \in Topic : \/ ttl'[t] = ttl[t]
                              \/ ttl[t] = 0 /\ \E j \in Instance : ttl'[t] = Explicit[j][t]
      PROVE  TtlKnown' /\ \A v \in Nat, t \in Topic : Honours(v, t) => Honours(v, t)'
  BY <1>1 DEF TtlKnown, Honours
<1>2. ASSUME NEW i \in Instance, NewOutbox(i), NEW t \in Topic
      PROVE  \/ ttl'[t] = ttl[t]
             \/ ttl[t] = 0 /\ ttl'[t] = Explicit[i][t]
  BY <1>2 DEF NewOutbox
<1>3. CASE \E i \in Instance : NewOutbox(i)
  BY <1>1, <1>2, <1>3
<1>4. CASE ~\E i \in Instance : NewOutbox(i)
  <2>1. UNCHANGED ttl
    <3>1. ASSUME NEW i \in Instance, NEW t \in Topic, LoopStep(i, t) \/ PassFails(i, t)
          PROVE  UNCHANGED ttl
      BY <3>1, LoopStepFacts
    <3>2. ASSUME NEW i \in Instance, ScanStep(i) \/ ScanFails(i) \/ ClaimFails(i)
          PROVE  UNCHANGED ttl
      BY <3>2 DEF ScanStep, ScanBegins, ScanReads, ScanFails, Claims, ClaimFails, ClaimsAre,
         Reconciles, dbVars
    <3>3. ASSUME NEW i \in Instance, Heartbeat(i) \/ SessionLapses(i) \/ Stops(i)
          PROVE  UNCHANGED ttl
      BY <3>3 DEF Heartbeat, SessionLapses, Stops, dbVars
    <3>4. ASSUME \/ Tick
                 \/ \E m \in Message : AddMessages(m)
                 \/ \E t \in Topic : AcquiredAges(t) \/ FlushCommits(t)
                 \/ UNCHANGED vars
          PROVE  UNCHANGED ttl
      BY <3>4 DEF Tick, AddMessages, AcquiredAges, FlushCommits, vars
    <3>5. ASSUME NEW i \in Faulty, Fails(i) PROVE UNCHANGED ttl
      BY <3>1, <3>2, <3>5, FaultyType DEF Fails
    <3> QED
      BY <1>4, <3>1, <3>2, <3>3, <3>4, <3>5 DEF Next
  <2> QED
    BY <1>1, <2>1
<1> QED
  BY <1>3, <1>4

(***************************************************************************)
(* A scan reads a time that is right for the topic, and keeps it while it  *)
(* claims.                                                                 *)
(***************************************************************************)
LEMMA ViewMoves ==
    ASSUME DefaultsAreLonger, TypeOK, ViewsHonour, [Next]_vars,
           NEW i \in Instance, NEW t \in Topic,
           scan'[i].view[t].is \in {"mine", "unleased", "stale"}
    PROVE  Honours(scan'[i].view[t].ttl, t)
<1>1. scan \in [Instance -> ScanState]
  BY DEF TypeOK, ScanState, ViewState
<1>2. CASE scan'[i].view = scan[i].view
  BY <1>2 DEF ViewsHonour
<1>3. CASE scan'[i] = Idle
  BY <1>3 DEF Idle, Out
<1>4. CASE ScanReads(i)
  <2> DEFINE entry(u) ==
          IF ~Candidate(i, u) THEN Out
          ELSE [is |-> CASE holder[u] = i -> "mine"
                         [] holder[u] = Nobody -> "unleased"
                         [] OTHER -> IF Gone(u) THEN "stale" ELSE "other",
                ttl |-> TtlFor(i, u), explicit |-> ttl[u] # 0]
  <2>1. scan'[i] = [pc |-> "read", include |-> {}, view |-> [u \in Topic |-> entry(u)]]
    BY <1>1, <1>4 DEF ScanReads
  <2>2. scan'[i].view[t] = entry(t)
    <3> HIDE DEF entry
    <3> QED
      BY <2>1
  <2>3. Candidate(i, t) /\ scan'[i].view[t].ttl = TtlFor(i, t)
    BY <2>2 DEF Out
  <2>4. TtlFor(i, t) > 0
    BY <2>3 DEF Candidate
  <2>5. Honours(TtlFor(i, t), t)
    BY <2>4 DEF TtlFor, Honours, DefaultsAreLonger
  <2> QED
    BY <2>3, <2>5
<1>5. ASSUME NEW won \in SUBSET Winnable(i), ClaimsAre(i, won)
      PROVE  Honours(scan'[i].view[t].ttl, t)
  <2> DEFINE entry(u) ==
          IF u \in won \/ scan[i].view[u].is = "mine"
          THEN [scan[i].view[u] EXCEPT !.is = "mine", !.explicit = FALSE]
          ELSE IF scan[i].view[u].is = "out" THEN Out ELSE [Out EXCEPT !.is = "other"]
  <2>1. scan' = [scan EXCEPT ![i].pc = "claimed", ![i].view = [u \in Topic |-> entry(u)]]
    BY <1>5 DEF ClaimsAre
  <2>2. scan'[i].view[t] = entry(t)
    <3> HIDE DEF entry
    <3> QED
      BY <1>1, <2>1 DEF ScanState
  <2>3. scan[i].view[t] \in ViewState
    BY <1>1 DEF ScanState
  <2>4. t \in won \/ scan[i].view[t].is = "mine"
    <3>1. Out.is = "out" /\ [Out EXCEPT !.is = "other"].is = "other"
      BY DEF Out
    <3> QED
      BY <2>2, <3>1
  <2>5. scan'[i].view[t].ttl = scan[i].view[t].ttl
    <3>1. \A v \in ViewState : [v EXCEPT !.is = "mine", !.explicit = FALSE].ttl = v.ttl
      BY DEF ViewState
    <3> QED
      BY <2>2, <2>3, <2>4, <3>1
  <2>6. scan[i].view[t].is \in {"mine", "unleased", "stale"}
    BY <2>4 DEF Winnable
  <2> QED
    BY <2>5, <2>6 DEF ViewsHonour
<1> DEFINE Changes == \/ scan'[i].view = scan[i].view
                      \/ scan'[i] = Idle
                      \/ ScanReads(i)
                      \/ \E won \in SUBSET Winnable(i) : ClaimsAre(i, won)
<1>6. Changes
  <2>1. ASSUME NEW j \in Instance, ScanStep(j) \/ ScanFails(j) \/ ClaimFails(j) PROVE Changes
    <3>1. CASE \E catchup \in BOOLEAN : ScanBegins(j, catchup)
      BY <1>1, <3>1 DEF ScanBegins, ScanState
    <3>2. CASE ScanFails(j) \/ Reconciles(j)
      BY <1>1, <3>2 DEF ScanFails, Reconciles
    <3>3. CASE ScanReads(j)
      BY <1>1, <3>3 DEF ScanReads
    <3>4. ASSUME NEW won \in SUBSET Winnable(j), ClaimsAre(j, won) PROVE Changes
      <4>1. \E view : scan' = [scan EXCEPT ![j].pc = "claimed", ![j].view = view]
        BY <3>4 DEF ClaimsAre
      <4>2. j # i => scan'[i] = scan[i]
        BY <1>1, <4>1
      <4> QED
        BY <3>4, <4>2
    <3> QED
      BY <2>1, <3>1, <3>2, <3>3, <3>4 DEF ScanStep, Claims, ClaimFails
  <2>2. ASSUME NEW j \in Instance, Stops(j) PROVE Changes
    BY <1>1, <2>2 DEF Stops
  <2>3. ASSUME NEW j \in Instance, NewOutbox(j) \/ Heartbeat(j) \/ SessionLapses(j)
        PROVE  scan' = scan
    BY <2>3 DEF NewOutbox, Heartbeat, SessionLapses
  <2>4. ASSUME NEW j \in Instance, NEW u \in Topic, LoopStep(j, u) \/ PassFails(j, u)
        PROVE  scan' = scan
    BY <2>4, LoopStepFacts
  <2>5. ASSUME \/ Tick
               \/ \E m \in Message : AddMessages(m)
               \/ \E u \in Topic : AcquiredAges(u) \/ FlushCommits(u)
               \/ UNCHANGED vars
        PROVE  scan' = scan
    BY <2>5 DEF Tick, AddMessages, AcquiredAges, FlushCommits, vars
  <2>6. ASSUME NEW j \in Faulty, Fails(j) PROVE Changes
    BY <2>1, <2>4, <2>6, FaultyType DEF Fails
  <2> QED
    BY <2>1, <2>2, <2>3, <2>4, <2>5, <2>6 DEF Next
<1> QED
  BY <1>2, <1>3, <1>4, <1>5, <1>6

(***************************************************************************)
(* A loop keeps the time it was started with, and is started with that of  *)
(* the scan.                                                               *)
(***************************************************************************)
LEMMA LoopKeepsTtl ==
    ASSUME TypeOK, [Next]_vars, NEW i \in Instance, NEW t \in Topic, loop'[i][t].pc # "over"
    PROVE  \/ loop[i][t].pc # "over" /\ loop'[i][t].ttl = loop[i][t].ttl
           \/ scan[i].view[t].is = "mine" /\ loop'[i][t].ttl = scan[i].view[t].ttl
<1> DEFINE Kept == \/ loop[i][t].pc # "over" /\ loop'[i][t].ttl = loop[i][t].ttl
                   \/ scan[i].view[t].is = "mine" /\ loop'[i][t].ttl = scan[i].view[t].ttl
<1>1. loop \in [Instance -> [Topic -> LoopState]] /\ Over.pc = "over"
  BY DEF TypeOK, LoopState, Over
<1>2. CASE loop'[i][t] = loop[i][t]
  BY <1>2
<1>3. ASSUME NEW j \in Instance, NEW u \in Topic, LoopStep(j, u) \/ PassFails(j, u) PROVE Kept
  <2>1. loop[j][u].pc # "over" /\ (j # i \/ u # t => loop'[i][t] = loop[i][t])
    BY <1>3, LoopStepFacts, LoopMoves
  <2>2. \/ Becomes(j, u, Over)
        \/ \E pc \in {"run", "sweep", "final", "verify", "release"} : Goto(j, u, pc)
        \/ Becomes(j, u, [loop[j][u] EXCEPT !.pc = "final", !.last = TRUE])
    BY <1>3 DEF LoopStep, LoopLocks, SweepCommits, LoopStops, Verifies, Releases, PassFails,
       PassEnds
  <2>3. \/ loop'[j][u].pc = "over"
        \/ loop'[j][u].ttl = loop[j][u].ttl
    <3>1. \A l \in LoopState : /\ \A pc : [l EXCEPT !.pc = pc].ttl = l.ttl
                               /\ [l EXCEPT !.pc = "final", !.last = TRUE].ttl = l.ttl
      BY DEF LoopState
    <3>2. \A l : Becomes(j, u, l) => loop'[j][u] = l
      BY <1>1 DEF Becomes
    <3>3. loop[j][u] \in LoopState
      BY <1>1
    <3>4. CASE Becomes(j, u, Over)
      BY <1>1, <3>2, <3>4
    <3>5. ASSUME NEW pc, Goto(j, u, pc) PROVE loop'[j][u].ttl = loop[j][u].ttl
      <4> DEFINE l == [loop[j][u] EXCEPT !.pc = pc]
      <4>1. Becomes(j, u, l)
        BY <3>5 DEF Goto
      <4>2. l.ttl = loop[j][u].ttl
        BY <3>1, <3>3
      <4> HIDE DEF l
      <4> QED
        BY <3>2, <4>1, <4>2
    <3>6. CASE Becomes(j, u, [loop[j][u] EXCEPT !.pc = "final", !.last = TRUE])
      BY <3>1, <3>2, <3>3, <3>6
    <3> QED
      BY <2>2, <3>4, <3>5, <3>6
  <2> QED
    BY <2>1, <2>3
<1>4. CASE Reconciles(i)
  <2> DEFINE held == {u \in Topic : scan[i].view[u].is = "mine"}
             state(u) == IF u \in managed[i] THEN Cancelled(i, u)
                         ELSE IF u \in held
                              THEN [Over EXCEPT !.pc = "run", !.ttl = scan[i].view[u].ttl]
                              ELSE loop[i][u]
  <2>1. loop' = [loop EXCEPT ![i] = [u \in Topic |-> state(u)]]
    BY <1>4 DEF Reconciles
  <2>2. loop'[i][t] = state(t)
    <3> HIDE DEF state
    <3> QED
      BY <1>1, <2>1
  <2>3. Cancelled(i, t).pc = loop[i][t].pc /\ Cancelled(i, t).ttl = loop[i][t].ttl
    BY <1>1 DEF Cancelled, LoopState
  <2>4. \A v : [Over EXCEPT !.pc = "run", !.ttl = v].ttl = v
    BY DEF Over
  <2> QED
    BY <2>2, <2>3, <2>4
<1>5. ASSUME NEW j \in Instance, ScanStep(j) \/ ScanFails(j) \/ ClaimFails(j) PROVE Kept
  <2>1. CASE Reconciles(j)
    <3>1. j # i => loop'[i] = loop[i]
      BY <1>1, <2>1 DEF Reconciles
    <3> QED
      BY <1>2, <1>4, <2>1, <3>1
  <2>2. CASE ~Reconciles(j)
    <3>1. UNCHANGED loop
      BY <1>5, <2>2 DEF ScanStep, ScanBegins, ScanReads, ScanFails, Claims, ClaimFails, ClaimsAre
    <3> QED
      BY <1>2, <3>1
  <2> QED
    BY <2>1, <2>2
<1>6. ASSUME NEW j \in Instance, NewOutbox(j) \/ Heartbeat(j) \/ SessionLapses(j) \/ Stops(j)
      PROVE  Kept
  <2>1. CASE Stops(j)
    <3>1. PICK crash \in BOOLEAN :
            loop' = [loop EXCEPT ![j] =
                [u \in Topic |-> IF crash \/ ~loop[j][u].dormant THEN Over ELSE loop[j][u]]]
      BY <2>1 DEF Stops
    <3>2. loop'[i][t] \in {Over, loop[i][t]}
      BY <1>1, <3>1
    <3> QED
      BY <1>1, <1>2, <3>2
  <2>2. CASE NewOutbox(j) \/ Heartbeat(j) \/ SessionLapses(j)
    BY <1>2, <2>2 DEF NewOutbox, Heartbeat, SessionLapses
  <2> QED
    BY <1>6, <2>1, <2>2
<1>7. ASSUME \/ Tick
             \/ \E m \in Message : AddMessages(m)
             \/ \E u \in Topic : AcquiredAges(u) \/ FlushCommits(u)
             \/ UNCHANGED vars
      PROVE  Kept
  BY <1>2, <1>7 DEF Tick, AddMessages, AcquiredAges, FlushCommits, vars
<1>8. ASSUME NEW j \in Faulty, Fails(j) PROVE Kept
  BY <1>3, <1>5, <1>8, FaultyType DEF Fails
<1> QED
  BY <1>3, <1>5, <1>6, <1>7, <1>8 DEF Next

(***************************************************************************)
(* When no default expiration is shorter than the expiration of a topic,   *)
(* no message is swept before the latter ("takes precedence over the       *)
(* default one"): whatever the order in which instances register their     *)
(* expirations, scan and sweep.  The run maintenance_ttl shows that the    *)
(* condition is needed: a sweep that was started with a shorter default    *)
(* goes on with it after the topic's own expiration is registered.         *)
(***************************************************************************)
THEOREM LongerDefaultsHonour ==
    ASSUME DefaultsAreLonger
    PROVE  Spec => ExpirationHonoured
<1> DEFINE Inv == TypeOK /\ TtlInv
<1>1. Init => Inv
  BY InitType DEF Init, Idle, Out, Over, TtlInv, TtlKnown, ViewsHonour, LoopsHonour
<1>2. Inv /\ [Next]_vars => Inv'
  <2> SUFFICES ASSUME Inv, [Next]_vars PROVE Inv'
    OBVIOUS
  <2>1. TypeOK'
    BY StepType
  <2>2. TtlKnown' /\ \A v \in Nat, t \in Topic : Honours(v, t) => Honours(v, t)'
    BY TtlMoves DEF TtlInv
  <2>3. \A i \in Instance, t \in Topic :
           scan[i].view[t].ttl \in Nat /\ loop[i][t].ttl \in Nat
    <3>1. \A i \in Instance, t \in Topic : scan[i].view[t] \in ViewState /\ loop[i][t] \in LoopState
      BY DEF TypeOK, ViewState, LoopState
    <3>2. \A v \in 0..MaxAge : v \in Nat
      BY DurationsType
    <3> QED
      BY <3>1, <3>2 DEF ViewState, LoopState
  <2>4. \A i \in Instance, t \in Topic :
           scan'[i].view[t].ttl \in Nat /\ loop'[i][t].ttl \in Nat
    <3>1. \A i \in Instance, t \in Topic :
             scan'[i].view[t] \in ViewState /\ loop'[i][t] \in LoopState
      BY <2>1 DEF TypeOK, ViewState, LoopState
    <3>2. \A v \in 0..MaxAge : v \in Nat
      BY DurationsType
    <3> QED
      BY <3>1, <3>2 DEF ViewState, LoopState
  <2>5. ViewsHonour'
    <3> SUFFICES ASSUME NEW i \in Instance, NEW t \in Topic,
                        scan'[i].view[t].is \in {"mine", "unleased", "stale"}
                 PROVE  Honours(scan[i].view[t].ttl, t)'
      BY DEF ViewsHonour
    <3>1. Honours(scan'[i].view[t].ttl, t)
      BY ViewMoves, DefaultsAreLonger DEF TtlInv
    <3> QED
      BY <2>2, <2>4, <3>1 DEF Honours
  <2>6. LoopsHonour'
    <3> SUFFICES ASSUME NEW i \in Instance, NEW t \in Topic, loop'[i][t].pc # "over"
                 PROVE  Honours(loop[i][t].ttl, t)'
      BY DEF LoopsHonour
    <3>1. Honours(loop'[i][t].ttl, t)
      BY LoopKeepsTtl DEF TtlInv, ViewsHonour, LoopsHonour
    <3> QED
      BY <2>2, <2>4, <3>1 DEF Honours
  <2> QED
    BY <2>1, <2>2, <2>5, <2>6 DEF TtlInv
<1>3. ASSUME Inv, NEW i \in Instance, NEW t \in Topic, SweepCommits(i, t),
             NEW m \in Live(t), row'[m] = "gone"
      PROVE  age[m] >= ttl[t]
  <2>1. Honours(loop[i][t].ttl, t)
    BY <1>3 DEF SweepCommits, TtlInv, LoopsHonour
  <2>2. m \in Expired(t, loop[i][t].ttl)
    BY <1>3 DEF SweepCommits, Deleted, Live, Expired
  <2>3. age[m] >= loop[i][t].ttl
    BY <2>2 DEF Expired
  <2>4. age[m] \in Nat /\ loop[i][t].ttl \in Nat /\ ttl[t] \in Nat
    BY <1>3, DurationsType DEF TypeOK, Live
  <2>5. loop[i][t].ttl >= ttl[t]
    <3>1. CASE ttl[t] = 0
      BY <2>4, <3>1
    <3>2. CASE ttl[t] # 0
      <4>1. PICK j \in Instance : ttl[t] = Explicit[j][t]
        BY <1>3, <3>2 DEF TtlInv, TtlKnown
      <4> QED
        BY <2>1, <2>4, <4>1 DEF Honours
    <3> QED
      BY <3>1, <3>2
  <2> QED
    BY <2>3, <2>4, <2>5
<1>4. Inv /\ [Next]_vars =>
         [\A i \in Instance, t \in Topic : SweepCommits(i, t) =>
             \A m \in Live(t) : row'[m] = "gone" => age[m] >= ttl[t]]_vars
  BY <1>3
<1> QED
  BY <1>1, <1>2, <1>4, PTL DEF Spec, ExpirationHonoured

=============================================================================
