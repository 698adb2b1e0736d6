------------------------- MODULE SubscriptionProofs -------------------------
(***************************************************************************)
(* Theorems about Subscription, for any set of subscribers, with and       *)
(* without a PubSub, any way to publish, any number of messages and any    *)
(* size of the subscribers' channels.                                      *)
(***************************************************************************)
EXTENDS Subscription, TLAPS

-----------------------------------------------------------------------------
\* The inductive invariant

\* Messages in the table and notifications on their way are of transactions that
\* have added a message.
Counted == queue <= added /\ hooks + inflight <= added

\* A subscriber with a PubSub is past Sub: its channel has been registered.
InLoop(s) == pc[s] \in {"drain", "pass", "flush", "empty", "reacquire", "select"}

Registered == \A s \in Listener : InLoop(s) => chan[s] # "none"

\* AcquireTopic is called again only after a pass that has failed.
ReacquiresAfterFailure == \A s \in Subscriber : pc[s] = "reacquire" => failed[s]

IInv ==
    /\ TypeOK
    /\ Counted
    /\ NoSendOnClosed
    /\ Registered
    /\ ReacquiresAfterFailure
    /\ NoLostWakeup

-----------------------------------------------------------------------------
\* Types and counts

(***************************************************************************)
(* pg_notify puts at most one notification on its way, or loses one.       *)
(***************************************************************************)
LEMMA NotifyFacts ==
    ASSUME TypeOK, Notify
    PROVE  /\ inflight' = inflight + 1 \/ inflight' = inflight
           /\ lossy' \in [Subscriber -> BOOLEAN]
           /\ inflight' = inflight + 1 \/ \A s \in Subscriber : lossy'[s]
  BY DEF TypeOK, Notify, AllLossy

(***************************************************************************)
(* Two counts that add up to no more than a bounded one are bounded.       *)
(***************************************************************************)
LEMMA WithinBound ==
    \A h, i \in Nat : \A a \in 0..MaxAdded :
        h + i <= a => h \in 0..MaxAdded /\ i \in 0..MaxAdded
  BY SizesType

(***************************************************************************)
(* Producers, Notifiers and the listener keep types and counts.            *)
(***************************************************************************)
LEMMA PubSubStepType ==
    ASSUME TypeOK, Counted,
           \/ AddAndCommit \/ NotifierNotifies \/ Dispatch \/ ConnFails \/ Reconnects
           \/ ShutsDown \/ LeaseLapses
           \/ \E s \in Subscriber : DispatchSends(s) \/ Unsubscribe(s)
    PROVE  TypeOK' /\ Counted'
<1> USE SizesType DEF pubVars, loopVars, AllLossy
<1>1. CASE AddAndCommit
  <2>1. /\ added' = added + 1 /\ added' \in 0..MaxAdded
        /\ queue' = queue + 1 /\ queue' \in 0..MaxAdded /\ queue' <= added'
    BY <1>1 DEF AddAndCommit, TypeOK, Counted
  <2>2. hooks' + inflight' <= added' /\ hooks' \in Nat /\ inflight' \in Nat
    BY <1>1, <2>1, NotifyFacts DEF AddAndCommit, TypeOK, Counted
  <2>3. hooks' \in 0..MaxAdded /\ inflight' \in 0..MaxAdded
    BY <2>1, <2>2, WithinBound
  <2>4. lossy' \in [Subscriber -> BOOLEAN]
    BY <1>1, NotifyFacts DEF AddAndCommit, TypeOK
  <2>5. UNCHANGED <<conn, psUp, remaining, chan, buf, loopVars, flusher, holder>>
    BY <1>1 DEF AddAndCommit
  <2>6. Counted'
    BY <2>1, <2>2 DEF Counted
  <2> QED
    BY <2>1, <2>3, <2>4, <2>5, <2>6 DEF TypeOK
<1>2. CASE NotifierNotifies
  <2>1. /\ hooks' = hooks - 1 /\ hooks > 0
        /\ inflight' = inflight + 1 \/ inflight' = inflight
        /\ lossy' \in [Subscriber -> BOOLEAN]
    BY <1>2, NotifyFacts DEF NotifierNotifies, TypeOK
  <2>2. /\ hooks' \in Nat /\ inflight' \in Nat /\ added \in 0..MaxAdded
        /\ hooks' + inflight' <= added
    BY <2>1 DEF TypeOK, Counted
  <2>3. hooks' \in 0..MaxAdded /\ inflight' \in 0..MaxAdded
    BY <2>2, WithinBound
  <2> QED
    BY <1>2, <2>1, <2>2, <2>3 DEF NotifierNotifies, TypeOK, Counted
<1>3. CASE Dispatch
  BY <1>3 DEF Dispatch, TypeOK, Counted
<1>4. CASE ConnFails \/ Reconnects \/ ShutsDown
  <2>1. /\ UNCHANGED <<added, queue, hooks, remaining, chan, buf, loopVars, flusher, holder>>
        /\ inflight' \in {0, inflight}
        /\ conn' \in {"up", "down"}
    BY <1>4 DEF ConnFails, Reconnects, ShutsDown
  <2>2. psUp' \in BOOLEAN /\ lossy' \in [Subscriber -> BOOLEAN]
    BY <1>4 DEF ConnFails, Reconnects, ShutsDown, TypeOK
  <2>3. inflight' \in 0..MaxAdded /\ hooks + inflight' <= added
    <3>1. /\ 0 \in 0..MaxAdded /\ hooks + 0 <= added
          /\ inflight \in 0..MaxAdded /\ hooks + inflight <= added
      BY DEF TypeOK, Counted
    <3> QED
      BY <2>1, <3>1
  <2> QED
    BY <2>1, <2>2, <2>3 DEF TypeOK, Counted
<1>5. CASE LeaseLapses
  BY <1>5 DEF LeaseLapses, TypeOK, Counted
<1>6. ASSUME NEW s \in Subscriber, DispatchSends(s) PROVE TypeOK' /\ Counted'
  <2>1. buf' \in [Subscriber -> 0..BufferSize]
    BY <1>6 DEF DispatchSends, TypeOK
  <2> QED
    BY <1>6, <2>1 DEF DispatchSends, TypeOK, Counted
<1>7. ASSUME NEW s \in Subscriber, Unsubscribe(s) PROVE TypeOK' /\ Counted'
  BY <1>7 DEF Unsubscribe, TypeOK, Counted
<1> QED
  BY <1>1, <1>2, <1>3, <1>4, <1>5, <1>6, <1>7

(***************************************************************************)
(* A Subscribe call keeps types and counts.                                *)
(***************************************************************************)
LEMMA SubscriberStepType ==
    ASSUME TypeOK, Counted, NEW s \in Subscriber,
           \/ Subscribe(s) \/ CtxEnds(s) \/ Acquired(s) \/ AcquireFails(s) \/ Advance(s)
           \/ LeaseIsLost(s) \/ FlushBegins(s) \/ FlushCommits(s) \/ PassFails(s)
           \/ PollFires(s) \/ SelectDone(s)
    PROVE  TypeOK' /\ Counted'
<1> USE SizesType DEF pubVars, loopVars, Pc, Goto, Return
<1>1. CASE Subscribe(s) \/ CtxEnds(s)
  BY <1>1 DEF Subscribe, CtxEnds, TypeOK, Counted
<1>2. CASE Acquired(s)
  BY <1>2 DEF Acquired, TypeOK, Counted
<1>3. CASE AcquireFails(s)
  BY <1>3 DEF AcquireFails, TypeOK, Counted
<1>4. CASE Listens(s)
  BY <1>4 DEF Listens, TypeOK, Counted
<1>5. CASE Registers(s)
  BY <1>5 DEF Registers, TypeOK, Counted
<1>6. CASE Drains(s)
  <2>1. buf' \in [Subscriber -> 0..BufferSize]
    BY <1>6 DEF Drains, TypeOK
  <2> QED
    BY <1>6, <2>1 DEF Drains, TypeOK, Counted
<1>7. CASE ReadsEmpty(s) \/ PassEnds(s)
  BY <1>7 DEF ReadsEmpty, PassEnds, TypeOK, Counted
<1>8. CASE NotificationWakes(s)
  <2>1. buf[s] > 0 => buf[s] - 1 \in 0..BufferSize
    BY DEF TypeOK
  <2> QED
    BY <1>8, <2>1 DEF NotificationWakes, TypeOK, Counted
<1>9. CASE Releases(s)
  BY <1>9 DEF Releases, TypeOK, Counted
<1>10. CASE LeaseIsLost(s) \/ FlushBegins(s)
  BY <1>10 DEF LeaseIsLost, FlushBegins, TypeOK, Counted
<1>11. CASE FlushCommits(s)
  <2>1. queue' \in 0..queue
    BY <1>11 DEF FlushCommits, TypeOK
  <2> QED
    BY <1>11, <2>1 DEF FlushCommits, TypeOK, Counted
<1>12. CASE PassFails(s)
  BY <1>12 DEF PassFails, TypeOK, Counted
<1>13. CASE PollFires(s) \/ SelectDone(s)
  BY <1>13 DEF PollFires, SelectDone, TypeOK, Counted
<1> QED
  BY <1>1, <1>2, <1>3, <1>4, <1>5, <1>6, <1>7, <1>8, <1>9, <1>10, <1>11, <1>12, <1>13
     DEF Advance

(***************************************************************************)
(* Every step keeps types and counts.                                      *)
(***************************************************************************)
LEMMA StepType ==
    ASSUME TypeOK, Counted, [Next]_vars
    PROVE  TypeOK' /\ Counted'
<1>1. CASE UNCHANGED vars
  BY <1>1 DEF vars, TypeOK, Counted
<1> QED
  BY <1>1, PubSubStepType, SubscriberStepType DEF Next

(***************************************************************************)
(* Types and counts hold at the start.                                     *)
(***************************************************************************)
LEMMA InitType == Init => TypeOK /\ Counted
  BY SizesType DEF Init, TypeOK, Counted, Pc

(***************************************************************************)
(* Type correctness of the PubSub and of Subscribe, among it that no       *)
(* channel ever holds more than subscriberBufferSize messages.             *)
(***************************************************************************)
THEOREM TypeCorrect == Spec => []TypeOK
<1>1. Init => TypeOK /\ Counted
  BY InitType
<1>2. (TypeOK /\ Counted) /\ [Next]_vars => (TypeOK /\ Counted)'
  BY StepType
<1> QED
  BY <1>1, <1>2, PTL DEF Spec

-----------------------------------------------------------------------------
\* The steps of producers, Notifiers and the listener

(***************************************************************************)
(* A new message, and the publication of one, keep the invariant: each     *)
(* leaves a hook or a notification behind, or it is known to be lost.      *)
(***************************************************************************)
LEMMA PublishInv ==
    ASSUME IInv, TypeOK', Counted', AddAndCommit \/ NotifierNotifies
    PROVE  IInv'
<1> USE OptionsType DEF IInv, loopVars
<1>1. UNCHANGED <<conn, remaining, chan, buf, loopVars>>
  BY DEF AddAndCommit, NotifierNotifies
<1>2. inflight' > 0 \/ hooks' > 0 \/ \A s \in Subscriber : lossy'[s]
  BY NotifyFacts DEF AddAndCommit, NotifierNotifies, TypeOK, AllLossy
<1>3. NoLostWakeup'
  BY <1>2 DEF NoLostWakeup, WakeupComing
<1> QED
  BY <1>1, <1>3 DEF NoSendOnClosed, Registered, InLoop, ReacquiresAfterFailure

(***************************************************************************)
(* The listener keeps the invariant: a notification that it receives goes  *)
(* to every open channel, and one that does not fit finds a full buffer.   *)
(***************************************************************************)
LEMMA DispatchInv ==
    ASSUME IInv, TypeOK', Counted', Dispatch \/ \E s \in Subscriber : DispatchSends(s)
    PROVE  IInv'
<1> USE OptionsType DEF IInv, loopVars
<1>1. UNCHANGED <<queue, hooks, conn, chan, loopVars, lossy>>
  BY DEF Dispatch, DispatchSends
<1>2. Registered' /\ ReacquiresAfterFailure'
  BY <1>1 DEF Registered, InLoop, ReacquiresAfterFailure
<1>3. CASE Dispatch
  <2>1. remaining' = {s \in Subscriber : chan[s] = "open"} /\ UNCHANGED buf
    BY <1>3 DEF Dispatch
  <2>2. NoSendOnClosed'
    BY <1>1, <2>1 DEF NoSendOnClosed
  <2>3. \A s \in Listener : InLoop(s) => s \in remaining' \/ chan'[s] = "closed"
    BY <1>1, <2>1 DEF Registered, TypeOK
  <2>4. NoLostWakeup'
    BY <1>1, <2>3 DEF NoLostWakeup, WakeupComing, InLoop
  <2> QED
    BY <1>2, <2>2, <2>4
<1>4. ASSUME NEW s \in Subscriber, DispatchSends(s) PROVE IInv'
  <2>1. /\ remaining' = remaining \ {s} /\ UNCHANGED inflight
        /\ \A t \in Subscriber : t # s => buf'[t] = buf[t]
        /\ buf'[s] > 0
    BY <1>4, SizesType DEF DispatchSends, TypeOK
  <2>2. NoSendOnClosed'
    BY <1>1, <2>1 DEF NoSendOnClosed
  <2>3. NoLostWakeup'
    BY <1>1, <2>1 DEF NoLostWakeup, WakeupComing, TypeOK
  <2> QED
    BY <1>2, <2>2, <2>3
<1> QED
  BY <1>3, <1>4

(***************************************************************************)
(* The loss of the connection, its return, and the end of the PubSub keep  *)
(* the invariant.                                                          *)
(***************************************************************************)
LEMMA ConnInv ==
    ASSUME IInv, TypeOK', Counted', ConnFails \/ Reconnects \/ ShutsDown
    PROVE  IInv'
<1> USE OptionsType DEF IInv, loopVars
<1>1. UNCHANGED <<queue, hooks, remaining, chan, buf, loopVars>>
  BY DEF ConnFails, Reconnects, ShutsDown
<1>2. UNCHANGED <<inflight, lossy>> \/ \A s \in Subscriber : lossy'[s]
  BY DEF ConnFails, Reconnects, ShutsDown, AllLossy, TypeOK
<1>3. NoLostWakeup'
  BY <1>1, <1>2 DEF NoLostWakeup, WakeupComing
<1> QED
  BY <1>1, <1>3 DEF NoSendOnClosed, Registered, InLoop, ReacquiresAfterFailure

(***************************************************************************)
(* The goroutine of Sub keeps the invariant: while it holds subscribersMu  *)
(* no dispatch is sending, and the loop notices the closed channel.        *)
(***************************************************************************)
LEMMA UnsubscribeInv ==
    ASSUME IInv, TypeOK', Counted', NEW s \in Subscriber, Unsubscribe(s)
    PROVE  IInv'
<1> USE OptionsType DEF IInv, loopVars, pubVars
<1>1. /\ UNCHANGED <<queue, hooks, inflight, remaining, buf, loopVars, lossy>>
      /\ remaining = {}
      /\ \A t \in Subscriber : chan'[t] = IF t = s THEN "closed" ELSE chan[t]
  BY DEF Unsubscribe, TypeOK
<1>2. NoLostWakeup'
  BY <1>1 DEF NoLostWakeup, WakeupComing
<1> QED
  BY <1>1, <1>2 DEF NoSendOnClosed, Registered, InLoop, ReacquiresAfterFailure

-----------------------------------------------------------------------------
\* The steps of Subscribe

(***************************************************************************)
(* What a Subscribe call does outside its select: it leaves the channels,  *)
(* the dispatch and the other calls alone, so that only its own place      *)
(* matters.                                                                *)
(***************************************************************************)
LEMMA OwnStepInv ==
    ASSUME IInv, TypeOK', Counted', NEW s \in Subscriber,
           UNCHANGED <<hooks, inflight, remaining, chan>>,
           queue' <= queue,
           \A t \in Subscriber :
               t # s => UNCHANGED <<pc[t], buf[t], failed[t], lossy[t]>>,
           s \in Listener /\ InLoop(s)' => InLoop(s),
           pc'[s] = "reacquire" => failed'[s],
           \/ pc'[s] \notin {"empty", "select"}
           \/ failed'[s]
           \/ queue' = 0
           \/ pc[s] \in {"empty", "select"} /\ UNCHANGED <<buf[s], failed[s], lossy[s]>>
    PROVE  IInv'
<1> USE OptionsType DEF IInv
<1>1. NoSendOnClosed'
  BY DEF NoSendOnClosed
<1>2. Registered'
  BY DEF Registered, InLoop
<1>3. ReacquiresAfterFailure'
  BY DEF ReacquiresAfterFailure
<1>4. NoLostWakeup'
  BY DEF NoLostWakeup, WakeupComing, TypeOK
<1> QED
  BY <1>1, <1>2, <1>3, <1>4

(***************************************************************************)
(* Sub registers the channel while no dispatch is sending, and the loop    *)
(* that follows begins with a pass.                                        *)
(***************************************************************************)
LEMMA RegistersInv ==
    ASSUME IInv, TypeOK', Counted', NEW s \in Subscriber, Registers(s)
    PROVE  IInv'
<1> USE OptionsType DEF IInv, pubVars
<1>1. /\ UNCHANGED <<queue, hooks, inflight, remaining, buf, failed, lossy>>
      /\ remaining = {}
      /\ \A t \in Subscriber : chan'[t] = IF t = s THEN "open" ELSE chan[t]
      /\ \A t \in Subscriber : pc'[t] = IF t = s THEN "drain" ELSE pc[t]
  BY DEF Registers, Goto, TypeOK
<1>2. NoSendOnClosed'
  BY <1>1 DEF NoSendOnClosed
<1>3. Registered'
  BY <1>1 DEF Registered, InLoop
<1>4. ReacquiresAfterFailure'
  BY <1>1 DEF ReacquiresAfterFailure
<1>5. NoLostWakeup'
  BY <1>1 DEF NoLostWakeup, WakeupComing
<1> QED
  BY <1>2, <1>3, <1>4, <1>5

(***************************************************************************)
(* The other steps of a Subscribe call.                                    *)
(***************************************************************************)
LEMMA CallInv ==
    ASSUME IInv, TypeOK', Counted', NEW s \in Subscriber,
           \/ Subscribe(s) \/ CtxEnds(s) \/ Acquired(s) \/ AcquireFails(s) \/ Listens(s)
           \/ Releases(s) \/ SelectDone(s)
    PROVE  IInv'
<1> USE DEF IInv, pubVars
<1>1. UNCHANGED <<queue, hooks, inflight, remaining, chan, buf, failed, lossy>>
  BY DEF Subscribe, CtxEnds, Acquired, AcquireFails, Listens, Releases, SelectDone
<1>2. \A t \in Subscriber : t # s => pc'[t] = pc[t]
  BY DEF Subscribe, CtxEnds, Acquired, AcquireFails, Listens, Releases, SelectDone, Goto,
         Return, TypeOK
<1>3. queue' <= queue
  BY <1>1 DEF TypeOK
<1>4. \/ CtxEnds(s) /\ pc'[s] = pc[s]
      \/ pc'[s] \notin {"empty", "select", "reacquire"}
      \/ pc[s] = "reacquire" /\ pc'[s] = "select"
  BY DEF Subscribe, CtxEnds, Acquired, AcquireFails, Listens, Releases, SelectDone, Goto,
         Return, TypeOK
<1>5. s \in Listener /\ InLoop(s)' => InLoop(s)
  BY DEF Subscribe, CtxEnds, Acquired, AcquireFails, Listens, Releases, SelectDone, Goto,
         Return, TypeOK, InLoop
<1> QED
  BY <1>1, <1>2, <1>3, <1>4, <1>5, OwnStepInv DEF ReacquiresAfterFailure

(***************************************************************************)
(* A pass of the loop: the buffer is drained before it, and only a pass    *)
(* that found the topic empty, or failed, ends in the select.              *)
(***************************************************************************)
LEMMA PassInv ==
    ASSUME IInv, TypeOK', Counted', NEW s \in Subscriber,
           \/ Drains(s) \/ ReadsEmpty(s) \/ PassEnds(s) \/ NotificationWakes(s)
           \/ LeaseIsLost(s) \/ FlushBegins(s) \/ FlushCommits(s) \/ PassFails(s)
           \/ PollFires(s)
    PROVE  IInv'
<1> USE DEF IInv, pubVars, Goto
<1>1. UNCHANGED <<hooks, inflight, remaining, chan>>
  BY DEF Drains, ReadsEmpty, PassEnds, NotificationWakes, LeaseIsLost, FlushBegins,
         FlushCommits, PassFails, PollFires
<1>2. queue' <= queue
  <2>1. CASE FlushCommits(s)
    BY <2>1 DEF FlushCommits, TypeOK
  <2>2. CASE UNCHANGED queue
    BY <2>2 DEF TypeOK
  <2> QED
    BY <2>1, <2>2 DEF Drains, ReadsEmpty, PassEnds, NotificationWakes, LeaseIsLost,
                      FlushBegins, PassFails, PollFires
<1>3. \A t \in Subscriber : t # s => UNCHANGED <<pc[t], buf[t], failed[t], lossy[t]>>
  BY DEF Drains, ReadsEmpty, PassEnds, NotificationWakes, LeaseIsLost, FlushBegins,
         FlushCommits, PassFails, PollFires, TypeOK
<1>4. InLoop(s)
  BY DEF Drains, ReadsEmpty, PassEnds, NotificationWakes, LeaseIsLost, FlushBegins,
         FlushCommits, PassFails, PollFires, InLoop
<1>5. /\ pc'[s] = "reacquire" => failed'[s]
      /\ \/ pc'[s] \notin {"empty", "select"}
         \/ failed'[s]
         \/ queue' = 0
         \/ pc[s] \in {"empty", "select"} /\ UNCHANGED <<buf[s], failed[s], lossy[s]>>
  BY DEF Drains, ReadsEmpty, PassEnds, NotificationWakes, LeaseIsLost, FlushBegins,
         FlushCommits, PassFails, PollFires, TypeOK
<1> QED
  BY <1>1, <1>2, <1>3, <1>4, <1>5, OwnStepInv

-----------------------------------------------------------------------------
\* The theorems

(***************************************************************************)
(* IInv holds at the start.                                                *)
(***************************************************************************)
LEMMA InitInv == Init => IInv
  BY InitType, OptionsType
     DEF Init, IInv, NoSendOnClosed, Registered, InLoop, ReacquiresAfterFailure,
         NoLostWakeup

(***************************************************************************)
(* IInv is kept by every step.                                             *)
(***************************************************************************)
LEMMA StepInv ==
    ASSUME IInv, [Next]_vars
    PROVE  IInv'
<1>1. TypeOK' /\ Counted'
  BY StepType DEF IInv
<1>2. CASE UNCHANGED vars \/ LeaseLapses
  BY <1>1, <1>2
     DEF vars, LeaseLapses, pubVars, loopVars, IInv, NoSendOnClosed, Registered, InLoop,
         ReacquiresAfterFailure, NoLostWakeup, WakeupComing
<1>3. CASE AddAndCommit \/ NotifierNotifies \/ Dispatch \/ ConnFails \/ Reconnects \/ ShutsDown
  BY <1>1, <1>3, PublishInv, DispatchInv, ConnInv
<1>4. ASSUME NEW s \in Subscriber,
             \/ DispatchSends(s) \/ Unsubscribe(s) \/ Subscribe(s) \/ CtxEnds(s)
             \/ Acquired(s) \/ AcquireFails(s) \/ Advance(s) \/ LeaseIsLost(s)
             \/ FlushBegins(s) \/ FlushCommits(s) \/ PassFails(s) \/ PollFires(s)
             \/ SelectDone(s)
      PROVE  IInv'
  BY <1>1, <1>4, DispatchInv, UnsubscribeInv, RegistersInv, CallInv, PassInv DEF Advance
<1> QED
  BY <1>2, <1>3, <1>4 DEF Next

(***************************************************************************)
(* The inductive invariant holds in every behaviour of the subscriptions.  *)
(***************************************************************************)
THEOREM Inductive == Spec => []IInv
<1>1. IInv /\ [Next]_vars => IInv'
  BY StepInv
<1> QED
  BY <1>1, InitInv, PTL DEF Spec

(***************************************************************************)
(* A subscriber with a PubSub that waits after an empty pass while a       *)
(* message is committed has a wake-up coming, or its last pass failed, or  *)
(* a notification was lost.                                                *)
(***************************************************************************)
THEOREM WakeupNotLost == Spec => []NoLostWakeup
<1>1. IInv => NoLostWakeup
  BY DEF IInv
<1> QED
  BY <1>1, Inductive, PTL

(***************************************************************************)
(* The listener never sends on a channel that a subscription has closed.   *)
(***************************************************************************)
THEOREM DispatchIsSafe == Spec => []NoSendOnClosed
<1>1. IInv => NoSendOnClosed
  BY DEF IInv
<1> QED
  BY <1>1, Inductive, PTL
=============================================================================
