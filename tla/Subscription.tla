---------------------------- MODULE Subscription ----------------------------
(***************************************************************************)
(* Subscribe for one topic and the PubSub that wakes it: the transactions  *)
(* that add messages and notify, the LISTEN connection of pgPubSub and its *)
(* dispatch to subscriber channels, and the loop of every subscriber.      *)
(* ProcessMessages is one batch under the topic's row lock (see Delivery)  *)
(* and the exclusive lease one holder (see ExclusiveLease).                *)
(***************************************************************************)
EXTENDS Naturals, FiniteSets

CONSTANTS
    Subscriber, \* Subscribe calls, each on an outbox instance of its own
    MaxAdded,   \* bound: transactions that add a message
    BufferSize, \* subscriberBufferSize
    Publish,    \* how outboxes that add publish: "tx" (a TxPublisher), "generic", "none"
    Listener,   \* subscribers whose outbox has a PubSub; the others only poll
    Exclusive,  \* WithExclusive
    Nobody      \* no subscriber

ASSUME SizesType == MaxAdded \in Nat /\ BufferSize \in Nat \ {0}
ASSUME OptionsType ==
    /\ Publish \subseteq {"none", "tx", "generic"}
    /\ Listener \subseteq Subscriber
    /\ Exclusive \in BOOLEAN
ASSUME NobodyType == Nobody \notin Subscriber

VARIABLES
    added,      \* transactions that have added a message
    queue,      \* messages in the table
    hooks,      \* notifications recorded in a Notifier and not yet published
    inflight,   \* notifications on their way to the listener
    conn,       \* the LISTEN connection: "none", "up" or "down"
    psUp,       \* the ctx of NewPGPubSub
    remaining,  \* channels a running dispatch has yet to send to, subscribersMu held
    chan,       \* the channel of a subscription: "none", "open" or "closed"
    buf,        \* messages buffered in it
    notif,      \* the notifications variable of Subscribe is not nil
    pc,         \* where a Subscribe call is
    ctxDone,    \* its ctx has ended
    failed,     \* its pass has ended with an error
    lossy,      \* a notification has been lost since it last read the topic empty
    flusher,    \* the subscriber that holds the row lock of the topic
    holder      \* the subscriber whose instance holds a live lease

pubVars == <<hooks, inflight, conn, psUp, remaining>>
loopVars == <<notif, pc, ctxDone, failed>>
vars == <<added, queue, hooks, inflight, conn, psUp, remaining, chan, buf, notif, pc,
          ctxDone, failed, lossy, flusher, holder>>

Pc == {"idle", "acquire", "sub", "register", "drain", "pass", "flush", "empty", "reacquire",
       "select", "release", "done"}

Init ==
    /\ added = 0
    /\ queue = 0
    /\ hooks = 0
    /\ inflight = 0
    /\ conn = "none"
    /\ psUp = TRUE
    /\ remaining = {}
    /\ chan = [s \in Subscriber |-> "none"]
    /\ buf = [s \in Subscriber |-> 0]
    /\ notif = [s \in Subscriber |-> FALSE]
    /\ pc = [s \in Subscriber |-> "idle"]
    /\ ctxDone = [s \in Subscriber |-> FALSE]
    /\ failed = [s \in Subscriber |-> FALSE]
    /\ lossy = [s \in Subscriber |-> FALSE]
    /\ flusher = Nobody
    /\ holder = Nobody

Goto(s, next) == pc' = [pc EXCEPT ![s] = next]

AllLossy == [s \in Subscriber |-> TRUE]

-----------------------------------------------------------------------------
\* Publishing

\* pg_notify reaches the listener if it is connected.
Notify ==
    IF conn = "up" THEN inflight' = inflight + 1 /\ UNCHANGED lossy
                   ELSE lossy' = AllLossy /\ UNCHANGED inflight

\* AddMessages and the commit of its transaction: PubInTx notifies with the commit,
\* another PubSub leaves a hook in the Notifier, none does nothing.
AddAndCommit ==
    /\ added < MaxAdded
    /\ added' = added + 1
    /\ queue' = queue + 1
    /\ \/ "tx" \in Publish /\ Notify /\ UNCHANGED hooks
       \/ "generic" \in Publish /\ hooks' = hooks + 1 /\ UNCHANGED <<inflight, lossy>>
       \/ "none" \in Publish /\ lossy' = AllLossy /\ UNCHANGED <<hooks, inflight>>
    /\ UNCHANGED <<conn, psUp, remaining, chan, buf, loopVars, flusher, holder>>

\* Notifier.Notify after the commit; a failure is logged.
NotifierNotifies ==
    /\ hooks > 0
    /\ hooks' = hooks - 1
    /\ Notify \/ (lossy' = AllLossy /\ UNCHANGED inflight)
    /\ UNCHANGED <<added, queue, conn, psUp, remaining, chan, buf, loopVars, flusher, holder>>

-----------------------------------------------------------------------------
\* pgPubSub

\* serveConn receives a notification; dispatch takes subscribersMu.
Dispatch ==
    /\ conn = "up"
    /\ inflight > 0
    /\ remaining = {}
    /\ inflight' = inflight - 1
    /\ remaining' = {s \in Subscriber : chan[s] = "open"}
    /\ UNCHANGED <<added, queue, hooks, conn, psUp, chan, buf, loopVars, lossy, flusher, holder>>

\* Mutant: dispatch waits for room in the buffer.
DispatchSendsBlocking(s) ==
    /\ s \in remaining
    /\ buf[s] < BufferSize
    /\ remaining' = remaining \ {s}
    /\ buf' = [buf EXCEPT ![s] = @ + 1]
    /\ UNCHANGED <<added, queue, hooks, inflight, conn, psUp, chan, loopVars, lossy, flusher,
                   holder>>

\* Mutant: the buffer has no bound.
DispatchSendsUnbounded(s) ==
    /\ s \in remaining
    /\ remaining' = remaining \ {s}
    /\ buf' = [buf EXCEPT ![s] = @ + 1]
    /\ UNCHANGED <<added, queue, hooks, inflight, conn, psUp, chan, loopVars, lossy, flusher,
                   holder>>

\* A message that does not fit into the buffer is dropped.
DispatchSends(s) ==
    /\ s \in remaining
    /\ remaining' = remaining \ {s}
    /\ buf' = [buf EXCEPT ![s] = IF @ < BufferSize THEN @ + 1 ELSE @]
    /\ UNCHANGED <<added, queue, hooks, inflight, conn, psUp, chan, loopVars, lossy, flusher,
                   holder>>

\* The connection fails: what was on its way is lost.
ConnFails ==
    /\ conn = "up"
    /\ conn' = "down"
    /\ inflight' = 0
    /\ lossy' = IF inflight > 0 THEN AllLossy ELSE lossy
    /\ UNCHANGED <<added, queue, hooks, psUp, remaining, chan, buf, loopVars, flusher, holder>>

Reconnects ==
    /\ conn = "down"
    /\ psUp
    /\ conn' = "up"
    /\ UNCHANGED <<added, queue, hooks, inflight, psUp, remaining, chan, buf, loopVars, lossy,
                   flusher, holder>>

\* The ctx of NewPGPubSub ends and the listener exits.
ShutsDown ==
    /\ Listener # {}
    /\ psUp
    /\ psUp' = FALSE
    /\ conn' = "down"
    /\ inflight' = 0
    /\ lossy' = AllLossy
    /\ UNCHANGED <<added, queue, hooks, remaining, chan, buf, loopVars, flusher, holder>>

\* Mutant: the channel is closed without subscribersMu.
UnsubscribeUnlocked(s) ==
    /\ chan[s] = "open"
    /\ ctxDone[s] \/ ~psUp
    /\ chan' = [chan EXCEPT ![s] = "closed"]
    /\ UNCHANGED <<added, queue, pubVars, buf, loopVars, lossy, flusher, holder>>

\* The goroutine of Sub: unsubscribe takes subscribersMu and closes the channel.
Unsubscribe(s) ==
    /\ chan[s] = "open"
    /\ ctxDone[s] \/ ~psUp
    /\ remaining = {}
    /\ chan' = [chan EXCEPT ![s] = "closed"]
    /\ UNCHANGED <<added, queue, pubVars, buf, loopVars, lossy, flusher, holder>>

-----------------------------------------------------------------------------
\* Subscribe

Subscribe(s) ==
    /\ pc[s] = "idle"
    /\ Goto(s, IF Exclusive THEN "acquire" ELSE "sub")
    /\ UNCHANGED <<added, queue, pubVars, chan, buf, notif, ctxDone, failed, lossy, flusher,
                   holder>>

CtxEnds(s) ==
    /\ pc[s] \notin {"idle", "done"}
    /\ ~ctxDone[s]
    /\ ctxDone' = [ctxDone EXCEPT ![s] = TRUE]
    /\ UNCHANGED <<added, queue, pubVars, chan, buf, notif, pc, failed, lossy, flusher, holder>>

\* Subscribe returns; an exclusive one releases the lease first.
Return(s) == Goto(s, IF Exclusive THEN "release" ELSE "done")

\* AcquireTopic returns when nobody else holds a live lease; then the loop starts,
\* or goes on at once.
Acquired(s) ==
    /\ pc[s] \in {"acquire", "reacquire"}
    /\ ~ctxDone[s]
    /\ holder \in {Nobody, s}
    /\ flusher = Nobody
    /\ holder' = s
    /\ Goto(s, IF pc[s] = "acquire" THEN "sub" ELSE "drain")
    /\ UNCHANGED <<added, queue, pubVars, chan, buf, notif, ctxDone, failed, lossy, flusher>>

\* AcquireTopic fails.  Before the loop Subscribe returns with nothing to release;
\* in the loop it returns only for the ctx and else waits for the next wake-up.
AcquireFails(s) ==
    /\ \/ pc[s] = "acquire" /\ Goto(s, "done")
       \/ pc[s] = "reacquire" /\ ctxDone[s] /\ Return(s)
       \/ pc[s] = "reacquire" /\ ~ctxDone[s] /\ Goto(s, "select")
    /\ UNCHANGED <<added, queue, pubVars, chan, buf, notif, ctxDone, failed, lossy, flusher,
                   holder>>

\* ReleaseTopic on the way out, with its own bounded ctx; it may fail.
Releases(s) ==
    /\ pc[s] = "release"
    /\ Goto(s, "done")
    /\ \/ holder' = IF holder = s THEN Nobody ELSE holder
       \/ UNCHANGED holder
    /\ UNCHANGED <<added, queue, pubVars, chan, buf, notif, ctxDone, failed, lossy, flusher>>

\* The session or the grace period of the holder lapses.
LeaseLapses ==
    /\ holder # Nobody
    /\ flusher = Nobody
    /\ holder' = Nobody
    /\ UNCHANGED <<added, queue, pubVars, chan, buf, loopVars, lossy, flusher>>

\* Sub dials if there is no listener yet.  Without a listener Subscribe returns.
\* Without a PubSub there is nothing to listen to.
Listens(s) ==
    /\ pc[s] = "sub"
    /\ \/ s \notin Listener /\ Goto(s, "drain") /\ UNCHANGED conn
       \/ s \in Listener /\ psUp
          /\ Goto(s, "register")
          /\ conn' = IF conn = "none" THEN "up" ELSE conn
       \/ s \in Listener /\ (psUp => conn = "none") /\ Return(s) /\ UNCHANGED conn
    /\ UNCHANGED <<added, queue, hooks, inflight, psUp, remaining, chan, buf, notif, ctxDone,
                   failed, lossy, flusher, holder>>

\* Sub registers its channel under subscribersMu.
Registers(s) ==
    /\ pc[s] = "register"
    /\ remaining = {}
    /\ chan' = [chan EXCEPT ![s] = "open"]
    /\ notif' = [notif EXCEPT ![s] = TRUE]
    /\ Goto(s, "drain")
    /\ UNCHANGED <<added, queue, pubVars, buf, ctxDone, failed, lossy, flusher, holder>>

\* drainNotifications, before the pass.
Drains(s) ==
    /\ pc[s] = "drain"
    /\ buf' = [buf EXCEPT ![s] = IF notif[s] THEN 0 ELSE @]
    /\ failed' = [failed EXCEPT ![s] = FALSE]
    /\ Goto(s, "pass")
    /\ UNCHANGED <<added, queue, pubVars, chan, notif, ctxDone, lossy, flusher, holder>>

HasAccess(s) == ~Exclusive \/ holder = s

\* ProcessMessages reads the topic and finds it empty: the snapshot of the pass.
ReadsEmpty(s) ==
    /\ pc[s] = "pass"
    /\ ~ctxDone[s]
    /\ flusher = Nobody
    /\ HasAccess(s)
    /\ queue = 0
    /\ lossy' = [lossy EXCEPT ![s] = FALSE]
    /\ Goto(s, "empty")
    /\ UNCHANGED <<added, queue, pubVars, chan, buf, notif, ctxDone, failed, flusher, holder>>

\* Mutant: the buffer is drained after the pass.
PassEndsDrained(s) ==
    /\ pc[s] = "empty"
    /\ buf' = [buf EXCEPT ![s] = 0]
    /\ Goto(s, "select")
    /\ UNCHANGED <<added, queue, pubVars, chan, notif, ctxDone, failed, lossy, flusher, holder>>

\* The empty batch is returned and ends the pass.
PassEnds(s) ==
    /\ pc[s] = "empty"
    /\ Goto(s, "select")
    /\ UNCHANGED <<added, queue, pubVars, chan, buf, notif, ctxDone, failed, lossy, flusher,
                   holder>>

FlushBegins(s) ==
    /\ pc[s] = "pass"
    /\ ~ctxDone[s]
    /\ flusher = Nobody
    /\ HasAccess(s)
    /\ queue > 0
    /\ flusher' = s
    /\ Goto(s, "flush")
    /\ UNCHANGED <<added, queue, pubVars, chan, buf, notif, ctxDone, failed, lossy, holder>>

\* The batch is committed and the pass goes on.
FlushCommits(s) ==
    /\ pc[s] = "flush"
    /\ ~ctxDone[s]
    /\ \E n \in 1..queue : queue' = queue - n
    /\ flusher' = Nobody
    /\ Goto(s, "pass")
    /\ UNCHANGED <<added, pubVars, chan, buf, notif, ctxDone, failed, lossy, holder>>

\* ProcessMessages fails with an error that is logged, or the ctx has ended.
PassFails(s) ==
    /\ pc[s] \in {"pass", "flush", "empty"}
    /\ Goto(s, "select")
    /\ failed' = [failed EXCEPT ![s] = TRUE]
    /\ flusher' = IF flusher = s THEN Nobody ELSE flusher
    /\ UNCHANGED <<added, queue, pubVars, chan, buf, notif, ctxDone, lossy, holder>>

\* ProcessMessages fails because the lease is lost.
LeaseIsLost(s) ==
    /\ pc[s] = "pass"
    /\ ~ctxDone[s]
    /\ flusher = Nobody
    /\ ~HasAccess(s)
    /\ Goto(s, "reacquire")
    /\ failed' = [failed EXCEPT ![s] = TRUE]
    /\ UNCHANGED <<added, queue, pubVars, chan, buf, notif, ctxDone, lossy, flusher, holder>>

\* Mutant: the poll timer is armed only without a PubSub.
PollFiresUnsubscribed(s) ==
    /\ pc[s] = "select"
    /\ ~notif[s]
    /\ Goto(s, "drain")
    /\ UNCHANGED <<added, queue, pubVars, chan, buf, notif, ctxDone, failed, lossy, flusher,
                   holder>>

PollFires(s) ==
    /\ pc[s] = "select"
    /\ Goto(s, "drain")
    /\ UNCHANGED <<added, queue, pubVars, chan, buf, notif, ctxDone, failed, lossy, flusher,
                   holder>>

\* The select receives a notification, or finds the channel closed and forgets it.
NotificationWakes(s) ==
    /\ pc[s] = "select"
    /\ notif[s]
    /\ \/ buf[s] > 0 /\ buf' = [buf EXCEPT ![s] = @ - 1] /\ UNCHANGED notif
       \/ buf[s] = 0 /\ chan[s] = "closed" /\ notif' = [notif EXCEPT ![s] = FALSE]
          /\ UNCHANGED buf
    /\ Goto(s, "drain")
    /\ UNCHANGED <<added, queue, pubVars, chan, ctxDone, failed, lossy, flusher, holder>>

SelectDone(s) ==
    /\ pc[s] = "select"
    /\ ctxDone[s]
    /\ Return(s)
    /\ UNCHANGED <<added, queue, pubVars, chan, buf, notif, ctxDone, failed, lossy, flusher,
                   holder>>

-----------------------------------------------------------------------------
\* What a Subscribe call does by itself.
Advance(s) ==
    \/ Listens(s)
    \/ Registers(s)
    \/ Drains(s)
    \/ ReadsEmpty(s)
    \/ PassEnds(s)
    \/ NotificationWakes(s)
    \/ Releases(s)

Next ==
    \/ AddAndCommit
    \/ NotifierNotifies
    \/ Dispatch
    \/ ConnFails
    \/ Reconnects
    \/ ShutsDown
    \/ LeaseLapses
    \/ \E s \in Subscriber :
        \/ DispatchSends(s)
        \/ Unsubscribe(s)
        \/ Subscribe(s)
        \/ CtxEnds(s)
        \/ Acquired(s)
        \/ AcquireFails(s)
        \/ Advance(s)
        \/ LeaseIsLost(s)
        \/ FlushBegins(s)
        \/ FlushCommits(s)
        \/ PassFails(s)
        \/ PollFires(s)
        \/ SelectDone(s)

Spec == Init /\ [][Next]_vars

\* What is assumed of a call whose ctx has ended, and of the PubSub: goroutines run,
\* what uses an ended ctx fails, ReleaseTopic is bounded, and a select with several
\* ready cases does not ignore one for ever.
EndsFairly ==
    /\ WF_vars(\E s \in Subscriber : DispatchSends(s) \/ Unsubscribe(s))
    /\ \A s \in Subscriber :
        /\ WF_vars(Advance(s))
        /\ WF_vars(ctxDone[s] /\ (PassFails(s) \/ AcquireFails(s)))
    /\ SF_vars(\E s \in Subscriber : SelectDone(s))

\* What is assumed besides of a call that goes on: the poll timer fires; the errors of
\* its passes, flushes and AcquireTopic calls cease; a lease nobody renews lapses and
\* the lease of a subscriber that stays does not lapse for ever.  Nothing is assumed of
\* notifications or of the listener's connection.
WorksFairly ==
    /\ WF_vars(LeaseLapses /\ pc[holder] = "done")
    /\ <>[][LeaseLapses => pc[holder] = "done"]_vars
    /\ \A s \in Subscriber :
        /\ WF_vars(PollFires(s))
        /\ WF_vars(LeaseIsLost(s))
        /\ WF_vars(FlushBegins(s))
        /\ WF_vars(FlushCommits(s))
        /\ WF_vars(Acquired(s))
    /\ <>[][\A s \in Subscriber : PassFails(s) \/ AcquireFails(s) => ctxDone[s]]_vars

FairSpec == Spec /\ EndsFairly /\ WorksFairly

-----------------------------------------------------------------------------
TypeOK ==
    /\ added \in 0..MaxAdded
    /\ queue \in 0..MaxAdded
    /\ hooks \in 0..MaxAdded
    /\ inflight \in 0..MaxAdded
    /\ conn \in {"none", "up", "down"}
    /\ psUp \in BOOLEAN
    /\ remaining \in SUBSET Subscriber
    /\ chan \in [Subscriber -> {"none", "open", "closed"}]
    /\ buf \in [Subscriber -> 0..BufferSize]
    /\ notif \in [Subscriber -> BOOLEAN]
    /\ pc \in [Subscriber -> Pc]
    /\ ctxDone \in [Subscriber -> BOOLEAN]
    /\ failed \in [Subscriber -> BOOLEAN]
    /\ lossy \in [Subscriber -> BOOLEAN]
    /\ flusher \in Subscriber \cup {Nobody}
    /\ holder \in Subscriber \cup {Nobody}

(***************************************************************************)
(* No lost wake-up: a subscriber with a PubSub that has read the topic     *)
(* empty has a wake-up on its way when a message has been committed since, *)
(* unless the pass failed in the end or a notification was lost.  Draining *)
(* the buffer before the pass, registering the channel before the first    *)
(* one, and dropping only what does not fit are what it rests on           *)
(* (Subscribe: "a notification arriving after this point stays in the      *)
(* buffer").                                                               *)
(***************************************************************************)
WakeupComing(s) ==
    \/ buf[s] > 0
    \/ s \in remaining
    \/ inflight > 0
    \/ hooks > 0
    \/ chan[s] = "closed"

NoLostWakeup ==
    \A s \in Listener :
        pc[s] \in {"empty", "select"} /\ queue > 0 => WakeupComing(s) \/ failed[s] \/ lossy[s]

(***************************************************************************)
(* A dispatch never sends on a closed channel, which would panic the       *)
(* listener (unsubscribe: "closing under subscribersMu is what makes it    *)
(* safe").                                                                 *)
(***************************************************************************)
NoSendOnClosed == \A s \in remaining : chan[s] = "open"

(***************************************************************************)
(* Messages are not left behind: while some subscriber stays, the queue is *)
(* emptied, or at least found empty, again and again, whatever             *)
(* notifications are lost and whoever else leaves ("subscribers pick them  *)
(* up on their next poll"; the hot standbys of a failover group take over).*)
(***************************************************************************)
Subscribed(s) == pc[s] \notin {"idle", "done"} /\ ~ctxDone[s]

BacklogDrained ==
    queue > 0 /\ (\E s \in Subscriber : Subscribed(s))
        ~> queue = 0 \/ ~\E s \in Subscriber : Subscribed(s)

(***************************************************************************)
(* A Subscribe call whose ctx ends returns, wherever it is, and its        *)
(* channel is closed: no lock of the PubSub, no full buffer, no lease of   *)
(* another instance holds it back.                                         *)
(***************************************************************************)
SubscribeReturns ==
    \A s \in Subscriber : ctxDone[s] ~> pc[s] = "done" /\ chan[s] # "open"

=============================================================================
