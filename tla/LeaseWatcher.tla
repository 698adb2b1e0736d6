---------------------------- MODULE LeaseWatcher ----------------------------
(***************************************************************************)
(* The leaseWatcher of one instance for one topic, at the grain of its     *)
(* goroutines: the running map, the context and the goroutine of every     *)
(* watched hold, and the calls that use it (AcquireTopic, which stops the  *)
(* old watcher, writes the lease and starts a new one, and ReleaseTopic,   *)
(* which stops it and writes).                                             *)
(***************************************************************************)
CONSTANTS
    Hold,      \* the leaseWatcherHandles, one per Start
    Caller,    \* goroutines that call AcquireTopic and ReleaseTopic
    Nobody,    \* no handle
    Serial     \* the calls for the topic come one after the other

ASSUME NobodyIsNoHold == Nobody \notin Hold
ASSUME SerialType == Serial \in BOOLEAN

VARIABLES
    running,   \* the entry of the topic in the running map
    cause,     \* context.Cause of a watchCtx: "none", "ended" or "stopped"
    gor,       \* the goroutine: "new", "wait", "cancel", "exit", "done"
    pc,        \* where a call is
    target,    \* the handle whose done channel a Stop waits for
    report,    \* what the Stop on entry to the call returned
    lease      \* the last lease write: "held" by an acquire, or "lapsing"

vars == <<running, cause, gor, pc, target, report, lease>>

Ran(h) == gor[h] # "new"

TypeOK ==
    /\ running \in Hold \cup {Nobody}
    /\ cause \in [Hold -> {"none", "ended", "stopped"}]
    /\ gor \in [Hold -> {"new", "wait", "cancel", "exit", "done"}]
    /\ pc \in [Caller -> {"idle", "stop", "write", "start", "restop", "store"}]
    /\ target \in [Caller -> Hold \cup {Nobody}]
    /\ report \in [Caller -> BOOLEAN]
    /\ lease \in {"held", "lapsing"}

Init ==
    /\ running = Nobody
    /\ cause = [h \in Hold |-> "none"]
    /\ gor = [h \in Hold |-> "new"]
    /\ pc = [c \in Caller |-> "idle"]
    /\ target = [c \in Caller |-> Nobody]
    /\ report = [c \in Caller |-> FALSE]
    /\ lease = "lapsing"

-----------------------------------------------------------------------------
\* The goroutine of a hold

\* The ctx that Start was given ends.  The first cause wins.
HoldCtxEnds(h) ==
    /\ gor[h] = "wait"
    /\ cause[h] = "none"
    /\ cause' = [cause EXCEPT ![h] = "ended"]
    /\ UNCHANGED <<running, gor, pc, target, report, lease>>

\* Mutant: the goroutine does not look at the cause.
WakesAnyCause(h) ==
    /\ gor[h] = "wait"
    /\ cause[h] # "none"
    /\ gor' = [gor EXCEPT ![h] = "cancel"]
    /\ UNCHANGED <<running, cause, pc, target, report, lease>>

\* Mutant: the goroutine waits for the ctx of the caller, which Stop does not cancel.
WakesOnEnd(h) ==
    /\ gor[h] = "wait"
    /\ cause[h] = "ended"
    /\ gor' = [gor EXCEPT ![h] = "cancel"]
    /\ UNCHANGED <<running, cause, pc, target, report, lease>>

\* The goroutine wakes up; a deliberate Stop suppresses onCancel.
Wakes(h) ==
    /\ gor[h] = "wait"
    /\ cause[h] # "none"
    /\ gor' = [gor EXCEPT ![h] = IF cause[h] = "stopped" THEN "exit" ELSE "cancel"]
    /\ UNCHANGED <<running, cause, pc, target, report, lease>>

\* onCancel writes the grace-period expiry and returns.
OnCancel(h) ==
    /\ gor[h] = "cancel"
    /\ gor' = [gor EXCEPT ![h] = "exit"]
    /\ lease' = "lapsing"
    /\ UNCHANGED <<running, cause, pc, target, report>>

\* The deferred CompareAndDelete, then the deferred close of the done channel.
Removed(h) == IF running = h THEN Nobody ELSE running

Exits(h) ==
    /\ gor[h] = "exit"
    /\ running' = Removed(h)
    /\ gor' = [gor EXCEPT ![h] = "done"]
    /\ UNCHANGED <<cause, pc, target, report, lease>>

-----------------------------------------------------------------------------
\* Stop and Start

\* Mutant: the watchCtx is cancelled without errLeaseWatcherStopped.
CancelledPlainly ==
    [h \in Hold |-> IF h = running /\ cause[h] = "none" THEN "canceled" ELSE cause[h]]

\* LoadAndDelete of the map entry, and the cancellation of its watchCtx.
Cancelled == [h \in Hold |-> IF h = running /\ cause[h] = "none" THEN "stopped" ELSE cause[h]]

\* Stop on entry to AcquireTopic or ReleaseTopic.
CallStop(c) ==
    /\ pc[c] = "idle"
    /\ Serial => \A d \in Caller : pc[d] = "idle"
    /\ pc' = [pc EXCEPT ![c] = "stop"]
    /\ target' = [target EXCEPT ![c] = running]
    /\ report' = [report EXCEPT ![c] = running # Nobody]
    /\ running' = Nobody
    /\ cause' = Cancelled
    /\ UNCHANGED <<gor, lease>>

\* Mutant: Stop returns without waiting for the done channel.
StopReturnsAtOnce(c) ==
    /\ pc[c] \in {"stop", "restop"}
    /\ pc' = [pc EXCEPT ![c] = IF pc[c] = "stop" THEN "write" ELSE "store"]
    /\ target' = [target EXCEPT ![c] = Nobody]
    /\ UNCHANGED <<running, cause, gor, report, lease>>

\* Stop returns once the done channel of the handle it took is closed.
StopReturns(c) ==
    /\ pc[c] \in {"stop", "restop"}
    /\ target[c] # Nobody => gor[target[c]] = "done"
    /\ pc' = [pc EXCEPT ![c] = IF pc[c] = "stop" THEN "write" ELSE "store"]
    /\ target' = [target EXCEPT ![c] = Nobody]
    /\ UNCHANGED <<running, cause, gor, report, lease>>

EndCall(c) ==
    /\ pc' = [pc EXCEPT ![c] = "idle"]
    /\ report' = [report EXCEPT ![c] = FALSE]

\* AcquireTopic has the lease and is about to start its watcher.
Acquired(c) ==
    /\ pc[c] = "write"
    /\ \E h \in Hold : ~Ran(h)
    /\ pc' = [pc EXCEPT ![c] = "start"]
    /\ lease' = "held"
    /\ UNCHANGED <<running, cause, gor, target, report>>

\* ReleaseTopic has written its expiry.
Released(c) ==
    /\ pc[c] = "write"
    /\ lease' = "lapsing"
    /\ EndCall(c)
    /\ UNCHANGED <<running, cause, gor, target>>

\* Mutant: the report of Stop is ignored.
FailsWithoutExpiry(c) ==
    /\ pc[c] = "write"
    /\ EndCall(c)
    /\ UNCHANGED <<running, cause, gor, target, lease>>

\* Either call fails; expireLeaseIfWatcherOrphaned goes by what Stop reported.
Fails(c) ==
    /\ pc[c] = "write"
    /\ lease' = IF report[c] THEN "lapsing" ELSE lease
    /\ EndCall(c)
    /\ UNCHANGED <<running, cause, gor, target>>

\* Start stops what is there; here the report is not looked at.
StartStops(c) ==
    /\ pc[c] = "start"
    /\ pc' = [pc EXCEPT ![c] = "restop"]
    /\ target' = [target EXCEPT ![c] = running]
    /\ running' = Nobody
    /\ cause' = Cancelled
    /\ UNCHANGED <<gor, report, lease>>

\* Start stores a new handle and spawns its goroutine.
StartStores(c, h) ==
    /\ pc[c] = "store"
    /\ ~Ran(h)
    /\ running' = h
    /\ gor' = [gor EXCEPT ![h] = "wait"]
    /\ EndCall(c)
    /\ UNCHANGED <<cause, target, lease>>

Next ==
    \/ \E h \in Hold : HoldCtxEnds(h) \/ Wakes(h) \/ OnCancel(h) \/ Exits(h)
    \/ \E c \in Caller :
        \/ CallStop(c)
        \/ StopReturns(c)
        \/ Acquired(c)
        \/ Released(c)
        \/ Fails(c)
        \/ StartStops(c)
        \/ \E h \in Hold : StartStores(c, h)

Spec == Init /\ [][Next]_vars

\* The goroutines run, and onCancel is bounded by exclusiveLeaseWriteTimeout.
FairSpec ==
    /\ Spec
    /\ \A h \in Hold : WF_vars(Wakes(h) \/ OnCancel(h) \/ Exits(h))
    /\ \A c \in Caller : WF_vars(StopReturns(c))

-----------------------------------------------------------------------------
(***************************************************************************)
(* "Exactly one watcher ever runs per topic at a time" (Start): no two     *)
(* goroutines that may still write the lease.                              *)
(***************************************************************************)
MayWrite(h) == gor[h] = "cancel" \/ (gor[h] = "wait" /\ cause[h] # "stopped")

OneWatcher == \A h, k \in Hold : MayWrite(h) /\ MayWrite(k) => h = k

(***************************************************************************)
(* A caller that has stopped the watcher has the last word: while it       *)
(* writes its own lease state no onCancel is on its way to overwrite it    *)
(* (the doc comment of leaseWatcher).                                      *)
(***************************************************************************)
LastWord ==
    \A c \in Caller : pc[c] \in {"write", "start", "restop", "store"} =>
        \A h \in Hold : ~MayWrite(h)

(***************************************************************************)
(* Between calls a held lease and a watcher go together: a hold that       *)
(* nobody watches would never end, and the watcher of a hold that has      *)
(* lapsed would end somebody else's (expireLeaseIfWatcherOrphaned relies   *)
(* on what Stop reports).                                                  *)
(***************************************************************************)
HeldIffWatched ==
    (\A c \in Caller : pc[c] = "idle") => (lease = "held" <=> \E h \in Hold : MayWrite(h))

(***************************************************************************)
(* Stop always returns: it waits for a goroutine that has been cancelled   *)
(* or has fired.                                                           *)
(***************************************************************************)
StopEnds == \A c \in Caller : pc[c] \in {"stop", "restop"} ~> pc[c] \in {"write", "store"}

(***************************************************************************)
(* The watcher keeps the promise of HoldPromise.                           *)
(***************************************************************************)
holdState ==
    [h \in Hold |->
        CASE gor[h] = "new" -> "none"
          [] gor[h] = "wait" /\ cause[h] = "none" -> "watched"
          [] gor[h] = "cancel" \/ (gor[h] = "wait" /\ cause[h] = "ended") -> "ending"
          [] OTHER -> "over"]

Promise == INSTANCE HoldPromise WITH hold <- holdState

HoldsFollowEachOther == Promise!Spec

=============================================================================
