---------------------------- MODULE HoldPromise ----------------------------
(***************************************************************************)
(* What the lease watcher promises to AcquireTopic and ReleaseTopic: the   *)
(* holds of a topic follow one another, and each ends once, by the write   *)
(* of its grace-period expiry or by being suppressed, before the next one  *)
(* begins.                                                                 *)
(***************************************************************************)
CONSTANT Hold

VARIABLE hold   \* "none", "watched", "ending" or "over" for every hold

Init == hold = [h \in Hold |-> "none"]

Active(h) == hold[h] \in {"watched", "ending"}

Move(h, from, to) == hold[h] = from /\ hold' = [hold EXCEPT ![h] = to]

Begin(h) == (\A k \in Hold : ~Active(k)) /\ Move(h, "none", "watched")

CtxEnds(h) == Move(h, "watched", "ending")

Suppress(h) == Move(h, "watched", "over")

Write(h) == Move(h, "ending", "over")

Next == \E h \in Hold : Begin(h) \/ CtxEnds(h) \/ Suppress(h) \/ Write(h)

Spec == Init /\ [][Next]_hold

=============================================================================
