-------------------------- MODULE MCExclusiveLease --------------------------
(***************************************************************************)
(* Values for TLC: where the workers of ExclusiveLease run.                *)
(***************************************************************************)
EXTENDS ExclusiveLease, TLC

CONSTANTS i1, i2, w1, w2

NoWorkers      == <<>>
OneWorker      == w1 :> i1
TwoWorkers     == w1 :> i1 @@ w2 :> i1

=============================================================================
