---------------------------- MODULE MCMaintenance ----------------------------
(***************************************************************************)
(* Instances of Maintenance for TLC: one topic, two outbox instances.      *)
(***************************************************************************)
EXTENDS Maintenance

CONSTANTS i1, i2, t1, Short, Long

OnT1 == [m \in Message |-> t1]

\* i1 is a default maintainer, i2 has an expiration for the topic only.
DefaultOfFirst == [i \in Instance |-> IF i = i1 THEN Short ELSE 0]
ExplicitOfSecond == [i \in Instance |-> [t \in Topic |-> IF i = i2 THEN Long ELSE 0]]

\* Two default maintainers and no expiration of a topic's own.
DefaultOfBoth == [i \in Instance |-> Short]
NoExplicit == [i \in Instance |-> [t \in Topic |-> 0]]

\* Shares of a class leave no candidate without an instance that may claim it.
ASSUME SharesCover ==
    \A candidates \in 0..9, instances \in 1..4 :
        instances * Share(candidates, 0, instances) >= candidates

=============================================================================
