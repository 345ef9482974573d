-------------------------- MODULE MCDeliveryRuntime --------------------------
(* Instances of DeliveryRuntime for TLC. *)
EXTENDS DeliveryRefinement

CONSTANTS i1, i2

MCTypeOf == [e \in Events |-> <<"order", "created">>]

\* "order.*" and a filter that matches no event: every subscription gets
\* every event.
MCEventTypes ==
    [s \in Subs |-> {[text |-> <<"order">>, star |-> TRUE],
                     [text |-> <<"user", "created">>, star |-> FALSE]}]

\* All workers share one INSTANCE_ID: the goroutines of one process, or
\* several processes with the default value.
MCSharedInstance == [w \in Workers |-> i1]

\* The consumers run in one instance, the poller slots in another.
MCTwoInstances == [w \in Workers |-> IF w \in Consumers THEN i1 ELSE i2]
=============================================================================
