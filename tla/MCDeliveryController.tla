-------------------------- MODULE MCDeliveryController --------------------------
(* Values for TLC: the implementation ceilings of execution-policy.mjs.        *)
EXTENDS DeliveryController

MCMaxImplementationAttempts == [fast |-> 2, standard |-> 2, critical |-> 3]
=============================================================================
