----------------------------- MODULE MCResolver -----------------------------
(* An instance of Resolver.  The times to live keep the order they have in *)
(* the code.                                                               *)
EXTENDS Resolver

WellKnownTimes == [ok |-> 2, notFound |-> 1, invalid |-> 0, temporary |-> 0]
SRVTimes == [ok |-> 2, notFound |-> 1, invalid |-> 0, temporary |-> 0]

=============================================================================
