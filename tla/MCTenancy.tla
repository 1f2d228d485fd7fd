----------------------------- MODULE MCTenancy -----------------------------
(* The instance of Tenancy that TLC checks.                                *)
EXTENDS Tenancy, TLC

CONSTANTS a, b, router, reactor, worker, r1

MCShard    == {a, b}
MCProcess  == {router, a}
MCPool     == (router :> {worker}) @@ (a :> {})
MCRow      == {r1}
MCEntered  == {b, None}
MCStart    == {a, Global}
MCGiven    == {None, Global}
MCAssigned == {b, None}

=============================================================================
