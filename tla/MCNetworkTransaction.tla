------------------------ MODULE MCNetworkTransaction ------------------------
(* Instances of NetworkTransaction for TLC: session s1 (and s2) with their *)
(* watchdogs, manual recoveries r1 (and r2), and an interface whose        *)
(* settings are a manual address, a route of the user that verify_restored *)
(* does not compare, a leased address and a host route.                    *)
EXTENDS NetworkTransaction, TLC

CONSTANTS s1, s2, w1, w2, r1, r2, manual, own, leased, route

MCParentOf1 == w1 :> s1
MCParentOf2 == w1 :> s1 @@ w2 :> s2
=============================================================================
