------------------------ MODULE MCIntegrationHealth ------------------------
(* Instances of IntegrationHealth for TLC. *)
EXTENDS IntegrationHealth, TLC

CONSTANTS i1, i2, c1, c2, t1, t2

\* One row.
OnePlatform == i1 :> c1
OneTenant   == i1 :> t1

\* Two rows of two tenants, with a platform each.
TwoPlatforms == i1 :> c1 @@ i2 :> c2
TwoTenants   == i1 :> t1 @@ i2 :> t2

=============================================================================
