------------------------------ MODULE MCServices ------------------------------
(***************************************************************************)
(* Small instances of the services: the values that a .cfg cannot write.   *)
(***************************************************************************)
EXTENDS DeskServices

MCEnvPolicies == {[maxLeverage |-> 2, targetLeverage |-> 2, maxDrawdownPct |-> 40],
                  [maxLeverage |-> 1, targetLeverage |-> 2, maxDrawdownPct |-> 100]}
MCRestingPolicy == [maxLeverage |-> 1, targetLeverage |-> 2, maxDrawdownPct |-> 100]
===============================================================================
