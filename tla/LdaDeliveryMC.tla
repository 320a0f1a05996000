--------------------------- MODULE LdaDeliveryMC ---------------------------
(* Instance of LdaDelivery for TLC: a list that names one address twice.   *)
EXTENDS LdaDelivery

CONSTANTS a1, a2
AddressTwice == <<a1, a2, a1>>
=============================================================================
