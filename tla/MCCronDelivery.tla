--------------------------- MODULE MCCronDelivery ---------------------------
(* Three messages of one run on two slots, with two other routes, and a    *)
(* second run that takes the place of the first one's context.             *)
EXTENDS CronDelivery
CONSTANTS telegram, vk, web
OneRun == [m \in Msgs |-> 1]
OtherRoutes == <<vk, web>>
=============================================================================
