---------------------------- MODULE MCDowntimes ----------------------------
(* A volatile service with a flexible downtime, one that the flexible one   *)
(* triggers, and a maintenance period with time for two downtimes, should   *)
(* the first be deleted; another instance has a fixed downtime instead.     *)
(* Items share nothing here, so that one of them is enough.                 *)
EXTENDS Downtimes

CONSTANTS svc, fix, maint1, maint2, flex, trig

MCRef == [d \in Downtimes |-> svc]
MCStart == [d \in Downtimes |-> IF d \in Fixed THEN 1 ELSE 0]
MCEnd == [d \in Downtimes |-> 1]
MCDuration == [d \in Downtimes |-> 1]
MCTrigger == [d \in Downtimes |-> IF d = trig THEN flex ELSE None]
=============================================================================
