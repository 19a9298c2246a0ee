---------------------------- MODULE MCDispatcher ----------------------------
(* A realm with one scheduler and one poller.                              *)
EXTENDS Dispatcher

CONSTANTS s1, p1, c1

SchedulerLinks == <<s1>>
SatelliteLinks == <<p1>>
BothLaunched == <<p1, s1>>
PollerType == <<"poller">>
OneRealm ==
  <<[parts |-> <<c1>>, schedulers |-> {s1}, potentials |-> {},
     sats |-> [poller |-> {p1}], potsats |-> [poller |-> {}]]>>
MustHave == <<[poller |-> 1]>>
=============================================================================
