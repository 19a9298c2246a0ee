----------------------------- MODULE MCCommands -----------------------------
(* A receiver with two schedulers; one command for the first, one of them   *)
(* raising, one for both, one that is not understood, and a restart.        *)
EXTENDS Commands

CONSTANTS s1, s2

TwoSchedulers == <<s1, s2>>
Line(to, cmds) == { [to |-> to, cmd |-> c] : c \in cmds }
MCLines ==
  Line(s1, Toggle("host", {"notifications"}, FALSE)) \cup Line(s1, Plain("comment_raises", {"host"}))
  \cup Line("all", Toggle("contact", {"host_notifications"}, FALSE))
  \cup Line("nobody", Plain("log", {"host"})) \cup Line("nobody", Plain("run", {"program"}))
=============================================================================
