---------------------------- MODULE ConfDelivery ----------------------------
(***************************************************************************)
(* What the arbiter promises to the daemons it configures, without the     *)
(* links, the flags and the retries of Dispatcher: configurations are      *)
(* published one after the other, a daemon is posted its share of the      *)
(* latest one, installs it later, and may lose it at any time. It never    *)
(* installs a configuration older than the one it holds.                   *)
(***************************************************************************)
EXTENDS Naturals

CONSTANTS Daemons, Share   \* Share: daemon -> the parts that are for it

VARIABLES
  ver,    \* the latest configuration
  mail,   \* daemon -> posted and not installed yet
  held    \* daemon -> installed

None == [ver |-> 0, parts |-> {}]

Init == ver = 1 /\ mail = [d \in Daemons |-> None] /\ held = [d \in Daemons |-> None]

Publish == ver' = ver + 1 /\ UNCHANGED <<mail, held>>

Post(d) == /\ mail' = [mail EXCEPT ![d] = [ver |-> ver, parts |-> Share[d]]]
           /\ UNCHANGED <<ver, held>>

Install(d) == /\ mail[d] # None /\ mail[d].ver >= held[d].ver
              /\ held' = [held EXCEPT ![d] = mail[d]]
              /\ mail' = [mail EXCEPT ![d] = None]
              /\ UNCHANGED ver

\* Told to wait for a new configuration.
Drop(d) == held' = [held EXCEPT ![d] = None] /\ UNCHANGED <<ver, mail>>

\* Daemons that end or crash.
Lose(ds) == /\ held' = [d \in Daemons |-> IF d \in ds THEN None ELSE held[d]]
            /\ mail' = [d \in Daemons |-> IF d \in ds THEN None ELSE mail[d]]
            /\ UNCHANGED ver

Next == \/ Publish
        \/ \E d \in Daemons : Post(d) \/ Install(d) \/ Drop(d)
        \/ \E ds \in SUBSET Daemons : Lose(ds)

Spec == Init /\ [][Next]_<<ver, mail, held>>
=============================================================================
