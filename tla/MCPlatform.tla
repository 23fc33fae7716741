------------------------------ MODULE MCPlatform ------------------------------
(* Instance for TLC of the parts of the library that stand beside the queue   *)
(* and share no state with each other: a behaviour exercises one of them.     *)
EXTENDS Resources, Signals, PollTable, YoText

\* Three descriptors, the first with two handles.
SomeHandles == {<<1, "a">>, <<1, "b">>, <<2, "b">>, <<3, "a">>}

\* One group more than an address has.
GroupBounds == [ipv4 |-> 5, ipv6 |-> 9]

VARIABLE part

vars == <<part, rvars, svars, pvars, tvars>>

\* The parts at rest, but for the one that runs.
PartsInit ==
  /\ RInit /\ SInit /\ PInit /\ TInit
  /\ part # "resources" => platform = "unix"
  /\ part # "text" => topic = "argv"
Init == part \in {"resources", "signals", "polltable", "text"} /\ PartsInit

ResourcesNext == part = "resources" /\ RNext /\ UNCHANGED <<part, svars, pvars, tvars>>
SignalsNext == part = "signals" /\ SNext /\ UNCHANGED <<part, rvars, pvars, tvars>>
PollTableNext == part = "polltable" /\ PNext /\ UNCHANGED <<part, rvars, svars, tvars>>
TextNext == part = "text" /\ TNext /\ UNCHANGED <<part, rvars, svars, pvars>>

Next == ResourcesNext \/ SignalsNext \/ PollTableNext \/ TextNext

Spec == Init /\ [][Next]_vars

(* What every state of every part looks like. *)
TypeOK == RTypeOK /\ STypeOK /\ PTypeOK
==============================================================================
