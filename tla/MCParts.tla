------------------------------- MODULE MCParts -------------------------------
(* Instance for TLC of all that stands beside the queue of a Unix build: the  *)
(* parts of MCPlatform, the queue of the Win32 build and the deadline of a    *)
(* poll over epoll.  They share no state: a behaviour exercises one of them.  *)
EXTENDS MCPlatform, MCFallbackQueue, MCEpollDeadline

allvars == <<vars, fvars, dvars>>

AllInit ==
  /\ part \in {"resources", "signals", "polltable", "text", "fallback", "deadline"}
  /\ PartsInit /\ FInit /\ DInit
  /\ part # "deadline" => phase = 0

FallbackNext == part = "fallback" /\ FNext /\ UNCHANGED <<vars, dvars>>
DeadlineNext == part = "deadline" /\ DNext /\ UNCHANGED <<vars, fvars>>
PlatformNext == Next /\ UNCHANGED <<fvars, dvars>>

AllNext == PlatformNext \/ FallbackNext \/ DeadlineNext

\* A behaviour is fair to the part that it exercises.
AllSpec ==
  /\ AllInit /\ [][AllNext]_allvars
  /\ WF_fvars(part = "fallback" /\ PollCall) /\ WF_fvars(part = "fallback" /\ PollStep)
  /\ WF_fvars(part = "fallback" /\ DeadlinePasses)
  /\ \A r \in Reqs : WF_fvars(part = "fallback" /\ ReqStep(r))
  /\ WF_dvars(part = "deadline" /\ Poll) /\ WF_dvars(part = "deadline" /\ Tick)
==============================================================================
