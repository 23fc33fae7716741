------------------------------ MODULE MCThreads ------------------------------
(* Instance for TLC of the library's threads and of the processes it starts:  *)
(* a behaviour exercises the pool, or calls of yo_proc_spawn, which run on    *)
(* threads of it but share no state with it.                                  *)
EXTENDS Pool, Spawn

\* Callers that want no stream, or all of them.
Streams == {{}, Std}

VARIABLE part

allvars == <<part, vars, cvars>>

ThreadsInit == part \in {"pool", "spawn"} /\ Init /\ CInit

PoolNext == part = "pool" /\ Next /\ UNCHANGED <<part, cvars>>
SpawnNext == part = "spawn" /\ CNext /\ UNCHANGED <<part, vars>>

ThreadsNext == PoolNext \/ SpawnNext

\* A behaviour is fair to the part that it exercises.
ThreadsSpec ==
  /\ ThreadsInit /\ [][ThreadsNext]_allvars
  /\ WF_vars(part = "pool" /\ ExecStep) /\ WF_vars(part = "pool" /\ FreeStep)
  /\ \A w \in Workers : WF_vars(part = "pool" /\ WorkerStep(w))
  /\ \A c \in Calls : /\ WF_cvars(part = "spawn" /\ CallStep(c))
                     /\ WF_cvars(part = "spawn" /\ SetupStep(c))
==============================================================================
