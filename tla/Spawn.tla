-------------------------------- MODULE Spawn --------------------------------
(***************************************************************************)
(* Child processes (src/src/unix/impl.c): yo_proc_spawn with its pipes and *)
(* error paths, the child up to execve, yo_proc_wait, yo_proc_disown and   *)
(* the close of the handles spawning gave out.                             *)
(*                                                                         *)
(* yoa_proc_spawn runs on the pool, so calls overlap, and a fork copies    *)
(* whatever ends of pipes the other calls have open at that moment.  An    *)
(* end is named by its call, its pipe and its direction.  The steps of a   *)
(* call are its system calls; each may fail, and a blocking one may be     *)
(* interrupted by the SIGPWR of a cancellation.                            *)
(* The memory of a call is in Resources.                                   *)
(***************************************************************************)
EXTENDS Integers

CONSTANTS
  Calls,     \* calls of yo_proc_spawn that may overlap, each with its child
  StdSets    \* the sets of standard streams callers ask for

Std == {"in", "out", "err"}
Pipes == Std \cup {"status"}
Ends == Calls \X Pipes \X {"r", "w"}

ASSUME StdAssumption == StdSets \subseteq SUBSET Std

VARIABLES
  pc,        \* where each call is
  want,      \* the streams it was asked for
  intr,      \* whether a signal has interrupted it
  fds,       \* the ends open in the parent
  cloexec,   \* those of them marked FD_CLOEXEC
  kid,       \* each call's child: "none", "setup", "run", "failed", "dead", "reaped"
  kfds,      \* the ends open in it
  keep,      \* the ends it inherited without FD_CLOEXEC
  msg        \* whether its errno is in the status pipe

cvars == <<pc, want, intr, fds, cloexec, kid, kfds, keep, msg>>
child == <<kid, kfds, keep, msg>>

CInit ==
  /\ pc = [c \in Calls |-> "idle"]
  /\ want = [c \in Calls |-> {}]
  /\ intr = [c \in Calls |-> FALSE]
  /\ fds = {} /\ cloexec = {}
  /\ kid = [c \in Calls |-> "none"]
  /\ kfds = [c \in Calls |-> {}]
  /\ keep = [c \in Calls |-> {}]
  /\ msg = [c \in Calls |-> FALSE]

Status(c, dir) == <<c, "status", dir>>
ParentEnd(c, s) == <<c, s, IF s = "in" THEN "w" ELSE "r">>
ChildEnd(c, s) == <<c, s, IF s = "in" THEN "r" ELSE "w">>
EndsOf(c, ps) == {e \in Ends : e[1] = c /\ e[2] \in ps}

GoTo(c, l) == pc' = [pc EXCEPT ![c] = l]

\* Mutant: the streams made before a failure of "err" are half cleaned up.
ClosesSkipsOut ==
  [err_fork |-> Pipes, err_mkstd_err |-> {"in", "status"},
   err_mkstd_out |-> {"in", "status"}, err_mkstd_in |-> {"status"},
   err_pipe_status |-> {}]

\* The pipes that the code below each label closes.
Closes ==
  [err_fork |-> Pipes, err_mkstd_err |-> {"out", "in", "status"},
   err_mkstd_out |-> {"in", "status"}, err_mkstd_in |-> {"status"},
   err_pipe_status |-> {}]

Fail(c, label) ==
  /\ fds' = fds \ EndsOf(c, Closes[label])
  /\ cloexec' = cloexec \cap fds'
  /\ GoTo(c, "failed")

------------------------------------------------------------------------------
(* yo_proc_spawn in the parent.                                             *)

\* The status pipe.  A caller may try again after a failure.
OpenStatus(c, std) ==
  /\ pc[c] \in {"idle", "failed"} /\ kid[c] \in {"none", "reaped"}
  /\ want' = [want EXCEPT ![c] = std]
  /\ intr' = [intr EXCEPT ![c] = FALSE]
  /\ \/ /\ fds' = fds \cup EndsOf(c, {"status"})
        /\ GoTo(c, "fcntl_r")
        /\ UNCHANGED cloexec
     \/ Fail(c, "err_pipe_status")
  /\ msg' = [msg EXCEPT ![c] = FALSE]
  /\ UNCHANGED <<kid, kfds, keep>>

\* Mutant: a stream that is not open yet is marked in its place.
SetCloexecUnopened(c, here, dir, next) ==
  /\ pc[c] = here
  /\ cloexec' = cloexec \cup {ParentEnd(c, "in")}
  /\ GoTo(c, next)
  /\ UNCHANGED <<fds, want, intr, child>>

\* fcntl(F_SETFD, FD_CLOEXEC) on its two ends, one after the other; the write
\* end is made non-blocking as well.
SetCloexec(c, here, dir, next) ==
  /\ pc[c] = here
  /\ \/ /\ cloexec' = cloexec \cup {Status(c, dir)}
        /\ GoTo(c, next)
        /\ UNCHANGED fds
     \/ Fail(c, "err_mkstd_in")
  /\ UNCHANGED <<want, intr, child>>

\* Made: _yoi_unix_mkstd has been done for stream s, or s was not asked for.
Made(c, s) == s \in want[c] => ParentEnd(c, s) \in fds

\* _yoi_unix_mkstd for the next stream: in, out, err.
Mkstd(c, s, before, label) ==
  /\ pc[c] = "mkstd"
  /\ ~Made(c, s) /\ \A b \in before : Made(c, b)
  /\ \/ fds' = fds \cup EndsOf(c, {s}) /\ UNCHANGED <<pc, cloexec>>
     \/ Fail(c, label)
  /\ UNCHANGED <<want, intr, child>>

\* The child starts with everything the parent has open, and closes its
\* copy of the read end of the status pipe.
Fork(c) ==
  /\ pc[c] = "mkstd" /\ \A s \in Std : Made(c, s)
  /\ \/ /\ kid' = [kid EXCEPT ![c] = "setup"]
        /\ kfds' = [kfds EXCEPT ![c] = fds \ {Status(c, "r")}]
        /\ keep' = [keep EXCEPT ![c] = fds \ cloexec]
        /\ GoTo(c, "close")
        /\ UNCHANGED <<fds, cloexec, msg>>
     \/ Fail(c, "err_fork") /\ UNCHANGED child
  /\ UNCHANGED <<want, intr>>

\* Mutant: the write end of the status pipe stays open.
CloseChildEndsOnly(c) ==
  /\ pc[c] = "close"
  /\ fds' = fds \ {ChildEnd(c, s) : s \in Std}
  /\ cloexec' = cloexec \cap fds'
  /\ GoTo(c, "read")
  /\ UNCHANGED <<want, intr, child>>

\* The child's ends and the write end of the status pipe are closed.
CloseChildEnds(c) ==
  /\ pc[c] = "close"
  /\ fds' = fds \ ({ChildEnd(c, s) : s \in Std} \cup {Status(c, "w")})
  /\ cloexec' = cloexec \cap fds'
  /\ GoTo(c, "read")
  /\ UNCHANGED <<want, intr, child>>

\* The read of the status pipe is over: its read end is closed.
Read(c, next) ==
  /\ pc[c] = "read"
  /\ fds' = fds \ {Status(c, "r")}
  /\ cloexec' = cloexec \cap fds'
  /\ GoTo(c, next)

Writers(c) == {d \in Calls : Status(c, "w") \in kfds[d]}

\* Mutant: the read does not wait for the child.
ReadEofAtOnce(c) ==
  /\ ~msg[c]
  /\ Read(c, "ok")
  /\ UNCHANGED <<want, intr, child>>

\* End of file, once nobody has the write end: the child has called execve.
\* The handles and the process are given to the caller.
ReadEof(c) ==
  /\ ~msg[c] /\ Status(c, "w") \notin fds /\ Writers(c) = {}
  /\ Read(c, "ok")
  /\ UNCHANGED <<want, intr, child>>

\* The child's errno.
ReadErrno(c) ==
  /\ msg[c]
  /\ Read(c, "reap")
  /\ msg' = [msg EXCEPT ![c] = FALSE]
  /\ UNCHANGED <<want, intr, kid, kfds, keep>>

ReadInterrupted(c) ==
  /\ Read(c, "reap")
  /\ intr' = [intr EXCEPT ![c] = TRUE]
  /\ UNCHANGED <<want, child>>

\* Mutant: a failed child is not waited for.
ReapNothing(c) ==
  /\ pc[c] = "reap"
  /\ Fail(c, "err_fork")
  /\ UNCHANGED <<want, intr, child>>

\* waitpid returns the child and the error path runs to its end.
Reap(c) ==
  /\ pc[c] = "reap" /\ kid[c] \in {"failed", "dead"}
  /\ kid' = [kid EXCEPT ![c] = "reaped"]
  /\ Fail(c, "err_fork")
  /\ UNCHANGED <<want, intr, kfds, keep, msg>>

\* An interrupted waitpid is not repeated.
ReapInterrupted(c) ==
  /\ pc[c] = "reap"
  /\ intr' = [intr EXCEPT ![c] = TRUE]
  /\ Fail(c, "err_fork")
  /\ UNCHANGED <<want, child>>

------------------------------------------------------------------------------
(* The child.                                                               *)

Exit(c, how) ==
  /\ kid' = [kid EXCEPT ![c] = how]
  /\ kfds' = [kfds EXCEPT ![c] = {}]
  /\ keep' = [keep EXCEPT ![c] = {}]
  /\ UNCHANGED <<pc, want, intr, fds, cloexec>>

\* dup2, chdir, the signal mask or execve fails: errno is sent, and _exit.
ChildFails(c) ==
  /\ kid[c] = "setup"
  /\ msg' = [msg EXCEPT ![c] = TRUE]
  /\ Exit(c, "failed")

\* Its own ends have become its standard streams, the parent's are closed,
\* and execve closes what is marked.
ChildExecs(c) ==
  /\ kid[c] = "setup"
  /\ kid' = [kid EXCEPT ![c] = "run"]
  /\ kfds' = [kfds EXCEPT ![c] = (@ \cap keep[c]) \ {ParentEnd(c, s) : s \in Std}]
  /\ UNCHANGED <<pc, want, intr, fds, cloexec, keep, msg>>

\* The program ends, or a signal ends the process at any time.
ChildEnds(c) ==
  /\ kid[c] \in {"setup", "run"}
  /\ Exit(c, "dead")
  /\ UNCHANGED msg

------------------------------------------------------------------------------
(* The caller afterwards.                                                   *)

yo_fd_close(c, s) ==
  /\ pc[c] \in {"ok", "done"} /\ ParentEnd(c, s) \in fds
  /\ fds' = fds \ {ParentEnd(c, s)}
  /\ UNCHANGED <<pc, want, intr, cloexec, child>>

yo_proc_wait(c) ==
  /\ pc[c] = "ok" /\ kid[c] \in {"failed", "dead"}
  /\ kid' = [kid EXCEPT ![c] = "reaped"]
  /\ GoTo(c, "done")
  /\ UNCHANGED <<want, intr, fds, cloexec, kfds, keep, msg>>

\* Nothing reaps the child.
yo_proc_disown(c) ==
  /\ pc[c] = "ok"
  /\ GoTo(c, "done")
  /\ UNCHANGED <<want, intr, fds, cloexec, child>>

CallStep(c) ==
  \/ SetCloexec(c, "fcntl_r", "r", "fcntl_w") \/ SetCloexec(c, "fcntl_w", "w", "mkstd")
  \/ Mkstd(c, "in", {}, "err_mkstd_in")
  \/ Mkstd(c, "out", {"in"}, "err_mkstd_out")
  \/ Mkstd(c, "err", {"in", "out"}, "err_mkstd_err")
  \/ Fork(c) \/ CloseChildEnds(c) \/ ReadEof(c) \/ ReadErrno(c) \/ Reap(c)
SetupStep(c) == ChildFails(c) \/ ChildExecs(c)

CNext ==
  \E c \in Calls :
    \/ \E std \in StdSets : OpenStatus(c, std)
    \/ CallStep(c) \/ ReadInterrupted(c) \/ ReapInterrupted(c)
    \/ SetupStep(c) \/ ChildEnds(c)
    \/ \E s \in Std : yo_fd_close(c, s)
    \/ yo_proc_wait(c) \/ yo_proc_disown(c)

CSpec == CInit /\ [][CNext]_cvars

\* Parent and child are scheduled; a program that was started need not end.
FairCSpec == CSpec /\ \A c \in Calls : WF_cvars(CallStep(c)) /\ WF_cvars(SetupStep(c))

------------------------------------------------------------------------------
(* Properties.                                                              *)

CTypeOK ==
  /\ pc \in [Calls -> {"idle", "fcntl_r", "fcntl_w", "mkstd", "close", "read",
                       "reap", "failed", "ok", "done"}]
  /\ want \in [Calls -> SUBSET Std]
  /\ intr \in [Calls -> BOOLEAN] /\ msg \in [Calls -> BOOLEAN]
  /\ fds \subseteq Ends /\ cloexec \subseteq fds
  /\ kid \in [Calls -> {"none", "setup", "run", "failed", "dead", "reaped"}]
  /\ kfds \in [Calls -> SUBSET Ends] /\ keep \in [Calls -> SUBSET Ends]

\* Whichever step fails, and whatever other calls do meanwhile, a call that
\* returned an error has none of its descriptors left open, and one that
\* returned a process has only the caller's ends of the streams asked for
\* (impl.c:946-963).
NoDescriptorLeft ==
  \A c \in Calls :
    /\ pc[c] \in {"idle", "failed"} => fds \cap EndsOf(c, Pipes) = {}
    /\ pc[c] \in {"ok", "done"} =>
         fds \cap EndsOf(c, Pipes) \subseteq {ParentEnd(c, s) : s \in want[c]}

\* A spawn that was not interrupted and returns an error leaves no zombie
\* (impl.c:947-948).
NoZombie ==
  \A c \in Calls : pc[c] = "failed" /\ ~intr[c] => kid[c] \in {"none", "reaped"}

\* A spawn that returns a process has seen it reach execve, or be killed from
\* outside: a failure of the child is never taken for success, although the
\* end of the status pipe is also what the death of a child looks like
\* (impl.c:914-927).
SuccessIsReal == \A c \in Calls : pc[c] = "ok" => kid[c] \notin {"setup", "failed"}

\* A spawn returns once its child has failed or started its program, unless
\* it was interrupted and waits for that program, or the child of a call
\* that forked between pipe and fcntl keeps the status pipe open.
SpawnReturns ==
  \A c \in Calls : pc[c] = "read" ~>
    \/ pc[c] \notin {"read", "reap"}
    \/ intr[c]
    \/ \E d \in Calls \ {c} : Status(c, "w") \in kfds[d] \cap keep[d]
==============================================================================
