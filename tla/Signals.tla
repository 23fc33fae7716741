------------------------------- MODULE Signals -------------------------------
(***************************************************************************)
(* yo_sig_on, yo_sig_off and yo_sig_wait (src/src/unix/impl.c:44-47,       *)
(* 134-143, 243-262, 988-1130) with the pool threads that run sig_wait,    *)
(* which block every signal but SIGPWR and are cancelled by one            *)
(* (src/src/utils/multithread.h:64-93).  A pool thread sets its mask       *)
(* itself, so it starts with that of the thread that created it; SIGPWR    *)
(* during the start is in module Pool.                                     *)
(*                                                                         *)
(* A call tests and sets the flag, resets the shared state if it was the   *)
(* first, and then runs its body under _core_sig_mut in one step.  A mask  *)
(* belongs to one thread: pthread_sigmask changes the caller's only.       *)
(***************************************************************************)
EXTENDS Integers, FiniteSets

CONSTANTS
  App,        \* threads of the application: they call on, off and wait
  Workers,    \* pool threads: they come, run sig_wait and go
  SigUsed,    \* the library's signals that are turned on and off
  RaiseSet,   \* OS signals sent to the process
  MaxOn,      \* bound on the activations of a signal
  InitRace,   \* TRUE if a call may overlap the first one
  NoSig

(* The switches of yo_sig_on and yo_sig_off. *)
OsOf == [
  INT |-> {"SIGINT"}, QUIT |-> {"SIGQUIT"}, ABRT |-> {"SIGABRT"}, TERM |-> {"SIGTERM"},
  BADMEM |-> {"SIGSEGV", "SIGBUS", "SIGSTKFLT"}, BADOP |-> {"SIGILL", "SIGFPE", "SIGSYS"},
  BADPIPE |-> {"SIGPIPE"}, TSIZE |-> {"SIGWINCH"}, TLOST |-> {"SIGHUP"},
  USR1 |-> {"SIGUSR1"}, USR2 |-> {"SIGUSR2"}]
YoSigs == DOMAIN OsOf
OsSigs == (UNION {OsOf[s] : s \in YoSigs}) \cup {"SIGCHLD"}
Fatal == OsSigs \ {"SIGCHLD", "SIGWINCH"}   \* default action ends the process

ASSUME SigAssumption ==
  /\ App \cap Workers = {} /\ SigUsed \subseteq YoSigs /\ RaiseSet \subseteq OsSigs
  /\ MaxOn \in Nat /\ InitRace \in BOOLEAN /\ NoSig \notin YoSigs \cup OsSigs

VARIABLES
  sinit,    \* _core_sig_init
  scount,   \* _core_sig_counts
  sset,     \* _core_sig_set
  smask,    \* the signal mask of each thread
  spc,      \* "none", "start"; "idle", "init", "reset", "body", "wait"
  sarg,     \* the call under way: function and signal
  sold,     \* the mask sig_wait restores
  spend,    \* signals pending for the process
  spwr,     \* threads with a pending SIGPWR
  skilled,  \* the signal whose default action ended the process
  sbal      \* activations minus deactivations that have returned

svars == <<sinit, scount, sset, smask, spc, sarg, sold, spend, spwr, skilled, sbal>>
Threads == App \cup Workers
Absent == {"none", "start"}   \* not there, or not past line 73
NoCall == <<"none", NoSig>>

\* Mutant: yo_thread_entry empties the mask.
WorkerMaskEmpty == {}

\* yo_thread_entry fills the mask of a pool thread.
WorkerMask == OsSigs

SInit ==
  /\ sinit = FALSE /\ sset = {} /\ spend = {} /\ spwr = {} /\ skilled = NoSig
  /\ scount = [s \in YoSigs |-> 0] /\ sbal = [s \in YoSigs |-> 0]
  /\ smask = [t \in Threads |-> {}] /\ sold = [t \in Threads |-> {}]
  /\ spc = [t \in Threads |-> IF t \in Workers THEN "none" ELSE "idle"]
  /\ sarg = [t \in Threads |-> NoCall]

-----------------------------------------------------------------------------
(* The life of a pool thread. *)

\* yo_thread_new: the thread has the mask of the one that calls it.
SigCreate(t, w) ==
  /\ t \in App /\ spc[t] = "idle" /\ w \in Workers /\ spc[w] = "none"
  /\ spc' = [spc EXCEPT ![w] = "start"] /\ smask' = [smask EXCEPT ![w] = smask[t]]
  /\ UNCHANGED <<sinit, scount, sset, sarg, sold, spend, spwr, skilled, sbal>>
SigEntry(w) ==
  /\ spc[w] = "start"
  /\ spc' = [spc EXCEPT ![w] = "idle"] /\ smask' = [smask EXCEPT ![w] = WorkerMask]
  /\ UNCHANGED <<sinit, scount, sset, sarg, sold, spend, spwr, skilled, sbal>>
SigExit(w) ==
  /\ w \in Workers /\ spc[w] = "idle"
  /\ spc' = [spc EXCEPT ![w] = "none"] /\ smask' = [smask EXCEPT ![w] = {}]
  /\ UNCHANGED <<sinit, scount, sset, sarg, sold, spend, spwr, skilled, sbal>>

-----------------------------------------------------------------------------
(* A thread calls.  As the header asks, off is called no more often than on. *)
SigCall(t, f, s) ==
  /\ spc[t] = "idle"
  /\ f \in {"on", "off"} => t \in App
  /\ f = "on" => sbal[s] + Cardinality({u \in App : sarg[u] = <<"on", s>>}) < MaxOn
  /\ f = "off" => sbal[s] > Cardinality({u \in App : sarg[u] = <<"off", s>>})
  /\ f = "wait" => s = NoSig
  /\ spc' = [spc EXCEPT ![t] = "init"] /\ sarg' = [sarg EXCEPT ![t] = <<f, s>>]
  /\ UNCHANGED <<sinit, scount, sset, smask, sold, spend, spwr, skilled, sbal>>

\* _yoi_sig_init: the flag, without an atomic operation, and the reset.
SigInitTest(t) ==
  /\ spc[t] = "init"
  /\ InitRace \/ \A u \in Threads : spc[u] # "reset"
  /\ spc' = [spc EXCEPT ![t] = IF sinit THEN "body" ELSE "reset"]
  /\ sinit' = TRUE
  /\ UNCHANGED <<scount, sset, smask, sarg, sold, spend, spwr, skilled, sbal>>
SigInitReset(t) ==
  /\ spc[t] = "reset"
  /\ scount' = [s \in YoSigs |-> 0] /\ sset' = {}
  /\ spc' = [spc EXCEPT ![t] = "body"]
  /\ UNCHANGED <<sinit, smask, sarg, sold, spend, spwr, skilled, sbal>>

SigReturn(t) == spc' = [spc EXCEPT ![t] = "idle"] /\ sarg' = [sarg EXCEPT ![t] = NoCall]

\* pthread_sigmask does not fail here, so its error path is not taken.
SigOn(t, s) ==
  /\ spc[t] = "body" /\ sarg[t] = <<"on", s>>
  /\ sset' = IF scount[s] = 0 THEN sset \cup OsOf[s] ELSE sset
  /\ smask' = IF scount[s] = 0 THEN [smask EXCEPT ![t] = sset'] ELSE smask
  /\ scount' = [scount EXCEPT ![s] = @ + 1] /\ sbal' = [sbal EXCEPT ![s] = @ + 1]
  /\ SigReturn(t)
  /\ UNCHANGED <<sinit, sold, spend, spwr, skilled>>

\* Mutant: the first deactivation of several takes the signal out of the set.
SigOffFirst(t, s) ==
  /\ spc[t] = "body" /\ sarg[t] = <<"off", s>>
  /\ sset' = sset \ OsOf[s] /\ smask' = [smask EXCEPT ![t] = sset']
  /\ scount' = [scount EXCEPT ![s] = IF @ > 0 THEN @ - 1 ELSE @]
  /\ sbal' = [sbal EXCEPT ![s] = @ - 1]
  /\ SigReturn(t)
  /\ UNCHANGED <<sinit, sold, spend, spwr, skilled>>

SigOff(t, s) ==
  /\ spc[t] = "body" /\ sarg[t] = <<"off", s>>
  /\ sset' = IF scount[s] = 1 THEN sset \ OsOf[s] ELSE sset
  /\ smask' = IF scount[s] = 1 THEN [smask EXCEPT ![t] = sset'] ELSE smask
  /\ scount' = [scount EXCEPT ![s] = IF @ > 0 THEN @ - 1 ELSE @]
  /\ sbal' = [sbal EXCEPT ![s] = @ - 1]
  /\ SigReturn(t)
  /\ UNCHANGED <<sinit, sold, spend, spwr, skilled>>

\* yo_sig_wait blocks SIGPWR, then waits for any signal at all.
SigWaitBlock(t) ==
  /\ spc[t] = "body" /\ sarg[t] = <<"wait", NoSig>>
  /\ sold' = [sold EXCEPT ![t] = smask[t]]
  /\ smask' = [smask EXCEPT ![t] = @ \cup {"SIGPWR"}]
  /\ spc' = [spc EXCEPT ![t] = "wait"]
  /\ UNCHANGED <<sinit, scount, sset, sarg, spend, spwr, skilled, sbal>>

\* yoi_unix_conv_signal.
ConvSignal(o) == IF \E s \in YoSigs : o \in OsOf[s]
                 THEN CHOOSE s \in YoSigs : o \in OsOf[s] ELSE NoSig

SigWaitReturn(t) ==
  /\ smask' = [smask EXCEPT ![t] = sold[t]] /\ sold' = [sold EXCEPT ![t] = {}]
  /\ spwr' = spwr \ {t}    \* the handler takes one that arrived late
  /\ SigReturn(t)

\* A signal sent to the thread is taken before those of the process.
SigWaitPwr(t) ==
  /\ spc[t] = "wait" /\ t \in spwr
  /\ SigWaitReturn(t)
  /\ UNCHANGED <<sinit, scount, sset, spend, skilled, sbal>>
SigWaitTake(t, o) ==
  /\ spc[t] = "wait" /\ t \notin spwr /\ o \in spend
  /\ spend' = spend \ {o}
  /\ IF ConvSignal(o) = NoSig
     THEN UNCHANGED <<smask, sold, spwr, spc, sarg>>
     ELSE SigWaitReturn(t)
  /\ UNCHANGED <<sinit, scount, sset, skilled, sbal>>

-----------------------------------------------------------------------------
(* The system: signals arrive, the pool cancels, default actions happen. *)
SigRaise(o) ==
  /\ o \notin spend /\ spend' = spend \cup {o}
  /\ UNCHANGED <<sinit, scount, sset, smask, spc, sarg, sold, spwr, skilled, sbal>>
\* yo_thread_cancel: outside sig_wait the thread's handler takes the signal.
SigCancel(t) ==
  /\ t \in Workers /\ t \notin spwr /\ "SIGPWR" \in smask[t]
  /\ spwr' = spwr \cup {t}
  /\ UNCHANGED <<sinit, scount, sset, smask, spc, sarg, sold, spend, skilled, sbal>>
\* A thread that does not block the signal, and does not wait for it.
SigDefault(t, o) ==
  /\ o \in spend \ smask[t] /\ spc[t] \notin {"none", "wait"}
  /\ spend' = spend \ {o} /\ skilled' = IF o \in Fatal THEN o ELSE skilled
  /\ UNCHANGED <<sinit, scount, sset, smask, spc, sarg, sold, spwr, sbal>>

SNext ==
  /\ skilled = NoSig
  /\ \/ \E t \in Threads, f \in {"on", "off"}, s \in SigUsed : SigCall(t, f, s)
     \/ \E t \in Threads : SigCall(t, "wait", NoSig)
     \/ \E t, w \in Threads : SigCreate(t, w)
     \/ \E w \in Threads : SigEntry(w) \/ SigExit(w)
     \/ \E t \in Threads : \/ SigInitTest(t) \/ SigInitReset(t)
                           \/ SigWaitBlock(t) \/ SigWaitPwr(t) \/ SigCancel(t)
     \/ \E t \in Threads, s \in SigUsed : SigOn(t, s) \/ SigOff(t, s)
     \/ \E t \in Threads, o \in RaiseSet : SigWaitTake(t, o) \/ SigDefault(t, o)
     \/ \E o \in RaiseSet : SigRaise(o)

SSpec == SInit /\ [][SNext]_svars

-----------------------------------------------------------------------------
(* Properties. *)

STypeOK ==
  /\ sinit \in BOOLEAN /\ sset \subseteq OsSigs
  /\ scount \in [YoSigs -> 0 .. MaxOn] /\ sbal \in [YoSigs -> 0 .. MaxOn]
  /\ smask \in [Threads -> SUBSET (OsSigs \cup {"SIGPWR"})]
  /\ spc \in [Threads -> Absent \cup {"idle", "init", "reset", "body", "wait"}]
  /\ spend \subseteq OsSigs /\ spwr \subseteq Workers

(* Counters, set and masks agree, in any order of calls and cancellations and  *)
(* as pool threads come and go: the shared set holds exactly the OS signals of *)
(* the library's signals that are on, and a signal is on as long as one        *)
(* activation has not been taken back (inc/yaooi/io.h:203-205); sig_wait       *)
(* leaves the thread's mask as it found it, whatever made it return, so that   *)
(* outside of it a pool thread that has started blocks all signals and takes a *)
(* cancellation, and the one application thread blocks exactly the signals     *)
(* that are on.                                                                *)
SignalsAgree ==
  /\ sset = UNION {OsOf[s] : s \in {y \in YoSigs : sbal[y] > 0}}
  /\ scount = sbal
  /\ \A t \in Threads : spc[t] \notin Absent \cup {"wait"} =>
       smask[t] = IF t \in Workers THEN WorkerMask ELSE sset

(* What the code keeps of "activating a signal and then not calling sig_wait   *)
(* is equivalent to ignoring it" (inc/yaooi/io.h:209), while a signal is on    *)
(* twice and off once, and while pool threads wait for signals, are cancelled, *)
(* end and are created again: a signal that is on does end the process, but    *)
(* only through a pool thread that is still starting (before                   *)
(* multithread.h:73) and was created without it in its mask.  It takes an      *)
(* application with one thread: a second one keeps a mask that yo_sig_on does  *)
(* not reach.                                                                  *)
ActiveKillsOnlyAtStart ==
  skilled # NoSig => \/ sbal[ConvSignal(skilled)] = 0
                     \/ \E w \in Workers : spc[w] = "start" /\ skilled \notin smask[w]
=============================================================================
