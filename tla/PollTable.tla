------------------------------ MODULE PollTable ------------------------------
(***************************************************************************)
(* The poll(2) backend (src/src/unix/poll.c:30-143): the list of           *)
(* registered descriptors, newest first, and the array of pollfd that is   *)
(* filled from it for each call and read back through each node's          *)
(* pollfd_i.  The loop thread runs it all; the readiness of the           *)
(* descriptors is whatever poll(2) finds.                                  *)
(*                                                                         *)
(* The cell behind the last one filled is cleared (poll.c:75): when the    *)
(* array is full that cell is not in it.  The model counts it and goes on, *)
(* as a program does whose allocator leaves room there.  A cell filled     *)
(* behind the array, where fds_cap promises cells that a failed realloc    *)
(* did not bring (poll.c:61-65), ends what the model says.                 *)
(***************************************************************************)
EXTENDS Integers, Sequences, FiniteSetsExt, SequencesExt

CONSTANTS
  Handles,    \* what is registered: pairs of a descriptor and a pointer
  PStates,    \* the states a descriptor may be in: sets of Revents
  MinCap,     \* first capacity of the array (16 in the code)
  NoIdx, NoUdata

PFds == {h[1] : h \in Handles}
Udata == {h[2] : h \in Handles}
PMasks == SUBSET {"R", "W"}            \* yoi_pl_evn_mask_t
\* ERR stands for POLLERR and POLLHUP; NVAL for a descriptor that is not open.
Revents == {"IN", "OUT", "ERR", "NVAL"}

ASSUME PollAssumption ==
  PStates \subseteq SUBSET Revents /\ MinCap \in Nat \ {0} /\ NoIdx \notin Nat /\ NoUdata \notin Udata

VARIABLES
  pnodes,    \* impl.head: nodes with fd, evn, udata and pollfd_i
  pcap,      \* impl.fds_cap
  palloc,    \* cells that impl.fds really has
  pfds,      \* the cells filled for this call
  pwrote,    \* cells written in this call, from the first of the array on
  pphase,    \* "idle", "fill", "wait"; "wild", "aborted"
  presult,   \* code, udata and ready mask of the call that returned just now,
             \* and the state in which poll(2) found the descriptors
  pbroken,   \* a growth of the array has failed
  preg       \* what the caller has registered: descriptor -> mask and udata

pvars == <<pnodes, pcap, palloc, pfds, pwrote, pphase, presult, pbroken, preg>>

Unregistered == [evn |-> {}, udata |-> NoUdata]
NoResult == [code |-> "none", udata |-> NoUdata, ready |-> {}, seen |-> [f \in PFds |-> {}]]

PInit ==
  /\ pnodes = <<>> /\ pcap = 0 /\ palloc = 0 /\ pfds = <<>>
  /\ pwrote = 0 /\ pphase = "idle" /\ presult = NoResult /\ pbroken = FALSE
  /\ preg = [f \in PFds |-> Unregistered]

IndexOf(f) == {i \in DOMAIN pnodes : pnodes[i].fd = f}

\* yoi_pl_impl_setmask with an empty mask: the node is unlinked (not freed).
PUnset(f) ==
  /\ pphase = "idle"
  /\ pnodes' = IF IndexOf(f) = {} THEN pnodes
               ELSE RemoveAt(pnodes, Min(IndexOf(f)))
  /\ preg' = [preg EXCEPT ![f] = Unregistered] /\ presult' = NoResult
  /\ UNCHANGED <<pcap, palloc, pfds, pwrote, pphase, pbroken>>

\* Mutant: a node is added without a look for the descriptor's own.
NodeAtHead(f, i, mask, u) ==
  <<[fd |-> f, evn |-> mask, udata |-> u, idx |-> NoIdx]>> \o pnodes

\* With a mask: the first node of the descriptor, or a new one at the head,
\* whose pollfd_i is not initialised.  malloc may fail.
NodeAt(f, i, mask, u) ==
  IF i = {} THEN <<[fd |-> f, evn |-> mask, udata |-> u, idx |-> NoIdx]>> \o pnodes
  ELSE [pnodes EXCEPT ![Min(i)].evn = mask, ![Min(i)].udata = u]
PSet(f, mask, u) ==
  /\ pphase = "idle" /\ mask # {}
  /\ \/ /\ pnodes' = NodeAt(f, IndexOf(f), mask, u)
        /\ preg' = [preg EXCEPT ![f] = [evn |-> mask, udata |-> u]]
     \/ IndexOf(f) = {} /\ UNCHANGED <<pnodes, preg>>
  /\ presult' = NoResult
  /\ UNCHANGED <<pcap, palloc, pfds, pwrote, pphase, pbroken>>

\* yoi_pl_impl_poll begins; the loop over the list fills one cell per node.
PBegin ==
  /\ pphase = "idle" /\ pphase' = "fill" /\ pwrote' = 0 /\ presult' = NoResult
  /\ UNCHANGED <<pnodes, pcap, palloc, pfds, pbroken, preg>>

PGrown == IF pcap = 0 THEN MinCap ELSE 2 * pcap

\* Mutant: the node is not told its cell.
PAddFdUntold ==
  LET n == Len(pfds) IN
  /\ pphase = "fill" /\ n < Len(pnodes)
  /\ pfds' = Append(pfds, [fd |-> pnodes[n + 1].fd, events |-> pnodes[n + 1].evn])
  /\ IF n < pcap THEN UNCHANGED <<pcap, palloc>> ELSE pcap' = PGrown /\ palloc' = PGrown
  /\ pwrote' = n + 2
  /\ UNCHANGED <<pnodes, pphase, presult, pbroken, preg>>

\* The cell of the next node is filled, the one behind it cleared.
PFill ==
  LET n == Len(pfds) IN
  /\ pfds' = Append(pfds, [fd |-> pnodes[n + 1].fd, events |-> pnodes[n + 1].evn])
  /\ pnodes' = [pnodes EXCEPT ![n + 1].idx = n]
  /\ pwrote' = n + 2
  /\ UNCHANGED <<presult, pbroken>>

\* Mutant: the array grows one cell late.
PAddFdLate ==
  LET n == Len(pfds) IN
  /\ pphase = "fill" /\ n < Len(pnodes) /\ PFill
  /\ IF n <= pcap THEN UNCHANGED <<pcap, palloc>> ELSE pcap' = PGrown /\ palloc' = PGrown
  /\ UNCHANGED <<pphase, preg>>

\* _yoi_poll_addfd for the next node: the capacity is doubled before it is
\* known that the memory is there.
PAddFd ==
  LET n == Len(pfds) IN
  /\ pphase = "fill" /\ n < Len(pnodes)
  /\ \/ /\ n < pcap /\ PFill /\ UNCHANGED <<pcap, palloc>>
        /\ pphase' = IF n < palloc THEN "fill" ELSE "wild"
     \/ n >= pcap /\ PFill /\ pcap' = PGrown /\ palloc' = PGrown /\ UNCHANGED pphase
     \/ /\ n >= pcap /\ pcap' = PGrown /\ pbroken' = TRUE
        /\ pphase' = "idle" /\ presult' = [NoResult EXCEPT !.code = "ENOMEM"]
        /\ pfds' = <<>> /\ UNCHANGED <<palloc, pwrote, pnodes>>
  /\ UNCHANGED preg
PFilled ==
  /\ pphase = "fill" /\ Len(pfds) = Len(pnodes) /\ pphase' = "wait"
  /\ UNCHANGED <<pnodes, pcap, palloc, pfds, pwrote, presult, pbroken, preg>>

\* _yoi_poll_wrapper: any error but EINTR and EAGAIN fails an assertion.
PAbort ==
  /\ pphase = "wait" /\ pphase' = "aborted"
  /\ UNCHANGED <<pnodes, pcap, palloc, pfds, pwrote, presult, pbroken, preg>>

\* What poll(2) writes into a cell: the conditions asked for, and errors.
CellRevents(c, now) == {e \in now[c.fd] : \/ e = "IN" /\ "R" \in c.events
                                          \/ e = "OUT" /\ "W" \in c.events
                                          \/ e \in {"ERR", "NVAL"}}

\* Mutant: a descriptor in error wakes nobody.
ToReadyNoErr(rev) == (IF "IN" \in rev THEN {"R"} ELSE {}) \cup (IF "OUT" \in rev THEN {"W"} ELSE {})

\* The loop after the call: revents of the node's cell to the library's mask.
ToReady(rev) == (IF rev \cap {"IN", "ERR"} # {} THEN {"R"} ELSE {})
                \cup (IF rev \cap {"OUT", "ERR"} # {} THEN {"W"} ELSE {})
NodeReady(i, now) == ToReady(CellRevents(pfds[pnodes[i].idx + 1], now))

\* Mutant: the number of cells is kept from one call to the next.
PReturnKeepsCells(now) ==
  /\ pphase = "wait" /\ pphase' = "idle"
  /\ presult' = [NoResult EXCEPT !.seen = now]
  /\ UNCHANGED <<pnodes, pcap, palloc, pfds, pwrote, pbroken, preg>>

\* _yoi_poll_wrapper returns, with a descriptor or at the deadline (it goes
\* round again on EINTR), and the first node that is ready is the result.
\* POLLNVAL makes poll(2) return but no node ready: that reads as a timeout.
PReturn(now) ==
  LET hits == {i \in DOMAIN pnodes : NodeReady(i, now) # {}}
      i == Min(hits)
  IN
  /\ pphase = "wait" /\ pphase' = "idle"
  /\ presult' = IF hits = {} THEN [NoResult EXCEPT !.code = "ETIMEOUT", !.seen = now]
                ELSE [code |-> "OK", udata |-> pnodes[i].udata,
                      ready |-> NodeReady(i, now), seen |-> now]
  /\ pfds' = <<>>
  /\ UNCHANGED <<pnodes, pcap, palloc, pwrote, pbroken, preg>>

PNext ==
  \/ \E f \in PFds : PUnset(f)
  \/ \E h \in Handles, mask \in PMasks : PSet(h[1], mask, h[2])
  \/ PBegin \/ PAddFd \/ PFilled \/ PAbort
  \/ \E now \in [PFds -> PStates] : PReturn(now)

PSpec == PInit /\ [][PNext]_pvars

-----------------------------------------------------------------------------
(* Properties. *)

PTypeOK ==
  /\ pcap \in Nat /\ palloc \in 0 .. pcap /\ Len(pfds) <= Len(pnodes)
  /\ pwrote \in Nat /\ pphase \in {"idle", "fill", "wait", "wild", "aborted"}
  /\ preg \in [PFds -> [evn : PMasks, udata : Udata \cup {NoUdata}]]

(* The list is the interest set that epoll keeps for the other backend: one    *)
(* node for a registered descriptor, none for another, with the mask and the   *)
(* pointer of the last registration, whichever allocations failed.             *)
ListIsInterest ==
  \A f \in PFds :
    IF preg[f] = Unregistered THEN IndexOf(f) = {}
    ELSE \E i \in DOMAIN pnodes :
           /\ IndexOf(f) = {i}
           /\ pnodes[i].evn = preg[f].evn /\ pnodes[i].udata = preg[f].udata

(* When the array is handed to poll(2) and read back, each node's pollfd_i     *)
(* names a cell of this call that was filled for the node's own descriptor,    *)
(* and the cell is one of the array's.                                         *)
CellsMatch ==
  pphase = "wait" =>
    /\ Len(pfds) <= palloc
    /\ \A i \in DOMAIN pnodes :
         /\ pnodes[i].idx \in 0 .. Len(pfds) - 1
         /\ pfds[pnodes[i].idx + 1] = [fd |-> pnodes[i].fd, events |-> pnodes[i].evn]

(* How far the array is overrun, by any registrations and failed growths.      *)
(* While no growth has failed fds_cap is the array's size, and what is written *)
(* behind the array is the one cell that is cleared when the last of its cells *)
(* has been filled (poll.c:75); a cell is filled behind the array only after a *)
(* growth has failed (poll.c:61-65), and the first such cell is the one next   *)
(* to it.                                                                      *)
OverrunBounded ==
  /\ ~pbroken => pcap = palloc
  /\ pwrote > palloc /\ pphase \in {"fill", "wait"} =>
       pwrote = palloc + 1 /\ Len(pfds) = palloc
  /\ pphase = "wild" => pbroken /\ Len(pfds) = palloc + 1

(* What a call reports is true at that moment: the pointer and the conditions   *)
(* are those of one registered descriptor, and a call that reports a timeout   *)
(* leaves no descriptor with a condition that was asked for.                   *)
Has(f, m) == presult.seen[f] \cap (IF m = "R" THEN {"IN", "ERR"} ELSE {"OUT", "ERR"}) # {}
ReportsTruth ==
  /\ presult.code = "OK" =>
       \E f \in PFds : /\ preg[f] # Unregistered /\ preg[f].udata = presult.udata
                       /\ presult.ready # {} /\ \A m \in presult.ready : Has(f, m)
  /\ presult.code = "ETIMEOUT" => \A f \in PFds : \A m \in preg[f].evn : ~Has(f, m)
=============================================================================
