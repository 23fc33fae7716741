------------------------------ MODULE Resources ------------------------------
(***************************************************************************)
(* What every call of the library acquires, releases and hands over:       *)
(* memory, descriptors, handles and pipes in src/src/unix/impl.c, the      *)
(* queue's creation and destruction over epoll, src/src/win/impl.c,        *)
(* src/src/ansi/impl.c and the wrappers of src/src/fallback/async.c.       *)
(*                                                                         *)
(* A function is the set of its paths.  A path is the sequence of the      *)
(* steps that matter to resources, in the order of the code, each with     *)
(* what the code releases when that step fails; every step that can fail   *)
(* does, in some behaviour.  What the calls compute is left out.           *)
(***************************************************************************)
EXTENDS Sequences, FiniteSets, TLC

(* The steps. *)
Step(do, r, undo) == [do |-> do, res |-> r, undo |-> undo]
Get(r, undo) == Step("get", {r}, undo)     \* acquire r, else release undo and fail
Get2(r, undo) == Step("get", r, undo)      \* one call that acquires a pair
Opt(r) == Step("opt", {r}, {})             \* acquire r; a failure goes unnoticed
Try(undo) == Step("try", {}, undo)         \* a call that may fail
Fail(undo) == Step("fail", {}, undo)       \* the path ends in an error
Put(r) == Step("put", r, {})               \* release
Use(r) == Step("use", {r}, {})             \* write through r

Path(steps, gives) == [steps |-> steps, gives |-> gives]
(* needs is the caller's object that is passed in, takes what the call may   *)
(* consume of the caller's.  A void function cannot report an error: the     *)
(* caller believes that it has done its work.                                *)
OpOn(needs, takes, paths, void) ==
  [needs |-> needs, takes |-> takes, paths |-> paths, void |-> void]
Op(takes, paths) == OpOn(takes, takes, paths, FALSE)
Makes(steps, gives) == Op({}, {Path(steps, gives)})
Frees(r) == OpOn(r, r, {Path(<<Put(r)>>, {})}, TRUE)

-----------------------------------------------------------------------------
(* src/src/unix/impl.c *)

\* yo_fd_new, and yo_tty_in, _out and _err, which call it.
fd_new == Makes(<<Get("ref", {})>>, {"ref"})
fd_close_ref == Frees({"ref"})
\* close is called again when it says EINTR, though the descriptor is gone.
unix_fd_close ==
  OpOn({"fd", "res"}, {"fd", "res"},
       {Path(<<Put({"fd"}), Put({"res"})>>, {}),
        Path(<<Put({"fd"}), Put({"fd"}), Put({"res"})>>, {})}, TRUE)

unix_tty_raw == Makes(<<Get("raw", {}), Try({"raw"}), Try({"raw"})>>, {"raw"})
unix_tty_rawend == Op({"raw"}, {Path(<<Try({}), Put({"raw"})>>, {})})

\* yo_file_remove, _symlink, _hardlink: one system call.
unix_plain == Makes(<<Try({})>>, {})
unix_file_readlink == Makes(<<Try({}), Get("str", {}), Try({"str"})>>, {"str"})
\* The handle is not freed when open fails.  Off Linux, a file opened for stat
\* is closed again and its path is kept instead (yoi_unix_mkat): copied, before
\* the new memory is put in place, to wherever the fresh handle points.
unix_file_open ==
  Op({}, {Path(<<Get("res", {}), Get("fd", {})>>, {"res", "fd"}),
          Path(<<Get("res", {}), Get("fd", {}), Put({"fd"}), Get("at", {}),
                 Use("wild")>>, {"res", "at"})})
unix_fd_close_at == Frees({"at", "res"})

unix_dir_open == Makes(<<Get("res", {}), Get("dir", {"res"})>>, {"res", "dir"})
unix_dir_next ==
  Op({}, {Path(<<Try({})>>, {}), Path(<<Try({}), Get("str", {})>>, {"str"})})
\* closedir is called again when it says EINTR, though the DIR is gone.
unix_dir_close ==
  OpOn({"dir", "res"}, {"dir", "res"},
       {Path(<<Put({"dir"}), Put({"res"})>>, {}),
        Path(<<Put({"dir"}), Put({"dir"}), Put({"res"})>>, {})}, TRUE)

\* The labels are swapped: the socket is not closed when connect fails, and
\* close(-1) is called when socket fails.
unix_socket_connect ==
  Makes(<<Get("res", {}), Get("fd", {"fd", "res"}), Try({"res"})>>, {"res", "fd"})

\* Mutant: bind fails and the socket stays open.
unix_socket_bind_open ==
  Makes(<<Get("res", {}), Get("fd", {"res"}), Try({"fd", "res"}),
          Try({"res"}), Try({"fd", "res"})>>, {"res", "fd"})

unix_socket_bind ==
  Makes(<<Get("res", {}), Get("fd", {"res"}), Try({"fd", "res"}),
          Try({"fd", "res"}), Try({"fd", "res"})>>, {"res", "fd"})
unix_socket_accept == Makes(<<Get("res", {}), Get("fd", {"res"})>>, {"res", "fd"})

\* EAI_NONAME leaves no list; the list is not freed when malloc fails.
unix_dns_getaddrinfo ==
  Op({}, {Path(<<Get("list", {}), Get("info", {}), Put({"list"})>>, {"info"}),
          Path(<<Get("info", {})>>, {"info"})})

\* The buffer is replaced by a larger one while getpwuid_r says ERANGE; it is
\* not freed when the result cannot be allocated, and without a suffix the
\* allocation is not tested at all.
unix_getenvpath(suffix) ==
  LET result == IF suffix THEN <<Get("str", {})>> ELSE <<Opt("str"), Use("str")>>
      again == <<Put({"buff"}), Get("buff", {})>>
  IN  {Path(<<Get("buff", {})>> \o grow \o <<Try({"buff"})>> \o result
            \o <<Put({"buff"})>>, {"str"}) : grow \in {<<>>, again}}
\* Cache, config and data: the variable, else the home directory.
unix_getpath_env == {Path(<<Get("str", {})>>, {"str"})} \cup unix_getenvpath(TRUE)
\* The working directory; the final realloc only shrinks.
unix_getpath_cwd ==
  {Path(<<Get("str", {}), Try({"str"})>>, {"str"}),
   Path(<<Get("str", {}), Put({"str"}), Get("str", {}), Try({"str"})>>, {"str"})}
unix_getpath ==
  Op({}, unix_getenvpath(FALSE) \cup unix_getpath_env \cup unix_getpath_cwd)

\* The pipe of one standard stream of a child.
StreamEnds == [in |-> {"in_parent", "in_child"}, out |-> {"out_parent", "out_child"},
               err |-> {"err_parent", "err_child"}]
StreamRes == [in |-> "in_res", out |-> "out_res", err |-> "err_res"]
StdStreams == {{}, {"in"}, {"in", "out", "err"}}
ParentEnds == {"in_parent", "out_parent", "err_parent"}

\* yo_proc_spawn for the streams S.  The first malloc is not tested, and no
\* error path frees it or the handles of the streams that were made; the
\* descriptors are all closed (module Spawn has them with overlapping calls).
unix_proc_spawn_path(S) ==
  LET status == {"status_r", "status_w"}
      ends(T) == UNION {StreamEnds[x] : x \in S \cap T}
      mkstd(x, before) ==
        IF x \notin S THEN <<>>
        ELSE <<Get(StreamRes[x], ends(before) \cup status),
               Get2(StreamEnds[x], {StreamRes[x]} \cup ends(before) \cup status)>>
      all == ends({"in", "out", "err"})
      mine == all \cap ParentEnds
  IN  Path(<<Opt("proc"), Get2(status, {}), Try(status), Try(status), Try(status)>>
           \o mkstd("in", {}) \o mkstd("out", {"in"}) \o mkstd("err", {"in", "out"})
           \o <<Try(all \cup status), Put((all \ mine) \cup status), Try(mine),
                Use("proc")>>,
           {"proc"} \cup {StreamRes[x] : x \in S} \cup mine)
unix_proc_spawn == Op({}, {unix_proc_spawn_path(S) : S \in StdStreams})
unix_proc_wait == Op({"proc"}, {Path(<<Try({}), Put({"proc"})>>, {})})
unix_proc_disown == Frees({"proc"})

unix_env_get == Op({}, {Path(<<>>, {}), Path(<<Get("str", {})>>, {"str"})})
unix_enviter_new == Makes(<<Get("iter", {})>>, {"iter"})
unix_enviter_close == Frees({"iter"})

-----------------------------------------------------------------------------
(* src/src/queue.c over src/src/unix/epoll.c and src/src/unix/pollish.c *)

\* The pipe of the queue; undo is what the caller releases when it fails.
pl_init(pipe, undo) ==
  <<Get2(pipe, undo), Try(pipe \cup undo), Try(pipe \cup undo), Try(pipe \cup undo)>>
NotifyPipe == {"notify_read", "notify_write"}
Queue == {"queue", "timer_fd", "epoll_fd"} \cup NotifyPipe

impl_init ==
  <<Get("timer_fd", {}), Get("epoll_fd", {"timer_fd"}),
    Try({"epoll_fd", "timer_fd"})>> \o pl_init(NotifyPipe, {"epoll_fd", "timer_fd"})
\* yoi_pl_init is called where yoi_pl_free is meant: another pipe is opened.
impl_free ==
  pl_init({"notify_read_2", "notify_write_2"}, {}) \o <<Put({"epoll_fd", "timer_fd"})>>

\* The queue's memory is not freed when impl_init fails.
queue_new == Makes(<<Get("queue", {})>> \o impl_init, Queue)
queue_free == OpOn(Queue, Queue, {Path(impl_free \o <<Put({"queue"})>>, {})}, TRUE)
-----------------------------------------------------------------------------
(* src/src/win/impl.c *)

\* yoi_win_conv_utf8 and yoi_win_conv_utf16: a string, or NULL.
win_conv(str, undo) == Get(str, undo)

\* A call that converts its path, does one system call and frees the path.
win_with_path == Makes(<<win_conv("wpath", {}), Try({"wpath"}), Put({"wpath"})>>, {})
\* DeleteFileW, then RemoveDirectoryW whether or not the first succeeded.
win_file_remove ==
  Makes(<<win_conv("wpath", {}), Try({"wpath"}), Try({"wpath"}), Put({"wpath"})>>, {})
\* Symbolic and hard links.  The second conversion is not tested (wpath is
\* tested twice), but the system call fails on NULL and frees what there is.
win_file_link ==
  Makes(<<win_conv("wpath", {}), win_conv("wtarget", {"wpath"}),
          Try({"wpath", "wtarget"}), Put({"wpath", "wtarget"})>>, {})

win_fd_close == Frees({"fd", "res"})
win_file_open ==
  Makes(<<Get("res", {}), win_conv("wpath", {"res"}), Get("fd", {"wpath", "res"}),
          Put({"wpath"})>>, {"res", "fd"})

\* The search handle is not closed when malloc fails.
win_dir_open ==
  Makes(<<win_conv("wpattern", {}), Get("dir", {"wpattern"}), Put({"wpattern"}),
          Get("res", {})>>, {"res", "dir"})
\* The name is not freed when the next entry cannot be read.
win_dir_next ==
  Op({}, {Path(<<>>, {}), Path(<<Try({})>>, {}), Path(<<Opt("str"), Try({})>>, {"str"})})
win_dir_close == Frees({"dir", "res"})

win_socket_bind ==
  Makes(<<Get("res", {}), Get("fd", {"res"}), Try({"res", "fd"}),
          Try({"res", "fd"}), Try({"res", "fd"})>>, {"res", "fd"})
\* The socket itself is handed over in place of the handle that was built.
win_socket_accept == Makes(<<Get("res", {}), Get("fd", {"res"})>>, {"fd"})
win_socket_connect ==
  Makes(<<Get("res", {}), Get("fd", {"res"}), Try({"res", "fd"})>>, {"res", "fd"})
\* The list is not freed when malloc fails.
win_dns_getaddrinfo ==
  LET path(list, done) ==
        Path(<<win_conv("wname", {})>> \o list \o <<Put({"wname"}), Get("info", {})>>
             \o done, {"info"})
  IN  Op({}, {path(<<Get("list", {"wname"})>>, <<Put({"list"})>>), path(<<>>, <<>>)})

\* The pipe of one standard stream; undo is what spawn releases.
win_child_std_new(s, undo) ==
  <<Get(StreamRes[s], undo), Get2(StreamEnds[s], {StreamRes[s]} \cup undo),
    Try(StreamEnds[s] \cup {StreamRes[s]} \cup undo)>>
\* The command line; one argument stands for each of them.  The raw form,
\* which flags = 0 selects, does not free the converted argument.
win_cmdline_raw(undo) == <<Get("cmdline", undo), win_conv("warg", {"cmdline"} \cup undo)>>
win_cmdline(undo) == win_cmdline_raw(undo) \o <<Put({"warg"})>>
\* NULL for a caller without an environment counts as a failure.
win_envblock(undo) == <<Get("envblock", undo), Try({"envblock"} \cup undo)>>

\* yo_proc_spawn for the streams S: the handles' memory is not freed on any
\* error, and the process handle is handed over in place of a yo_proc.
win_proc_spawn_path(S, raw, env, cwd) ==
  LET ends(T) == UNION {StreamEnds[s] : s \in S \cap T}
      stream(s, before) == IF s \in S THEN win_child_std_new(s, ends(before)) ELSE <<>>
      all == ends({"in", "out", "err"})
      strs == {"cmdline", "envblock", "procname"} \cup (IF cwd THEN {"wcwd"} ELSE {})
  IN  Path(stream("in", {}) \o stream("out", {"in"}) \o stream("err", {"in", "out"})
           \o (IF raw THEN win_cmdline_raw(all) ELSE win_cmdline(all))
           \o (IF env THEN win_envblock({"cmdline"} \cup all)
                      ELSE <<Fail({"cmdline"} \cup all)>>)
           \o <<win_conv("procname", {"envblock", "cmdline"} \cup all)>>
           \o (IF cwd THEN <<win_conv("wcwd", {"procname", "envblock", "cmdline"} \cup all)>>
                      ELSE <<>>)
           \o <<Get2({"hProcess", "hThread"}, strs \cup all), Put(strs),
                Put(all \ ParentEnds),
                Put({"hThread"})>>,
           {"hProcess"} \cup {StreamRes[s] : s \in S}
             \cup (all \cap ParentEnds))
win_proc_spawn ==
  Op({}, {win_proc_spawn_path(S, raw, env, cwd) : S \in StdStreams,
          raw \in BOOLEAN, env \in BOOLEAN, cwd \in BOOLEAN})
\* Both read the handle through a yo_proc, which there is not.
win_proc_wait ==
  Op({"hProcess"}, {Path(<<Use("proc"), Try({}), Try({}), Put({"hProcess"})>>, {})})
win_proc_disown ==
  Op({"hProcess"}, {Path(<<Use("proc"), Put({"hProcess"}), Put({"proc"})>>, {})})

\* The buffer is not freed when the folder or the directory is unknown.
win_getpath_folder ==
  Path(<<Get("buff", {}), Try({}), win_conv("str", {"buff"}), Put({"buff"})>>, {"str"})
win_getpath_cwd ==
  Path(<<Get("wpath", {}), Try({}), win_conv("str", {"wpath"}), Put({"wpath"})>>, {"str"})
win_getpath == Op({}, {win_getpath_folder, win_getpath_cwd})

win_env_get ==
  Op({}, {Path(<<win_conv("wname", {}), Put({"wname"})>>, {}),
          Path(<<win_conv("wname", {}), Try({"wname"}), Get("buff", {"wname"}),
                 Try({"wname", "buff"}), Put({"wname"}), win_conv("str", {"buff"}),
                 Put({"buff"})>>, {"str"})})
win_env_set ==
  Makes(<<win_conv("wname", {}), win_conv("wval", {"wname"}), Try({"wname", "wval"}),
          Put({"wname", "wval"})>>, {})
win_enviter_new == Makes(<<Get("iter", {}), Get("data", {"iter"})>>, {"iter", "data"})
\* The last pair is freed first: lastalloc is not initialised, and it is left
\* as it is when no new pair takes its place.
EnvPair == {"iter", "data", "pair"}
win_enviter_next ==
  OpOn({"iter", "data"}, EnvPair,
       {Path(<<Put({"pair"})>>, {"iter", "data"}),
        Path(<<Put({"pair"}), win_conv("pair", {})>>, EnvPair)}, FALSE)
\* The last pair is not freed.
win_enviter_close == OpOn({"iter", "data"}, EnvPair, {Path(<<Put({"data", "iter"})>>, {})}, TRUE)

-----------------------------------------------------------------------------
(* src/src/ansi/impl.c *)

ansi_fd_close == Frees({"file", "res"})
ansi_fd_close_at == Frees({"at", "res"})
\* A handle opened for stat opens its file for the length of the call.
ansi_stat == Op({}, {Path(<<>>, {}), Path(<<Get("file", {}), Put({"file"})>>, {})})
\* The handle is freed on none of the three errors.
ansi_file_open ==
  Op({}, {Path(<<Get("res", {}), Get("at", {})>>, {"res", "at"}),
          Path(<<Get("res", {}), Fail({})>>, {}),
          Path(<<Get("res", {}), Get("file", {})>>, {"res", "file"})})
\* Without a suffix (home, runtime, working directory) the allocation is not
\* tested before it is written to.
ansi_getenvpath(suffix) ==
  Path(IF suffix THEN <<Get("str", {})>> ELSE <<Opt("str"), Use("str")>>, {"str"})
ansi_getpath == Op({}, {ansi_getenvpath(suffix) : suffix \in BOOLEAN})

-----------------------------------------------------------------------------
(* The calls of each platform.  The environment functions and the handle's    *)
(* constructor are the same code on several of them.                          *)

Common ==
  [fd_new |-> fd_new, fd_close_ref |-> fd_close_ref,
   free_str |-> Frees({"str"}), free_info |-> Frees({"info"})]
WithCommon(own) ==
  [n \in DOMAIN Common \cup DOMAIN own |->
     IF n \in DOMAIN Common THEN Common[n] ELSE own[n]]
Ops == [
  unix |-> WithCommon(
   [fd_close |-> unix_fd_close, tty_raw |-> unix_tty_raw, tty_rawend |-> unix_tty_rawend,
    plain |-> unix_plain, file_readlink |-> unix_file_readlink,
    file_open |-> unix_file_open, dir_open |-> unix_dir_open, dir_next |-> unix_dir_next,
    dir_close |-> unix_dir_close, socket_connect |-> unix_socket_connect,
    socket_bind |-> unix_socket_bind, socket_accept |-> unix_socket_accept,
    dns_getaddrinfo |-> unix_dns_getaddrinfo, getpath |-> unix_getpath,
    fd_close_at |-> unix_fd_close_at, proc_spawn |-> unix_proc_spawn,
    proc_wait |-> unix_proc_wait, proc_disown |-> unix_proc_disown,
    env_get |-> unix_env_get, enviter_new |-> unix_enviter_new,
    enviter_close |-> unix_enviter_close, queue_new |-> queue_new,
    queue_free |-> queue_free]),
  win |-> WithCommon(
   [plain |-> win_with_path, file_remove |-> win_file_remove, file_link |-> win_file_link,
    fd_close |-> win_fd_close, file_open |-> win_file_open, dir_open |-> win_dir_open,
    dir_next |-> win_dir_next, dir_close |-> win_dir_close,
    socket_bind |-> win_socket_bind, socket_accept |-> win_socket_accept,
    socket_connect |-> win_socket_connect, dns_getaddrinfo |-> win_dns_getaddrinfo,
    proc_spawn |-> win_proc_spawn, proc_wait |-> win_proc_wait,
    proc_disown |-> win_proc_disown, getpath |-> win_getpath, env_get |-> win_env_get,
    env_set |-> win_env_set, enviter_new |-> win_enviter_new,
    enviter_next |-> win_enviter_next, enviter_close |-> win_enviter_close]),
  ansi |-> WithCommon(
   [fd_close |-> ansi_fd_close, fd_close_at |-> ansi_fd_close_at, stat |-> ansi_stat,
    file_open |-> ansi_file_open, getpath |-> ansi_getpath, env_get |-> unix_env_get,
    enviter_new |-> unix_enviter_new, enviter_close |-> unix_enviter_close])]

\* The calls that src/src/fallback/async.c wraps.
Wrapped ==
  {"plain", "stat", "file_readlink", "file_remove", "file_link", "dir_open", "dir_next",
   "socket_connect", "socket_accept", "proc_spawn", "proc_wait", "dns_getaddrinfo"}
\* YOI_MKFALLBACK: the arguments are packed, yo_req_exec may refuse the task,
\* and the worker frees them before it makes the call.
wrapper == <<Get("pargs", {}), Try({}), Put({"pargs"})>>

VARIABLES
  platform,   \* which implementation is built
  rcall,      \* the call under way, or the last one
  rstatus,    \* "idle", "run", "ok", "err"
  rsteps,     \* its steps that remain
  rgives,     \* what it hands over if it succeeds
  rheld,      \* what it holds
  robj,       \* what the caller holds
  rlost,      \* what the call left behind with no owner
  rbad        \* what it released or used without holding it

rvars == <<platform, rcall, rstatus, rsteps, rgives, rheld, robj, rlost, rbad>>

ThisOp == Ops[platform][rcall]

RInit ==
  /\ platform \in DOMAIN Ops
  /\ rcall = "fd_new" /\ rstatus = "idle" /\ rsteps = <<>> /\ rgives = {}
  /\ rheld = {} /\ robj = {} /\ rlost = {} /\ rbad = {}

\* The caller has nothing, or passes what it has; it calls directly or
\* through the wrapper.
RCall(n, p) ==
  /\ rstatus # "run"
  /\ n \in DOMAIN Ops[platform] /\ p \in Ops[platform][n].paths
  /\ Ops[platform][n].needs \subseteq robj
  /\ Ops[platform][n].needs = {} => robj = {}
  /\ rsteps' \in {p.steps} \cup (IF n \in Wrapped THEN {wrapper \o p.steps} ELSE {})
  /\ rcall' = n /\ rstatus' = "run" /\ rgives' = p.gives
  /\ rheld' = robj \cap Ops[platform][n].takes
  /\ robj' = robj \ Ops[platform][n].takes
  /\ rlost' = {} /\ rbad' = {}
  /\ UNCHANGED platform

\* One step that succeeds, or whose failure the code does not notice.
RStep ==
  /\ rstatus = "run" /\ rsteps # <<>>
  /\ LET s == Head(rsteps) IN
       \/ /\ s.do \in {"get", "opt"}
          /\ rheld' = rheld \cup s.res /\ UNCHANGED rbad
       \/ /\ s.do \in {"put", "use"}
          /\ rbad' = rbad \cup (s.res \ rheld)
          /\ rheld' = IF s.do = "put" THEN rheld \ s.res ELSE rheld
       \/ s.do \in {"try", "opt"} /\ UNCHANGED <<rheld, rbad>>
  /\ rsteps' = Tail(rsteps)
  /\ UNCHANGED <<platform, rcall, rstatus, rgives, robj, rlost>>

\* A step fails: the code releases undo and returns the error.  What is left
\* of the caller's object is still the caller's.
RFail ==
  /\ rstatus = "run" /\ rsteps # <<>>
  /\ LET s == Head(rsteps)
         left == rheld \ s.undo
         back == IF ThisOp.void THEN {} ELSE left \cap ThisOp.takes
     IN  /\ s.do \in {"get", "try", "fail"}
         /\ rbad' = rbad \cup (s.undo \ rheld)
         /\ robj' = robj \cup back /\ rlost' = left \ back
  /\ rstatus' = (IF ThisOp.void THEN "ok" ELSE "err")
  /\ rheld' = {} /\ rsteps' = <<>> /\ rgives' = {}
  /\ UNCHANGED <<platform, rcall>>

RReturn ==
  /\ rstatus = "run" /\ rsteps = <<>>
  /\ rstatus' = "ok"
  /\ robj' = robj \cup rgives /\ rlost' = rheld \ rgives
  /\ rbad' = rbad \cup (rgives \ rheld)
  /\ rheld' = {}
  /\ UNCHANGED <<platform, rcall, rsteps, rgives>>

RNext ==
  \/ \E n \in UNION {DOMAIN Ops[f] : f \in DOMAIN Ops} :
       n \in DOMAIN Ops[platform] /\ \E p \in Ops[platform][n].paths : RCall(n, p)
  \/ RStep \/ RFail \/ RReturn

-----------------------------------------------------------------------------
(* Properties. *)

RTypeOK ==
  /\ platform \in DOMAIN Ops
  /\ rcall \in DOMAIN Ops[platform]
  /\ rstatus \in {"idle", "run", "ok", "err"}
  /\ rstatus # "run" => rsteps = <<>> /\ rheld = {}

(* What the code is known to lose: see the comments at each call. *)
KnownLost ==
  {<<f, n, "pargs">> : f \in DOMAIN Ops, n \in Wrapped} \cup
  {<<"unix", "queue_free", r>> : r \in Queue \cup {"notify_read_2", "notify_write_2"}} \cup
  {<<"win", "proc_spawn", r>> : r \in {"in_res", "out_res", "err_res", "warg"}} \cup
  {<<"unix", "proc_spawn", r>> : r \in {"proc", "in_res", "out_res", "err_res"}} \cup
  {<<"unix", "file_open", "res">>, <<"unix", "socket_connect", "fd">>,
   <<"unix", "dns_getaddrinfo", "list">>, <<"unix", "getpath", "buff">>,
   <<"unix", "queue_new", "queue">>,
   <<"win", "dir_open", "dir">>, <<"win", "dir_next", "str">>,
   <<"win", "socket_accept", "res">>, <<"win", "dns_getaddrinfo", "list">>,
   <<"win", "getpath", "buff">>, <<"win", "getpath", "wpath">>,
   <<"win", "enviter_close", "pair">>, <<"ansi", "file_open", "res">>}

(* What the code is known to release twice, or to hand over without having. *)
KnownBad ==
  {<<"unix", "fd_close", "fd">>, <<"unix", "socket_connect", "fd">>,
   <<"unix", "file_open", "wild">>, <<"unix", "dir_close", "dir">>,
   <<"unix", "proc_spawn", "proc">>,
   <<"unix", "getpath", "str">>, <<"ansi", "getpath", "str">>,
   <<"win", "dir_next", "str">>, <<"win", "proc_wait", "proc">>,
   <<"win", "proc_disown", "proc">>, <<"win", "enviter_next", "pair">>}

(* Whatever step of a call fails, and through however many calls an object    *)
(* has passed: everything the call acquired has been released or is in the    *)
(* caller's hands when it returns; it has released, written through and       *)
(* handed over only what it held, so that no error path frees what was not    *)
(* acquired on the way to it; and a call that fails leaves the object it was  *)
(* given whole, to try again or to close.  KnownLost and KnownBad are the      *)
(* defects the code has: of those this says only that there are no others.    *)
OwnershipKept ==
  /\ \A r \in rlost : <<platform, rcall, r>> \in KnownLost
  /\ \A r \in rbad : <<platform, rcall, r>> \in KnownBad
  /\ rstatus = "err" => ThisOp.needs \subseteq robj

(* When yo_queue_free has returned, nothing of the queue is left, as           *)
(* inc/yaooi/queue.h:20 says: it "frees all associated resources".  The code  *)
(* opens another pipe instead of closing the one there is (epoll.c:126).      *)
QueueFreeFreesAll == rcall = "queue_free" /\ rstatus = "ok" => rlost = {}
=============================================================================
