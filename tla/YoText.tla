-------------------------------- MODULE YoText --------------------------------
(***************************************************************************)
(* The library's pure functions on text and lists: the address parser      *)
(* (src/src/addr.c), the command line of a Windows process                 *)
(* (src/src/win/impl.c:108-201) and the list that yo_dns_getaddrinfo makes *)
(* of the system's (src/src/unix/impl.c:791-816, src/src/win/impl.c).      *)
(*                                                                         *)
(* The one variable is an input, and its one action makes it longer: TLC   *)
(* evaluates the functions on every input within the bounds.               *)
(***************************************************************************)
EXTENDS Integers, Sequences, FiniteSetsExt, SequencesExt

CONSTANTS
  MaxGroups,   \* bound on the groups of an address, for ipv4 and for ipv6
  MaxOdd,      \* bound on the groups that are not a digit of their own
  MaxArgs,     \* bound on the arguments of a command line
  MaxChars,    \* bound on the characters of all of them
  MaxAddrs     \* bound on the addresses the system returns

\* The place of a group is a digit.
ASSUME GroupAssumption == \A f \in {"ipv4", "ipv6"} : MaxGroups[f] \in 0 .. 15

-----------------------------------------------------------------------------
(* Addresses.  A character is a number: below 16 a hexadecimal digit is its   *)
(* value, in either case.                                                     *)
Dot == 16
Colon == 17
Other == 18
Nul == 19
Digit == 0 .. 9
XDigit == 0 .. 15

\* Groups and arguments, with a separator between each two of them.
Led(parts, sep) ==
  LET F[i \in 0 .. Len(parts)] == IF i = 0 THEN <<>> ELSE F[i - 1] \o <<sep>> \o parts[i]
  IN  F[Len(parts)]
Joined(parts, sep) == Tail(Led(parts, sep))

CharAt(s, p) == IF p \in DOMAIN s THEN s[p] ELSE Nul
\* How many characters of class c there are from p on, up to max.
Span(s, p, c, max) ==
  Max({k \in 0 .. max : \A j \in p .. p + k - 1 : CharAt(s, j) \in c})
Number(base, ds) ==
  LET F[i \in 0 .. Len(ds)] == IF i = 0 THEN 0 ELSE base * F[i - 1] + ds[i]
  IN  F[Len(ds)]

NoAddr == [type |-> "none", parts |-> <<>>]
Start(p) == [ok |-> TRUE, it |-> p, parts |-> <<>>, end |-> FALSE]
Failed == [Start(0) EXCEPT !.ok = FALSE]

\* Mutant: 256 passes.
ipv4_part_256(s, w, i) ==
  LET n == Span(s, w.it, Digit, Len(s))
      part == Number(10, SubSeq(s, w.it, w.it + n - 1))
      dot == CharAt(s, w.it + n) = Dot
  IN  IF n = 0 \/ part > 256 \/ (dot <=> i = 3) THEN Failed
      ELSE [w EXCEPT !.it = @ + n + (IF dot THEN 1 ELSE 0), !.parts = Append(@, part)]

\* The digits of a part.  One above 100 that goes on is refused at once, so that
\* it cannot overflow; 1000 stands for the refusal.
ipv4_digit(v, d) == IF v > 100 THEN 1000 ELSE 10 * v + d
ipv4_number(ds) ==
  LET F[i \in 0 .. Len(ds)] == IF i = 0 THEN 0 ELSE ipv4_digit(F[i - 1], ds[i])
  IN  F[Len(ds)]
\* The body of the loop of yo_parse_ipv4.
ipv4_part(s, w, i) ==
  LET n == Span(s, w.it, Digit, Len(s))
      part == ipv4_number(SubSeq(s, w.it, w.it + n - 1))
      dot == CharAt(s, w.it + n) = Dot
      it == w.it + n + (IF dot THEN 1 ELSE 0)
  IN  IF n = 0 \/ part > 255 \/ (dot /\ i = 3) \/ (CharAt(s, it) = Nul /\ i # 3)
      THEN Failed
      ELSE [w EXCEPT !.it = it, !.parts = Append(@, part)]
ipv4_next(s, w, i) == IF w.ok THEN ipv4_part(s, w, i) ELSE w
yo_parse_ipv4(s) ==
  LET w == ipv4_next(s, ipv4_next(s, ipv4_next(s, ipv4_part(s, Start(1), 0), 1), 2), 3)
  IN  IF w.ok /\ CharAt(s, w.it) = Nul
      THEN [type |-> "ipv4", parts |-> w.parts] ELSE NoAddr

\* The body of the loop of yo_parse_ipv6.  One colon is consumed before two
\* are looked for, so the second test never succeeds.
ipv6_group(s, w) ==
  LET n == Span(s, w.it, XDigit, 4)
      it == w.it + n
      c == CharAt(s, it)
  IN  IF n = 0 THEN Failed
      ELSE [w EXCEPT !.it = IF c = Colon THEN it + 1 ELSE it, !.end = (c = Nul),
                     !.parts = Append(@, Number(16, SubSeq(s, w.it, it - 1)))]
ipv6_next(s, w) == IF w.ok /\ ~w.end THEN ipv6_group(s, w) ELSE w
\* The loop, from position p on.
ipv6_groups(s, p) ==
  LET F[i \in 0 .. 8] == IF i = 0 THEN Start(p) ELSE ipv6_next(s, F[i - 1])
  IN  F[8]
\* The groups that were not written are zero.
Padded(parts) == [i \in 1 .. 8 |-> IF i \in DOMAIN parts THEN parts[i] ELSE 0]
\* A leading "::" is skipped; nothing is moved for it, as zeroes_i is never
\* positive.
yo_parse_ipv6(s) ==
  LET zeroes == CharAt(s, 1) = Colon /\ CharAt(s, 2) = Colon
      w == ipv6_groups(s, IF zeroes THEN 3 ELSE 1)
  IN  IF zeroes /\ Len(s) = 2 THEN [type |-> "ipv6", parts |-> Padded(<<>>)]
      ELSE IF w.ok /\ CharAt(s, w.it) = Nul
      THEN [type |-> "ipv6", parts |-> Padded(w.parts)] ELSE NoAddr

yo_addrparse(s) ==
  IF yo_parse_ipv4(s) # NoAddr THEN yo_parse_ipv4(s) ELSE yo_parse_ipv6(s)

\* The bytes of the union that an IPv4 address does not use are its junk.
yo_addrcmp(a, b) == a.type = b.type /\ a.bytes = b.bytes

\* yo_dns_getaddrinfo copies each address unless it is there already.
unix_add(res, a) ==
  IF \E j \in DOMAIN res : yo_addrcmp(a, res[j]) THEN res ELSE Append(res, a)
unix_addrs(list) ==
  LET F[i \in 0 .. Len(list)] == IF i = 0 THEN <<>> ELSE unix_add(F[i - 1], list[i])
  IN  F[Len(list)]
\* memcmp over the whole structure, junk included.
win_add(res, a) == IF \E j \in DOMAIN res : a = res[j] THEN res ELSE Append(res, a)
win_addrs(list) ==
  LET F[i \in 0 .. Len(list)] == IF i = 0 THEN <<>> ELSE win_add(F[i - 1], list[i])
  IN  F[Len(list)]

-----------------------------------------------------------------------------
(* Command lines.  A "wide" character has more bytes in UTF-8 than it has     *)
(* units once yoi_win_conv_utf8 has converted it.                             *)
CmdChars == {"quote", "back", "space", "plain", "wide"}
Total(ns) ==
  LET F[i \in 0 .. Len(ns)] == IF i = 0 THEN 0 ELSE F[i - 1] + ns[i]
  IN  F[Len(ns)]
strlen(arg) == Total([i \in DOMAIN arg |-> IF arg[i] = "wide" THEN 2 ELSE 1])
Times(c, n) == [i \in 1 .. n |-> c]

\* _yoi_win_argv_to_cmdline: one argument, with the backslashes held back
\* until it is known whether a quote follows them.
quote_char(w, c) ==
  IF c = "back" THEN [w EXCEPT !.back = @ + 1]
  ELSE [back |-> 0,
        out |-> w.out \o (IF c = "quote" THEN Times("back", 2 * w.back + 1)
                                         ELSE Times("back", w.back)) \o <<c>>]

quote_chars(arg) ==
  LET F[i \in 0 .. Len(arg)] ==
        IF i = 0 THEN [back |-> 0, out |-> <<"quote">>] ELSE quote_char(F[i - 1], arg[i])
  IN  F[Len(arg)]

\* Mutant: backslashes before the closing quote are not doubled.
quote_arg_single(arg) ==
  LET w == quote_chars(arg)
  IN  w.out \o Times("back", w.back) \o <<"quote">>

quote_arg(arg) ==
  LET w == quote_chars(arg)
  IN  w.out \o Times("back", 2 * w.back) \o <<"quote">>
argv_to_cmdline_escaped(argv) ==
  [text |-> Joined([i \in DOMAIN argv |-> quote_arg(argv[i])], "space"),
   room |-> Total([i \in DOMAIN argv |-> 1 + 2 * strlen(argv[i]) + 1 + 1])]
argv_to_cmdline_raw(argv) ==
  [text |-> Joined(argv, "space"),
   room |-> Total([i \in DOMAIN argv |-> strlen(argv[i]) + 1])]

YO_SPAWN_NOESCAPE == 0   \* the first value of its enum
argv_to_cmdline(argv, flags) ==
  IF flags = YO_SPAWN_NOESCAPE THEN argv_to_cmdline_raw(argv)
  ELSE argv_to_cmdline_escaped(argv)

(* How a Windows program splits its command line: a quote preceded by 2n      *)
(* backslashes toggles quoting, one preceded by 2n + 1 is a character, and    *)
(* backslashes stand for themselves elsewhere.  In the first argument, the    *)
(* program's name, they always do, and every quote toggles.                   *)
SplitChar(w, c) ==
  LET name == w.args = <<>>
      cur == w.cur \o Times("back", IF c = "quote" /\ ~name THEN w.back \div 2 ELSE w.back)
  IN  IF c = "back" THEN [w EXCEPT !.back = @ + 1, !.some = TRUE]
      ELSE IF c = "quote" /\ (name \/ w.back % 2 = 0)
        THEN [w EXCEPT !.back = 0, !.cur = cur, !.quoted = ~@, !.some = TRUE]
      ELSE IF c = "space" /\ ~w.quoted
        THEN [w EXCEPT !.back = 0, !.cur = <<>>, !.some = FALSE,
                       !.args = IF w.some THEN Append(@, cur) ELSE @]
      ELSE [w EXCEPT !.back = 0, !.cur = Append(cur, c), !.some = TRUE]
Split(w, text) ==
  LET F[i \in 0 .. Len(text)] == IF i = 0 THEN w ELSE SplitChar(F[i - 1], text[i])
  IN  F[Len(text)]
SplitStart == [args |-> <<>>, cur |-> <<>>, back |-> 0, quoted |-> FALSE, some |-> FALSE]
SplitCmdline(text) == Split(SplitStart, Append(text, "space")).args

-----------------------------------------------------------------------------
VARIABLES
  topic,     \* which functions the input is for
  input      \* groups of an address, arguments, or the system's addresses

tvars == <<topic, input>>

Topics == {"ipv4", "ipv6", "argv", "addrs"}
\* Groups that differ from their own position in the text.
OddGroups == [
  ipv4 |-> {<<>>, <<2, 5, 5>>, <<2, 5, 6>>, <<1, 0, 0, 0>>, <<1, 0, 1, 0>>, <<0, 0, 7>>,
            <<10>>, <<Other>>, <<Colon>>},
  ipv6 |-> {<<>>, <<15, 15, 15, 15>>, <<0, 1, 2, 3, 4>>, <<Other>>, <<Dot>>}]
Args == BoundedSeq(CmdChars, MaxChars)
SysAddrs == [type : {"ipv4"}, bytes : {1, 2}, junk : {0, 1}]
            \cup [type : {"ipv6"}, bytes : {1, 2}, junk : {0}]

TInit == topic \in Topics /\ input = <<>>

GrowGroups ==
  /\ topic \in {"ipv4", "ipv6"} /\ Len(input) < MaxGroups[topic]
  /\ \E g \in OddGroups[topic] \cup {<<Len(input) + 1>>} : input' = Append(input, g)
  /\ Cardinality({i \in DOMAIN input' : input'[i] # <<i>>}) <= MaxOdd
  /\ UNCHANGED topic
\* A program has at least the argument that names it.
GrowArgs ==
  /\ topic = "argv" /\ Len(input) < MaxArgs
  /\ \E a \in Args :
       /\ input' = Append(input, a)
       /\ Len(Joined(input', "space")) <= MaxChars + Len(input)
  /\ UNCHANGED topic
GrowAddrs ==
  /\ topic = "addrs" /\ Len(input) < MaxAddrs
  /\ \E a \in SysAddrs : input' = Append(input, a)
  /\ UNCHANGED topic
TNext == GrowGroups \/ GrowArgs \/ GrowAddrs
TSpec == TInit /\ [][TNext]_tvars

-----------------------------------------------------------------------------
(* Properties. *)

Values(groups, base) == [i \in DOMAIN groups |-> Number(base, groups[i])]
AllIn(groups, c) == \A i \in DOMAIN groups : \A k \in DOMAIN groups[i] : groups[i][k] \in c
NonEmpty(groups) ==
  LET F[i \in 0 .. Len(groups)] ==
        IF i = 0 THEN <<>>
        ELSE IF groups[i] = <<>> THEN F[i - 1] ELSE Append(F[i - 1], groups[i])
  IN  F[Len(groups)]

(* yo_addrparse reads a text as an IPv4 address exactly if it is four numbers  *)
(* up to 255 with dots between them: no run of digits overflows on the way,    *)
(* and no such text is an IPv6 address too.                                    *)
Ipv4Exact(groups) ==
  LET text == Joined(groups, Dot)
      r == yo_addrparse(text)
      well == /\ Len(groups) = 4 /\ AllIn(groups, Digit) /\ NonEmpty(groups) = groups
              /\ \A i \in 1 .. 4 : Number(10, groups[i]) <= 255
  IN  /\ (r.type = "ipv4") <=> well
      /\ well => r.parts = Values(groups, 10) /\ yo_parse_ipv6(text) = NoAddr

(* It reads eight groups of one to four hexadecimal digits, with colons        *)
(* between them, as the IPv6 address of those groups, and refuses every text   *)
(* with another character in it.  Fewer groups with one colon between each two *)
(* may be refused, but are not read as anything but the first of eight.        *)
Ipv6Exact(groups) ==
  LET r == yo_addrparse(Joined(groups, Colon))
      short == \A i \in DOMAIN groups : Len(groups[i]) <= 4
      full == NonEmpty(groups) = groups
      values == Values(groups, 16)
  IN  /\ ~AllIn(groups, XDigit) => r = NoAddr
      /\ Len(groups) = 8 /\ AllIn(groups, XDigit) /\ full /\ short
           => r = [type |-> "ipv6", parts |-> values]
      /\ full /\ short /\ r.type = "ipv6" => SubSeq(r.parts, 1, Len(values)) = values

(* "Parses the string to an IP address (ipv4/6 auto-detected)"                 *)
(* (inc/yaooi/addr.h:23): an IPv6 address may have a "::" in it, for as many   *)
(* groups of zeroes as are missing between those before and those behind it.   *)
Gapped(front, back) ==
  (IF front = <<>> THEN <<>> ELSE Joined(front, Colon)) \o <<Colon, Colon>>
  \o (IF back = <<>> THEN <<>> ELSE Joined(back, Colon))
Ipv6Compressed ==
  topic = "ipv6" /\ Len(input) <= 7 /\ AllIn(input, XDigit)
  /\ (\A i \in DOMAIN input : Len(input[i]) \in 1 .. 4) =>
    \A k \in 0 .. Len(input) :
      LET front == SubSeq(input, 1, k)
          back == SubSeq(input, k + 1, Len(input))
          zeroes == [i \in 1 .. 8 - Len(input) |-> 0]
      IN  yo_addrparse(Gapped(front, back))
            = [type |-> "ipv6", parts |-> Values(front, 16) \o zeroes \o Values(back, 16)]

(* yo_dns_getaddrinfo on Unix returns the system's addresses in their order,   *)
(* each of them once; on Windows none is lost, but two that differ only in     *)
(* bytes nobody wrote may both be there.                                       *)
Key(a) == <<a.type, a.bytes>>
Keys(list) == {Key(list[i]) : i \in DOMAIN list}
FirstAt(list, k) == Min({i \in DOMAIN list : Key(list[i]) = k})
AddrsOnce(list) ==
  LET res == unix_addrs(list) IN
  /\ Keys(res) = Keys(list)
  /\ \A i, j \in DOMAIN res :
       i < j => FirstAt(list, Key(res[i])) < FirstAt(list, Key(res[j]))
  /\ Keys(win_addrs(list)) = Keys(list)

(* The three facts above hold of every text and every list of addresses within *)
(* the bounds (yo_addrparse, yo_addrcmp and yo_dns_getaddrinfo).               *)
AddrExact ==
  /\ topic = "ipv4" /\ input # <<>> => Ipv4Exact(input)
  /\ topic = "ipv6" /\ input # <<>> => Ipv6Exact(input)
  /\ topic = "addrs" => AddrsOnce(input)

(* A Windows program gets back the very arguments that yo_proc_spawn was given *)
(* with escaping on, whatever backslashes, quotes and spaces they hold, if its *)
(* own name holds no quote and does not end in a backslash; and the command    *)
(* line and its terminator fit the buffer that was sized before the            *)
(* conversion, with any flags.                                                 *)
IsName(arg) == \A i \in DOMAIN arg : arg[i] # "quote" /\ (i = Len(arg) => arg[i] # "back")
ArgvExact(argv) ==
  \A flags \in {YO_SPAWN_NOESCAPE, 1} :
    LET c == argv_to_cmdline(argv, flags) IN
    /\ flags # YO_SPAWN_NOESCAPE /\ IsName(argv[1]) => SplitCmdline(c.text) = argv
    /\ Len(c.text) + 1 <= c.room

(* It holds of every list of arguments within the bounds                       *)
(* (_yoi_win_argv_to_cmdline and its raw form).                                *)
CmdlineExact == topic = "argv" /\ input # <<>> => ArgvExact(input)
=============================================================================
