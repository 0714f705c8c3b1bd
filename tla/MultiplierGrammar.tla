-------------------------- MODULE MultiplierGrammar --------------------------
(***************************************************************************)
(* The rate/multiplier grammar of parsing_opts.py: decode_multiplier and  *)
(* the argparse 'type' functions match_multiplier(_strict) that the -m    *)
(* option of the console commands uses.  A text is a sequence of lexemes *)
(* (MultiplierSpec); float() of the number is exact: n * 10^e / d.      *)
(*                                                                         *)
(* It also models the port options of a console command: the parser    *)
(* gen_parser builds from PORT_LIST, ALL_PORTS or the mutually exclusive *)
(* group PORT_LIST_WITH_ALL, and CCmdArgParser.parse_args, which turns   *)
(* '-a' or an empty port list into all the client's ports and rejects a  *)
(* port the client does not validate.                                     *)
(*                                                                         *)
(* State: the last call: decode_multiplier (text, allow_update,         *)
(* divide_count and its result), a parse of '-m text', or a parse of a   *)
(* command's port options (the request in portArgs); opts is the        *)
(* options parse_args returns, or None when the parser exits.           *)
(***************************************************************************)
EXTENDS MultiplierSpec, TLC

CONSTANTS
    Texts,          \* the texts a caller passes (None: not a str)
    DivideCounts,   \* the divide_count values callers pass
    ClientPorts,    \* the client's get_all_ports(), a sequence of port ids
    PortIds,        \* the integers a user passes to --port
    MaxPortArgs,    \* bound on the number of values after --port
    Commands        \* the port option sets commands build parsers from

VARIABLES call, text, allowUpdate, divideCount, decoded, opts, portArgs

vars == <<call, text, allowUpdate, divideCount, decoded, opts, portArgs>>

\* The regular expression ^(\d+(\.\d+)?)(bps|kbps|mbps|gbps|pps|kpps|mpps|%?)$
\* and, when updates are allowed, the same with ([\+\-])? before the '$':
\* the number, the unit (group 3, '' when absent) and the operator.
RegexMatch(val, allow_update) ==
    LET hasFrac == Len(val) >= 3 /\ val[2] = Sym(".") /\ IsDigits(val[3])
        r2      == IF hasFrac THEN SubSeq(val, 4, Len(val)) ELSE Tail(val)
        hasUnit == r2 # <<>> /\ r2[1].lx = "sym" /\ r2[1].s \in UnitWords
        r3      == IF hasUnit THEN Tail(r2) ELSE r2
        hasOp   == allow_update /\ Len(r3) = 1 /\ r3[1].lx = "sym" /\ r3[1].s \in OpWords
    IN  IF val # <<>> /\ IsDigits(val[1]) /\ (r3 = <<>> \/ hasOp)
        THEN [number |-> IF hasFrac THEN <<val[1], val[2], val[3]>> ELSE <<val[1]>>,
              unit   |-> IF hasUnit THEN r2[1].s ELSE "",
              op     |-> IF hasOp THEN r3[1].s ELSE None]
        ELSE None

\* The if/elif chain on the unit: result type and scale factor (a power of
\* ten, f, so that 10^9 times a number fits TLC's integers).
\* Fault model: 'mbps' scaled by 1000 only.
UnitTableMbpsKilo ==
    ("" :> [type |-> "raw", f |-> 0]) @@ ("bps" :> [type |-> "bps", f |-> 0])
    @@ ("kbps" :> [type |-> "bps", f |-> 3]) @@ ("mbps" :> [type |-> "bps", f |-> 3])
    @@ ("gbps" :> [type |-> "bps", f |-> 9]) @@ ("pps" :> [type |-> "pps", f |-> 0])
    @@ ("kpps" :> [type |-> "pps", f |-> 3]) @@ ("mpps" :> [type |-> "pps", f |-> 6])
    @@ ("%" :> [type |-> "percentage", f |-> 0])

UnitTable ==
    ("" :> [type |-> "raw", f |-> 0])
    @@ ("bps" :> [type |-> "bps", f |-> 0])
    @@ ("kbps" :> [type |-> "bps", f |-> 3])
    @@ ("mbps" :> [type |-> "bps", f |-> 6])
    @@ ("gbps" :> [type |-> "bps", f |-> 9])
    @@ ("pps" :> [type |-> "pps", f |-> 0])
    @@ ("kpps" :> [type |-> "pps", f |-> 3])
    @@ ("mpps" :> [type |-> "pps", f |-> 6])
    @@ ("%" :> [type |-> "percentage", f |-> 0])

\* Fault model: no 'else' branch; the operator passed through.
OpOfRaw(op) == CASE op = "+" -> "add" [] op = "-" -> "sub" [] OTHER -> op

OpOf(op) == CASE op = "+" -> "add" [] op = "-" -> "sub" [] OTHER -> "abs"

\* float(match.group(1)): the number's value as a fraction.
FloatOf(number) ==
    IF Len(number) = 1 THEN [n |-> number[1].v, e |-> 0, d |-> 1]
    ELSE [n |-> number[1].v * 10^number[3].len + number[3].v, e |-> 0,
          d |-> 10^number[3].len]

\* decode_multiplier.  The value is divided by divide_count unless
\* result['op'] is 'percentage'.
DecodeMultiplier(val, allow_update, divide_count) ==
    LET m   == RegexMatch(val, allow_update)
        u   == UnitTable[m.unit]
        v   == FloatOf(m.number)
        res == [type |-> u.type, value |-> [v EXCEPT !.e = u.f], op |-> OpOf(m.op)]
    IN  CASE val = None \/ m = None -> None
          [] res.op # "percentage"  -> [res EXCEPT !.value.d = @ * divide_count]
          [] OTHER                  -> res

\* A caller decodes a multiplier text.
Decode(val, au, dc) ==
    /\ call' = "decode"
    /\ text' = val /\ allowUpdate' = au /\ divideCount' = dc
    /\ decoded' = DecodeMultiplier(val, au, dc)
    /\ opts' = None
    /\ portArgs' = None

\* CCmdArgParser.parse_args of '-m val' with the MULTIPLIER (match_multiplier)
\* or MULTIPLIER_STRICT (match_multiplier_strict) option: the type function
\* raises ArgumentTypeError, argparse exits, and parse_args returns None.
ParseArgs(val, strict) ==
    /\ call' = "parse"
    /\ text' = val /\ allowUpdate' = ~strict /\ divideCount' = 1
    /\ opts' = IF DecodeMultiplier(val, ~strict, 1) = None THEN None
               ELSE [mult |-> val, strict |-> strict]
    /\ decoded' = None
    /\ portArgs' = None

\* OPTIONS_DB: PORT_LIST is '--port' (nargs '+', type int, dest 'ports',
\* default []), ALL_PORTS is '-a' (store_true, dest 'all_ports', default
\* False); PORT_LIST_WITH_ALL is a MUTEX group of the two, whose members
\* gen_parser adds to the parser.
HasPortList(cmd) == cmd \cap {"PORT_LIST", "PORT_LIST_WITH_ALL"} # {}

HasAllPorts(cmd) == cmd \cap {"ALL_PORTS", "PORT_LIST_WITH_ALL"} # {}

ClientPortSet == {ClientPorts[i] : i \in DOMAIN ClientPorts}

\* The namespace argparse builds from '-a' (a) and '--port ps' (ps = None
\* when absent) with the options gen_parser added, or None where argparse
\* exits: an option the parser lacks, '--port' without a value, or both
\* members of a mutually exclusive group.  An option the parser lacks has
\* no attribute (None, as getattr(opts, name, None) reads it).
PortNamespace(cmd, a, ps) ==
    IF \/ a /\ ~HasAllPorts(cmd)
       \/ ps # None /\ ~HasPortList(cmd)
       \/ ps = <<>>
       \/ "PORT_LIST_WITH_ALL" \in cmd /\ a /\ ps # None
    THEN None
    ELSE [all_ports |-> IF HasAllPorts(cmd) THEN a ELSE None,
          ports     |-> IF ~HasPortList(cmd) THEN None
                        ELSE IF ps = None THEN <<>> ELSE ps]

\* stateless_client._validate_port_list([port]) for every port of the list
\* (the client is outside src/): the port is one of the client's.
ValidatePortList(ps) == \A i \in DOMAIN ps : ps[i] \in ClientPortSet

\* Fault model: only all_ports selects all ports; an empty list is kept.
ParsePortArgsNoEmpty(ns) ==
    CASE ns = None                                      -> None
      [] ns.all_ports = TRUE                            -> [ns EXCEPT !.ports = ClientPorts]
      [] ns.ports # None /\ ~ValidatePortList(ns.ports) -> None
      [] OTHER                                          -> ns

\* CCmdArgParser.parse_args after argparse: all_ports, or an empty port
\* list, becomes get_all_ports(); otherwise every listed port is
\* validated and self.error (SystemExit, caught) makes the result None.
ParsePortArgs(ns) ==
    CASE ns = None                                      -> None
      [] ns.all_ports = TRUE \/ ns.ports = <<>>          -> [ns EXCEPT !.ports = ClientPorts]
      [] ns.ports # None /\ ~ValidatePortList(ns.ports) -> None
      [] OTHER                                          -> ns

\* A console command parses its port options.
ParsePorts(cmd, a, ps) ==
    /\ call' = "ports"
    /\ portArgs' = [cmd |-> cmd, all |-> a, ports |-> ps]
    /\ opts' = ParsePortArgs(PortNamespace(cmd, a, ps))
    /\ text' = None /\ allowUpdate' = TRUE /\ divideCount' = 1
    /\ decoded' = None

PortLists == UNION {[1..k -> PortIds] : k \in 0..MaxPortArgs}

\* The option's default "1", decoded with updates allowed.
Init ==
    /\ call = "decode"
    /\ text = <<Digits(1, 1)>> /\ allowUpdate = TRUE /\ divideCount = 1
    /\ decoded = DecodeMultiplier(text, TRUE, 1)
    /\ opts = [mult |-> <<Digits(1, 1)>>, strict |-> FALSE]
    /\ portArgs = None

Next ==
    \/ \E val \in Texts, au \in BOOLEAN, dc \in DivideCounts : Decode(val, au, dc)
    \/ \E val \in Texts, strict \in BOOLEAN : ParseArgs(val, strict)
    \/ \E cmd \in Commands, a \in BOOLEAN, ps \in {None} \cup PortLists :
          ParsePorts(cmd, a, ps)

Spec == Init /\ [][Next]_vars

(***************************************************************************)
(* Properties                                                              *)
(***************************************************************************)
TypeOK ==
    /\ call \in {"decode", "parse", "ports"}
    /\ allowUpdate \in BOOLEAN /\ divideCount \in DivideCounts
    /\ decoded = None \/ (decoded.type \in {"raw", "bps", "pps", "percentage"}
                          /\ decoded.op \in {"abs", "add", "sub"})
    /\ call = "parse" /\ opts # None => opts.strict \in BOOLEAN
    /\ call = "ports" /\ opts # None => opts.ports \in {None} \cup Seq(PortIds)

\* Two decode results denote the same rate (values compared as fractions).
SameRate(a, b) ==
    \/ a = None /\ b = None
    \/ /\ a # None /\ b # None
       /\ a.type = b.type /\ a.op = b.op
       /\ SameValue(a.value, b.value)

(* decode_multiplier implements the grammar of spec 4.1: it accepts       *)
(* exactly the texts <number>(<unit>)?(<op>)? (the operator only when     *)
(* updates are allowed), scales by the unit, tags the operation, and     *)
(* divides by divide_count every kind but percentage; and the -m option  *)
(* of a command accepts exactly the texts of that grammar, keeping the   *)
(* text as given.                                                         *)
DecodeFollowsGrammar ==
    LET g == GrammarDecode(text, allowUpdate, divideCount)
    IN  CASE call = "decode" -> SameRate(decoded, g)
          [] call = "parse"  -> opts = IF g = None THEN None
                    ELSE [mult |-> text, strict |-> ~allowUpdate]
          [] OTHER -> TRUE

(* A command receives only ports the client knows: when parse_args      *)
(* returns options with a port list, the list is not empty and every     *)
(* port in it passes the client's check; it is the list the user typed,  *)
(* in order, when typed without '-a', and all the client's ports when    *)
(* '-a' was given or no '--port'.  A command whose parser has '--port'   *)
(* always gets a port list.                                               *)
ParsedPortsValid ==
    call = "ports" /\ opts # None =>
        /\ HasPortList(portArgs.cmd) => opts.ports # None
        /\ opts.ports # None =>
             /\ opts.ports # <<>>
             /\ \A i \in DOMAIN opts.ports : opts.ports[i] \in ClientPortSet
             /\ opts.ports = IF portArgs.ports # None /\ ~portArgs.all
                             THEN portArgs.ports ELSE ClientPorts

=============================================================================
