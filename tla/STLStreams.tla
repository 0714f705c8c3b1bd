----------------------------- MODULE STLStreams -----------------------------
(***************************************************************************)
(* The stream descriptor model of trex_stl_streams.py: the TX mode         *)
(* classes, STLRxStats, the STLStream constructor and its YAML form        *)
(* (to_yaml).  Python objects are records; a Python dict whose keys vary   *)
(* (the 'fields' map, a YAML object) is a function from key strings.       *)
(* A constructor returns Ok(value) or Fail(exception class): an exception  *)
(* is a value the caller propagates, as Python does.                       *)
(*                                                                         *)
(* Data is abstracted to what the properties tell apart: a packet is a     *)
(* record saying whether its MACs are the builder defaults, base64 is a    *)
(* tagged encoding, numbers are small integers (names and links too).      *)
(***************************************************************************)
EXTENDS Integers, Sequences, FiniteSets, Bitwise, TLC

CONSTANTS
    None,       \* Python None
    BadValue,   \* a value of the wrong Python type (e.g. a string for a rate)
    Packets     \* the raw packets builders are made from, [id, src, dst]

\* Ether()/IP(): the packet STLStream substitutes when none is given; both
\* MAC addresses are the builder defaults.
DefaultPacket == [id |-> 0, src |-> "def", dst |-> "def"]

\* Outcome of a constructor or loader: a value, or the exception it raises.
Ok(v)   == [ok |-> TRUE,  err |-> "none", val |-> v]
Fail(e) == [ok |-> FALSE, err |-> e,      val |-> None]

\* STLError and its subclasses (trex_stl_exceptions); any other class is a
\* raw Python exception escaping the library.
STLErrors == {"STLError", "STLArgumentError", "STLTypeError"}

\* isinstance(v, (int, float)) / isinstance(v, int) / isinstance(v, bool)
IsNum(v)  == v \in Int
IsBool(v) == v \in BOOLEAN

\* A Python dict with the given keys; the empty dict.
EmptyMap == [k \in {} |-> None]
Opt(cond, k, v) == IF cond THEN (k :> v) ELSE EmptyMap

\* Python truthiness of a name or link (None or an integer) and of a
\* section of a YAML object (None or a dict).
Truthy(v)    == v # None /\ v # 0
TruthyMap(d) == d # None /\ DOMAIN d # {}

(***************************************************************************)
(* TX modes.  'a' holds the rate keyword arguments pps, bps_L1, bps_L2,    *)
(* percentage (None when not passed) and the variant's own arguments.      *)
(***************************************************************************)
RateKeys == {"pps", "bps_L1", "bps_L2", "percentage"}

\* STLTXMode.__init__: pps = 1 when no rate is given, otherwise exactly one
\* (verify_exclusive_arg), type-checked, a percentage in (0, 100].
STLTXMode(a) ==
    LET given == {k \in RateKeys : a[k] # None}
        k     == IF given = {} THEN "pps" ELSE CHOOSE r \in given : TRUE
        v     == IF given = {} THEN 1 ELSE a[k]
    IN  CASE Cardinality(given) > 1                      -> Fail("STLError")
          [] ~IsNum(v)                                   -> Fail("STLTypeError")
          [] k = "percentage" /\ ~(v > 0 /\ v <= 100)    -> Fail("STLArgumentError")
          [] OTHER -> Ok([rate |-> [type |-> k, value |-> v]])

\* The mode object: its class and its 'fields' dict (to_json).
ModeObj(cls, fields) == [cls |-> cls, fields |-> fields]

STLTXCont(a) ==
    LET b == STLTXMode(a)
    IN  IF ~b.ok THEN b
        ELSE Ok(ModeObj("STLTXCont", b.val @@ [type |-> "continuous"]))

\* total_pkts is checked before the base class runs.
STLTXSingleBurst(a) ==
    LET b == STLTXMode(a)
    IN  CASE ~IsNum(a.total_pkts) -> Fail("STLArgumentError")
          [] ~b.ok                -> b
          [] OTHER -> Ok(ModeObj("STLTXSingleBurst",
                           b.val @@ [type |-> "single_burst",
                                     total_pkts |-> a.total_pkts]))

STLTXMultiBurst(a) ==
    LET b == STLTXMode(a)
    IN  CASE ~IsNum(a.pkts_per_burst) -> Fail("STLArgumentError")
          [] ~IsNum(a.ibg)            -> Fail("STLArgumentError")
          [] ~IsNum(a.count)          -> Fail("STLArgumentError")
          [] ~b.ok                    -> b
          [] OTHER -> Ok(ModeObj("STLTXMultiBurst",
                           b.val @@ [type |-> "multi_burst",
                                     pkts_per_burst |-> a.pkts_per_burst,
                                     ibg |-> a.ibg, count |-> a.count]))

\* Keyword arguments of a mode constructor call: nothing passed.
NoModeArgs == [pps |-> None, bps_L1 |-> None, bps_L2 |-> None,
               percentage |-> None, total_pkts |-> 1, pkts_per_burst |-> 1,
               ibg |-> 0, count |-> 1]

\* The default argument of STLStream: mode = STLTXCont(pps = 1).
DefaultMode == STLTXCont([NoModeArgs EXCEPT !.pps = 1]).val

(***************************************************************************)
(* RX stats                                                                *)
(***************************************************************************)
STLRxStats(user_id) == [enabled |-> TRUE, stream_id |-> user_id,
                        seq_enabled |-> FALSE, latency_enabled |-> FALSE]
RxStatsDefaults == [enabled |-> FALSE]

(***************************************************************************)
(* Packet builder (collaborator).  A builder is made from a raw packet and *)
(* an optional VM; dump_pkt() base64-encodes the packet, get_vm_data()     *)
(* returns the compiled VM.                                                *)
(***************************************************************************)
B64Encode(p) == [b64 |-> p]
\* base64 text that b64decode rejects (bad padding).
BadB64 == [b64 |-> BadValue]
B64Valid(x) == x.b64 \in Packets \cup {DefaultPacket}
B64Decode(x) == x.b64

\* The VM data a builder compiles: empty unless a VM object was given.
VmData(vm) == [instructions |-> IF vm = None THEN <<>> ELSE <<vm>>,
               split_by_var |-> ""]
Builder(p, vm) == [pkt |-> p, vm |-> vm]
DumpPkt(b)     == [binary |-> B64Encode(b.pkt), meta |-> ""]

(***************************************************************************)
(* STLStream.__init__.  'a' holds every keyword argument (StreamDefaults   *)
(* for those not passed).  A stream is its name, next, id, the 'fields'    *)
(* dict and the decoded packet (self.pkt).                                 *)
(***************************************************************************)
StreamDefaults ==
    [name |-> None, packet |-> None, mode |-> DefaultMode, enabled |-> TRUE,
     self_start |-> TRUE, isg |-> 0, rx_stats |-> None, next |-> None,
     stream_id |-> None, action_count |-> 0, random_seed |-> 0,
     mac_src_override_by_pkt |-> None, mac_dst_override_mode |-> None]

STLStreamDstMAC_PKT == 1

\* MAC override flags: inferred from the packet when the argument is None.
MacSrcOverride(a) ==
    IF a.mac_src_override_by_pkt = None
    THEN IF a.packet # None /\ a.packet.pkt.src # "def" THEN 1 ELSE 0
    ELSE a.mac_src_override_by_pkt
MacDstOverride(a) ==
    IF a.mac_dst_override_mode = None
    THEN IF a.packet # None /\ a.packet.pkt.dst # "def"
         THEN STLStreamDstMAC_PKT ELSE 0
    ELSE a.mac_dst_override_mode
Flags(a) == (MacSrcOverride(a) & 1) + (MacDstOverride(a) & 3) * 2

\* The builder the stream compiles: the default packet when none is given.
StreamBuilder(a) == IF a.packet = None THEN Builder(DefaultPacket, None)
                    ELSE a.packet

StreamFields(a) ==
    [flags |-> Flags(a), action_count |-> a.action_count,
     enabled |-> a.enabled, self_start |-> a.self_start, isg |-> a.isg,
     mode |-> a.mode.fields, packet |-> DumpPkt(StreamBuilder(a)),
     vm |-> VmData(StreamBuilder(a).vm),
     rx_stats |-> IF a.rx_stats = None THEN RxStatsDefaults ELSE a.rx_stats]
    @@ Opt(a.random_seed # 0, "random_seed", a.random_seed)

STLStream(a) ==
    CASE a.mode = None \/ a.mode = BadValue        -> Fail("STLTypeError")
      [] ~IsBool(a.enabled) \/ ~IsBool(a.self_start) -> Fail("STLTypeError")
      [] ~IsNum(a.isg)                             -> Fail("STLTypeError")
      [] a.stream_id # None /\ ~IsNum(a.stream_id) -> Fail("STLTypeError")
      [] ~IsNum(a.random_seed)                     -> Fail("STLTypeError")
      [] a.mode.cls = "STLTXCont" /\ a.next # None -> Fail("STLError")
      [] OTHER ->
           LET f == StreamFields(a)
           IN  Ok([name |-> a.name, next |-> a.next, id |-> a.stream_id,
                   fields |-> f, pkt |-> B64Decode(f.packet.binary)])

(***************************************************************************)
(* STLStream.to_yaml: name and next only when truthy, a copy of 'fields'   *)
(* whose mode carries its rate as a shortcut key instead of 'rate'.        *)
(***************************************************************************)
\* Fault model: the rate always written under the 'pps' key.
YamlModeAlwaysPps(m) ==
    [k \in (DOMAIN m \ {"rate"}) \cup {"pps"} |->
        IF k = "pps" THEN m.rate.value ELSE m[k]]

YamlMode(m) ==
    LET rt == m.rate.type
    IN  [k \in (DOMAIN m \ {"rate"}) \cup {rt} |->
            IF k = rt THEN m.rate.value ELSE m[k]]

ToYaml(s) ==
    Opt(Truthy(s.name), "name", s.name)
    @@ Opt(Truthy(s.next), "next", s.next)
    @@ ("stream" :> ([k \in DOMAIN s.fields |->
                        IF k = "mode" THEN YamlMode(s.fields.mode)
                        ELSE s.fields[k]]))

=============================================================================
