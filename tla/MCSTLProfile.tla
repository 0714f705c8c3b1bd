---------------------------- MODULE MCSTLProfile ----------------------------
(***************************************************************************)
(* Model-checking instance of STLProfile: a profile directory with a      *)
(* hand-written YAML profile, a dump target, three captures (several,     *)
(* one and no packets), programs constructing streams, and the captures   *)
(* loaded with default and explicit load_pcap arguments.                  *)
(***************************************************************************)
EXTENDS STLProfile

\* Two raw packets: default MACs, and both MACs set in the packet.
PktA == [id |-> 1, src |-> "def", dst |-> "def"]
PktB == [id |-> 2, src |-> "other", dst |-> "other"]
MCPackets == {PktA, PktB}

MCPaths == {"user.yaml", "out.yaml", "trace.pcap", "one.pcap", "empty.cap"}
MCPathDir == [p \in MCPaths |-> "stl"]
MCPathExts == [p \in MCPaths |->
                 CASE p \in {"user.yaml", "out.yaml"} -> <<"yaml">>
                   [] p \in {"trace.pcap", "one.pcap"} -> <<"pcap">>
                   [] OTHER                            -> <<"cap">>]
MCPathModule == [p \in MCPaths |-> "profile"]

(* Captures.  Timestamps are even so that speedup 2 divides them exactly. *)
Rec(pkt, sec, usec) == [pkt |-> pkt, sec |-> sec, usec |-> usec]
PcapFile(recs) == [kind |-> "pcap", records |-> recs]
Trace == PcapFile(<<Rec(PktA, 0, 100), Rec(PktB, 1, 0), Rec(PktA, 1, 50)>>)

(* YAML documents.  Each is a list of entry objects as yaml.load returns.  *)
Bin(p) == [binary |-> B64Encode(p)]
Cont10 == [type |-> "continuous", pps |-> 10]
Entry(s) == [stream |-> s]
DocOf(es) == YamlFile("ok", es)

EntryOk     == [name |-> 1, stream |-> [packet |-> Bin(PktB), mode |-> Cont10,
                  rx_stats |-> [enabled |-> TRUE, stream_id |-> 3],
                  vm |-> [split_by_var |-> "ip_src"]]]
EntryBurst  == [name |-> 2, next |-> 1, stream |-> [packet |-> [pcap |-> "trace.pcap"],
                  mode |-> [type |-> "single_burst", percentage |-> 100, total_pkts |-> 5],
                  rx_stats |-> [enabled |-> FALSE, stream_id |-> 9],
                  self_start |-> FALSE, isg |-> 4]]
EntryMulti  == Entry([packet |-> Bin(PktA),
                  mode |-> [type |-> "multi_burst", bps_L2 |-> 10, count |-> 3]])
EntryNoMode == Entry([packet |-> Bin(PktA)])
EntryMacs   == Entry([packet |-> Bin(PktA), mode |-> Cont10,
                  mac_src_override_by_pkt |-> 1, mac_dst_override_mode |-> 2])
EntryBoth   == Entry([packet |-> [binary |-> B64Encode(PktA), pcap |-> "one.pcap"], mode |-> Cont10])
EntryBadB64 == Entry([packet |-> [binary |-> BadB64], mode |-> Cont10])
EntryNoCap  == Entry([packet |-> [pcap |-> "empty.cap"], mode |-> Cont10])
EntryRxNoId == Entry([packet |-> Bin(PktA), mode |-> Cont10, rx_stats |-> [enabled |-> TRUE]])
EntryContNext == [next |-> 2, stream |-> [packet |-> Bin(PktA), mode |-> Cont10]]
EntryPct150 == Entry([packet |-> Bin(PktA), mode |-> [type |-> "continuous", percentage |-> 150]])
EntryTwoRates == Entry([packet |-> Bin(PktA), mode |-> [type |-> "continuous", pps |-> 1, bps_L1 |-> 5]])
EntryBadType == Entry([packet |-> Bin(PktA), mode |-> [type |-> "burst", pps |-> 1]])
EntryBadRate == Entry([packet |-> Bin(PktA), mode |-> [type |-> "continuous", pps |-> BadValue]])
EntryNoStream == [name |-> 3]

\* Documents whose every entry the format accepts or rejects for one reason.
MCUserDocs ==
    { DocOf(<<EntryOk, EntryBurst>>), DocOf(<<EntryMulti>>), DocOf(<<EntryNoMode>>),
      DocOf(<<EntryMacs>>), DocOf(<<EntryBoth>>), DocOf(<<EntryBadB64>>),
      DocOf(<<EntryNoCap>>), DocOf(<<EntryRxNoId>>), DocOf(<<EntryContNext>>),
      DocOf(<<EntryPct150>>), DocOf(<<EntryTwoRates>>), DocOf(<<EntryBadType>>),
      DocOf(<<EntryBadRate>>), DocOf(<<EntryOk, EntryNoStream>>),
      YamlFile("parser_error", <<>>), YamlFile("scanner_error", <<>>),
      YamlFile("ok", None) }

\* The valid documents: a two-entry profile (with a chain link and a
\* capture reference) and a multi-burst one.
MCRoundTripDocs == { DocOf(<<EntryOk, EntryBurst>>), DocOf(<<EntryMulti>>) }

MCInitFiles ==
    [p \in MCPaths |->
        CASE p = "user.yaml"  -> DocOf(<<EntryOk, EntryBurst>>)
          [] p = "trace.pcap" -> Trace
          [] p = "one.pcap"   -> PcapFile(<<Rec(PktB, 2, 0)>>)
          [] p = "empty.cap"  -> PcapFile(<<>>)
          [] OTHER            -> NoFile]

(* Programs that construct streams directly (as a Python profile does).  *)
SB50 == STLTXSingleBurst([NoModeArgs EXCEPT !.percentage = 50, !.total_pkts = 4]).val
MB10 == STLTXMultiBurst([NoModeArgs EXCEPT !.bps_L1 = 10, !.count = 2]).val
Call1 == [StreamDefaults EXCEPT !.name = 1, !.next = 2, !.mode = SB50,
            !.packet = Builder(PktB, None), !.isg = 6]
Call2 == [StreamDefaults EXCEPT !.name = 2, !.mode = MB10,
            !.rx_stats = STLRxStats(7), !.self_start = FALSE]
CallSeedMac == [StreamDefaults EXCEPT !.random_seed = 5, !.mac_dst_override_mode = 2]
CallContNext == [StreamDefaults EXCEPT !.next = 1]

MCConstructArgs == { <<Call1, Call2>>, <<CallSeedMac>>, <<CallContNext>>, <<>> }

MCPcapArgs ==
    { [ipg_usec |-> None, speedup |-> 1, loop_count |-> 0, vm |-> None],
      [ipg_usec |-> None, speedup |-> 2, loop_count |-> 3, vm |-> "vm1"],
      [ipg_usec |-> 10,   speedup |-> 2, loop_count |-> 1, vm |-> None] }

ASSUME \A a \in MCPcapArgs, p \in MCPaths :
         a.speedup > 0 /\ MCInitFiles[p] # NoFile /\ MCInitFiles[p].kind = "pcap" =>
            /\ (a.ipg_usec # None => a.ipg_usec % a.speedup = 0)
            /\ \A i \in DOMAIN MCInitFiles[p].records :
                  LET r == MCInitFiles[p].records[i]
                  IN  (r.sec * USEC_PER_SEC + r.usec) % a.speedup = 0

MCInitSysPath == <<"lib">>
MCInitModules == [n \in {"profile"} |-> None]

=============================================================================
