----------------------------- MODULE YAMLLoader -----------------------------
(***************************************************************************)
(* YAMLLoader of trex_stl_streams.py: a YAML profile document to a list of *)
(* STLStream.  A document is what yaml.load returns for the file: the list *)
(* of entry objects, or None for an empty file; 'syntax' says whether      *)
(* yaml.load raises instead (a ParserError or a ScannerError).             *)
(* A 'pcap' reference in a packet section is the path it resolves to       *)
(* (os.path.join with the document's directory); 'files' is the file      *)
(* system the loader reads it from.                                        *)
(***************************************************************************)
EXTENDS STLStreams

\* Contents of a path that does not exist.
CONSTANT NoFile

\* dict.get(k, default)
Get(d, k, default) == IF k \in DOMAIN d THEN d[k] ELSE default

\* YAMLLoader.__parse_packet: exactly one of 'binary' and 'pcap'.  A pcap
\* reference builds the packet from the first packet of that capture.
\* Fault model: 'binary' taken whenever present, no exactly-one check.
ParsePacketAnyKey(packet_dict, files) ==
    LET ref == packet_dict["pcap"]
    IN  CASE "binary" \in DOMAIN packet_dict /\ ~B64Valid(packet_dict["binary"])
                -> Fail("STLError")
          [] "binary" \in DOMAIN packet_dict
                -> Ok(Builder(B64Decode(packet_dict["binary"]), None))
          [] "pcap" \notin DOMAIN packet_dict -> Fail("STLError")
          [] files[ref] = NoFile -> Fail("STLError")
          [] files[ref].records = <<>> -> Fail("IndexError")
          [] OTHER -> Ok(Builder(files[ref].records[1].pkt, None))

ParsePacket(packet_dict, files) ==
    LET ptype == DOMAIN packet_dict \cap {"binary", "pcap"}
        ref   == packet_dict["pcap"]
    IN  CASE Cardinality(ptype) # 1 -> Fail("STLError")
          [] "binary" \in ptype /\ ~B64Valid(packet_dict["binary"])
                -> Fail("STLError")
          [] "binary" \in ptype
                -> Ok(Builder(B64Decode(packet_dict["binary"]), None))
          [] files[ref] = NoFile -> Fail("STLError")
          [] files[ref].records = <<>> -> Fail("IndexError")
          [] OTHER -> Ok(Builder(files[ref].records[1].pkt, None))

\* YAMLLoader.__parse_mode: None for a missing or empty section; otherwise
\* exactly one rate key, and the variant named by 'type', whose own fields
\* fall back to those of a default-constructed instance.
ParseMode(mode_obj) ==
    LET rate_keys == DOMAIN mode_obj \cap RateKeys
        rt        == CHOOSE r \in rate_keys : TRUE
        args      == [NoModeArgs EXCEPT ![rt] = mode_obj[rt],
                        !.total_pkts     = Get(mode_obj, "total_pkts", 1),
                        !.pkts_per_burst = Get(mode_obj, "pkts_per_burst", 1),
                        !.ibg            = Get(mode_obj, "ibg", 0),
                        !.count          = Get(mode_obj, "count", 1)]
        mode_type == Get(mode_obj, "type", None)
    IN  CASE ~TruthyMap(mode_obj)           -> Ok(None)
          [] Cardinality(rate_keys) # 1     -> Fail("STLError")
          [] mode_type = "continuous"       -> STLTXCont(args)
          [] mode_type = "single_burst"     -> STLTXSingleBurst(args)
          [] mode_type = "multi_burst"      -> STLTXMultiBurst(args)
          [] OTHER                          -> Fail("STLError")

\* YAMLLoader.__parse_rx_stats: None when missing, empty or enabled: False;
\* an enabled section must carry 'stream_id'.
ParseRxStats(rx_obj) ==
    CASE ~TruthyMap(rx_obj) \/ Get(rx_obj, "enabled", None) = FALSE -> Ok(None)
      [] Get(rx_obj, "stream_id", None) = None -> Fail("STLError")
      [] OTHER -> Ok(STLRxStats(rx_obj["stream_id"]))

\* The keyword arguments __parse_stream passes to STLStream.  Both MAC
\* override arguments are read from the 'mac_src_override_by_pkt' key.
StreamArgsOf(obj, s, builder, mode, rx) ==
    [StreamDefaults EXCEPT
        !.name = Get(obj, "name", None),
        !.packet = builder, !.mode = mode, !.rx_stats = rx,
        !.enabled = Get(s, "enabled", StreamDefaults.enabled),
        !.self_start = Get(s, "self_start", StreamDefaults.self_start),
        !.isg = Get(s, "isg", StreamDefaults.isg),
        !.next = Get(obj, "next", None),
        !.action_count = Get(s, "action_count", StreamDefaults.action_count),
        !.mac_src_override_by_pkt = Get(s, "mac_src_override_by_pkt", 0),
        !.mac_dst_override_mode = Get(s, "mac_src_override_by_pkt", 0)]

\* The raw 'vm' map merged into the built stream (dict.update).
PatchVm(stream, s) ==
    IF "vm" \in DOMAIN s
    THEN [stream EXCEPT !.fields.vm = s["vm"] @@ @]
    ELSE stream

\* YAMLLoader.__parse_stream.  obj['stream'] raises KeyError when missing;
\* a 'stream' key with no value is None and s.get raises AttributeError.
ParseStream(obj, files) ==
    LET s       == obj["stream"]
        packet  == Get(s, "packet", None)
        builder == ParsePacket(packet, files)
        mode    == ParseMode(Get(s, "mode", None))
        rx      == ParseRxStats(Get(s, "rx_stats", None))
        stream  == STLStream(StreamArgsOf(obj, s, builder.val, mode.val, rx.val))
    IN  CASE "stream" \notin DOMAIN obj -> Fail("KeyError")
          [] s = None                   -> Fail("AttributeError")
          [] ~TruthyMap(packet)         -> Fail("STLError")
          [] ~builder.ok                -> builder
          [] ~mode.ok                   -> mode
          [] ~rx.ok                     -> rx
          [] ~stream.ok                 -> stream
          [] OTHER -> Ok(PatchVm(stream.val, s))

\* YAMLLoader.parse: a ParserError becomes an STLError, other yaml errors
\* propagate; the entries are parsed in order and the first failure is
\* raised.
Parse(doc, files) ==
    LET objs    == doc.objects
        results == [i \in 1..Len(objs) |-> ParseStream(objs[i], files)]
        failed  == {i \in DOMAIN results : ~results[i].ok}
        first   == CHOOSE i \in failed : \A j \in failed : i <= j
    IN  CASE doc.syntax = "parser_error"  -> Fail("STLError")
          [] doc.syntax = "scanner_error" -> Fail("ScannerError")
          [] objs = None                  -> Fail("TypeError")
          [] failed # {}                  -> results[first]
          [] OTHER -> Ok([i \in DOMAIN results |-> results[i].val])

=============================================================================
