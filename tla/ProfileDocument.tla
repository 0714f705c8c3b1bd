--------------------------- MODULE ProfileDocument ---------------------------
(***************************************************************************)
(* What a YAML profile document must look like, as the specification      *)
(* states it (sections 3, 4.3, 6 and 7), independent of the loader code:  *)
(* the abstract statement of which documents YAMLLoader accepts.          *)
(***************************************************************************)
EXTENDS STLStreams

CONSTANT NoFile

LOCAL Has(d, k) == k \in DOMAIN d

\* packet: exactly one of inline base64 or a capture reference that exists
\* (and holds a packet to take).
PacketOk(pk, files) ==
    /\ pk # None /\ DOMAIN pk # {}
    /\ Cardinality(DOMAIN pk \cap {"binary", "pcap"}) = 1
    /\ Has(pk, "binary") => B64Valid(pk["binary"])
    /\ Has(pk, "pcap") => files[pk["pcap"]] # NoFile
                          /\ files[pk["pcap"]].records # <<>>

\* mode: optional; when given, a known type, exactly one numeric rate key, a
\* percentage in (0, 100], numeric variant fields.
ModeOk(m) ==
    \/ m = None
    \/ DOMAIN m = {}
    \/ /\ Has(m, "type")
       /\ m["type"] \in {"continuous", "single_burst", "multi_burst"}
       /\ Cardinality(DOMAIN m \cap RateKeys) = 1
       /\ \A k \in DOMAIN m \cap RateKeys :
             /\ IsNum(m[k])
             /\ k = "percentage" => m[k] > 0 /\ m[k] <= 100
       /\ \A k \in DOMAIN m \cap {"total_pkts", "pkts_per_burst", "ibg", "count"} :
             IsNum(m[k])

\* rx_stats: absent, disabled, or enabled with a correlation id.
RxOk(r) ==
    r = None \/ DOMAIN r = {} \/ (Has(r, "enabled") /\ r["enabled"] = FALSE)
    \/ (Has(r, "stream_id") /\ r["stream_id"] # None)

\* The mode an entry resolves to is continuous (the default when absent).
IsContinuous(m) ==
    m = None \/ DOMAIN m = {} \/ (Has(m, "type") /\ m["type"] = "continuous")

EntryOk(e, files) ==
    /\ Has(e, "stream") /\ e["stream"] # None
    /\ LET s == e["stream"]
           g(k) == IF Has(s, k) THEN s[k] ELSE None
       IN  /\ PacketOk(g("packet"), files)
           /\ ModeOk(g("mode"))
           /\ RxOk(g("rx_stats"))
           /\ g("enabled") # None => IsBool(g("enabled"))
           /\ g("self_start") # None => IsBool(g("self_start"))
           /\ g("isg") # None => IsNum(g("isg"))
           /\ IsContinuous(g("mode")) => (~Has(e, "next") \/ e["next"] = None)

\* A document the format accepts: well-formed syntax, a list of entries,
\* every entry acceptable.
DocumentOk(doc, files) ==
    /\ doc.syntax = "ok"
    /\ doc.objects # None
    /\ \A i \in DOMAIN doc.objects : EntryOk(doc.objects[i], files)

=============================================================================
