-------------------------- MODULE MCStlBasicTests --------------------------
(***************************************************************************)
(* Model-checking instance of StlBasicTests: two profiles of the list, a  *)
(* one-packet and a two-packet capture, and simulator outputs that agree  *)
(* with the golden capture or differ from it in one packet or in length.  *)
(***************************************************************************)
EXTENDS StlBasicTests

CONSTANTS RawA, RawB

Pkt(ts, raw) == [ts |-> ts, raw |-> raw]

\* exp/udp_1pkt.pcap and exp/imix.pcap, reduced to one and two packets.
MCGolden == [p \in {"udp_1pkt", "imix"} |->
               IF p = "udp_1pkt" THEN <<Pkt(0, RawA)>>
               ELSE <<Pkt(0, RawA), Pkt(10, RawB)>>]

\* The golden capture, one with a timestamp 3 usec off (within the 5 usec
\* tolerance), one 7 usec off, one with other bytes in a packet, and one
\* with a packet missing.
MCSimOutputs == [p \in {"udp_1pkt", "imix"} |->
                   IF p = "udp_1pkt"
                   THEN { <<Pkt(0, RawA)>>, <<Pkt(7, RawA)>>, <<Pkt(0, RawB)>>, <<>> }
                   ELSE { <<Pkt(0, RawA), Pkt(10, RawB)>>, <<Pkt(3, RawA), Pkt(10, RawB)>>,
                          <<Pkt(7, RawA), Pkt(10, RawB)>>, <<Pkt(0, RawA), Pkt(10, RawA)>>,
                          <<Pkt(0, RawA)>> }]

\* Two entries of test_stl_profiles' list: compare, keep a.pcap.
MCTests == << [profile |-> "udp_1pkt", compare |-> TRUE, keep |-> TRUE],
              [profile |-> "imix",     compare |-> TRUE, keep |-> TRUE] >>

=============================================================================
