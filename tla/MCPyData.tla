------------------------------ MODULE MCPyData ------------------------------
(***************************************************************************)
(* Python profiles for the load_py models: profiles in the stl directory  *)
(* and its hlt subdirectory (stl/udp.py and stl/hlt/udp.py share a module *)
(* name), a standard-library directory on sys.path, a file name with two  *)
(* suffixes, a missing file, and the bodies a user may save.             *)
(***************************************************************************)
EXTENDS YAMLLoader

PktA == [id |-> 1, src |-> "def", dst |-> "def"]
PktB == [id |-> 2, src |-> "other", dst |-> "def"]
MCPackets == {PktA, PktB}

MCPaths == {"stl/rx_stats.py", "stl/udp.py", "stl/hlt/udp.py", "stl/udp.py.bak",
            "stl/gone.py", "stl/random.py", "lib/random.py",
            "stl/hlt/hlt_udp_ports.py"}
MCPathDir == [p \in MCPaths |->
                CASE p \in {"stl/hlt/udp.py", "stl/hlt/hlt_udp_ports.py"} -> "stl/hlt"
                  [] p = "lib/random.py"  -> "lib"
                  [] OTHER                -> "stl"]
MCPathExts == [p \in MCPaths |-> IF p = "stl/udp.py.bak" THEN <<"py", "bak">>
                                 ELSE <<"py">>]
MCPathModule == [p \in MCPaths |->
                   CASE p = "stl/rx_stats.py"             -> "rx_stats"
                     [] p = "stl/gone.py"                 -> "gone"
                     [] p = "stl/hlt/hlt_udp_ports.py"    -> "hlt_udp_ports"
                     [] p \in {"stl/random.py", "lib/random.py"} -> "random"
                     [] OTHER                             -> "udp"]

(* Profile bodies: what register().get_streams() does.                   *)
Body(kind, calls) == [kind |-> kind, calls |-> calls]
PyFile(b) == [kind |-> "py", ver |-> 0, body |-> b]
Cont10 == STLTXCont([NoModeArgs EXCEPT !.pps = 10]).val
Burst3 == STLTXSingleBurst([NoModeArgs EXCEPT !.bps_L2 = 8, !.total_pkts = 3]).val
\* stl/rx_stats.py: one continuous stream at 10 pps with RX stats id 7.
RxStatsBody == Body("ok", <<[StreamDefaults EXCEPT !.packet = Builder(PktA, None),
                               !.mode = Cont10, !.rx_stats = STLRxStats(7)]>>)
UdpBody == Body("ok", <<[StreamDefaults EXCEPT !.name = 1, !.next = 2, !.mode = Burst3],
                        [StreamDefaults EXCEPT !.name = 2, !.packet = Builder(PktB, None),
                                               !.self_start = FALSE]>>)
\* stl/hlt/hlt_udp_ports.py: one STLHltStream, continuous at 1000 pps, with
\* the VM that steps the UDP source and destination ports.
Cont1000 == STLTXCont([NoModeArgs EXCEPT !.pps = 1000]).val
HltUdpPortsBody == Body("ok", <<[StreamDefaults EXCEPT !.packet = Builder(PktA, "udp_ports"),
                                   !.mode = Cont1000]>>)
HltBody == Body("ok", <<[StreamDefaults EXCEPT !.isg = 5, !.mode = Burst3]>>)
\* The standard library module of the same name: no register().
StdlibBody == Body("no_register", <<>>)

\* Versions a user saves over a profile.
MCUserBodies == { Body("ok", <<[StreamDefaults EXCEPT !.random_seed = 3]>>),
                  Body("raises", <<>>), Body("not_streams", <<>>) }

MCInitFiles ==
    [p \in MCPaths |->
        CASE p = "stl/rx_stats.py"  -> PyFile(RxStatsBody)
          [] p = "stl/udp.py"       -> PyFile(UdpBody)
          [] p = "stl/hlt/udp.py"   -> PyFile(HltBody)
          [] p = "stl/hlt/hlt_udp_ports.py" -> PyFile(HltUdpPortsBody)
          [] p = "stl/udp.py.bak"   -> PyFile(UdpBody)
          [] p = "lib/random.py"    -> PyFile(StdlibBody)
          [] OTHER                  -> NoFile]

MCInitSysPath == <<"lib">>
\* The interpreter's script directory is the profile directory.
MCInitSysPathScriptDir == <<"stl", "lib">>
MCInitModules == [n \in {"rx_stats", "udp", "gone", "random", "hlt_udp_ports"} |-> None]

\* The same profiles without stl/hlt/udp.py: no module name is in two of
\* the directories the threads' loads append.
MCInitFilesDistinctNames == [MCInitFiles EXCEPT !["stl/hlt/udp.py"] = NoFile]
\* Units loaded from threads: three profiles of different names in two
\* directories, and a missing file.
\* The edits made during the threads' loads: a new body that loads and one
\* that raises.
MCThreadBodies == { Body("ok", <<[StreamDefaults EXCEPT !.random_seed = 3]>>),
                    Body("raises", <<>>) }
MCThreadUnits == {"stl/rx_stats.py", "stl/udp.py", "stl/hlt/hlt_udp_ports.py", "stl/gone.py"}

=============================================================================
