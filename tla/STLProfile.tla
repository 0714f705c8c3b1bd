----------------------------- MODULE STLProfile -----------------------------
(***************************************************************************)
(* STLProfile of trex_stl_streams.py and the program state its static     *)
(* loaders act on: the file system, the profile the caller holds, and the *)
(* interpreter's sys.path and sys.modules, which load_py mutates.         *)
(*                                                                         *)
(* One action per public operation: STLProfile.load (dispatch on the file *)
(* suffix), load_pcap with explicit arguments, STLProfile(streams) from   *)
(* constructed streams, STLProfile.dump_to_yaml, STLStream.dump_to_yaml,  *)
(* and the user editing a YAML or Python profile file.                    *)
(***************************************************************************)
EXTENDS YAMLLoader, SequencesExt

CONSTANTS
    Paths,          \* file paths
    PathDir,        \* PathDir[p]: os.path.dirname(p)
    PathExts,       \* PathExts[p]: basename(p).split('.') after the first part
    PathModule,     \* PathModule[p]: basename(p).split('.')[0]
    PackageDir,     \* directory of the trex_stl_lib package
    InitFiles,      \* contents of every path at start
    InitSysPath,    \* sys.path at start
    InitModules,    \* sys.modules at start: module name -> [path, ver, body] or None
    UserDocs,       \* YAML documents a user may write into a file
    UserBodies,     \* Python profile bodies a user may write into a file
    ConstructArgs,  \* argument lists of STLStream calls a program makes
    PcapArgs,       \* [ipg_usec, speedup, loop_count, vm] of load_pcap calls
    DumpPaths,      \* paths a caller dumps profiles to
    EditPaths,      \* paths of the profiles the user edits
    MaxVersion      \* bound on the edits of one Python file

VARIABLES
    files,       \* path -> contents (NoFile when absent)
    profile,     \* the STLProfile the caller holds (its streams), or None
    sysPath,     \* sys.path
    sysModules,  \* sys.modules: name -> [path, ver, body] of the executed file
    last,        \* outcome of the last operation
    dumped       \* auxiliary: path -> the streams whose dump it holds, or None

vars == <<files, profile, sysPath, sysModules, last, dumped>>

\* File contents.  A YAML file is its yaml.load result; a capture is its
\* (packet, sec, usec) records in file order; a Python file is the version
\* and the body register().get_streams() runs.
YamlFile(syntax, objects) == [kind |-> "yaml", syntax |-> syntax, objects |-> objects]
IsKind(p, k) == files[p] # NoFile /\ files[p].kind = k

USEC_PER_SEC == 1000000

(***************************************************************************)
(* STLProfile.__init__ over a list: every element must be an STLStream.   *)
(***************************************************************************)
\* Build every stream of a list of constructor calls; the first failing
\* call raises.
BuildStreams(calls) ==
    LET rs     == [i \in 1..Len(calls) |-> STLStream(calls[i])]
        failed == {i \in DOMAIN rs : ~rs[i].ok}
    IN  IF failed = {} THEN Ok([i \in DOMAIN rs |-> rs[i].val])
        ELSE rs[Min(failed)]

(***************************************************************************)
(* STLProfile.load_pcap: one single-burst stream per captured packet,     *)
(* chained 1 -> 2 -> ... -> N -> 1; the last stream carries loop_count.   *)
(***************************************************************************)
PcapMode == STLTXSingleBurst([NoModeArgs EXCEPT !.total_pkts = 1,
                                                !.percentage = 100]).val

\* The timeline position of record i in usec.
PcapTs(recs, i, a) ==
    IF a.ipg_usec = None
    THEN (recs[i].sec * USEC_PER_SEC + recs[i].usec) \div a.speedup
    ELSE (a.ipg_usec * i) \div a.speedup

\* Fault model: the last stream not linked back to the first.
PcapStreamArgsNoLoop(recs, i, a) ==
    [StreamDefaults EXCEPT
        !.name = i, !.packet = Builder(recs[i].pkt, a.vm), !.mode = PcapMode,
        !.self_start = (i = 1), !.isg = PcapTs(recs, i, a) - (IF i = 1 THEN 0 ELSE PcapTs(recs, i - 1, a)),
        !.action_count = IF i = Len(recs) THEN a.loop_count ELSE 0,
        !.next = i + 1]
PcapStreamArgs(recs, i, a) ==
    LET N == Len(recs)
    IN  [StreamDefaults EXCEPT
            !.name = i,
            !.packet = Builder(recs[i].pkt, a.vm),
            !.mode = PcapMode,
            !.self_start = (i = 1),
            !.isg = PcapTs(recs, i, a) - (IF i = 1 THEN 0 ELSE PcapTs(recs, i - 1, a)),
            !.action_count = IF i = N THEN a.loop_count ELSE 0,
            !.next = IF i = N THEN 1 ELSE i + 1]

LoadPcap(p, a) ==
    LET recs == files[p].records
    IN  CASE files[p] = NoFile                 -> Fail("STLError")
          [] a.speedup = 0 /\ recs # <<>>      -> Fail("ZeroDivisionError")
          [] OTHER -> BuildStreams([i \in 1..Len(recs) |-> PcapStreamArgs(recs, i, a)])

\* STLProfile.load_yaml
\* Fault model: no isfile check; open() raises IOError.
LoadYamlUnchecked(p) ==
    IF files[p] = NoFile THEN Fail("IOError") ELSE Parse(files[p], files)

LoadYaml(p) ==
    IF files[p] = NoFile THEN Fail("STLError") ELSE Parse(files[p], files)

(***************************************************************************)
(* STLProfile.load_py.  sys.path gets the file's directory appended; the  *)
(* module is imported by name (sys.modules first) and reloaded, both      *)
(* finding the first file of that name along the package directory       *)
(* (implicit relative import) and sys.path; register().get_streams()      *)
(* runs the found file's current body; any exception becomes one         *)
(* STLError; 'finally' removes the first occurrence of the directory.     *)
(***************************************************************************)
\* Fault model: any file whose base name before the first dot is the name.
IsModuleFileAnyExt(p, name) == PathModule[p] = name /\ IsKind(p, "py")

\* The Python file a module name resolves to along a search path, or None:
\* the file <name>.py in the first directory that holds one.
IsModuleFile(p, name) == PathModule[p] = name /\ PathExts[p] = <<"py">> /\ IsKind(p, "py")
FindModule(name, path) ==
    LET dirs   == <<PackageDir>> \o path
        hits   == {i \in 1..Len(dirs) :
                     \E p \in Paths : PathDir[p] = dirs[i] /\ IsModuleFile(p, name)}
        d      == dirs[Min(hits)]
    IN  IF hits = {} THEN None
        ELSE CHOOSE p \in Paths : PathDir[p] = d /\ IsModuleFile(p, name)

\* module.register().get_streams() of a body, then STLProfile(streams),
\* which rejects a list holding anything but STLStream objects.
RunBody(body) ==
    CASE body.kind = "no_register" -> Fail("AttributeError")
      [] body.kind = "raises"      -> Fail("Exception")
      [] body.kind = "not_streams" -> Fail("STLArgumentError")
      [] OTHER                     -> BuildStreams(body.calls)

\* Every exception inside the try block is re-raised as an STLError.
\* Fault model: the exception re-raised as it is.
WrapErrorKeep(r) == r

WrapError(r) == IF r.ok THEN r ELSE Fail("STLError")

\* Fault model: no reload, so a module already in sys.modules (from
\* whichever file) runs again as it was first imported.
LoadPyStepNoReload(p) ==
    LET name   == PathModule[p]
        path1  == Append(sysPath, PathDir[p])
        cached == sysModules[name] # None
        found  == IF cached THEN sysModules[name].path ELSE FindModule(name, path1)
        mod    == IF cached THEN sysModules[name]
                  ELSE [path |-> found, ver |-> files[found].ver, body |-> files[found].body]
        res    == IF found = None THEN Fail("ImportError") ELSE RunBody(mod.body)
    IN  /\ IF files[p] = NoFile
           THEN /\ last' = [op |-> "load", path |-> p, ok |-> FALSE,
                            err |-> "STLError", src |-> None, pcap |-> None]
                /\ UNCHANGED <<profile, sysPath, sysModules>>
           ELSE /\ sysModules' = IF found = None THEN sysModules
                                 ELSE [sysModules EXCEPT ![name] = mod]
                /\ sysPath' = RemoveFirst(path1, PathDir[p])
                /\ profile' = IF res.ok THEN res.val ELSE profile
                /\ last' = [op |-> "load", path |-> p, ok |-> res.ok,
                            err |-> WrapError(res).err, src |-> found, pcap |-> None]
        /\ UNCHANGED <<files, dumped>>

LoadPyStep(p) ==
    LET name  == PathModule[p]
        path1 == Append(sysPath, PathDir[p])
        found == FindModule(name, path1)
        res   == IF found = None THEN Fail("ImportError")
                 ELSE RunBody(files[found].body)
    IN  /\ IF files[p] = NoFile
           THEN /\ last' = [op |-> "load", path |-> p, ok |-> FALSE,
                            err |-> "STLError", src |-> None, pcap |-> None]
                /\ UNCHANGED <<profile, sysPath, sysModules>>
           ELSE /\ sysModules' = IF found = None THEN sysModules
                                 ELSE [sysModules EXCEPT ![name] =
                                         [path |-> found, ver |-> files[found].ver,
                                          body |-> files[found].body]]
                /\ sysPath' = RemoveFirst(path1, PathDir[p])
                /\ profile' = IF res.ok THEN res.val ELSE profile
                /\ last' = [op |-> "load", path |-> p, ok |-> res.ok,
                            err |-> WrapError(res).err, src |-> found, pcap |-> None]
        /\ UNCHANGED <<files, dumped>>

(***************************************************************************)
(* Actions                                                                 *)
(***************************************************************************)
\* A loader or constructor that does not touch sys.path or sys.modules.
Finish(op, p, r, pcapArgs) ==
    /\ profile' = IF r.ok THEN r.val ELSE profile
    /\ last' = [op |-> op, path |-> p, ok |-> r.ok, err |-> r.err,
                src |-> None, pcap |-> pcapArgs]
    /\ UNCHANGED <<files, sysPath, sysModules, dumped>>

\* The arguments STLProfile.load passes to load_pcap.
LoadDefaultPcapArgs == [ipg_usec |-> USEC_PER_SEC, speedup |-> 1,
                        loop_count |-> 1, vm |-> None]

\* STLProfile.load: the suffix is the second part of a two-part basename.
Load(p) ==
    LET suffix == IF Len(PathExts[p]) = 1 THEN PathExts[p][1] ELSE None
    IN  CASE suffix = "py"   -> LoadPyStep(p)
          [] suffix = "yaml" -> Finish("load", p, LoadYaml(p), None)
          [] suffix \in {"cap", "pcap"}
                -> Finish("load", p, LoadPcap(p, LoadDefaultPcapArgs), LoadDefaultPcapArgs)
          [] OTHER -> Finish("load", p, Fail("STLError"), None)

\* STLProfile.load_pcap called with explicit arguments.
LoadPcapCall(p, a) == Finish("load_pcap", p, LoadPcap(p, a), a)

\* A program builds streams and wraps them in an STLProfile.
Construct(calls) == Finish("construct", None, BuildStreams(calls), None)

\* STLProfile.dump_to_yaml(p): every stream's to_yaml, written to p.
DumpProfile(p) ==
    /\ profile # None
    /\ files' = [files EXCEPT ![p] = YamlFile("ok", [i \in DOMAIN profile |-> ToYaml(profile[i])])]
    /\ dumped' = [dumped EXCEPT ![p] = profile]
    /\ last' = [op |-> "dump", path |-> p, ok |-> TRUE, err |-> "none",
                src |-> None, pcap |-> None]
    /\ UNCHANGED <<profile, sysPath, sysModules>>

\* STLStream.dump_to_yaml(p) of the i-th stream: a one-element list.
DumpStream(i, p) ==
    /\ profile # None
    /\ i \in DOMAIN profile
    /\ files' = [files EXCEPT ![p] = YamlFile("ok", <<ToYaml(profile[i])>>)]
    /\ dumped' = [dumped EXCEPT ![p] = <<profile[i]>>]
    /\ last' = [op |-> "dump", path |-> p, ok |-> TRUE, err |-> "none",
                src |-> None, pcap |-> None]
    /\ UNCHANGED <<profile, sysPath, sysModules>>

\* A file edit is recorded as the last operation.
EditRecord(p) == [op |-> "edit", path |-> p, ok |-> TRUE, err |-> "none",
                  src |-> None, pcap |-> None]

\* The user writes a YAML profile by hand.
EditYaml(p, d) ==
    /\ IsKind(p, "yaml")
    /\ files' = [files EXCEPT ![p] = d]
    /\ dumped' = [dumped EXCEPT ![p] = None]
    /\ last' = EditRecord(p)
    /\ UNCHANGED <<profile, sysPath, sysModules>>

\* The user edits a Python profile (a new version of the file).
EditPy(p, b) ==
    /\ IsKind(p, "py")
    /\ files[p].ver < MaxVersion
    /\ files' = [files EXCEPT ![p] = [kind |-> "py", ver |-> @.ver + 1, body |-> b]]
    /\ last' = EditRecord(p)
    /\ UNCHANGED <<profile, sysPath, sysModules, dumped>>

Init ==
    /\ files = InitFiles
    /\ profile = None
    /\ sysPath = InitSysPath
    /\ sysModules = InitModules
    /\ last = [op |-> "none", path |-> None, ok |-> TRUE, err |-> "none",
               src |-> None, pcap |-> None]
    /\ dumped = [p \in Paths |-> None]

Next ==
    \/ \E p \in Paths : Load(p)
    \/ \E p \in Paths, a \in PcapArgs : IsKind(p, "pcap") /\ LoadPcapCall(p, a)
    \/ \E c \in ConstructArgs : Construct(c)
    \/ \E p \in DumpPaths : DumpProfile(p)
    \/ \E p \in DumpPaths, i \in 1..2 : DumpStream(i, p)
    \/ \E p \in EditPaths, d \in UserDocs : EditYaml(p, d)
    \/ \E p \in EditPaths, b \in UserBodies : EditPy(p, b)

Spec == Init /\ [][Next]_vars

(***************************************************************************)
(* Properties                                                              *)
(***************************************************************************)
Doc == INSTANCE ProfileDocument

ErrorKinds == STLErrors \cup {"none", "KeyError", "AttributeError", "TypeError",
                              "ScannerError", "IndexError", "ZeroDivisionError"}

IsStream(s) ==
    /\ DOMAIN s = {"name", "next", "id", "fields", "pkt"}
    /\ {"flags", "action_count", "enabled", "self_start", "isg", "mode",
        "packet", "vm", "rx_stats"} \subseteq DOMAIN s.fields

TypeOK ==
    /\ DOMAIN files = Paths
    /\ profile = None \/ (DOMAIN profile = 1..Len(profile)
                          /\ \A i \in DOMAIN profile : IsStream(profile[i]))
    /\ sysPath \in Seq(STRING)
    /\ DOMAIN sysModules = DOMAIN InitModules
    /\ last.op \in {"none", "load", "load_pcap", "construct", "dump", "edit"}
    /\ last.ok \in BOOLEAN /\ last.err \in ErrorKinds
    /\ DOMAIN dumped = Paths

\* The YAML file the last operation loaded, if it was a successful load_yaml.
LoadedYaml == last.op = "load" /\ last.ok /\ last.path # None
              /\ IsKind(last.path, "yaml")

\* The fields the YAML form carries for the loader to read back.
RoundTripKeys == {"mode", "packet", "vm", "rx_stats", "enabled", "self_start",
                  "isg", "action_count"}

\* The streams read back agree with the streams dumped on 'keys'.
SameStreams(a, b, keys) ==
    /\ Len(a) = Len(b)
    /\ \A i \in DOMAIN a :
         /\ a[i].pkt = b[i].pkt
         /\ \A k \in keys : a[i].fields[k] = b[i].fields[k]

(* Dump then load (spec section 8): loading a file that dump_to_yaml       *)
(* wrote (a whole profile or one stream, from any earlier load or         *)
(* construction) succeeds and yields the same streams: mode and rate,      *)
(* packet bytes and VM, RX stats, enabled, self_start, isg, action_count, *)
(* and the chain linkage (name, next).                                     *)
RoundTripPreservesStreams ==
    (last.op = "load" /\ last.path # None /\ dumped[last.path] # None) =>
        /\ last.ok
        /\ SameStreams(profile, dumped[last.path], RoundTripKeys)
        /\ \A i \in DOMAIN profile :
             /\ profile[i].name = dumped[last.path][i].name
             /\ profile[i].next = dumped[last.path][i].next

(* Dump then load keeps the MAC override flags (spec section 8 lists      *)
(* flags among what a round trip reproduces).                             *)
RoundTripPreservesFlags ==
    (last.op = "load" /\ last.path # None /\ dumped[last.path] # None /\ last.ok) =>
        SameStreams(profile, dumped[last.path], {"flags"})

(* A document the format accepts is never rejected by the loader (spec    *)
(* 4.3 / 6: 'mode' is optional and falls back to the descriptor default). *)
LoadAcceptsSpecDocuments ==
    (last.op = "load" /\ last.path # None /\ IsKind(last.path, "yaml")
       /\ Doc!DocumentOk(files[last.path], files)) => last.ok

(* The loader never accepts a document the format rejects: a missing or  *)
(* ambiguous packet, bad base64, a missing capture, a malformed mode,     *)
(* enabled RX stats without an id, continuous with a next, mistyped       *)
(* fields; and each loaded stream comes from one entry, in order.         *)
LoadRejectsMalformedDocuments ==
    LoadedYaml =>
        /\ Doc!DocumentOk(files[last.path], files)
        /\ Len(profile) = Len(files[last.path].objects)

(* The MAC override keys of a YAML entry decide the loaded stream's flags:*)
(* bit 0 from mac_src_override_by_pkt, bits 1-2 from                      *)
(* mac_dst_override_mode (0 when a key is absent).                        *)
LoadedMacFlagsFollowDocument ==
    LoadedYaml =>
        \A i \in DOMAIN profile :
            LET s   == files[last.path].objects[i]["stream"]
                src == Get(s, "mac_src_override_by_pkt", 0)
                dst == Get(s, "mac_dst_override_mode", 0)
            IN  profile[i].fields.flags = (src & 1) + (dst & 3) * 2

(* Every failure of STLProfile.load or load_pcap is reported as an        *)
(* STLError (spec section 7), never as a raw Python exception.            *)
LoadErrorsAreSTLErrors ==
    (last.op \in {"load", "load_pcap"} /\ ~last.ok) => last.err \in STLErrors

\* The last operation successfully loaded a capture; its records.
LoadedCapture == last.op \in {"load", "load_pcap"} /\ last.ok /\ last.pcap # None
CaptureRecords == files[last.path].records

(* A loaded capture replays in capture order (spec 4.5): exactly one      *)
(* stream starts by itself; following 'next' (by name) from it visits    *)
(* every stream once, carrying the captured packets in file order, and   *)
(* returns to it; the loop count sits on the stream closing the cycle     *)
(* and every other stream runs once (action_count 0).                     *)
PcapChainReplaysCapture ==
    LoadedCapture =>
      LET N      == Len(profile)
          named(n) == {j \in DOMAIN profile : profile[j].name = n}
          starts == {j \in DOMAIN profile : profile[j].fields.self_start}
          succ(i) == CHOOSE j \in named(profile[i].next) : TRUE
          start  == CHOOSE j \in starts : TRUE
          walk[k \in 0..N] == IF k = 0 THEN start ELSE succ(walk[k - 1])
      IN  /\ N = Len(CaptureRecords)
          /\ N > 0 =>
               /\ Cardinality(starts) = 1
               /\ \A i \in DOMAIN profile : Cardinality(named(profile[i].next)) = 1
               /\ {walk[k] : k \in 0..N-1} = DOMAIN profile
               /\ \A k \in 0..N-1 : profile[walk[k]].pkt = CaptureRecords[k + 1].pkt
               /\ walk[N] = start
               /\ profile[walk[N - 1]].fields.action_count = last.pcap.loop_count
               /\ \A k \in 0..N-2 : profile[walk[k]].fields.action_count = 0

\* The last operation was STLProfile.load of an existing Python file.
LoadedPy == last.op = "load" /\ last.path # None /\ IsKind(last.path, "py")
            /\ PathExts[last.path] = <<"py">>

\* A directory on sys.path (other than the one load_py appends, which is
\* last) holds another file with the module name of the loaded file.
Shadowed == \E f \in Paths :
    /\ f # last.path
    /\ IsModuleFile(f, PathModule[last.path])
    /\ PathDir[f] \in {sysPath[i] : i \in DOMAIN sysPath} \ {PathDir[last.path]}

(* load_py runs the file it was given even when sys.modules already      *)
(* holds a module of that name imported from another directory, e.g.     *)
(* stl/hlt/udp.py after stl/udp.py: __import__ returns the cached module *)
(* and reload must find it again, along sys.path with the file's         *)
(* directory appended, so the module that runs is the requested file.    *)
(* The claim is for loads no sys.path entry shadows: resolution along    *)
(* sys.path takes the first directory holding the name (line 510), and   *)
(* that case is the violation run py_threads_shared_name.                *)
LoadPyRunsRequestedFile == (LoadedPy /\ ~Shadowed) => last.src = last.path

(* load_py scopes its sys.path change to the call (spec 4.4, 5): append   *)
(* the directory, and 'finally' remove it, so no step changes sys.path.  *)
SysPathRestored == [][sysPath' = sysPath]_vars

=============================================================================
