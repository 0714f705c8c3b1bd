---------------------------- MODULE PyLoadThreads ----------------------------
(***************************************************************************)
(* STLProfile.load of Python profiles called from several threads of one  *)
(* interpreter (spec section 5: "multiple simultaneous loads of different *)
(* generator units are safe").  Each thread runs load -> load_py in the   *)
(* steps the interpreter may switch between:                               *)
(*                                                                         *)
(*   Begin      suffix dispatch, the isfile check, sys.path.append(dir)   *)
(*   Import     __import__(name, ..., -1), under the import lock           *)
(*   ReloadRun  reload(module), then register().get_streams() and         *)
(*              STLProfile(streams), wrapping any exception               *)
(*   Finally    sys.path.remove(dir) and the return (or raise)            *)
(*                                                                         *)
(* sys.path, sys.modules and the files are shared.  A run of              *)
(* register().get_streams() only reads the module object of its own name, *)
(* which no load of another name touches, so taking it together with the  *)
(* reload does not hide an interleaving of loads of different names.     *)
(*                                                                         *)
(* The sequential STLProfile is the abstract specification: a load takes  *)
(* effect when its reload reads the file, and the refinement mapping       *)
(* hides the directories and module entries of loads still in progress.   *)
(***************************************************************************)
EXTENDS YAMLLoader, SequencesExt

CONSTANTS
    Paths, PathDir, PathExts, PathModule, PackageDir,
    InitFiles, InitSysPath, InitModules,
    UserDocs, UserBodies, ConstructArgs, PcapArgs, DumpPaths, EditPaths,
    MaxVersion,
    Threads,        \* the threads calling STLProfile.load
    Units           \* the Python profile paths they load

VARIABLES
    files,       \* path -> contents, as in STLProfile
    sysPath,     \* sys.path, shared
    sysModules,  \* sys.modules, shared
    pc,          \* thread -> the step it takes next ("idle" between loads)
    unit,        \* thread -> the path it loads
    saved,       \* thread -> its module's sys.modules entry before Import
    profile,     \* history: the profile of the load that took effect last
    last         \* history: the outcome of the operation that took effect last

vars == <<files, sysPath, sysModules, pc, unit, saved, profile, last>>

\* The sequential model's operators over the same files.  Its variables
\* are given by the refinement mapping below.
Active == {t \in Threads : pc[t] # "idle"}
AbsSysPath == SubSeq(sysPath, 1, Len(sysPath) - Cardinality(Active))
AbsModules == [n \in DOMAIN sysModules |->
                 IF \E t \in Threads : pc[t] = "reload" /\ PathModule[unit[t]] = n
                 THEN saved[CHOOSE t \in Threads : pc[t] = "reload" /\ PathModule[unit[t]] = n]
                 ELSE sysModules[n]]
\* Its operators over this module's own variables.
Py == INSTANCE STLProfile WITH dumped <- [p \in Paths |-> None]
Sequential == INSTANCE STLProfile WITH sysPath <- AbsSysPath, sysModules <- AbsModules,
                                       dumped <- [p \in Paths |-> None]

\* Fault model: the entry records the module name in place of its file.
ModuleOfName(f) == [path |-> PathModule[f], ver |-> files[f].ver, body |-> files[f].body]

\* The sys.modules entry of a module executed from file f.
ModuleOf(f) == [path |-> f, ver |-> files[f].ver, body |-> files[f].body]

\* The outcome record of a load of p that ran file f with result r.
LoadRecord(p, f, r) == [op |-> "load", path |-> p, ok |-> r.ok,
                        err |-> Py!WrapError(r).err, src |-> f, pcap |-> None]

\* STLProfile.load(p) -> load_py(p): a missing file raises STLError before
\* sys.path is touched; otherwise the file's directory is appended.  The
\* host never runs two loads of the same path at once (spec section 5).
Begin(t, p) ==
    /\ pc[t] = "idle"
    /\ \A u \in Active : unit[u] # p
    /\ unit' = [unit EXCEPT ![t] = p]
    /\ IF files[p] = NoFile
       THEN /\ last' = LoadRecord(p, None, Fail("STLError"))
            /\ UNCHANGED <<sysPath, pc>>
       ELSE /\ sysPath' = Append(sysPath, PathDir[p])
            /\ pc' = [pc EXCEPT ![t] = "import"]
            /\ UNCHANGED last
    /\ UNCHANGED <<files, sysModules, saved, profile>>

\* __import__(name): a module in sys.modules is returned as it is;
\* otherwise the first <name>.py along the package directory and sys.path
\* is executed and entered, or ImportError is raised into the 'except'.
Import(t) ==
    LET name  == PathModule[unit[t]]
        found == Py!FindModule(name, sysPath)
    IN  /\ pc[t] = "import"
        /\ saved' = [saved EXCEPT ![t] = sysModules[name]]
        /\ IF sysModules[name] # None
           THEN /\ pc' = [pc EXCEPT ![t] = "reload"]
                /\ UNCHANGED <<sysModules, profile, last>>
           ELSE IF found = None
           THEN /\ pc' = [pc EXCEPT ![t] = "finally"]
                /\ last' = LoadRecord(unit[t], None, Fail("ImportError"))
                /\ UNCHANGED <<sysModules, profile>>
           ELSE /\ sysModules' = [sysModules EXCEPT ![name] = ModuleOf(found)]
                /\ pc' = [pc EXCEPT ![t] = "reload"]
                /\ UNCHANGED <<profile, last>>
        /\ UNCHANGED <<files, sysPath, unit>>

\* Fault models of the reload step:
\*  - no reload(): the module __import__ returned is run as it is;
\*  - sys.path.remove inside 'try' after the return value is built, so a
\*    failed load returns without removing the directory.
ReloadRunNoReload(t) ==
    LET name == PathModule[unit[t]]
        mod  == sysModules[name]
        r    == Py!RunBody(mod.body)
    IN  /\ pc[t] = "reload"
        /\ pc' = [pc EXCEPT ![t] = "finally"]
        /\ profile' = IF r.ok THEN r.val ELSE profile
        /\ last' = LoadRecord(unit[t], mod.path, r)
        /\ UNCHANGED <<files, sysPath, sysModules, unit, saved>>

ReloadRunRemoveOnSuccess(t) ==
    LET name  == PathModule[unit[t]]
        found == Py!FindModule(name, sysPath)
        r     == IF found = None THEN Fail("ImportError")
                 ELSE Py!RunBody(files[found].body)
    IN  /\ pc[t] = "reload"
        /\ sysModules' = IF found = None THEN sysModules
                         ELSE [sysModules EXCEPT ![name] = ModuleOf(found)]
        /\ pc' = [pc EXCEPT ![t] = IF r.ok THEN "finally" ELSE "idle"]
        /\ profile' = IF r.ok THEN r.val ELSE profile
        /\ last' = LoadRecord(unit[t], found, r)
        /\ UNCHANGED <<files, sysPath, unit, saved>>

\* reload(module) finds the module again along sys.path as it is now and
\* re-executes that file; register().get_streams() runs what it defined.
\* This is where the load takes effect.
ReloadRun(t) ==
    LET name  == PathModule[unit[t]]
        found == Py!FindModule(name, sysPath)
        r     == IF found = None THEN Fail("ImportError")
                 ELSE Py!RunBody(files[found].body)
    IN  /\ pc[t] = "reload"
        /\ sysModules' = IF found = None THEN sysModules
                         ELSE [sysModules EXCEPT ![name] = ModuleOf(found)]
        /\ pc' = [pc EXCEPT ![t] = "finally"]
        /\ profile' = IF r.ok THEN r.val ELSE profile
        /\ last' = LoadRecord(unit[t], found, r)
        /\ UNCHANGED <<files, sysPath, unit, saved>>

\* finally: sys.path.remove(basedir) removes the first occurrence.
Finally(t) ==
    /\ pc[t] = "finally"
    /\ sysPath' = RemoveFirst(sysPath, PathDir[unit[t]])
    /\ pc' = [pc EXCEPT ![t] = "idle"]
    /\ UNCHANGED <<files, sysModules, unit, saved, profile, last>>

\* The user saves a new version of a profile, possibly during a load.
EditPy(p, b) ==
    /\ Py!IsKind(p, "py")
    /\ files[p].ver < MaxVersion
    /\ files' = [files EXCEPT ![p] = [kind |-> "py", ver |-> @.ver + 1, body |-> b]]
    /\ last' = Py!EditRecord(p)
    /\ UNCHANGED <<sysPath, sysModules, pc, unit, saved, profile>>

Init ==
    /\ files = InitFiles
    /\ sysPath = InitSysPath
    /\ sysModules = InitModules
    /\ pc = [t \in Threads |-> "idle"]
    /\ unit = [t \in Threads |-> None]
    /\ saved = [t \in Threads |-> None]
    /\ profile = None
    /\ last = [op |-> "none", path |-> None, ok |-> TRUE, err |-> "none",
               src |-> None, pcap |-> None]

\* One step of thread t's load.
Step(t) == Import(t) \/ ReloadRun(t) \/ Finally(t)

Next ==
    \/ \E t \in Threads, p \in Units : Begin(t, p)
    \/ \E t \in Threads : Step(t)
    \/ \E p \in EditPaths, b \in UserBodies : EditPy(p, b)

Spec == Init /\ [][Next]_vars

(***************************************************************************)
(* Properties                                                              *)
(***************************************************************************)
TypeOK ==
    /\ pc \in [Threads -> {"idle", "import", "reload", "finally"}]
    /\ unit \in [Threads -> Units \cup {None}]
    /\ sysPath \in Seq(STRING)
    /\ DOMAIN sysModules = DOMAIN InitModules
    /\ \A n \in DOMAIN sysModules : sysModules[n] = None \/ sysModules[n].path \in Paths

(* Simultaneous loads of different units behave as the same loads made   *)
(* one after another (spec section 5): every behaviour of the threads,    *)
(* seen through the mapping that hides the sys.path entries and the       *)
(* sys.modules entries of loads still in progress, is a behaviour of the  *)
(* sequential STLProfile, each load taking effect at its reload.          *)
SequentialLoads == Sequential!Spec

(* Once no load is in progress, sys.path is what it was at start, however *)
(* the threads' appends and first-occurrence removals interleaved.        *)
SysPathRestoredWhenIdle == Active = {} => sysPath = InitSysPath

=============================================================================
