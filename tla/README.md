# TLA+ models of the TRex stateless profile compiler

This directory holds TLA+ models of the stream/profile part of the TRex
stateless library:

- `trex_stl_lib/trex_stl_streams.py`: the TX modes, `STLRxStats`, `STLStream`,
  `YAMLLoader` and `STLProfile`.
- `trex_stl_lib/utils/parsing_opts.py`: the rate/multiplier grammar and the
  console option parser.
- `regression/unit_tests/functional_tests/stl_basic_tests.py`: the golden
  capture check of the stateless regression test.

It also holds the TLC configurations that check these models.

## 1. The system

| Part | Code | State it changes | Operations |
|---|---|---|---|
| Rate grammar, port options | `decode_multiplier`, `match_multiplier(_strict)`; `PORT_LIST`/`ALL_PORTS`, `gen_parser`, `CCmdArgParser.parse_args` | none (pure); argparse namespace | decode a text; parse `-m text`; parse `-a` / `--port …` |
| TX modes, RX stats | `STLTXMode`, `STLTXCont`, `STLTXSingleBurst`, `STLTXMultiBurst`, `STLRxStats` | the object's `fields` | constructors (checks in code order), `to_json` |
| Stream descriptor | `STLStream.__init__`, `to_yaml`, `dump_to_yaml` | `fields`, `pkt`, a file | construct (type checks, continuous/next check, MAC flags, default packet); to_yaml; dump |
| YAML loader | `YAMLLoader.parse`, `__parse_stream/packet/mode/rx_stats` | none (reads files) | parse a document into streams; patch `vm` after construction |
| Regression test | `CStlBasic_Test.run_py_profile_path`, `compare_caps`, `test_stl_profiles` | the file `a.pcap` | clean, run the simulator, compare with `exp/<base>.pcap`, finally |
| Profile | `STLProfile.__init__`, `load`, `load_yaml`, `load_py`, `load_pcap`, `dump_to_yaml` | the caller's profile, **`sys.path`**, **`sys.modules`**, files | dispatch by suffix; run a Python unit; synthesise a capture chain; dump |

How the parts interact:

- `load` dispatches on the file suffix.
- `load_yaml` runs the YAML loader.
- The YAML loader calls the mode and RX parsers and then the `STLStream`
  constructor.
- `load_py` appends the file's directory to `sys.path`, imports and reloads the
  module, runs `register().get_streams()`, wraps every exception into
  `STLError`, and in `finally` removes the directory again.
- `load_pcap` builds one single-burst stream per captured packet, chained
  1→2→…→N→1.
- `dump_to_yaml` writes the `to_yaml` of every stream, which the YAML loader is
  meant to read back.

The library itself runs in one thread, but `load_py` works on process-wide
state (`sys.path`, `sys.modules`), and spec §5 says a concurrent host may run
loads of different generator units at the same time. What is hard lies in
sequences of operations and in those interleavings:

- dump then load;
- load, edit, load again;
- a load that leaves process-wide state (`sys.path`, `sys.modules`) behind for
  the next one;
- edge values: 0 as a name, backwards timestamps, `divide_count > 1`;
- two threads' loads between their `sys.path.append` and `sys.path.remove`.

## 2. Modules

| Module | Models | Kind |
|---|---|---|
| `STLStreams` | TX modes, RX stats, `STLStream.__init__`, `to_yaml` | operators (constructors return `Ok(v)` / `Fail(exception class)`) |
| `YAMLLoader` | `YAMLLoader` | operators over a document (what `yaml.load` returns) and the file system |
| `ProfileDocument` | the document format as spec §4.3/§6 states it | abstract predicate `DocumentOk` |
| `STLProfile` | `STLProfile` and the program state it acts on | state machine |
| `MultiplierSpec` | the grammar of spec §4.1 | reference `GrammarDecode` |
| `MultiplierGrammar` | `decode_multiplier`, `match_multiplier(_strict)`; the port options and `CCmdArgParser.parse_args` | state machine over calls, checked against `MultiplierSpec` |
| `PyLoadThreads` | `load_py` called from several threads, split at the points the interpreter may switch threads | state machine; refines `STLProfile` |
| `StlBasicTests` | `test_stl_profiles` / `run_py_profile_path` / `compare_caps` | state machine over the test's steps |
| `MCSTLProfile`, `MCStlBasicTests`, `MCPyData`, `MCPyProfile`, `MCPyLoadThreads`, `MCMultiplierGrammar` | model values and bounds for TLC (`MCPyData` holds the Python profiles shared by the two Python runs) | |

`STLProfile` is the composition. Each of its actions is one whole public
operation:

- `Load(p)`: `STLProfile.load`, with the branch taken by its suffix: `LoadPyStep`, `LoadYaml` or `LoadPcap`, or `STLError`.
- `LoadPcapCall(p, a)`: `load_pcap` with explicit arguments.
- `Construct(calls)`: a program builds streams and `STLProfile(streams)`.
- `DumpProfile(p)` and `DumpStream(i, p)`: the two `dump_to_yaml` methods.
- `EditYaml` and `EditPy`: the user saving a profile. This is the environment, not code.

The variables of `STLProfile` are:

- `files`: path ↦ contents. A YAML file is its `yaml.load` result, a capture is its records, and a Python file is a version and a body.
- `profile`: the streams the caller holds.
- `sysPath` and `sysModules`.
- `last`: the outcome of the last operation.
- `dumped`: an auxiliary variable recording which streams a dump wrote to a path.

How data is abstracted:

- A packet is `[id, src, dst]`, where each MAC is the builder default or not.
- Base64 is a tagged value. `BadB64` fails to decode.
- Names, links and numbers are small integers.
- Floats in the grammar are exact decimals `n·10^e/d`.
- A pcap reference in YAML is the path it resolves to.
- The import machinery is modelled as `FindModule`:
  - `__import__(name, …, -1)` tries the package directory first, then `sys.path`.
  - `reload` re-finds the module along the same path and re-executes the file.
  - So the module run is the first `<name>.py` along `<<PackageDir>> \o sysPath` (`IsModuleFile`: `udp.py.bak` is not module `udp`).

`PyLoadThreads` takes `load_py` apart into the steps between which another
thread may run:

| Action | Code (`trex_stl_streams.py`) |
|---|---|
| `Begin(t, p)` | `load` → `load_py`: the `isfile` check (`STLError`), then `sys.path.append(basedir)` (504–510) |
| `Import(t)` | `__import__(file, …, -1)`: the `sys.modules` entry, or the first `<name>.py` along the package directory and `sys.path`, or `ImportError` (513–514) |
| `ReloadRun(t)` | `reload(module)`, `register().get_streams()`, `STLProfile(streams)` and the `except` that wraps into `STLError` (515–526) |
| `Finally(t)` | `sys.path.remove(basedir)`, first occurrence (529–530) |
| `EditPy(p, b)` | the user saving a profile (environment) |

Its variables are the shared `files`, `sysPath` and `sysModules`, and per
thread `pc`, `unit` (the path it loads) and `saved` (its module's
`sys.modules` entry before `Import`). `profile` and `last` are history
variables: the outcome of the load that took effect last. The run of
`register().get_streams()` is taken together with the reload: it reads only
the module object of its own name, which no load of another name touches.

The refinement mapping to `STLProfile` (`Sequential` in the module) hides what
loads in progress have done: `AbsSysPath` drops the one entry each active
thread has appended, and `AbsModules` shows, for a thread about to reload, the
`sys.modules` entry it saw before importing. A load then takes effect at its
`ReloadRun` step, which must be a `Load` step of the sequential model, and
every other step is a stutter.

`StlBasicTests` has one action per step of `run_py_profile_path`: `Clean`
(unlink a stale `a.pcap`, 124–125), `RunSim(rc, out)` (the simulator is an
external process: it writes some capture, or none, and exits 0 or not;
`assert_equal(rc, True)`), `Compare` (`compare_caps` against the golden
capture, or `IOError` if `a.pcap` is missing) and `Finally` (unlink unless
`do_no_remove`; then `test_stl_profiles`' loop goes on or the exception ends
the test). `CompareCaps` translates `compare_caps` including its `zip` with
`xrange(1, len(pkts1))`; `CapsMatch` is the reference "packet for packet"
comparison. A capture is a sequence of `[ts, raw]` with whole-microsecond
timestamps and model-value bytes.

Collaborators outside `src/` are modelled from the spec and marked
`spec_modelled` in the map:

- `validate_type`
- `verify_exclusive_arg`
- the packet builder's `dump_pkt`
- `get_vm_data`
- the console client's `get_all_ports` and `_validate_port_list`

## 3. Runs

### Passing runs

Each passing run also has a fault model (a mutant) for every property. The
mutant must make TLC report that property violated. The mutants are in
`PROJECT.json`, and their operators are marked "Fault model" in the modules.

**`stl_core`** (`MCSTLProfile.cfg`, 98k states, about 1 min)
- Inputs:
  - 17 YAML documents: valid profiles with a chain link and a capture
    reference, and one for every malformation the format names, plus parser
    and scanner errors and an empty file.
  - Three captures: 3 records, 1 record and empty.
  - Programs constructing streams.
  - `load_pcap` argument sets: explicit `ipg_usec`, speedup 2 and loop counts 0, 1 and 3.
  - Dumps to `out.yaml`.
- Checks:
  - `RoundTripPreservesStreams`: the round trip keeps mode, rate, packet, VM, RX stats, enabled, self_start, isg, action_count and linkage for the streams this model builds.
  - `PcapChainReplaysCapture`: following `next` by name from the unique self-starting stream visits every stream once, in capture order, and closes the cycle, with `loop_count` on the closing stream.
  - `LoadRejectsMalformedDocuments`: the loader never accepts a document `ProfileDocument` rejects, and it produces one stream per entry.

**`py_loader`** (`MCPyProfile.cfg`, 45k states)
- Inputs:
  - `stl/udp.py` and `stl/hlt/udp.py`, which share a module name.
  - `stl/rx_stats.py` and `stl/hlt/hlt_udp_ports.py`, the repository's examples.
  - A two-suffix name and a missing file.
  - Edits to new versions between loads.
- Checks:
  - `LoadPyRunsRequestedFile`: a load whose module name no `sys.path` entry
    shadows runs the requested file. This includes a load of `stl/hlt/udp.py`
    after `stl/udp.py`, where `__import__` returns the cached module and only
    `reload` finds the requested file again. Shadowing along `sys.path` (line
    510) is outside the claim; `py_threads_shared_name` and `py_sys_path` show
    what it does.

**`py_threads`** (`MCPyLoadThreads.cfg`, 66k states, about 1 min)
- Inputs:
  - two threads loading `stl/rx_stats.py`, `stl/udp.py`,
    `stl/hlt/hlt_udp_ports.py` and the missing `stl/gone.py`; no module name
    is in two of these directories;
  - the user saving a new `stl/udp.py` (a body that loads, or one that
    raises) at any point of the loads.
- Checks:
  - `SequentialLoads`: the refinement. Every behaviour of the threads, seen
    through the mapping, is a behaviour of the sequential `STLProfile`.
  - `SysPathRestoredWhenIdle`: whenever no load is in progress, `sys.path` is
    what it was at start, however the appends and first-occurrence removals
    interleaved.

**`multiplier_grammar`** (`MCMultiplierGrammar.cfg`, 3.9k states)
- Inputs (965 in all):
  - every text of up to 2 lexemes;
  - all full forms `n(.f)?(unit)?(op)?`;
  - each full form with neighbours swapped or a lexeme doubled;
  - a non-string.
- Port inputs: commands whose parser has `--port`, `-a`, both, or the
  mutually exclusive group; `-a` or not; `--port` absent, empty, or one or two
  of the ports 0, 1 (the client's) and 2 (unknown).
- Checks:
  - `DecodeFollowsGrammar`: with `divide_count` 1, both `decode_multiplier`
    and the `-m` parser agree exactly with spec §4.1.
  - `ParsedPortsValid`: a command gets a non-empty list of ports the client
    validates: the list typed without `-a`, else all the client's ports; a
    parser with `--port` always yields a list. `ParsePorts` is one whole
    `parse_args` call: argparse's namespace or exit (`PortNamespace`), then
    the all-ports substitution and per-port check (`ParsePortArgs`).

### Violation runs

Each violation run checks one property. TLC finds each property violated, and
`findings` in `PROJECT.json` records each result.

| Run | Property | What the code does |
|---|---|---|
| `flags_roundtrip` | `RoundTripPreservesFlags` | flags are reset to 0 on reload (line 443) |
| `yaml_mac_flags` | `LoadedMacFlagsFollowDocument` | the dst override is read from the src key (line 444) |
| `yaml_no_mode` | `LoadAcceptsSpecDocuments` | an entry without `mode` is rejected (STLTypeError) |
| `yaml_errors` | `LoadErrorsAreSTLErrors` | ScannerError, KeyError, TypeError and AttributeError escape `load` |
| `py_sys_path` | `SysPathRestored` | `sys.path.remove` removes the first occurrence, so an existing entry moves to the end |
| `py_threads_shared_name` | `SequentialLoads` | with `stl/hlt/udp.py` present, a load of `stl/udp.py` that runs while a load of `stl/hlt/hlt_udp_ports.py` has `stl/hlt` on `sys.path` runs `stl/hlt/udp.py` (spec §5: loads of different units are safe) |
| `golden_compare` | `PassMeansGoldenMatch` | `compare_caps` zips with `xrange(1, len(pkts1))` and never compares the last packet: a capture differing from golden only there passes (stl_basic_tests.py:74) |
| `multiplier_divide` | `DecodeFollowsGrammar` | with `divide_count` 4, `"1%"` decodes to 0.25% (line 158 tests `op`) |

## 4. Bounds, fairness, what is not modelled

### Bounds

Each bound is a named constant or definition in an MC module.

- Two packets.
- Captures of 0, 1 and 3 records. This covers the empty, self-loop and general chain cases.
- `MaxVersion = 1` edit per Python file.
- Two threads, four units. Two threads are enough for every pairwise
  interleaving of an append, an import, a reload and a removal; the shared-name
  violation needs only two. The thread run's edits use two bodies, one that
  loads and one that raises, which reach both exits of `load_py`.
- `EditPaths` and `DumpPaths` name the files that are edited and dumped to.
- Regression test: two profiles (one packet and two packets), so both the
  single-packet case and the last of several are reached; a tolerance of 5 µs.
- A client with two ports and `--port` lists of up to two values among three
  ports: repeats, order and a bad port after a good one all occur.
- Grammar texts of up to 2 free lexemes, plus structured texts of up to 6.

Every round-trip failure shows up on a one- or two-stream profile, every chain
property on a 1-record and a 3-record capture, and every import resolution case
with two directories holding the same module name.

### Fairness

No run assumes fairness, and every property checked is a safety property
(`SequentialLoads` is a refinement of a specification without fairness). The
library is synchronous, and the threads of `py_threads` only matter through
the orders in which their steps interleave.

### Not modelled

- Formatting and messages: `__str__`, `get_rate` and the traceback text.
- `get_pkt_type`'s lazy cache.
- The console's other options (the rest of `OPTIONS_DB`, `check_negative`,
  `is_valid_file`) and `gen_parser`'s conflict resolution between options
  that share a flag (`COUNT` and `DRY_RUN` both use `-n`). No code under
  `src/` calls `gen_parser`, so which options a command combines is unknown,
  the spec says nothing of the console, and what remains is `argparse`'s
  behaviour, which is not in this repository.
- The HLT API behind `hlt_udp_ports.py` (`trex_stl_hltapi`, not in `src/`):
  its stream is modelled by what it builds, one continuous stream with a VM.
- `match_time_unit`: its unit class `[m|h]` also accepts `|`, read as hours.
  This is listed as a hazard with no run.
- A stream named or linked 0: `to_yaml` drops falsy `name`/`next`
  (line 306). This is listed as a hazard; no run constructs such a stream.
- Of the regression test: `setUp`/`tearDown` (path checks, `chdir`),
  `golden_run` (no test calls it) and the valgrind test (only `run_sim`). The
  simulator (`stl-sim`, outside `src/`) is an external step writing any of a
  small set of captures.
- A profile in the script directory `stl/` shadowing a same-named one in
  `stl/hlt/` during a sequential load: it has the same cause (line 510) as
  `py_threads_shared_name`, no two repository profiles share a name, and it
  has no run of its own.
- Two disagreements that are listed as hazards in `PROJECT.json` but have no
  run of their own:
  - `random_seed` is dumped and never read back.
  - A capture with backwards timestamps gives a negative `isg`. The spec's
    algorithm gives the same value, so this is a gap in the spec.
- A profile named like a standard-library module is shadowed by that module.
  This has the same cause as `py_threads_shared_name`.
- File modification times. Python 2 reuses a `.pyc` whose recorded mtime equals the source's, so an edit within the same second can run stale bytecode. The model re-executes the resolved file on every load.

## 5. Plan for later work

1. A refinement mapping for the capture loader: an abstract replay specification in which a stream cycle emits packets at timeline positions, and `load_pcap`'s chain shown to implement it with `INSTANCE … WITH`.
2. Speedup 0 and float timestamps in `load_pcap`, as a numeric-edge run.
3. `STLTXMode` checks of the data model's non-negative rates (spec §3), and Python's `bool`-is-`int` acceptance in `validate_type`.
4. Concurrent loads of the same unit, which spec §5 leaves to the host, to
   show what the host's serialization prevents.
