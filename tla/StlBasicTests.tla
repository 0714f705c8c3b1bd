--------------------------- MODULE StlBasicTests ---------------------------
(***************************************************************************)
(* The golden-capture check of the stateless regression test              *)
(* (unit_tests/functional_tests/stl_basic_tests.py).                       *)
(*                                                                         *)
(* test_stl_profiles runs run_py_profile_path on each profile of its list *)
(* in turn, and the first one that raises ends the test.  Each run         *)
(* removes a stale a.pcap, runs the simulator (an external process that   *)
(* writes a.pcap and returns an exit code), asserts the exit code,        *)
(* compares a.pcap with the golden capture exp/<base>.pcap packet by      *)
(* packet, and in 'finally' removes a.pcap unless asked to keep it.       *)
(*                                                                         *)
(* A capture is a sequence of packets [ts, raw].  Timestamps are whole    *)
(* microseconds; the raw bytes are model values.                           *)
(***************************************************************************)
EXTENDS Integers, Sequences, FiniteSetsExt

CONSTANTS
    None,
    Tests,        \* the profile list: a sequence of [profile, compare, keep]
    Golden,       \* profile -> its golden capture
    SimOutputs,   \* profile -> the captures the simulator may write for it
    TsTolerance   \* compare_caps' timestamp tolerance, in microseconds

VARIABLES
    aPcap,     \* the file a.pcap in the scripts directory, or None
    idx,       \* the index in Tests of the profile being run
    step,      \* the step of run_py_profile_path taken next
    outcome,   \* "running", "pass", or the exception that ended the test
    ran        \* history: the capture each profile's compare read

vars == <<aPcap, idx, step, outcome, ran>>

Abs(x) == IF x < 0 THEN -x ELSE x

Profile == Tests[idx].profile

(***************************************************************************)
(* compare_caps(cap1, cap2): assert_equal on the packet counts, then a    *)
(* loop over zip(pkts1, pkts2, xrange(1, len(pkts1))), which stops at the *)
(* shortest of the three: len(pkts1) - 1 pairs.  A pair fails on a        *)
(* timestamp difference above the tolerance or on different bytes; every *)
(* failure is an AssertionError.                                          *)
(***************************************************************************)
CompareCaps(cap1, cap2) ==
    LET pairs     == Min({Len(cap1), Len(cap2), Max({Len(cap1) - 1, 0})})
        differ(k) == \/ Abs(cap1[k].ts - cap2[k].ts) > TsTolerance
                     \/ cap1[k].raw # cap2[k].raw
    IN  IF Len(cap1) # Len(cap2) THEN "AssertionError"
        ELSE IF \E k \in 1..pairs : differ(k) THEN "AssertionError"
        ELSE "ok"

\* Two captures agree packet for packet, within the timestamp tolerance.
CapsMatch(cap1, cap2) ==
    /\ Len(cap1) = Len(cap2)
    /\ \A k \in 1..Len(cap1) : /\ Abs(cap1[k].ts - cap2[k].ts) <= TsTolerance
                               /\ cap1[k].raw = cap2[k].raw

\* if os.path.exists(output_cap): os.unlink(output_cap)
Clean ==
    /\ step = "clean"
    /\ aPcap' = None
    /\ step' = "sim"
    /\ UNCHANGED <<idx, outcome, ran>>

\* run_sim: the simulator writes a.pcap, or not, and exits with 0 or not;
\* assert_equal(rc, True) raises on a non-zero exit.
RunSim(rc, out) ==
    /\ step = "sim"
    /\ aPcap' = out
    /\ step' = IF rc = 0 THEN "compare" ELSE "finally"
    /\ outcome' = IF rc = 0 THEN outcome ELSE "AssertionError"
    /\ UNCHANGED <<idx, ran>>

\* if compare: compare_caps(output_cap, golden_file); opening a missing
\* a.pcap raises IOError.
Compare ==
    /\ step = "compare"
    /\ step' = "finally"
    /\ IF ~Tests[idx].compare
       THEN UNCHANGED <<outcome, ran>>
       ELSE IF aPcap = None
       THEN /\ outcome' = "IOError"
            /\ UNCHANGED ran
       ELSE /\ ran' = [ran EXCEPT ![idx] = aPcap]
            /\ outcome' = IF CompareCaps(aPcap, Golden[Profile]) = "ok"
                          THEN outcome ELSE "AssertionError"
    /\ UNCHANGED <<aPcap, idx>>

\* finally: os.unlink(output_cap) unless do_no_remove (an OSError when the
\* file is missing); then test_stl_profiles goes on to the next profile,
\* or the exception ends the test.
Finally ==
    /\ step = "finally"
    /\ LET removeFails == ~Tests[idx].keep /\ aPcap = None
           failed      == outcome # "running" \/ removeFails
       IN  /\ aPcap' = IF Tests[idx].keep THEN aPcap ELSE None
           /\ outcome' = CASE removeFails             -> "OSError"
                           [] failed                  -> outcome
                           [] idx = Len(Tests)        -> "pass"
                           [] OTHER                   -> outcome
           /\ idx' = IF failed \/ idx = Len(Tests) THEN idx ELSE idx + 1
           /\ step' = IF failed \/ idx = Len(Tests) THEN "done" ELSE "clean"
    /\ UNCHANGED ran

Init ==
    /\ aPcap \in {None} \cup UNION {SimOutputs[p] : p \in DOMAIN SimOutputs}
    /\ idx = 1
    /\ step = "clean"
    /\ outcome = "running"
    /\ ran = [k \in DOMAIN Tests |-> None]

Next ==
    \/ Clean
    \/ \E rc \in {0, 1}, out \in SimOutputs[Profile] \cup {None} : RunSim(rc, out)
    \/ Compare
    \/ Finally

Spec == Init /\ [][Next]_vars

(***************************************************************************)
(* Properties                                                              *)
(***************************************************************************)
(* test_stl_profiles passes only if the simulator's capture of every      *)
(* profile it compares agrees with the golden capture packet for packet:  *)
(* compare_caps is the only check of the output.                          *)
PassMeansGoldenMatch ==
    outcome = "pass" =>
        \A k \in DOMAIN Tests :
            Tests[k].compare => CapsMatch(ran[k], Golden[Tests[k].profile])

=============================================================================
