----------------------------- MODULE ProbeReports -----------------------------
(***************************************************************************)
(* The one report a native helper prints, and which of them                *)
(* parse_probe_output (crates/stack-runtime/src/protocol.rs) takes for the *)
(* probe and the mode that were asked for.  What a helper finds out is     *)
(* RuntimeInspection's; here are the ways its report can be off besides: a *)
(* library that prints to stdout, a helper of another release, a list that *)
(* contradicts the outcome.                                                *)
(***************************************************************************)
EXTENDS Naturals, Sequences, FiniteSets

\* Bound: entries of a list of devices (64 in the code).
MaxObservations == 2

\* A device is its rank among "npu0", "CPU", "NPU", "NPU.1" or among the PCI identities
\* "FFFF", "7d1d", "b03e", "fd3e": the first is malformed (is_device_name,
\* is_lower_hex_quad), the last two names are an NPU's (is_npu_name).
Malformed == 1
NPUs == {3, 4}

\* Lists of such devices.
Lists == [sound |-> <<2, 3>>, npu |-> <<3>>, cpu |-> <<2>>, none |-> <<>>, malformed |-> <<Malformed>>,
          unsorted |-> <<3, 2>>, repeated |-> <<3, 3>>, excessive |-> <<2, 3, 4>>]
BadLists == {"none", "malformed", "unsorted", "repeated", "excessive"}

\* The error codes of each probe, and those of inference alone (validate_error_code).
ProbeErrors == [
    levelZero |-> {"LEVEL_ZERO_PERMISSION_DENIED", "LEVEL_ZERO_DEPENDENCY_UNAVAILABLE",
                   "LEVEL_ZERO_NO_VPU", "LEVEL_ZERO_ENUMERATION_FAILED",
                   "LEVEL_ZERO_INTERNAL_FAILURE"},
    openvino |-> {"OPENVINO_NO_NPU", "OPENVINO_ENUMERATION_FAILED", "OPENVINO_INTERNAL_FAILURE"}]
InferErrors == {"OPENVINO_COMPILE_FAILED", "OPENVINO_WRONG_DEVICE", "OPENVINO_INFERENCE_FAILED",
                "OPENVINO_OUTPUT_INVALID"}
ErrorFits(probe, mode, error) ==
    \/ error \in ProbeErrors[probe]
    \/ probe = "openvino" /\ mode = "infer" /\ error \in InferErrors

-----------------------------------------------------------------------------
(* Reports. *)

\* Which observations a report carries.
Observations(probe, mode, outcome) ==
    IF outcome = "fail" THEN "empty" ELSE IF probe = "levelZero" THEN probe ELSE mode

\* The fields of those observations, in each of their kinds.
Carries == [empty |-> {}, levelZero |-> {"vpu_devices"},
            enumerate |-> {"available_devices", "runtime_version"},
            infer |-> {"available_devices", "execution_devices", "runtime_version", "constants"}]

\* The report of a helper that is as it should be.
SoundReport(probe, mode, outcome, error) ==
    [text |-> "json", schema_version |-> "one", probe |-> probe, mode |-> mode,
     outcome |-> outcome, error_code |-> error,
     observations |-> Observations(probe, mode, outcome),
     vpu_devices |-> "sound", available_devices |-> "sound", execution_devices |-> "npu",
     runtime_version |-> "plain", constants |-> "ours"]

\* What each field can hold instead; the constants are the graph, the number of
\* iterations and the tolerance.
Values == [
    text |-> {"empty", "oversized", "byte_order_mark", "binary", "trailing", "repeated_key",
              "other_keys"},
    schema_version |-> {"two"},
    probe |-> {"levelZero", "openvino"},
    mode |-> {"enumerate", "infer"},
    outcome |-> {"pass", "fail"},
    error_code |-> {"none"} \cup InferErrors \cup UNION {ProbeErrors[p] : p \in DOMAIN ProbeErrors},
    observations |-> DOMAIN Carries,
    vpu_devices |-> BadLists,
    available_devices |-> BadLists \cup {"cpu"},
    execution_devices |-> BadLists \cup {"cpu", "sound"},
    runtime_version |-> {"odd"},
    constants |-> {"other"}]

Deviations == UNION {{<<f, v>> : v \in Values[f]} : f \in DOMAIN Values}
NoDeviation == <<>>

\* A report with one field off.
ReportWith(r, off) == IF off = NoDeviation THEN r ELSE [r EXCEPT ![off[1]] = off[2]]

\* Whether that makes it another report; one error of a failure is as good as another.
IsOff(r, off) ==
    /\ r[off[1]] # off[2]
    /\ off[1] \in {"vpu_devices", "available_devices", "execution_devices", "runtime_version",
                   "constants"} => off[1] \in Carries[r.observations]
    /\ off[1] = "error_code" => ~ErrorFits(r.probe, r.mode, off[2])

-----------------------------------------------------------------------------
(* parse_probe_output. *)

\* Some bytes of UTF-8, one JSON object with no key twice and no key of its own, and
\* nothing after it.
StrictObject(r) == r.text = "json"

\* validate_device_list, validate_level_zero: at least one device and not too many,
\* well formed, sorted and unique; executing devices are all NPUs.
ValidList(list, npuOnly) ==
    /\ Len(list) \in 1 .. MaxObservations
    /\ \A i \in DOMAIN list : list[i] # Malformed /\ (npuOnly => list[i] \in NPUs)
    /\ \A i \in 1 .. Len(list) - 1 : list[i] < list[i + 1]

ValidLevelZero(r) == ValidList(Lists[r.vpu_devices], FALSE)

ValidEnumerate(r) ==
    LET available == Lists[r.available_devices]
    IN /\ ValidList(available, FALSE)
       /\ \E i \in DOMAIN available : available[i] \in NPUs
       /\ r.runtime_version = "plain"

\* Mutant: an inference on whatever device.
ValidInferAnywhere(r) ==
    /\ ValidEnumerate(r)
    /\ ValidList(Lists[r.execution_devices], FALSE)
    /\ r.constants = "ours"

\* validate_openvino_infer.
ValidInfer(r) ==
    /\ ValidEnumerate(r)
    /\ ValidList(Lists[r.execution_devices], TRUE)
    /\ r.constants = "ours"

\* parse_success_observations: of the kind that was asked for, and complete.
ValidObservations(r) ==
    /\ r.observations = Observations(r.probe, r.mode, "pass")
    /\ CASE r.observations = "levelZero" -> ValidLevelZero(r)
         [] r.observations = "enumerate" -> ValidEnumerate(r)
         [] r.observations = "infer" -> ValidInfer(r)

\* A failure observes nothing and has an error of its probe and mode, a pass has none.
ValidOutcome(r) ==
    IF r.outcome = "fail"
    THEN r.observations = "empty" /\ ErrorFits(r.probe, r.mode, r.error_code)
    ELSE r.error_code = "none" /\ ValidObservations(r)

Parses(r, probe, mode) ==
    /\ StrictObject(r)
    /\ r.schema_version = "one"
    /\ r.probe = probe /\ r.mode = mode
    /\ ~(probe = "levelZero" /\ mode = "infer")
    /\ ValidOutcome(r)
=============================================================================
