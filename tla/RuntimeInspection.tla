-------------------------- MODULE RuntimeInspection --------------------------
(***************************************************************************)
(* One diagnostic session: status and doctor of intel-npu-stack            *)
(* (stack-cli, stack-core, stack-runtime) and the preflight and probe      *)
(* modes of xtask's candidate collection, which reuse the same inspector.  *)
(*                                                                         *)
(* A session selects a profile, asks rpm about each package once, hashes   *)
(* and asks the owner of each file once, looks at the device, runs the two *)
(* native helpers and sums its checks up.  Nothing keeps the system still  *)
(* meanwhile: packages, files, the device and the busy counter change at   *)
(* any step.  The supervisor (ProcessSupervisor) is used by its result:    *)
(* the helper's report, an ordinary failure, or one after which no other   *)
(* helper is run.                                                          *)
(***************************************************************************)
EXTENDS Naturals, Sequences, FiniteSets

R == INSTANCE ProbeReports

CONSTANTS
    Capabilities, \* the components of the profile, in the order they are inspected
    Package,      \* component -> provider.package
    Files,        \* component -> the paths of provider.files
    Conflicts,    \* profile.conflicts
    Reboot,       \* components whose provider.activation is a reboot
    Firmware,     \* the component npu_firmware
    Profiles,     \* profile files in the profile directory
    Kernels,      \* bound: kernel releases, as numbers
    Iterations,   \* inferences of one probe (8 in the code)
    MaxBusy,      \* bound: the busy counter
    Mending,      \* bound: whether a late change only puts back what differed early
    MaxEarly,     \* bound: differences from a healthy system before the session looks
    MaxLate       \* bound: changes while it looks

Components == {Capabilities[i] : i \in DOMAIN Capabilities}
Names == {Package[c] : c \in Components} \cup Conflicts
Paths == UNION {Files[c] : c \in Components}

\* A profile that some system satisfies: validate() accepts others too, with a
\* conflict that is a provider, or a file of two packages; they never pass.
ASSUME InspectionConstants ==
    /\ Capabilities \in Seq(Components) /\ Capabilities # <<>>
    /\ DOMAIN Package = Components /\ DOMAIN Files = Components
    /\ \A c \in Components : IsFiniteSet(Files[c]) /\ Files[c] # {}
    /\ Conflicts \cap {Package[c] : c \in Components} = {}
    /\ \A c, d \in Components : Files[c] \cap Files[d] # {} => Package[c] = Package[d]
    /\ Names \cap {"unasked", "failed"} = {}
    /\ Reboot \subseteq Components /\ Firmware \in Components
    /\ Kernels \subseteq Nat
    /\ Iterations \in Nat \ {0}
    /\ MaxBusy \in Nat \ {0} /\ Mending \in BOOLEAN /\ MaxEarly \in Nat /\ MaxLate \in Nat

VARIABLES
    system,   \* what is installed and plugged in, see Systems
    inputs,   \* what selection reads: request, kernel and profiles; forgotten afterwards
    command, root,
    pc,       \* where the session stands
    phase,    \* the inspection under way: "preflight" or "inspect"
    query,    \* rpm's answer for each package
    hash, owned, \* what each critical file was observed to hold, and its owner
    provider, \* the package checks, in the order of Capabilities
    checks,   \* the other checks
    reboot,   \* reboot_required
    before,   \* the first busy counter snapshot
    native,   \* the two helpers
    unsafe,   \* unsafe_to_continue
    verdict,  \* report.overall, or "refused" when the command exits 2
    early, late, \* changes of the system before the first observation, and since
    faulted,  \* history: a call failed, or a helper's answer was lost
    wasHealthy, \* history: HealthyIn at some moment of the inspection that is reported
    wasReady    \* history: ReadyIn at some moment since the first observation

caches == <<query, hash, owned>>
history == <<early, late, faulted, wasHealthy, wasReady>>
session == <<inputs, command, root, pc, phase, query, hash, owned, provider, checks, reboot,
             before, unsafe, verdict>>
vars == <<system, inputs, command, root, pc, phase, query, hash, owned, provider, checks,
          reboot, before, native, unsafe, verdict, early, late, faulted, wasHealthy, wasReady>>

Collecting == command \in {"preflight", "probe"}

Versions == {"none", "expected", "other"}
Contents == {"expected", "other"} \* a missing or irregular file is "other"
\* "invalid": /dev/accel is unreadable, or holds no character device.
Nodes == {"none", "invalid", "denied", "open"}

Systems ==
    [version : [Names -> Versions],
     recent : [Names -> BOOLEAN],   \* installed after the boot
     content : [Paths -> Contents],
     owner : [Paths -> Names],
     node : Nodes,
     shown : BOOLEAN,               \* npu_busy_time_us can be read
     busy : 0 .. MaxBusy]

ProfileRecords ==
    {r \in [status : {"candidate", "experimental", "qualified", "deprecated"}, platform : BOOLEAN,
            min : Kernels, max : Kernels] : r.min < r.max}

Requests ==
    [channel : {"stable", "experimental"}, accept : BOOLEAN, kernel : Kernels,
     profiles : [Profiles -> ProfileRecords]]
NoInputs == [channel |-> "none"]

Ids == {"platform.profile", "firmware.installed", "device.node", "device.access",
        "runtime.level_zero", "runtime.openvino", "runtime.inference", "runtime.activity",
        "qualification.probes"}

Helpers == {"levelZero", "openvino"}
Stages == {"idle", "started", "discovered", "placed", "reported", "gone"}
\* What a helper's report says; "later" is a failure after discovery.
Reports == {"nothing", "pass", "noDevice", "later", "internal"}

Unasked == [answer |-> "unasked", recent |-> FALSE]
Idle == [stage |-> "idle", device |-> "none", npuOnly |-> FALSE, runs |-> 0, said |-> "nothing",
         odd |-> FALSE]
NoSnapshot == [shown |-> FALSE, busy |-> 0]

TypeOK ==
    /\ system \in Systems
    /\ inputs = NoInputs \/ inputs \in Requests
    /\ command \in {"status", "doctor", "preflight", "probe"} /\ root \in BOOLEAN
    /\ pc \in {"select", "query", "files", "activation", "devices", "open", "levelZero",
               "levelZeroRuns", "before", "openvino", "openvinoRuns", "after", "report", "done"}
    /\ phase \in {"preflight", "inspect"}
    /\ query \in [Names -> [answer : Versions \cup {"unasked", "failed"}, recent : BOOLEAN]]
    /\ hash \in [Paths -> Contents \cup {"unread", "failed"}]
    /\ owned \in [Paths -> Names \cup {"unasked", "failed"}]
    /\ provider \in Seq({"pass", "fail"}) /\ Len(provider) <= Len(Capabilities)
    /\ checks \in [Ids -> {"none", "pass", "warn", "fail", "blocked"}]
    /\ reboot \in BOOLEAN /\ unsafe \in BOOLEAN
    /\ before \in [shown : BOOLEAN, busy : 0 .. MaxBusy]
    /\ native \in [Helpers -> [stage : Stages, device : {"none", "other", "match"},
                               npuOnly : BOOLEAN, runs : 0 .. Iterations, said : Reports,
                               odd : BOOLEAN]]
    /\ verdict \in {"none", "passed", "degraded", "failed", "blocked", "refused"}
    /\ early \in 0 .. MaxEarly /\ late \in 0 .. MaxLate
    /\ faulted \in BOOLEAN /\ wasHealthy \in BOOLEAN /\ wasReady \in BOOLEAN

-----------------------------------------------------------------------------
(* What a healthy system is, apart from how it is inspected. *)

PackagesHealthyIn(s) ==
    /\ \A c \in Components :
         /\ s.version[Package[c]] = "expected"
         /\ \A f \in Files[c] : s.content[f] = "expected" /\ s.owner[f] = Package[c]
    /\ \A k \in Conflicts : s.version[k] = "none"

RebootPendingIn(s) ==
    /\ \A c \in Reboot : s.version[Package[c]] = "expected"
    /\ \E c \in Reboot : s.recent[Package[c]]

ReadyIn(s) == PackagesHealthyIn(s) /\ ~RebootPendingIn(s)

\* Root cannot show that a user has access: doctor never passes for it.
HealthyIn(s) ==
    /\ PackagesHealthyIn(s)
    /\ IF root THEN command = "status" /\ s.node \in {"denied", "open"} ELSE s.node = "open"

HealthySystem ==
    [version |-> [n \in Names |-> IF n \in Conflicts THEN "none" ELSE "expected"],
     recent |-> [n \in Names |-> FALSE],
     content |-> [f \in Paths |-> "expected"],
     owner |-> [f \in Paths |-> Package[CHOOSE c \in Components : f \in Files[c]]],
     node |-> "open",
     shown |-> TRUE,
     busy |-> 1]

Init ==
    /\ system = HealthySystem
    /\ inputs \in Requests
    /\ command \in {"status", "doctor", "preflight", "probe"} /\ root \in BOOLEAN
    /\ pc = "select"
    /\ phase = IF Collecting THEN "preflight" ELSE "inspect"
    /\ query = [n \in Names |-> Unasked]
    /\ hash = [f \in Paths |-> "unread"]
    /\ owned = [f \in Paths |-> "unasked"]
    /\ provider = <<>>
    /\ checks = [i \in Ids |-> "none"]
    /\ reboot = FALSE /\ unsafe = FALSE
    /\ before = NoSnapshot
    /\ native = [m \in Helpers |-> Idle]
    /\ verdict = "none"
    /\ early = 0 /\ late = 0 /\ faulted = FALSE
    /\ wasHealthy = HealthyIn(system) /\ wasReady = ReadyIn(system)

-----------------------------------------------------------------------------
(* Selecting the profile. *)

Faulty == faulted' = TRUE

StatusAllowed(status) ==
    \/ inputs.channel = "stable" /\ status = "qualified"
    \/ inputs.channel = "experimental" /\ status \in {"qualified", "experimental"}

PlatformMatches(profile) ==
    /\ profile.platform
    /\ profile.min <= inputs.kernel /\ inputs.kernel < profile.max

Matches ==
    {p \in Profiles : StatusAllowed(inputs.profiles[p].status)
                      /\ PlatformMatches(inputs.profiles[p])}

\* The flags go together: --accept-experimental-risk with the experimental
\* channel, --accept-hardware-probes with the probe mode.
FlagsAgree ==
    inputs.accept <=> IF Collecting THEN command = "probe" ELSE inputs.channel = "experimental"

SelectionDone(next, status, overall) ==
    /\ pc' = next
    /\ inputs' = NoInputs
    /\ checks' = [checks EXCEPT !["platform.profile"] = status]
    /\ verdict' = overall
    /\ UNCHANGED <<system, command, root, phase, caches, provider, reboot, before, native,
                   unsafe, early, late, wasHealthy, wasReady>>

\* Exit 2 before anything is inspected; detection and the reading of profiles may fail.
Refuse ==
    /\ pc = "select"
    /\ \/ ~FlagsAgree /\ UNCHANGED faulted
       \/ ~Collecting /\ Cardinality(Matches) > 1 /\ UNCHANGED faulted
       \/ Faulty
    /\ SelectionDone("done", "none", "refused")

SelectProfile ==
    /\ pc = "select"
    /\ ~Collecting /\ FlagsAgree
    /\ \/ Cardinality(Matches) = 1 /\ SelectionDone("query", "pass", "none")
       \/ Matches = {} /\ SelectionDone("report", "fail", "none")
    /\ UNCHANGED faulted

\* Collection is for the named file: an unqualified candidate, a normal user.
Collectable(p) ==
    /\ inputs.profiles[p].status = "candidate"
    /\ ~root
    /\ PlatformMatches(inputs.profiles[p])

CollectCandidate ==
    /\ pc = "select"
    /\ Collecting /\ FlagsAgree
    /\ \E p \in Profiles :
         IF Collectable(p) THEN SelectionDone("query", "pass", "none")
         ELSE SelectionDone("done", "none", "refused")
    /\ UNCHANGED faulted

-----------------------------------------------------------------------------
(* The package inspector. *)

\* rpm -q of every provider and conflict, in the order of their names.
QueryPackage(n) ==
    /\ pc = "query"
    /\ query[n] = Unasked
    /\ \/ /\ query' = [query EXCEPT ![n] = [answer |-> system.version[n],
                                            recent |-> system.recent[n]]]
          /\ UNCHANGED faulted
       \/ query' = [query EXCEPT ![n] = [answer |-> "failed", recent |-> FALSE]] /\ Faulty
    /\ pc' = IF \A m \in Names \ {n} : query[m] # Unasked THEN "files" ELSE "query"
    /\ UNCHANGED <<system, inputs, command, root, phase, hash, owned, provider, checks, reboot,
                   before, native, unsafe, verdict, early, late, wasHealthy, wasReady>>

Current == Capabilities[Len(provider) + 1]

Good(f, c) == hash[f] = "expected" /\ owned[f] = Package[c]
Bad(f, c) == hash[f] \notin {"unread", "expected"} \/ owned[f] \notin {"unasked", Package[c]}

\* The files of a provider whose version is the expected one, until a bad one.
Examining(f) ==
    /\ pc = "files"
    /\ query[Package[Current]].answer = "expected"
    /\ f \in Files[Current]
    /\ \A g \in Files[Current] \ {f} : Good(g, Current) \/ hash[g] = "unread"

\* What hash_regular_file sees; a file replaced under it is a failure.
HashFile(f) ==
    /\ Examining(f)
    /\ hash[f] = "unread"
    /\ \/ hash' = [hash EXCEPT ![f] = system.content[f]] /\ UNCHANGED faulted
       \/ hash' = [hash EXCEPT ![f] = "failed"] /\ Faulty
    /\ UNCHANGED <<system, inputs, command, root, pc, phase, query, owned, provider, checks,
                   reboot, before, native, unsafe, verdict, early, late, wasHealthy, wasReady>>

QueryOwner(f) ==
    /\ Examining(f)
    /\ hash[f] = "expected" /\ owned[f] = "unasked"
    /\ \/ owned' = [owned EXCEPT ![f] = system.owner[f]] /\ UNCHANGED faulted
       \/ /\ system.content[f] # "expected"
          /\ owned' = [owned EXCEPT ![f] = "failed"]
          /\ UNCHANGED faulted
       \/ owned' = [owned EXCEPT ![f] = "failed"] /\ Faulty
    /\ UNCHANGED <<system, inputs, command, root, pc, phase, query, hash, provider, checks,
                   reboot, before, native, unsafe, verdict, early, late, wasHealthy, wasReady>>

\* Mutant: a conflict that could not be asked about is none.
ConflictInstalled == \E k \in Conflicts : query[k].answer \in {"expected", "other"}

\* A conflict that is installed, or could not be asked about, fails every provider.
ConflictFailure == \E k \in Conflicts : query[k].answer # "none"

ProviderPasses(c) ==
    /\ query[Package[c]].answer = "expected"
    /\ \A f \in Files[c] : Good(f, c)
    /\ ~ConflictFailure

JudgeProvider ==
    /\ pc = "files"
    /\ \/ query[Package[Current]].answer # "expected"
       \/ \E f \in Files[Current] : Bad(f, Current)
       \/ \A f \in Files[Current] : Good(f, Current)
    /\ provider' = Append(provider, IF ProviderPasses(Current) THEN "pass" ELSE "fail")
    /\ pc' = IF Len(provider') = Len(Capabilities) THEN "activation" ELSE "files"
    /\ UNCHANGED <<system, inputs, command, root, phase, caches, checks, reboot, before,
                   native, unsafe, verdict, history>>

\* inspect_activation: unknown as soon as one reboot provider is not as expected.
ActivationUnknown == \E c \in Reboot : query[Package[c]].answer # "expected"

\* Mutant: one recent provider is enough only if all are.
RebootAllRecent == ~ActivationUnknown /\ Reboot # {} /\ \A c \in Reboot : query[Package[c]].recent

RebootRequired == ~ActivationUnknown /\ \E c \in Reboot : query[Package[c]].recent

FirmwareCheck ==
    LET i == CHOOSE j \in DOMAIN Capabilities : Capabilities[j] = Firmware
    IN IF provider[i] # "pass" THEN provider[i]
       ELSE IF ActivationUnknown THEN "blocked" ELSE "pass"

\* The answers and observations live as long as inspect_preflight.
Forget ==
    /\ query' = [n \in Names |-> Unasked]
    /\ hash' = [f \in Paths |-> "unread"]
    /\ owned' = [f \in Paths |-> "unasked"]

\* The end of inspect_preflight, as the first part of status and doctor.
PackagesInspected ==
    /\ pc = "activation"
    /\ phase = "inspect"
    /\ reboot' = RebootRequired
    /\ checks' = [checks EXCEPT !["firmware.installed"] = FirmwareCheck]
    /\ pc' = "devices"
    /\ Forget
    /\ UNCHANGED <<system, inputs, command, root, phase, provider, before, native, unsafe,
                   verdict, history>>

Ready ==
    /\ ~RebootRequired
    /\ \A i \in DOMAIN provider : provider[i] = "pass"
    /\ FirmwareCheck = "pass"

\* Mutant: doctor is handed the preflight's own observations.
PreflightReused ==
    /\ pc = "activation"
    /\ phase = "preflight"
    /\ command = "probe" /\ Ready
    /\ phase' = "inspect"
    /\ pc' = "devices"
    /\ wasHealthy' = HealthyIn(system)
    /\ UNCHANGED <<system, inputs, command, root, caches, provider, checks, reboot, before,
                   native, unsafe, verdict, early, late, faulted, wasReady>>

\* The preflight of a probe was good: doctor inspects everything anew.
PreflightPassed ==
    /\ pc = "activation"
    /\ phase = "preflight"
    /\ command = "probe" /\ Ready
    /\ phase' = "inspect"
    /\ pc' = "query"
    /\ Forget
    /\ provider' = <<>>
    /\ wasHealthy' = HealthyIn(system)
    /\ UNCHANGED <<system, inputs, command, root, checks, reboot, before, native, unsafe,
                   verdict, early, late, faulted, wasReady>>

PreflightIsReport ==
    /\ pc = "activation"
    /\ phase = "preflight"
    /\ command = "preflight" \/ ~Ready
    /\ reboot' = RebootRequired
    /\ checks' = [checks EXCEPT !["firmware.installed"] = FirmwareCheck,
                                !["qualification.probes"] = "blocked"]
    /\ pc' = "report"
    /\ Forget
    /\ UNCHANGED <<system, inputs, command, root, phase, provider, before, native, unsafe,
                   verdict, history>>

-----------------------------------------------------------------------------
(* The device and the busy counter. *)

\* inspect_devices lists /dev/accel; only a user's session goes on to open a node.
ListNodes ==
    /\ pc = "devices"
    /\ LET listed == system.node \in {"denied", "open"}
       IN /\ checks' = [checks EXCEPT
                 !["device.node"] = IF listed THEN "pass" ELSE "fail",
                 !["device.access"] = IF listed \/ system.node = "none" THEN "blocked" ELSE "fail"]
          /\ pc' = IF listed /\ ~root THEN "open" ELSE "levelZero"
    /\ UNCHANGED <<system, inputs, command, root, phase, caches, provider, reboot, before,
                   native, unsafe, verdict, history>>

\* The listed node is opened read-write; it may be gone or closed to the user by now.
OpenNodes ==
    /\ pc = "open"
    /\ checks' = [checks EXCEPT
           !["device.access"] = IF system.node = "open" THEN "pass" ELSE "fail"]
    /\ pc' = "levelZero"
    /\ UNCHANGED <<system, inputs, command, root, phase, caches, provider, reboot, before,
                   native, unsafe, verdict, history>>

Snapshot == [shown |-> system.shown, busy |-> system.busy]

SampleBefore ==
    /\ pc = "before"
    /\ before' = Snapshot
    /\ pc' = "openvino"
    /\ UNCHANGED <<system, inputs, command, root, phase, caches, provider, checks, reboot,
                   native, unsafe, verdict, history>>

\* evaluate_activity: anything but a counter that grew is a warning.
SampleAfter ==
    /\ pc = "after"
    /\ checks' = [checks EXCEPT !["runtime.activity"] =
                    IF before.shown /\ system.shown /\ system.busy > before.busy
                    THEN "pass" ELSE "warn"]
    /\ pc' = "report"
    /\ UNCHANGED <<system, inputs, command, root, phase, caches, provider, reboot, before,
                   native, unsafe, verdict, history>>

-----------------------------------------------------------------------------
(* The native helpers, level_zero/probe.cpp and openvino/probe.cpp.  Only the *)
(* device and the libraries decide what they find and how far they get.       *)

Launched(m) == IF m = "levelZero" THEN "levelZeroRuns" ELSE "openvinoRuns"
Infers(m) == m = "openvino" /\ command # "status"

\* A step of the helper itself; the session only waits.
HelperStep(m, state, fault) ==
    /\ native' = [native EXCEPT ![m] = state]
    /\ faulted' = (faulted \/ fault)
    /\ UNCHANGED <<session, early, late, wasHealthy, wasReady>>

\* Enumeration; "match" is a device the profile lists.
Discover(m) ==
    /\ native[m].stage = "started"
    /\ \E d \in {"none", "other", "match"} :
         HelperStep(m,
             [native[m] EXCEPT
                 !.device = d,
                 !.stage = IF d # "none" /\ Infers(m) THEN "discovered" ELSE "reported",
                 !.said = IF d = "none" THEN "noDevice" ELSE IF Infers(m) THEN @ ELSE "pass"],
             d # "match")
    /\ UNCHANGED system

\* compile_model, then execution_devices: anything but the NPU alone is refused.
Place(m) ==
    /\ native[m].stage = "discovered"
    /\ \E only \in BOOLEAN :
         HelperStep(m,
             [native[m] EXCEPT !.npuOnly = only,
                               !.stage = IF only THEN "placed" ELSE "reported",
                               !.said = IF only THEN @ ELSE "later"],
             ~only)
    /\ UNCHANGED system

\* Mutant: one inference too many.
MoreToRunInclusive(m) == native[m].runs <= Iterations

MoreToRun(m) == native[m].runs < Iterations

\* One inference with a correct output; the device counts it sooner or later.
Infer(m) ==
    /\ native[m].stage = "placed"
    /\ MoreToRun(m)
    /\ HelperStep(m, [native[m] EXCEPT !.runs = @ + 1], FALSE)
    /\ \/ UNCHANGED system
       \/ system.busy < MaxBusy /\ system' = [system EXCEPT !.busy = @ + 1]

ReportInference(m) ==
    /\ native[m].stage = "placed"
    /\ ~MoreToRun(m)
    /\ HelperStep(m, [native[m] EXCEPT !.stage = "reported", !.said = "pass"], FALSE)
    /\ UNCHANGED system

\* An exception of a library: its code tells whether discovery had succeeded.
HelperFails(m) ==
    /\ native[m].stage \in {"started", "discovered", "placed"}
    /\ HelperStep(m,
           [native[m] EXCEPT !.stage = "reported",
                             !.said = IF native[m].stage = "started" THEN "internal" ELSE "later"],
           TRUE)
    /\ UNCHANGED system

Helper(m) ==
    Discover(m) \/ Place(m) \/ Infer(m) \/ ReportInference(m) \/ HelperFails(m)

-----------------------------------------------------------------------------
(* Running the helpers and drawing the conclusions. *)

\* The OpenVINO helper is not run after an error of the first that is not ordinary.
Launch(m) ==
    /\ pc = m
    /\ m = "openvino" => ~unsafe
    /\ native' = [native EXCEPT ![m].stage = "started"]
    /\ pc' = Launched(m)
    /\ UNCHANGED <<system, inputs, command, root, phase, caches, provider, checks, reboot,
                   before, unsafe, verdict, history>>

\* The checks drawn from what the Level Zero helper said, if anything.
LevelZeroConcluded(said) ==
    /\ checks' = [checks EXCEPT !["runtime.level_zero"] =
                    IF said = "pass" /\ native["levelZero"].device = "match"
                    THEN "pass" ELSE "fail"]
    /\ pc' = IF command = "status" THEN "openvino" ELSE "before"

\* Which reports show that OpenVINO sees an NPU.
Discovered(said) == said \in {"pass", "later"}

OpenVinoConcluded(said) ==
    LET listed == IF Discovered(said) THEN "pass" ELSE "fail"
    IN IF command = "status"
       THEN /\ checks' = [checks EXCEPT !["runtime.openvino"] = listed]
            /\ pc' = "report"
       ELSE /\ checks' = [checks EXCEPT
                 !["runtime.openvino"] = listed,
                 !["runtime.inference"] = IF said = "pass" THEN "pass" ELSE "fail"]
            /\ pc' = "after"

Concluded(m, said) ==
    IF m = "levelZero" THEN LevelZeroConcluded(said) ELSE OpenVinoConcluded(said)

\* The helper's executable is missing, or it cannot be spawned.
LaunchFails(m) ==
    /\ pc = m
    /\ m = "openvino" => ~unsafe
    /\ Concluded(m, "nothing")
    /\ Faulty
    /\ UNCHANGED <<system, inputs, command, root, phase, caches, provider, reboot, before,
                   native, unsafe, verdict, early, late, wasHealthy, wasReady>>

SkipOpenVino ==
    /\ pc = "openvino"
    /\ unsafe
    /\ OpenVinoConcluded("nothing")
    /\ UNCHANGED <<system, inputs, command, root, phase, caches, provider, reboot, before,
                   native, unsafe, verdict, history>>

Mode(m) == IF Infers(m) THEN "infer" ELSE "enumerate"
Sayings == {<<m, mode, said>> : m \in Helpers, mode \in {"enumerate", "infer"},
                                said \in {"pass", "noDevice", "later", "internal"}}

\* The report of a helper that says so.
SaidReport(m, mode, said) ==
    R!SoundReport(m, mode, IF said = "pass" THEN "pass" ELSE "fail",
        CASE said = "pass" -> "none"
          [] said = "noDevice" -> IF m = "levelZero" THEN "LEVEL_ZERO_NO_VPU" ELSE "OPENVINO_NO_NPU"
          [] said = "later" -> "OPENVINO_INFERENCE_FAILED"
          [] said = "internal" -> IF m = "levelZero" THEN "LEVEL_ZERO_INTERNAL_FAILURE"
                                  ELSE "OPENVINO_INTERNAL_FAILURE")

\* What is printed instead when a library prints as well, the helper is of another
\* release, or it has a defect: nothing, or one field, is off.
Printable(report) == {R!NoDeviation} \cup {d \in R!Deviations : R!IsOff(report, d)}

\* Whether something printed for such a report is taken, and something is not: it has to
\* be of the probe and the mode that were asked for.
SomePrinted(x, odd, taken) ==
    LET report == SaidReport(x[1], x[2], x[3])
    IN \E off \in Printable(report) :
         /\ odd = (off # R!NoDeviation)
         /\ taken = R!Parses(R!ReportWith(report, off), x[1], x[2])

Accepted == {y \in Sayings \X BOOLEAN : SomePrinted(y[1], y[2], TRUE)}

Refused == {x \in Sayings : \E odd \in BOOLEAN : SomePrinted(x, odd, FALSE)}

\* The helper has exited and what it printed is a report.
TakeReport(m) ==
    /\ pc = Launched(m)
    /\ native[m].stage = "reported"
    /\ \E odd \in BOOLEAN :
         /\ <<<<m, Mode(m), native[m].said>>, odd>> \in Accepted
         /\ native' = [native EXCEPT ![m].stage = "gone", ![m].odd = odd]
         /\ faulted' = (faulted \/ odd)
    /\ Concluded(m, native[m].said)
    /\ UNCHANGED <<system, inputs, command, root, phase, caches, provider, reboot, before,
                   unsafe, verdict, early, late, wasHealthy, wasReady>>

\* What is left of a helper whose report is not used.
Lost(m) == [native EXCEPT ![m] = [Idle EXCEPT !.stage = "gone", !.runs = native[m].runs]]

\* PROBE_OUTPUT_INVALID and PROBE_SCHEMA_UNSUPPORTED are ordinary failures.
RefuseReport(m) ==
    /\ pc = Launched(m)
    /\ native[m].stage = "reported"
    /\ <<m, Mode(m), native[m].said>> \in Refused
    /\ Concluded(m, "nothing")
    /\ native' = Lost(m)
    /\ Faulty
    /\ UNCHANGED <<system, inputs, command, root, phase, caches, provider, reboot, before,
                   unsafe, verdict, early, late, wasHealthy, wasReady>>

\* Nothing of the report arrives: a timeout, a crash or too much output; PipeIo, Join and
\* InvalidTermination are unsafe to continue after.
LoseHelper(m) ==
    /\ pc = Launched(m)
    /\ Concluded(m, "nothing")
    /\ native' = Lost(m)
    /\ UNCHANGED unsafe \/ (m = "levelZero" /\ unsafe' = TRUE)
    /\ Faulty
    /\ UNCHANGED <<system, inputs, command, root, phase, caches, provider, reboot, before,
                   verdict, early, late, wasHealthy, wasReady>>

-----------------------------------------------------------------------------
(* The verdict. *)

Required(i) ==
    /\ i # "runtime.activity"
    /\ ~(i = "device.access" /\ root /\ command = "status")

\* DiagnosticReport::finalize over the other checks and those of the packages.
Verdict ==
    IF \/ \E i \in Ids : Required(i) /\ checks[i] = "fail"
       \/ \E i \in DOMAIN provider : provider[i] = "fail"
    THEN "failed"
    ELSE IF \E i \in Ids : Required(i) /\ checks[i] = "blocked" THEN "blocked"
    ELSE IF \E i \in Ids : checks[i] \notin {"none", "pass"} THEN "degraded"
    ELSE "passed"

\* The report is written; when that fails the exit code is 2.
Report ==
    /\ pc = "report"
    /\ \/ verdict' = Verdict /\ UNCHANGED faulted
       \/ verdict' = "refused" /\ Faulty
    /\ pc' = "done"
    /\ UNCHANGED <<system, inputs, command, root, phase, caches, provider, checks, reboot,
                   before, native, unsafe, early, late, wasHealthy, wasReady>>

-----------------------------------------------------------------------------
(* The rest of the system.  One write of the package database, one file, one *)
(* node or one counter at a time: a whole upgrade is several of these.       *)

\* Only an installed package has an install time, which only matters for Reboot.
ChangePackage(s, n) ==
    LET Timed == \E c \in Reboot : Package[c] = n
        States == {x \in Versions \X BOOLEAN :
                     /\ x[2] => Timed /\ x[1] # "none"
                     /\ n \in Conflicts => x[1] # "expected"}
    IN {[s EXCEPT !.version[n] = x[1], !.recent[n] = x[2]] : x \in States}

OtherClient(s) ==
    {[s EXCEPT !.busy = 0], [s EXCEPT !.shown = ~@]}
    \cup IF s.busy < MaxBusy THEN {[s EXCEPT !.busy = @ + 1]} ELSE {}

\* One package, one file and one node at a time.
PackageChanges(s) == UNION {ChangePackage(s, n) : n \in Names}
ContentChanges(s) == {[s EXCEPT !.content[f] = k] : f \in Paths, k \in Contents}
OwnerChanges(s) == {[s EXCEPT !.owner[f] = Package[c]] : f \in Paths, c \in Components}
NodeChanges(s) == {[s EXCEPT !.node = n] : n \in Nodes}

\* The changes that something may still read.
Changes(s) ==
    (IF pc \in {"query", "files"}
     THEN PackageChanges(s) \cup ContentChanges(s) \cup OwnerChanges(s) ELSE {})
    \cup (IF pc \in {"query", "files", "activation", "devices", "open"} THEN NodeChanges(s) ELSE {})
    \cup (IF pc \in {"before", "openvino", "openvinoRuns", "after"} /\ command # "status"
          THEN OtherClient(s) ELSE {})

Unobserved ==
    /\ pc = "query" /\ phase = (IF Collecting THEN "preflight" ELSE "inspect")
    /\ \A n \in Names : query[n] = Unasked

\* The system differs from a healthy one before it is looked at.
DisturbEarly ==
    /\ Unobserved
    /\ early < MaxEarly
    /\ system' \in Changes(system) \ {system}
    /\ early' = early + 1
    /\ wasHealthy' = HealthyIn(system')
    /\ wasReady' = ReadyIn(system')
    /\ UNCHANGED <<session, native, late, faulted>>

DisturbLate ==
    /\ pc \notin {"select", "done"} /\ ~Unobserved
    /\ late < MaxLate
    /\ system' \in Changes(system) \ {system}
    /\ Mending /\ early > 0 => system' = HealthySystem
    /\ late' = late + 1
    /\ wasHealthy' = (wasHealthy \/ HealthyIn(system'))
    /\ wasReady' = (wasReady \/ ReadyIn(system'))
    /\ UNCHANGED <<session, native, early, faulted>>

-----------------------------------------------------------------------------

Inspect ==
    \/ \E n \in Names : QueryPackage(n)
    \/ \E f \in Paths : HashFile(f) \/ QueryOwner(f)
    \/ JudgeProvider
    \/ PackagesInspected \/ PreflightPassed \/ PreflightIsReport

\* Mutant: no deadline and no other end for a helper that never answers.
RunWithoutDeadline ==
    \/ \E m \in Helpers : Launch(m) \/ LaunchFails(m) \/ TakeReport(m) \/ RefuseReport(m)
    \/ SkipOpenVino

Run ==
    \/ \E m \in Helpers : \/ Launch(m) \/ LaunchFails(m)
                         \/ TakeReport(m) \/ RefuseReport(m) \/ LoseHelper(m)
    \/ SkipOpenVino

Session ==
    \/ Refuse \/ SelectProfile \/ CollectCandidate
    \/ Inspect
    \/ ListNodes \/ OpenNodes \/ SampleBefore \/ SampleAfter
    \/ Run
    \/ Report

Finished == pc = "done" /\ UNCHANGED vars

Next ==
    \/ Session
    \/ \E m \in Helpers : Helper(m)
    \/ DisturbEarly \/ DisturbLate
    \/ Finished

\* The session is one thread; a helper owes nothing, its deadline ends it.
Spec == Init /\ [][Next]_vars /\ WF_vars(Session)

-----------------------------------------------------------------------------
(* Properties. *)

ExitsZero == verdict \in {"passed", "degraded"}

\* Exit 0 was earned: some moment of the inspection that is reported had every
\* package, file and the device as the profile wants them (one change meanwhile
\* is tolerated), the listed device was enumerated, every inference asked for ran
\* on the NPU alone, no report that was off in a field was believed, and a probe had a
\* moment with no reboot pending.
ExitZeroWasEarned ==
    ExitsZero /\ late <= 1 =>
        /\ wasHealthy
        /\ command # "preflight"
        /\ command = "probe" => wasReady
        /\ native["levelZero"].said = "pass" /\ native["levelZero"].device = "match"
        /\ native["openvino"].said = "pass"
        /\ \A m \in Helpers : ~native[m].odd
        /\ command # "status" => /\ native["openvino"].npuOnly
                                 /\ native["openvino"].runs = Iterations

\* The converse: a session over a healthy system that stays as it is, in which
\* no call failed and no helper let it down, exits 0 (activity may be missing)
\* and tells exactly whether a reboot is pending.
HealthyExitsZero ==
    /\ pc = "done" /\ ~faulted /\ late = 0
    /\ checks["platform.profile"] = "pass"
    /\ HealthyIn(system) /\ command \in {"status", "doctor"}
    => ExitsZero /\ (reboot <=> RebootPendingIn(system))

\* docs/runtime-doctor.md on runtime.activity: "An available NPU busy-time
\* counter increased during inference."
ActivityDuringInference ==
    checks["runtime.activity"] = "pass" => native["openvino"].runs > 0
=============================================================================
