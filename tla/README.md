# Formal models of intel-npu-stack

TLA+ models of the parts of this repository where the order of events matters,
TLC configurations that check them, and TLAPS proofs about the process
supervisor, the installer, the custody of the signing key, the publication of
releases, the runtime inspection, the source bundle and the upstream watch. Every definition names, in
`PROJECT.json` (`map`), the source lines it stands for; `PROJECT.json` also lists
the hazards each property is for and the defects (mutants) each property is known
to notice.

## 1. Inventory

| Component | State it keeps | Operations | Interacts with | Hard behaviour |
|---|---|---|---|---|
| Process supervisor (`crates/stack-runtime/src/process.rs`) | child, two reader threads, retained bytes, deadline | `run`, `spawn_reader`, `join_readers`, `kill_and_reap` | helper process, its descendants, pipes, the system's scheduler | deadline against exit, readers against the poll loop, failing system calls, inherited pipes |
| Runtime inspection (`inspect.rs`, `activity.rs`, `device.rs`, `package.rs`) | one report under construction, cached file and owner observations | `inspect_status`, `inspect_doctor`, `inspect_preflight` | rpm, `/dev/accel`, sysfs counters, helpers through the supervisor | observations of a system that changes between them; when a failed helper makes the next one unsafe |
| Probe protocol (`protocol.rs`, `strict_json.rs`) | none | `parse_probe_output` | native probes | which documents are accepted as which verdict |
| Native probes (`native/`) | device and compiled model handles | enumerate, infer, report channel | Level Zero, OpenVINO | order of stages, failure codes, output that libraries write |
| Platform and profiles (`stack-platform`, `stack-schema`, `stack-core/matching.rs`) | none | `detect_platform`, `validate`, `select_profile` | `/proc`, `/sys`, os-release | uniqueness of the selected profile, kernel windows |
| Report and CLI (`report.rs`, `stack-cli`) | report | `finalize`, `exit_code` | runtime inspection | aggregation of required and optional checks |
| Installer (`crates/stack-install`) | private tree, plan, two inventories, receipt | `install`, `fetch_release`, `prepare`, `review_plan`, `execute_replay`, `verify_installation` | release site, Fedora mirrors, dnf5, rpm, sudo, terminal, other package managers | time of check and use, files served by others, partial replays, crashes, what is still pending |
| Release publication (`scripts/ci/release_publish.py`, `release.yml`) | releases, tags, the live site, registry, per-run records | preflight, publish-release, pages-build, pages-deploy, verify-live | GitHub API, Pages, people | re-runs, lost responses, manual changes, older runs, the Pages budget |
| Signing and site composition (`release_sign.py`, `release_site.py`, `release_artifact.py`, `check_release.py`, ...) | artifacts and outputs of jobs, keyring | preflight, sign, installer legs, verify, finalize, attest, publish-release | GitHub artifacts and environments, gpg, reviewers | chain of custody between jobs, a key that must not outlive its job, re-runs, damaged downloads |
| Upstream watch (`upstream-watch.yml`, `check_upstream.py`) | open issues | scan, create issues | GitHub, people | repeated runs that die half-way, upstreams that do not answer |
| Candidate preparation (`prepare_candidate.py`, `prepare-candidate.yml`) | lock, branches, draft PRs | resolve, produce, push, open the PR | upstream tags, clones, people | moved tags, companions, edits of main meanwhile |
| Source lock and bundle (`xtask/src/source_lock.rs`, `source_bundle.rs`) | lock, staging and output directory | `bundle_sources`, `hash_cached_source` | git clones, file system | failures and kills between file operations |
| Candidate packages and profiles (`xtask/src/fedora_package.rs`, `fedora_openvino_package.rs`, `fedora_profile.rs`, `kernel_candidate.rs`, `lib.rs`, `candidate_collection.rs`) | RPMs, extracted payloads, profile files, pinned digests | package gates, generate-fedora-profile, retarget-candidate, validate-profiles, collect-candidate | rpm, readelf, maintainers | files that change between two questions about them, unfinished files |
| VM lifecycle gate (`tests/vm`) | lock, overlay, fixture server, guest record | `run_scenario`, guest scenarios, resume after reboot | qemu, guest | a guest that reboots while the host waits |
| Kernel watch (`check_kernels.py`), native packaging, bootstrap, CI checks | none, or build trees | sequential scripts | Bodhi, rpmbuild | none beyond single failures |

What makes them correct, in one line each:

- process supervisor: nothing is left running, no truncated output is taken for
  a complete one, and `run` returns;
- runtime inspection and probe protocol: a pass describes the system and is
  supported by what was observed, a healthy system passes, and no report that is
  off in any field is believed;
- installer: only the reviewed plan of a release that is right in every fact is
  replayed, exactly, and a later session repairs what an earlier one left;
- release custody: the key is on a runner only inside its window, and what is
  published is what was verified, byte for byte;
- release publication: the site serves only released bytes, a version is never
  reissued, leaves only by retirement, and a released version reaches the site;
- upstream watch and preparation: a newer release gets one open issue, and a
  prepared lock bundles;
- bundles: complete or recognisably not, whatever step fails;
- candidate chain: what is published, validated and collected is bound to files
  that gave all the answers.

## 2. Modules

| Module | Models | State and actions |
|---|---|---|
| `ProcessSupervisor` | `process.rs` | `sup` is the point `run` has reached, `reader[s]` each thread, `child` and `descendant` the processes, `pipe`, `written`, `kept`, `overflow` the streams. One action per system call or loop turn; the helper, its descendant, the kernel's signal delivery and the clock are actions of their own. |
| `ReleaseCustody` | `release.yml` from preflight to publish-release, the scripts its steps call | `result` and `step` are what GitHub shows of each job and where it stands, `got` and `made` the files on its runner, `store` and `output` artifacts and their digests, `keyring` the key. A file is what it was made from. One action per step of a job; `StepDies`, `RunnerLost`, re-runs and deleted artifacts are actions of their own. |
| `ReleasePublication` | `release_publish.py` under `release.yml` | `main`, `releases`, `tags`, `live` are the shared state; `run[r]` is one workflow run with the commit and registry it was dispatched at. One action per API call of publish-release and per gate that reads shared state, then one per later job; `End`, `Fail` and `Rerun` are what Actions does to a job; the changes people make by hand are actions. |
| `PublishedSite` | | what publication promises: a deployment puts one released version in place, or removes versions |
| `ReviewedInstall` | | what an installation promises who reviews it: one transaction, as shown, over the database shown, reported with its reboots |
| `ReleaseFiles` | the checks of `transport.rs`, `signature.rs`, `trust.rs`, `manifest.rs`, `fedora_rpm.rs`, `project_rpm.rs`, `prepare.rs` | a release is a record of facts (locations, digests, signatures, entries, rpm headers); each check is a predicate on them, `Flaws` the ways one fact can be wrong |
| `Installer` | `crates/stack-install` | `installed` is the package database (version and install time), `flaw` and `site` what is wrong with the release or a mirror, `etc` and `tree` the Fedora files and the private tree, `pc` where the session stands, `before`, `inventory` and `plan` what it observed. One action per download with its checks, per native call and per check of `install` and what it calls; dnf5 applies a replay package by package; other package managers, administrators, cleaners, mirrors, crashes and reboots are actions. |
| `ProbeReports` | `protocol.rs`, `strict_json.rs` | a report is a record of named values; `Parses` is `parse_probe_output`, `Deviations` the ways one field can be off |
| `RuntimeInspection` | `inspect.rs`, `package.rs`, `device.rs`, `activity.rs`, `matching.rs`, `report.rs`, the CLI's `execute`, `candidate_collection.rs`, the native probes | `system` is what is installed and plugged in, `inputs` what selection reads, `query`, `hash` and `owned` the answers `inspect` caches, `checks` and `provider` the report, `native` the two helpers. One action per rpm query, file, device access, snapshot, launch and report; the helpers' stages and changes of the system are actions of their own. |
| `FedoraPackages` | what xtask asks of RPMs and payloads | the agenda of each tool (`InspectAgenda`, `PairAgenda`, `FamilyAgenda`: its questions in their order), and which flaw of a build each answer shows |
| `CandidateProfile` | the gates, `generate-fedora-profile`, `retarget-candidate`, `validate-profiles` | `rpms`, `extracted`, `lock`, `shelf` are the files, `tool` the one running tool with the questions left to ask and what it has read. One action per question or file operation; edits, kills and failures are actions. |
| `CandidateQualification` | `collect-candidate` on top of both | the profile that the tools made is collected with a pinned digest and inspects the host; or a public command runs |
| `SourceLock`, `SourceBundle` | `source_lock.rs`, `source_bundle.rs` | a lock is pins and gitlink commits; `bundle` is the process, `output` the directory with staging, archives and SHA256SUMS. One action per rename; failing and being killed between any two. |
| `SourcePinning` | `upstream-watch.yml`, `prepare-candidate.yml` and their scripts, with `SourceBundle` | `upstream` is the releases and their tags, `main` the lock, `issues`, `branches`, `prs` GitHub's state, `watch` and `prepare` the runs. One action per query, created issue, push and PR; people close issues, merge, delete branches, pin by hand. |
| `ProcessSupervisorProofs`, `InstallerProofs`, `ReleaseCustodyProofs`, `ReleasePublicationProofs`, `ReleaseForwardProofs`, `RuntimeInspectionProofs`, `CandidateQualificationProofs`, `SourcePinningProofs` | | the inductive invariants and the theorems |
| `MC*` | | instances for TLC |

How they compose:

- `ReleasePublication` implements `PublishedSite` (`ImplementsPublishedSite`, an
  `INSTANCE` with `Contents <- Runs`; the other variables have the same names).
- `Installer` implements `ReviewedInstall` (`ImplementsReviewedInstall`): of the nineteen
  steps of a session the user sees four phases (`Phase`), the plan once it is agreed to,
  and whether all that was taken is the verified release's.
- `SourcePinning` extends `SourceBundle`, which extends `SourceLock`: the locks
  that the two workflows and people make are the locks that are bundled.
- `CandidateQualification` extends `CandidateProfile` and `RuntimeInspection`:
  a profile travels from the RPMs to an inspection of the host.
- `RuntimeInspection` takes from `ProbeReports` which reports of a helper are
  believed, and from `ProcessSupervisor` that a helper has three ends: a report,
  nothing, or nothing with `unsafe_to_continue`.
- `Installer` extends `ReleaseFiles`. It uses the supervisor's result only as
  success or failure, so it has one failing branch (`Trouble`) per call.
- `ReleaseCustody` ends where `ReleasePublication` begins: a publication there is
  one run's bytes here.

Abstractions, beyond wording and parsing:

- *ProcessSupervisor*: a stream is a count of bytes, since only how many are
  kept matters; time is one event, `DeadlinePasses`; one descendant stands for all.
- *ReleaseCustody*: a file is a term naming what it was made from (tree, build,
  signing pass), so two signings differ. A release has at most one flaw, each
  standing for one check that alone would find it. Of a damaged download one file
  is changed, lost or added. Rendering, archives and the serving of a site are
  left out.
- *ReleasePublication*: digests, signatures, notes and archives of a run are the
  run's name, because signing gives different bytes each time. A listing
  (releases, then tags; the reading of `compose_releases`, which takes minutes)
  is one read per gate; every re-check the code makes is a step of its own.
  Artifact expiry and the limit on re-runs are not modelled. Dispatching replaces
  a queued run, as the concurrency group does.
- *Installer*: a package has a version (absent, older, the release's, newer) and
  an install time that every change makes new, where the database has seconds:
  a removal and a replay within one second are not told apart by the code.
  The installer is built with the location, metadata digest and key of one
  release; that release is right, or wrong in one fact from the start, or a mirror
  serves one file of another build at the step that downloads it. A replay reads
  private snapshots, so no mirror is asked again. dnf5's solver is external, may
  notice a wrong file itself, and may move an older unselected package along.
- *RuntimeInspection*, *ProbeReports*: versions, digests and PCI ids are the
  expected one or another. A helper prints what it found out, or the same report
  with one field off, for libraries that print and helpers of other releases; one
  field stands for all the text that is no strict JSON object. One accelerator node;
  files of a provider are examined in any order. The system starts healthy, then
  differs in up to `MaxEarly` places before it is looked at and changes up to
  `MaxLate` times afterwards, where something will still read it. A profile of
  another package manager than rpm blocks every check and is left out.
- *FedoraPackages*, *CandidateProfile*: a file is a build of its package with at
  most one flaw, and stands for its own digest; two packages whose questions equal
  another's are left out. A file changes, if at all, just before the tool looks at
  it next, because an earlier change is seen no differently. Gates and generator
  start from the first files only. `CandidateQualification` forgets the files once
  a session starts, since nothing reads them again.
- *SourceBundle*, *SourcePinning*: a commit names a source, a release and how often
  its tag had moved; a digest names source and commit; a clone has at most one
  flaw. While a bundle is made everything else waits: it reads lock and clones
  once, so nothing is lost by that. Which gitlinks a companion's commits have is a
  constant (`CompanionTrees`). An upstream's API answers, keeps failing or is gone for
  the whole of a behaviour, and any single query may fail once. The lag and length
  limit of GitHub's issue list are not modelled.

## 3. Runs

| Run | Shows |
|---|---|
| `supervisor` | all interleavings with failing system calls and a descendant: prefix and overflow of each stream, helper reaped, `Ok` complete, `Timeout` final; `run` returns unless the descendant stays on the pipes for ever |
| `supervisor_descendant` (violated) | a descendant holding a pipe keeps `run` past its deadline |
| `custody` | one release run with any one flaw, failing steps, lost runners, damaged downloads, re-runs and deleted artifacts: the key is on a runner only inside its window and only for what keyless checks passed; the second approval and the publication are of what was verified; a flawless release is refused by no step of any job, but for a signature in finalize that is larger than the limit; nothing is signed after attest unless someone re-runs what had succeeded; the run comes to rest without a key |
| `publication` | two runs with every kind of manual change between their calls: only released bytes are live, a deployment changes only its own version; while tags are kept and drafts left alone, versions are not reissued, at most one public version is not yet served, and deployments go only forward |
| `publication_resume` | with failures and lost answers at any call and room for one version on the site: a version becomes public only if it fits, and re-running brings a released version to the site |
| `publication_rerun` (violated) | re-running an older run removes a version whose release and tag were deleted although main records it |
| `installer` | sessions implement `ReviewedInstall`: only the plan agreed to, of a release right in every fact and with no file of another build, is replayed; it completes the selection, replaces what was shown, and what needs a reboot is reported; after failures, crashes and foreign changes the selection reaches the release |
| `installer_hidden` (violated) | a reboot left pending by an interrupted session is not reported by the next |
| `inspection` | the way of a candidate from RPMs over gates, generator, retargeting and validation to its collection, and every public command: an undisturbed gate and validator accept exactly what has nothing wrong they look for; what the generator publishes is bound to RPMs that gave all the answers; no tool touches a profile file it did not make; what is collected is what the records pin; exit 0 is earned (every package, file and the device were right at one moment of the inspection reported, every inference ran on the NPU, every believed report was sound in every field); a healthy system that keeps still gets it; every session ends |
| `inspection_activity` (violated) | `runtime.activity` passes through another client's work although no inference ran |
| `pinning` | watch and prepare runs beside moved tags, closed issues, merges, hand edits and bundles: no release has two open issues; a newer one gets one although queries of another upstream always fail and runs die, unless an upstream is gone; a lock prepared within the walk of `prepare_update` bundles; an output with SHA256SUMS is whole, and it is closed under gitlinks, those of companions included |
| `pinning_shared` (violated) | re-pinning a companion that two components bundle leaves the other's gitlink behind, and the prepared lock does not bundle |

A violated run checks one sentence of the documentation; `PROJECT.json`
(`findings`) quotes it beside the code. Smaller disagreements met while reading,
which need no run to see:

- `docs/install-fedora.md:128` says the status of dnf5 is reported verbatim; a
  failed replay exits 30 (`prepare.rs:490`).
- `docs/install-fedora.md:111` shows the privileged steps before the approval;
  `main.rs:86` prints them after it.
- `docs/install-fedora.md:127` gives 30 to a failed Fedora source verification;
  `prepare.rs:129` exits 20.
- `process.rs:112` compares the clock after `try_wait`, so a helper that exits
  between the two is reported as having overrun.
- `dnf.rs:25-26` says an installed package is kept explicitly; the composed
  transaction leaves it out.
- `docs/runtime-doctor.md:60` says native stderr is drained and discarded; more
  than 16 KiB of it turns a good report into `PROBE_OUTPUT_TOO_LARGE`
  (`inspect.rs:413`).
- `docs/runtime-doctor.md:47` says `reboot_required` becomes true when a matching
  provider was installed after the boot; when another reboot provider does not
  match, it stays false (`activity.rs:167`), which `HealthyExitsZero` allows for.

- `docs/ci.md:95` has failed upstream queries logged, and `test_upstream_watch.py:197-205`
  has one reported as a finding beside the others; but a 404 of the tags of a repository
  raises `_NotFound`, which `check_upstream.py:187` does not catch. The scan of all
  components then ends without `findings.json` for any of them, in every run for as
  long as that repository is gone (`ScanAborted`).

What the properties do not promise, because the code does not:

- an RPM changed twice, there and back, between the generator's two hashes goes
  unnoticed; `PublishedIsSound` holds up to one change of each;
- the package gates hash payload files but never an RPM, so `GatesAreExact` is
  about undisturbed runs;
- the generator validates the lock and reads it once more for its digest
  (hazard at `fedora_profile.rs:433`, covered by no property);
- with two late changes of the system a passing report may mix moments
  (hazard at `package.rs:159`);
- a lock prepared from one that bundles need not bundle, in three cases that
  `WithinTheWalk` names: the release added a gitlink; it moved a companion that another
  gitlink names too (`pinning_shared`); or it moved one whose own gitlinks
  differ at the new commit, which nothing rewrites, although `verify_gitlinks` compares
  them (`openvino-onnx` and `openvino-protobuf` have such, `provider-sources.toml:558-562`
  and `:582-592`). In all three the bundle refuses the lock, so `BundleIsClosed` holds;
- a bundled gitlink to a source that may not be passed on is accepted by every
  check and left out of the bundle; `BundleIsClosed` leaves it out as well;
- while an upstream is gone no newer release of any is promised an issue
  (`NewerIsTracked`);
- `GatesAreExact`, `ValidatorIsExact` and `HealthyExitsZero` are about files and systems
  that nobody changes meanwhile: payloads exchanged between their hash and `readelf`,
  a listed profile that is gone when it is read, and a mismatched reboot provider
  that hides another's reboot are hazards that no property covers;
- a workflow run has one Pages artifact in the model, so that pages-deploy takes the
  latest of several is not shown.

Bounds, and why they are enough:

- *supervisor*: outputs up to 3 bytes against limits 1 and 0, reads of up to 2
  bytes and pipes of 2: at the limit, one over, a read straddling it and a full
  pipe all occur. The proofs remove these bounds.
- *custody*: one failure, damaged download, re-run and deletion each let any two
  and more of them meet; sizes and signature lengths lie on both sides of the
  site's budget and of the limit for a signature, so a flawless release meets both
  the site it fills exactly and the signature that is too large. The proofs remove these bounds for
  every safety property.
- *publication*: two runs and two versions give an older and a newer run, the
  same version dispatched twice, and a release to retire; three landings on main
  let it be recorded and retired; two manual changes give delete-then-recreate
  and setting-off-then-on; one failure gives a lost answer and its re-run, two
  in `publication_resume` a second failure in that re-run. The site holds both
  versions in the first run and one in the second, where the budget bites. What
  a person did by hand to tags and drafts is remembered (`tampered`), because
  several properties promise nothing after it. The proofs remove these bounds for
  every property but `PublicBecomesLive`.
- *installer*: of the two selected packages one is absent and needs a reboot
  and one is older; an unselected package and a dependency are absent. Two
  foreign changes allow a change and a change back around each check, one
  failure a crash or a failing call; a flawed release uses up the foreign changes.
  `EventuallyInstalled` names the cases in which the code refuses for good: a wrong
  release, a mirror that stays wrong, a newer package, edited Fedora files, and an
  older unselected package that dnf5 insists on moving along. The proofs remove the
  bounds for all properties but this one.
- *inspection*: three components of which two share a package and its file, so
  that caches are shared; two reboot components; one conflict; two profiles and
  three kernel releases give every window, overlap and ambiguity. One early
  difference and one late change give a broken system, one repaired or broken
  between any two steps; of a system that differed early the late change only puts
  that back (`Mending`), since a second difference next to the first only adds to
  what must be refused. Two inferences and a counter up to two let it
  grow, stay and be reset. Six RPMs stand for the questions that differ, two of
  them OpenVINO's with payloads; two edits give a change and a change back around
  any question; two runs let one tool read what another wrote; two paths give
  profiles with one id twice. Device lists have up to three entries against a
  limit of two. The proofs remove these bounds for every property but
  `SessionEnds`; `ExitZeroWasEarned` itself allows one late change.
- *pinning*: two watched components, each with a companion that has a gitlink itself,
  which a new commit moves for one and leaves for the other; a system and a disabled
  gitlink, and one to a source that may not be passed on; releases that move gitlinks,
  add one, or change the kind of tag; two releases and two dispatches; the other
  upstream answers, always fails or is gone; one mishap (a dead job, a flawed clone, a moved or deleted tag, a
  closed issue, a deleted branch, a wrong hand edit). The proofs remove these
  bounds for every property but `NewerIsTracked`.

Deadlock checking is off for the publication runs only: nothing has to be
dispatched or landed, and a run may stop for good.

Fairness:

- *supervisor*: weak fairness of `run`'s own steps, of each reader, of time and
  of signal delivery (threads and the kernel make progress); none of a failing
  call, nor of the helper, which may hang, fill its pipes or ignore everything
  but the kill.
- *custody*: weak fairness of the workflow, which starts what can start and goes
  on with what runs, reviewers included; none of failures and re-runs.
- *publication*: weak fairness of a started job; strong fairness of re-running
  the last job reached, which `docs/release-process.md` asks of the operator
  ("Resuming"). `publication_resume` has no manual changes; the other run checks
  safety only.
- *installer*: weak fairness of a started session; strong fairness of starting
  one with `--yes`: the user keeps trying.
- *inspection*: weak fairness of the session, one thread whose calls return and
  whose helpers have deadlines (`LoseHelper`, which `ProcessSupervisor` justifies
  for helpers that start no process of their own); none of the helpers, tools or
  people.
- *pinning*: the watch is started for ever by its schedule, and a started process
  goes on. The strong fairness of the watch and the weak fairness of taking a
  bundle away only undo the model's waiting while a bundle is made.

## 4. Proofs

`ProcessSupervisorProofs` proves, for every limit, pipe capacity, read size and
output size, that the specification keeps type correctness, `RetainedIsPrefix`,
`ReturnsReaped`, `OkIsComplete`, `TimeoutIsFinal`, and that no reader thread
outlives `run` (`ReadersJoined`, which no run checks). The only assumption is
`SupervisorConstants`, which gives the constants their types.

None of these is inductive alone: what `run` returns depends on what the loop
broke with, and that on which readers were started. The inductive invariant is

    IInv == TypeOK /\ StreamInv /\ StartInv /\ LoopInv /\ ReturnInv

`StreamInv` counts each stream (what is written, in the pipe and kept; a reader
is done only when no writer is left), `StartInv` and `LoopInv` tie each point of
`run` to what has been started, killed and reaped, and `ReturnInv` is what then
holds of the result. `InitInv` and one lemma per group of actions show that it
is preserved, and each theorem follows from it.

That `run` returns is liveness, but all it rests on besides fairness is proved.
`StepsRunOut`: every step uses up some of `Fuel`, a natural number counted from the
place of the supervising thread, the processes that still live and the bytes still to be
written and read. Only the sleep between two polls costs nothing, and only before
the deadline. `NoWaitInVain`: whatever `run` waits for, the helper's exit or
the end of a reader, can still happen; a reader waits only for a process that holds
its pipe, and that is the helper itself only while a SIGKILL is on its way to it. What
is left is a descendant that never exits, which the run `supervisor_descendant` shows.

`InstallerProofs` proves the safety properties of `Installer`'s specification, all
but liveness, for any packages, versions and bounds and every flaw that
`ReleaseFiles` lists: `ImplementsReviewedInstall`, `ReviewedPlanCompletes`,
`ReplacesWhatWasShown`, `ReplayedIsReported`, type correctness, and `OnlyAsReviewed`,
which says directly what the session itself may change and which no run repeats. A check that has
passed is not made again, so the invariant says what holds from each step on: the
checks of the release that lie behind (`FlawInv`), what may be held of another
build (`HeldInv`), that the plan fits the inventory (`PlanInv`), that install times
only grow past what was observed (`ObservedInv`), and what a running replay still
has to do (`ReplayInv`). `SoundRelease` is the lemma that the checks together leave
no flaw: it goes through the facts one by one.

The refinement is proved on top of it, an action at a time: up to the review a session
only gathers (`EarlySteps`), `Agrees` uses `SoundRelease`, and `Replays` needs one more
invariant, that a running transaction has installed what it no longer has to
(`AppliedInv`). Any step but these may only end the session (`GivesUp`), so a crash, a
refusal or a failed call never leaves more behind than part of what was agreed to. The
count of others' changes is a variable of `ReviewedInstall`; without it a change that the
session makes could pass for another actor's. The assumption is
`InstallerConstants`; that dnf5 finds its stored transaction unfit for a changed
database is part of the model (`Replayable`), since dnf5 is external.

`EventuallyInstalled` is liveness; what it rests on besides fairness is proved.
`UndisturbedInstalls`: as long as nothing fails, nobody else acts, the release has no flaw
and no newer package or older part of the release is installed, no check of any session
refuses anything, and a session that is neither declined nor a dry run leaves every
selected package in place. The invariant `SmoothInv` says what such a session has in hand:
until the replay the observations are the present database, and the plan fits it
(`Fits`): exactly the selected packages that are not the release's and what dnf5 adds from
Fedora. `FittingPlan` shows it of every solution of dnf5, `FittingPasses` that the parser
accepts it. That a sound release passes is `SoundPasses`; with `SoundRelease` it
makes `ChecksAreExact`. `SessionsEnd`: every step of a session is to a later one, or finishes a
package, and nobody else moves it.

`SourcePinningProofs` proves `BundleIsWhole` of `SourcePinning`'s specification, for
any sources, gitlinks, releases, flaws and bounds. `BundleMoves` shows that every step of
the composition is a step of the bundling process or leaves bundle and output
alone; the invariant says that staging and output together hold all that may be
passed on, each archive the one its digest seals, as long as SHA256SUMS waits.
It needs the digest comparison of `Accepted` and the empty output of
`BundleStart`: a remainder of an earlier call would be counted as published.

The same module proves `BundleIsClosed`. An archive is known by its digest alone,
so every lock there is (main's, a branch's, the one a preparation works on) has to
record digests of its own commits: `OwnInv`, which a preparation keeps because
it hashes what it pins. `ClosedInv` adds what the gitlink comparison has shown of
the clones, companions included, once all sources passed, and that lock and trees
stay until the output is taken away. `PinningConstants` assumes one fact for it: the
prepare job's git writes tar as the one that bundles does (the flaw `tar` is left to the
bundling side).

Types and `PreparedBundles` follow from what the upstreams serve. Releases come one
after the other and keep their shape (`UpstreamInv`), so what a lock, an issue or a
preparation names stays released and its tree stays what it was (`TreeStays`). Every
lock names such releases for watched sources and commits alone for companions, with
the digest of the very commit (`LockOk`), whether the preparation, a merge or a hand
edit made it; `PinningTyped` is `TypeOK` for any constants. `PreparedBundle` then proves
`PreparedBundles` for any sources, gitlinks of components and companions, and releases.
The property itself says which releases it is about (`WithinTheWalk`, the three cases
of section 3 left out); the theorem shows that in this model there is no fourth: within
the walk every lock that bundles is turned into one that bundles. The run
`pinning_shared` shows the second case happen, with a companion shared as
level-zero-npu-extensions is in the tracked lock; `pinning` has releases of the first
and third. The proof goes through the walk over the gitlinks (`WalkIs`): a source
that was re-pinned belongs to the moved gitlink alone, so re-pinning it takes nothing
from another tree, its own tree is as it was, and it has no tag that would stop fitting,
because `apply_commit_pin` raises for a tagged record (`Repinnable`). `LockConstants`
assumes that paths are unique within a source, as `validate_gitlinks` checks;
`NoneIsNoRelease` only tells the mark of a missing release from releases.

It also proves `NoDuplicateIssue`. That is
not inductive, because a run judges by the issues it listed at its start while
people close issues and earlier findings are being opened. The invariant adds
that no finding is open already or found twice (`FoundIsNew`), and that every open
issue of a component yet to ask is among the listed keys (`AskedOnce`): only one
watch run exists at a time, which the workflow's concurrency group provides.

`ReleaseCustodyProofs` proves all safety properties of `ReleaseCustody` for any flaws,
failures, damage, re-runs and deletions. `KeyOnlyInWindow` says that a key on a
runner belongs to a running key job between import and destroy, whose inputs and
site have passed every check that needs no key. A job cannot look back that far:
it sees outputs of the jobs it needs. The invariant therefore carries what each
of them has established (`PreflightInv`, `VerifyInv`, `FinalizeInv`) along the
needs, beside the window itself (`WindowInv`) and the shape of jobs and runners
(`ShapeInv`). `NothingSignedAfterAttest` rests on the order of the jobs: as long as
nobody re-runs what had succeeded, whatever a started job needs has succeeded.

`ApprovalIsForVerified` and `PublishedIsVerified` look back over the whole chain, and
a re-run may replace any link of it. Their invariant `CInv` says what is true of each
job alone: what a running job holds at each step (`Held`), what a job that succeeded
has handed on (`Done`): the flaws its checks have ruled out, the build its files are
of, and for the later jobs the release files themselves; and that the jobs
a job needs have succeeded for as long as it runs or counts as succeeded
(`ChainInv`). A re-run of a job resets those that depend on it, and
because stages are ordered it resets nothing it needs. `FlawlessIsNotRefused` is the
converse, an action property: in a flawless release that fits, as long as nothing was
damaged, died or was re-run, no step of any of the eight jobs is a refusal (`Refusal`),
except where finalize makes a signature and one may exceed the limit (`Oversized`). Its
invariant `FInv` gives the contents of every file a job has at each of its steps (which
tree, which build, whose signature, what has been signed so far), so that each check can
be seen to pass, finalize's own included: the site without the key, every signature it
made, the signed site and the one it archives. `Unrefused` is then shown for every step.

`RunsToRest` is what `ComesToRest` needs besides fairness. The steps of every job are
ordered (`StepsAhead`, `Order`), and whatever happens to a job, a refusal, a killed step or a
lost runner included, brings it nearer to its end (`Nears`); since no other job moves
with it, `Work`, the sum over the eight jobs, falls. Only people make it grow, by re-runs,
and they act when all is at rest. `MaxFailures`, `MaxDamage` and `MaxReruns` play no part
in this: however often something fails between two actions of people, the run comes to
rest, with no key on any runner and no job at a step that nothing follows.

`RuntimeInspectionProofs` proves type correctness, `ExitZeroWasEarned` and
`HealthyExitsZero` of `RuntimeInspection`'s specification for any components, files,
packages, conflicts and matrices. `ExitZeroWasEarned` is about one moment at
which everything was right, while each check saw a different one. The argument:
the system changes at most once while it is looked at (`MaxLate <= 1`, the only
bound the theorem keeps; with two changes it is false, see the hazard at
`package.rs:159`). So there are two systems, before and after. If neither was fit,
each has a wrong place; when they differ in one place only and both are unfit, some
place is wrong in both (`CommonPlace`), and a place that is wrong whenever it is
looked at is found (`StuckInv`: what `inspect` has already asked about it is a
failing check, what it has not is still on the way). That the helpers' reports were sound is
`PassIsNotOff`, a fact about `ProbeReports`: a report with one field off parses to
nothing or makes no check pass. `HealthyExitsZero` needs the converse invariant (`FInv`):
as long as the system is healthy and still, every cached answer is the expected
one and every check that has run has passed.

`ReleasePublicationProofs` proves that the workflow implements `PublishedSite`, for
any runs, versions, sizes and bounds and any subset of the manual changes, and
with it type correctness. A run deploys what an earlier job composed, perhaps in
an earlier attempt, so the invariant says what its record promises from then on
(`RecordInv`: the run's own version with a content released under it, which stays
true because nothing is ever un-released) and what `check_deploy` has just added
(`DeployInv`: every other version is live with the recorded bytes; the concurrency
group keeps other deployments out until this one is made). `ReleasedInv` and
`DraftInv` tie public releases and the draft a run works on to what counts as
released. The lemmas take one action or group each; all but `Undraft`,
`PublishDraftByHand` and `Deploy` stutter on the site.

The same module proves `NeverReissued`. Alone it is not inductive: what keeps a
second run from releasing other bytes is the tag that the first one left, even
after its release was deleted. `IssueInv` says that every version has one release
at most, also while one is about to be created (`OneEach`), and that a released
version keeps a tag and has no draft, nor a run about to create one (`Spent`),
unless somebody tampered. Every module assumes only what its constants are
(`CustodyConstants`, `PublicationConstants`, `InspectionConstants`, ...).

`ReleaseForwardProofs` proves `AtMostOneBehind` and `DeploysOnlyForward`, which
depend on each other: a run may make its release public only because it has seen
every other public release served, and its deployment is the newest there is only
because nobody else could meanwhile publish. What a run has seen was true some steps
ago, so the invariant says what it may still rely on at each step (`ReliedInv`):
its release stays a draft, the room it measured has every other public
release, and when it deploys nothing newer has ever been released. Beneath are facts of the
shared state alone: versions only grow (`GrowInv`), what is live was released and a
composed site is complete (`ServedInv`), a version that was shown keeps its tag and
gets no other draft (`ShownInv`), and what a registry retires stays retired
(`RetiredInv`). Deleting a tag or editing a draft by hand breaks all but the
first two, which is why both properties promise nothing then.

The module also proves `PublicFitsPages`. `check_pages_room` counts long before the
release becomes public, and what it counted is a composition of that moment. `RoomInv`
keeps its result until `Undraft`; by `ReliedInv` that room has every other release
public by then, unless it is retired; so all that is public is within what was counted
(`FitUndraft`), and every other step only makes it less (`FitKept`). The sum itself is a
fold (`MapThenSumSet`). What a fold yields needs induction over data, and as the
library's induction rules take operators, the lemmas on it argue with smallest
counterexamples instead: among sets of parts of a finite set there is a smallest one
(`SmallestSet`, from the well-foundedness of strict inclusion). By it the fold's function
exists (`AddsExists`), the sum takes its elements in any order (`SizeWithout`), and a
larger set has the larger sum (`SizeGrows`).

Last it proves the safety half of `PublicBecomesLive`, `PublicGoesOn`, for as long as
nobody acts by hand. Take the run that made the newest public release (`Standing`). When
it is not in progress it can be run again from the job that it reached, when it has
succeeded its version is live, and every other public release that its registry does not
retire is live all along (`Resumable`). And no check refuses it: each of its moves is the
next step on the way from `classify` to `succeeded` (`Way`), but for failures and re-runs
(`GoesOn`). So once it is run again eleven steps without a failure are enough. Every check on
that way compares what the run has with what it reads, so the invariant `HandsOff` says
that nothing it compares has changed. What is public is settled, all its run's and tagged
with that run's commit (`PublishedInv`). What the run in progress has read is still so
(`SeenInv`), hence a run that gets as far as `Undraft` is `Clear`: `check_pages_room` passes for
it. And a standing run stays clear (`StandingInv`), its record is the site of all that is
public, and after its deployment it is the site that is served. Nobody else can come in
between: a release of the same version is kept out by the tag, an older one by
`compose_releases`, and a newer one by `check_live_sums` until this one is live or retired. The
proof has one lemma per group of actions for the invariant, and one per part of the way
(`PublishOnward`, `PagesOnward`). Somebody who deletes a release or moves a tag
does make the checks refuse, which they are there for, so the theorem does not go past the
first change by hand.

`CandidateQualificationProofs` proves every safety property of the run `inspection`
for the whole chain, from the RPMs to the collection: `PublishedIsSound`,
`GatesAreExact`, `ValidatorIsExact`, `OutputsAreKept`, `CollectedIsPinned` and the
types, and once more `ExitZeroWasEarned` and `HealthyExitsZero`, which the composition
takes over from `RuntimeInspectionProofs`. It holds for any family of OpenVINO
packages, any builds, paths, releases, runs and edits.

A tool asks some hundred questions in a fixed order, and what it knows is told by the
place it has reached. So the first lemmas are about the agendas alone
(`GenerateFacts`, `PairFacts`, `FamilyFacts`): which question comes where, what has
been asked before it, for any number of packages. The invariant of a running gate
then is that some place `k` exists from which the rest of the agenda is still to be
done (`GateInv`), and that
- what was asked before `k`, and nothing else, has an answer, and one that passed
  (`Answered`);
- as long as nobody interferes, the answers are those of the files that are there
  (`Undisturbed`);
- a package that was exchanged at most once since its first look has the digest
  first taken, and answers of that file alone, or will be found out by the second
  digest (`Rehashed`): this is why one exchange under `inspect` is harmless and why
  `PublishedIsSound` promises nothing after two;
- the generator's draft is of a complete set and of the lock it read (`Drafted`), and
  OpenVINO's gate has compared the payloads it has come to (`Compared`).
`RetargetInv` and `ValidateInv` say the same of the two other tools; `WorldInv` keeps
of every record that what was written is bound as what was read, and `TracedIsRooted`
concludes that any number of retargetings goes back to one run of the generator.
`GatesAreExact` and `ValidatorIsExact` are conjuncts of the invariant (`CandidateInv`),
since they are about tools that have ended. `QualificationInv` joins it with the
invariant of the session: before a session begins nothing has been inspected, once it
has begun the files are put away and the invariant of `RuntimeInspection` holds.
The assumptions are `PackageConstants`, `CandidateConstants`, `InspectionConstants`
and `QualificationConstants` (a profile's window is of releases a kernel may have).

Every safety property of a passing run is a theorem. Only model-checked are the
liveness properties (`RunReturns`, `PublicBecomesLive`, `EventuallyInstalled`,
`SessionEnds`, `ComesToRest`, `NewerIsTracked`): the prover has no rule for fairness.
For four of them the half that needs no fairness is a theorem, and only the step from
"there is work left, it shrinks, and somebody can do it" to "it gets done" is TLC's:
`StepsRunOut` and `NoWaitInVain` for `RunReturns`, `RunsToRest` for `ComesToRest`,
`SessionsEnd` and `UndisturbedInstalls` for `EventuallyInstalled`, and `PublicGoesOn`, up
to the first change by hand, for `PublicBecomesLive`.

## 5. Not modelled, and the plan

Left for later:

1. `LifecycleGate`: host, fixture server and guest of `tests/vm` over a reboot.
2. `DnfRunner`: the installer's own process runner (`dnf.rs`), whose children may
   outlive dnf5's deadline.
3. The report channel of the native probes, and platform detection file by file.
4. Licence evidence in the source lock.

Theorems worth proving next: the shrinking work behind `SessionEnds`, what of
`PublicGoesOn` survives which change by hand, and what a resumed publication has in
common with an undisturbed one, as a refinement of `PublishedSite`.

Left out for good: parsing and rendering (JSON, TOML, argument vectors), OpenPGP
and RPM signature arithmetic, the C++ vendor libraries, the vendored licence and
header trees, `check_kernels.py` and the other stateless checks of one commit.
