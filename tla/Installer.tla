------------------------------ MODULE Installer ------------------------------
(***************************************************************************)
(* intel-npu-stack-install (crates/stack-install): sessions that fetch a   *)
(* release, plan an exact native transaction, have it reviewed, recheck    *)
(* what it rests on, import the release key and replay it, beside other    *)
(* package managers, administrators and reboots.                           *)
(*                                                                         *)
(* Each observation (the Fedora files, the package database before, at     *)
(* planning and after) is taken at its own step; nothing locks the state   *)
(* between two of them except DNF itself while it replays.  A package is   *)
(* known by its version and its install time.  The release may be wrong in *)
(* one fact (ReleaseFiles), and a mirror may serve a file of another build *)
(* for a while; the private tree and the Fedora files are known by whether *)
(* they still hold the bytes that were verified.                           *)
(***************************************************************************)
EXTENDS ReleaseFiles

CONSTANTS
    Selected,    \* release packages the request selects
    Unselected,  \* the other packages of the release
    Deps,        \* Fedora packages the selected ones need
    Key,         \* the release key, a gpg-pubkey entry of the package database
    NeedReboot,  \* selected providers whose activation is a reboot
    Start,       \* the version of each package at first, 0 when absent
    None,        \* no value
    MaxFailures, \* bound: calls that fail and crashes
    MaxForeign   \* bound: changes other actors make to packages, files, mirrors and the tree

Packages == Selected \cup Unselected \cup Deps
Names == Packages \cup {Key}

\* A package is absent, older than the release, the release's, or newer.
Versions == 0 .. 3
Target == 2

\* The files a session downloads, and at which step.
DownloadedAt == [metadata |-> "fetch", signature |-> "signature", profile |-> "profile",
                 repomd |-> "plan", package |-> "plan", dependency |-> "plan"]
Files == DOMAIN DownloadedAt

ASSUME InstallerConstants ==
    /\ Selected \cap Unselected = {} /\ Selected \cap Deps = {} /\ Unselected \cap Deps = {}
    /\ Key \notin Packages
    /\ None \notin Nat /\ None \notin Files
    /\ Selected # {}
    /\ NeedReboot \subseteq Selected
    /\ Start \in [Names -> Versions]
    /\ MaxFailures \in Nat /\ MaxForeign \in Nat

VARIABLES
    installed, \* the package database: version and install time of each name
    etc,       \* the Fedora repository files: as captured, edited, or of a later native package
    flaw,      \* what the release as published is wrong in
    site,      \* the file a mirror serves of another build that the same key signed
    tree,      \* the private preparation tree: intact or altered
    pc,        \* where the session stands
    dryRun, yes, \* --dry-run and --yes
    before,    \* main's observation of the package database
    inventory, \* compose's observation, which the plan is bound to
    plan,      \* package -> the version the stored transaction replaces
    held,      \* the files of another build the session has taken
    todo,      \* packages the running replay still has to install
    code,      \* exit code of the last session, None while one runs or if it was killed
    status,    \* exit status of the last session's replay, None if none ended
    pending,   \* components the last session said need a reboot
    failures, foreign, \* budgets used
    approved,  \* history: this session's plan was accepted
    replayed,  \* history: packages this session's replay installed
    hidden     \* history: replayed since boot, need a reboot, never reported

published == <<flaw, site>>
release == ReleaseWith(flaw)
system == <<installed, etc, tree, published>>
observations == <<before, inventory, plan, held>>
request == <<dryRun, yes>>
report == <<code, status, pending>>
history == <<approved, replayed, hidden>>
vars == <<installed, etc, tree, flaw, site, pc, dryRun, yes, before, inventory, plan, held,
          todo, code, status, pending, failures, foreign, approved, replayed, hidden>>

Steps == {"fetch", "signature", "profile", "request", "sources", "before", "compose", "inventory",
          "plan", "parse", "bind", "review", "bound", "stored", "import", "confirm", "replay",
          "applying", "after"}

Database == [Names -> [version : Versions, time : Nat]]
Plans == UNION {[S -> Versions] : S \in SUBSET Packages}
NoPlan == [n \in {} |-> 0]

TypeOK ==
    /\ installed \in Database
    /\ etc \in {"shipped", "edited", "updated"}
    /\ flaw \in Flaws \cup {NoFlaw}
    /\ site \in Files \cup {None}
    /\ held \subseteq Files
    /\ tree \in {"intact", "altered"}
    /\ pc \in Steps \cup {"idle"}
    /\ dryRun \in BOOLEAN /\ yes \in BOOLEAN
    /\ before \in Database \cup {None}
    /\ inventory \in Database \cup {None}
    /\ plan \in Plans
    /\ todo \subseteq Packages
    /\ code \in {None, 0, 2, 10, 20, 21, 30}
    /\ status \in {None, 0, 1}
    /\ pending \subseteq NeedReboot
    /\ failures \in 0 .. MaxFailures
    /\ foreign \in 0 .. MaxForeign
    /\ approved \in BOOLEAN
    /\ replayed \subseteq Packages
    /\ hidden \subseteq NeedReboot

Init ==
    /\ installed = [n \in Names |-> [version |-> Start[n], time |-> 0]]
    /\ etc = "shipped" /\ tree = "intact"
    /\ pc = "idle" /\ dryRun = FALSE /\ yes = FALSE
    /\ flaw \in Flaws \cup {NoFlaw} /\ site = None
    /\ before = None /\ inventory = None /\ plan = NoPlan /\ held = {} /\ todo = {}
    /\ code = None /\ status = None /\ pending = {}
    /\ failures = 0
    /\ foreign = IF flaw = NoFlaw THEN 0 ELSE MaxForeign
    /\ approved = FALSE /\ replayed = {} /\ hidden = {}

-----------------------------------------------------------------------------
(* A session goes from step to step until it exits. *)

Advance(at, next) ==
    /\ pc = at
    /\ pc' = next
    /\ UNCHANGED <<request, todo, report, failures, foreign, history>>

\* The process ends; what it observed is gone, the package database is not.
End(c, native, reported) ==
    /\ pc' = "idle"
    /\ code' = c /\ status' = native /\ pending' = reported
    /\ before' = None /\ inventory' = None /\ plan' = NoPlan /\ held' = {} /\ todo' = {}
    /\ tree' = "intact"
    /\ UNCHANGED <<installed, etc, published, request, foreign, approved, replayed>>

Exit(at, c) == pc = at /\ End(c, None, {}) /\ UNCHANGED <<failures, hidden>>

\* A call of this step fails: the network, rpm, dnf, sudo or the file system.
Trouble(at, c) ==
    /\ pc = at
    /\ failures < MaxFailures
    /\ failures' = failures + 1
    /\ End(c, None, {})
    /\ UNCHANGED hidden

\* A step that goes on when what it looks at holds, and refuses when it does not.
Check(at, next, holds, c) ==
    /\ pc = at
    /\ \/ holds /\ Advance(at, next) /\ UNCHANGED <<system, observations>>
       \/ ~holds /\ Exit(at, c)

\* The process is killed, or the machine stops, at any step.
Crash ==
    /\ pc # "idle"
    /\ failures < MaxFailures
    /\ failures' = failures + 1
    /\ End(None, None, {})
    /\ UNCHANGED hidden

Begin(dry, assume) ==
    /\ pc = "idle"
    /\ pc' = "fetch"
    /\ dryRun' = dry /\ yes' = assume
    /\ code' = None /\ status' = None /\ pending' = {}
    /\ approved' = FALSE /\ replayed' = {}
    /\ UNCHANGED <<system, observations, todo, failures, foreign, hidden>>

\* A download that is verified before it is used, over the file the mirrors serve now.
Verify(at, next, file, holds) ==
    \/ /\ pc = at /\ holds
       /\ Advance(at, next)
       /\ held' = IF site = file THEN held \cup {file} ELSE held
       /\ UNCHANGED <<system, before, inventory, plan>>
    \/ pc = at /\ ~holds /\ Exit(at, 20)
    \/ Trouble(at, 20)

\* fetch_release: the digest of the metadata is compiled in.
MetadataIsPinned == site # "metadata"

\* fetch_release, as far as the digest of the metadata.
Fetch == Verify("fetch", "signature", "metadata", ValidLocation(release) /\ MetadataIsPinned)

\* The signature of another build is none of these bytes: verify_detached, parse_json.
FetchSignature ==
    Verify("signature", "profile", "signature",
           /\ site # "signature" /\ DetachedHolds(release)
           /\ ValidManifest(release) /\ NamesPinnedVersion(release))

\* The profile of another build is not the one the metadata lists: bind_profile.
FetchProfile ==
    Verify("profile", "request", "profile", site # "profile" /\ ProfileBinds(release))

\* detect_platform, validate_request, selected_packages.
CheckRequest ==
    \/ Advance("request", "sources") /\ UNCHANGED <<system, observations>>
    \/ \E c \in {2, 10, 30} : Trouble("request", c)

\* rpm -qf and -Vf: the files and the key are native packages' and unmodified.
NativeSources == etc # "edited"

\* parse_repository: exactly the enabled, checked metalink repositories that were captured.
CapturedSources == etc # "updated"

\* FedoraSources::verify_at
VerifySources ==
    \/ Check("sources", "before", NativeSources /\ CapturedSources, 20)
    \/ Trouble("sources", 20)

QueryBefore ==
    \/ /\ Advance("before", "compose")
       /\ before' = installed
       /\ UNCHANGED <<system, inventory, plan, held>>
    \/ Trouble("before", 30)

\* The links and digests verify_at recorded, of the files it accepted.
SourcesAsVerified == etc = "shipped"

\* compose, as far as the configuration of the planner.
Compose ==
    \/ Check("compose", "inventory",
             SourcesAsVerified /\ OwnRepository(release) /\ TrustsProjectKey(release), 20)
    \/ Trouble("compose", 20)

QueryInventory ==
    \/ /\ Advance("inventory", "plan")
       /\ inventory' = installed
       /\ UNCHANGED <<system, before, plan, held>>
    \/ Trouble("inventory", 30)

-----------------------------------------------------------------------------
(* Planning.  dnf5 solves against the database of its own moment. *)

Version(db, n) == db[n].version

\* What dnf5 stores: a row for each selected package that is not the release's,
\* for each dependency it lacks, and for an older package of the same release
\* that has to move along; no transaction at all when nothing is selected to move.
Solutions(db) ==
    LET moving == {n \in Selected : Version(db, n) # Target}
        lacking == {n \in Deps : Version(db, n) = 0}
        older == {n \in Unselected : Version(db, n) \in 1 .. Target - 1}
    IN IF moving = {} THEN {NoPlan}
       ELSE {[n \in moving \cup lacking \cup S |-> Version(db, n)] : S \in SUBSET older}

\* rpm.ver's order, asked of rpm itself (compare_rpm_versions).
Newer(db, n) == Version(db, n) > Target

\* What the planner takes of another build, if a mirror serves it.
Downloaded(rows) ==
    {site} \cap ({"repomd"} \cup (IF rows \cap Selected = {} THEN {} ELSE {"package"})
                            \cup (IF rows \cap Deps = {} THEN {} ELSE {"dependency"}))

\* run_in: an unusable log, too much output, a failing planner or its deadline.
PlannerFails == Trouble("plan", 30)

\* --no-allow-downgrade: a newer installed package makes the native planner fail.  The
\* planner may also notice itself what is wrong with the repository.
PlanDownloads ==
    \/ /\ \A n \in Selected : ~Newer(installed, n)
       /\ Advance("plan", "parse")
       /\ plan' \in Solutions(installed)
       /\ held' = held \cup Downloaded(DOMAIN plan')
       /\ UNCHANGED <<system, before, inventory>>
    \/ /\ site # None \/ flaw # NoFlaw \/ \E n \in Selected : Newer(installed, n)
       /\ Exit("plan", 30)
    \/ PlannerFails

\* FedoraRpm::verify: the dependencies' bytes are signed by Fedora's key alone.
FedoraSigned == "dependency" \notin held

\* discover_dependencies: a row is a selected package or a Fedora-signed dependency;
\* another package of the release fails the Fedora signature.
SignedRows == DOMAIN plan \cap Unselected = {} /\ FedoraSigned

\* The packages the plan is for.
Inputs == Selected \cup DOMAIN plan

\* What they still need, by the observed inventory.
Incoming == {n \in Inputs : Version(inventory, n) # Target}

\* Mutant: a row per package to install is not required.
ExactRowsIfAny ==
    /\ \A n \in Inputs : ~Newer(inventory, n)
    /\ DOMAIN plan \subseteq Incoming
    /\ \A n \in DOMAIN plan : plan[n] = Version(inventory, n)

\* Mutant: an input that is already in place is expected in the plan as well.
ExactRowsOfInputs ==
    /\ IF plan = NoPlan THEN Incoming = {} ELSE DOMAIN plan = Inputs
    /\ \A n \in DOMAIN plan : plan[n] = Version(inventory, n)

\* parse_inputs: the rows are exactly what is missing, replacing exactly what was
\* observed, never anything newer.
ExactRows ==
    /\ \A n \in Inputs : ~Newer(inventory, n)
    /\ DOMAIN plan = Incoming
    /\ \A n \in DOMAIN plan : plan[n] = Version(inventory, n)

ParsePlan ==
    \/ /\ Advance("parse", "bind")
       /\ SignedRows /\ ExactRows
       /\ UNCHANGED <<system, observations>>
    \/ pc = "parse" /\ ~(SignedRows /\ ExactRows) /\ \E c \in {20, 30} : Exit("parse", c)
    \/ Trouble("parse", 20)

\* NativePlan::verify_signatures, ProjectRpm::verify: each stored project package.
PackagesAuthentic ==
    DOMAIN plan \cap Selected # {} => "package" \notin held /\ ProjectRpmHolds(release)

\* bind_cache_and_snapshot: the metadata the planner used is the one the release lists.
CacheIsListed == "repomd" \notin held /\ CacheBinds(release)

\* The end of compose; every path is digested.
BindCache ==
    \/ Check("bind", "review", PackagesAuthentic /\ CacheIsListed, 20)
    \/ Trouble("bind", 20)

-----------------------------------------------------------------------------
(* Review and execution. *)

Accept ==
    /\ pc = "review"
    /\ pc' = "bound"
    /\ approved' = TRUE
    /\ UNCHANGED <<system, observations, request, todo, report, failures, foreign, replayed, hidden>>

\* Mutant: --yes is looked at before --dry-run.
ReviewPlanYesFirst ==
    \/ yes /\ plan # NoPlan /\ Accept
    \/ ((~yes /\ dryRun) \/ plan = NoPlan) /\ Exit("review", 0)
    \/ ~dryRun /\ plan # NoPlan /\ ~yes /\ (Accept \/ Exit("review", 2))

\* review_plan: a dry run and an exact no-op never yield a receipt; without --yes
\* the terminal decides.
ReviewPlan ==
    \/ (dryRun \/ plan = NoPlan) /\ Exit("review", 0)
    \/ ~dryRun /\ plan # NoPlan /\ Accept
    \/ ~dryRun /\ plan # NoPlan /\ ~yes /\ Exit("review", 2)
    \/ Trouble("review", 30)

\* verify_bound: the Fedora links and files and the bound files of the tree.
VerifyBound ==
    \/ Check("bound", "stored", SourcesAsVerified /\ tree = "intact", 20)
    \/ Trouble("bound", 20)

\* verify_packages: every stored package still is what the plan records.
StoredBytes == tree = "intact"

\* verify_stored and verify_signatures: the stored bytes and the observed state.
VerifyStored ==
    \/ Check("stored", "import", StoredBytes /\ installed = inventory, 30)
    \/ Trouble("stored", 30)

Put(db, n, v) == [db EXCEPT ![n] = [version |-> v, time |-> @.time + 1]]

\* rpmkeys --import leaves a key that is already there alone.
ImportKey ==
    \/ /\ Advance("import", "confirm")
       /\ installed' = IF Version(installed, Key) = 0 THEN Put(installed, Key, 1) ELSE installed
       /\ UNCHANGED <<etc, tree, published, observations>>
    \/ Trouble("import", 30)

\* verify_imported_key
ConfirmKey ==
    \/ Check("confirm", "replay", Version(installed, Key) # 0, 30)
    \/ Trouble("confirm", 30)

\* A replay that ends without success: exit 30, the tree preserved.
ReplayFailed ==
    /\ End(30, 1, {})
    /\ UNCHANGED <<failures, hidden>>

\* render_config: the replay's repositories are private snapshots of what planning used,
\* so no mirror is asked again.
Snapshots == tree = "intact"

\* Mutant: dnf5 is told to ignore what is installed.
ReplayableIgnoringInstalled == Snapshots /\ Version(installed, Key) # 0

\* dnf5 takes the database lock and checks the stored transaction against the
\* database, the packages against the imported key.
Replayable ==
    /\ Snapshots
    /\ Version(installed, Key) # 0
    /\ \A n \in DOMAIN plan : Version(installed, n) = plan[n]

Replay ==
    \/ /\ pc = "replay" /\ Replayable
       /\ pc' = "applying"
       /\ todo' = DOMAIN plan
       /\ UNCHANGED <<system, observations, request, report, failures, foreign, history>>
    \/ pc = "replay" /\ ~Replayable /\ ReplayFailed
    \/ Trouble("replay", 30)

Apply ==
    /\ pc = "applying"
    /\ \E n \in todo :
         /\ installed' = Put(installed, n, Target)
         /\ todo' = todo \ {n}
         /\ replayed' = replayed \cup {n}
         /\ hidden' = hidden \cup ({n} \cap NeedReboot)
    /\ UNCHANGED <<etc, tree, published, pc, request, observations, report, failures, foreign, approved>>

\* A scriptlet or the disk fails with part of the transaction in place.
ApplyFails ==
    /\ pc = "applying"
    /\ failures < MaxFailures
    /\ failures' = failures + 1
    /\ End(30, 1, {})
    /\ UNCHANGED hidden

ReplaySucceeds ==
    /\ pc = "applying" /\ todo = {}
    /\ pc' = "after"
    /\ status' = 0
    /\ UNCHANGED <<system, observations, request, todo, code, pending, failures, foreign, history>>

\* Mutant: a package is changed only when its version is.
ChangedVersion(n) == Version(before, n) # Version(installed, n)

\* verify_installation: a package is untouched when version and install time stayed.
Changed(n) == before[n] # installed[n]

VerifiedInstallation ==
    /\ \A n \in Selected : Version(installed, n) = Target
    /\ \A n \in Unselected : ~Changed(n)

\* Mutant: a changed provider counts whatever its activation is.
ReportedAnyway == {n \in Selected : Changed(n)}

\* The changed providers whose activation is a reboot.
Reported == {n \in NeedReboot : Changed(n)}

VerifyAfter ==
    \/ /\ pc = "after" /\ VerifiedInstallation
       /\ End(0, 0, Reported)
       /\ hidden' = hidden \ Reported
       /\ UNCHANGED failures
    \/ /\ pc = "after" /\ ~VerifiedInstallation
       /\ End(21, 0, {})
       /\ UNCHANGED <<failures, hidden>>
    \/ /\ pc = "after"
       /\ failures < MaxFailures
       /\ failures' = failures + 1
       /\ End(30, 0, {})
       /\ UNCHANGED hidden

-----------------------------------------------------------------------------
(* Other actors. *)

Foreign ==
    /\ foreign < MaxForeign
    /\ foreign' = foreign + 1
    /\ UNCHANGED <<pc, request, before, inventory, plan, held, todo, report, failures, approved, replayed>>

\* Another package manager installs, updates, reinstalls or removes a package, or
\* removes the key; the database lock keeps it out of a running replay.
ChangePackage ==
    /\ pc # "applying"
    /\ Foreign
    /\ \E n \in Names, v \in Versions :
         /\ Version(installed, n) = 0 => v # 0
         /\ n = Key => v = 0
         /\ installed' = Put(installed, n, v)
         /\ hidden' = hidden \ {n}
    /\ UNCHANGED <<etc, tree, published>>

\* An administrator edits the Fedora files, or an update brings other ones.
EditSources ==
    /\ Foreign
    /\ etc' \in {"shipped", "edited", "updated"} \ {etc}
    /\ UNCHANGED <<installed, tree, published, hidden>>

\* A mirror comes to serve a file of another build, at the latest when the session
\* downloads it, or serves the release's again.
ServeOther ==
    /\ Foreign
    /\ \/ site = None /\ site' \in {f \in Files : pc = DownloadedAt[f]}
       \/ pc = "idle" /\ site # None /\ site' = None
    /\ UNCHANGED <<installed, etc, tree, flaw, hidden>>

\* Something else of the user's, such as a cleaner of /tmp, touches the tree.
AlterTree ==
    /\ pc \in {"review", "bound", "stored", "import", "confirm", "replay"}
    /\ tree = "intact"
    /\ Foreign
    /\ tree' = "altered"
    /\ UNCHANGED <<installed, etc, published, hidden>>

Reboot ==
    /\ pc = "idle"
    /\ hidden # {}
    /\ hidden' = {}
    /\ UNCHANGED <<system, observations, pc, request, todo, report, failures, foreign, approved, replayed>>

-----------------------------------------------------------------------------

Session ==
    \/ Fetch \/ FetchSignature \/ FetchProfile \/ CheckRequest \/ VerifySources
    \/ QueryBefore \/ Compose \/ QueryInventory
    \/ PlanDownloads \/ ParsePlan \/ BindCache \/ ReviewPlan
    \/ VerifyBound \/ VerifyStored \/ ImportKey \/ ConfirmKey
    \/ Replay \/ Apply \/ ApplyFails \/ ReplaySucceeds \/ VerifyAfter

Next ==
    \/ \E dry, assume \in BOOLEAN : Begin(dry, assume)
    \/ Session \/ Crash
    \/ ChangePackage \/ EditSources \/ ServeOther \/ AlterTree \/ Reboot

Spec == Init /\ [][Next]_vars

\* A started session runs on, and the user keeps coming back to install for good.
Fairness ==
    /\ WF_vars(Session)
    /\ SF_vars(Begin(FALSE, TRUE))

FairSpec == Spec /\ Fairness

-----------------------------------------------------------------------------
(* Properties. *)

\* The session itself changes the package database only after its plan was accepted,
\* never in a dry run, never without one and never a package the plan does not list
\* (review_plan, execute_replay), while other actors change it as they like.  Nothing of
\* a release that is wrong in any fact, and no file of another build, gets as far, not
\* even the key (fetch_release, bind_profile, verify_signatures, bind_cache_and_snapshot).
OnlyAsReviewed ==
    [][installed' # installed /\ foreign' = foreign =>
         /\ approved /\ ~dryRun
         /\ flaw = NoFlaw /\ held = {}
         /\ \A n \in Names : installed'[n] # installed[n] => n \in DOMAIN plan \cup {Key}]_vars

\* The plan that is reviewed turns the observed packages into the release's, although
\* dnf5 planned on a later state than the one observed (parse_inputs).
ReviewedPlanCompletes ==
    pc \in {"review", "bound", "stored", "import", "confirm", "replay"} =>
        \A n \in Selected : n \in DOMAIN plan \/ Version(inventory, n) = Target

\* What a replay puts in place was, when it starts, at the version the review showed
\* as replaced: a change in between makes recheck or dnf5 refuse.
ReplacesWhatWasShown ==
    pc = "applying" => \A n \in todo : Version(installed, n) = Version(inventory, n)

\* A verified installation reports each provider it replayed that needs a reboot,
\* also one that was removed and put back at the same version (verify_installation).
ReplayedIsReported ==
    code = 0 /\ status = 0 => replayed \cap NeedReboot \subseteq pending

Phase ==
    IF pc \in {"bound", "stored", "import", "confirm", "replay"} THEN "agreed"
    ELSE IF pc = "applying" THEN "installing" ELSE IF pc = "after" THEN "installed" ELSE "open"

Reviewed == INSTANCE ReviewedInstall WITH
    others <- foreign, phase <- Phase, dry <- dryRun,
    genuine <- flaw = NoFlaw /\ held = {},
    shown <- IF Phase = "open" THEN NoPlan ELSE plan,
    left <- todo, put <- replayed,
    complete <- code = 0 /\ status = 0, told <- pending

\* Sessions implement the reviewed installation: between the acceptance and the report the
\* session itself changes nothing but the key and what was shown (review_plan,
\* execute_replay), it starts only over the versions shown as replaced and with nothing but
\* the verified release, and reports success only with the selection in place and with
\* all reboots due to what it replayed (verify_installation), whatever others do meanwhile.
ImplementsReviewedInstall == Reviewed!Spec

\* Failed calls, crashes within a replay and foreign changes leave nothing a later
\* session does not repair: it installs the release, unless a newer package stands in
\* the way, dnf5 has an older unselected one to move along, the Fedora files stay other
\* than captured, a mirror stays wrong, or the release itself is (parse_inputs, verify_at).
EventuallyInstalled ==
    <>[](\/ \A n \in Selected : Version(installed, n) = Target
         \/ etc # "shipped" \/ site # None \/ flaw # NoFlaw
         \/ \E n \in Selected : Version(installed, n) > Target
         \/ \E n \in Unselected : Version(installed, n) \in 1 .. Target - 1)

\* docs/install-fedora.md, "Reboot and relogin are reported, never hidden": a session
\* that exits 0, but a dry run, leaves no replayed provider waiting unreported.
RebootNeverHidden == code = 0 /\ ~dryRun => hidden = {}
=============================================================================
