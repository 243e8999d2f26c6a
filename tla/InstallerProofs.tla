--------------------------- MODULE InstallerProofs ---------------------------
(***************************************************************************)
(* What a session of the installer establishes on its way, for any         *)
(* packages, versions and bounds and for every flaw of a release.  IInv    *)
(* says what holds of release, plan and package database from each step    *)
(* on: a check that has passed is not made again, so what it has found has *)
(* to stay true while other actors go on.                                  *)
(* SmoothInv is the converse: what a session has that nothing disturbs.    *)
(***************************************************************************)
EXTENDS Installer, FiniteSetTheorems, TLAPS

\* From where on each thing is known.
Late == {"bound", "stored", "import", "confirm", "replay", "applying", "after"}
Bound == {"review"} \cup Late
Parsed == {"bind"} \cup Bound
Planned == {"parse"} \cup Parsed
Listed == {"plan"} \cup Planned
Configured == {"inventory"} \cup Listed
Observed == {"compose"} \cup Configured
Profiled == {"request", "sources", "before"} \cup Observed
Signed == {"profile"} \cup Profiled
Located == {"signature"} \cup Signed

\* Every check of the release that lies behind has passed.
FlawInv ==
    /\ pc \in Located => ValidLocation(release)
    /\ pc \in Signed => DetachedHolds(release) /\ ValidManifest(release) /\ NamesPinnedVersion(release)
    /\ pc \in Profiled => ProfileBinds(release)
    /\ pc \in Configured => OwnRepository(release) /\ TrustsProjectKey(release)
    /\ pc \in Bound => CacheBinds(release) /\ (DOMAIN plan \cap Selected # {} => ProjectRpmHolds(release))

\* What is held of another build: only what planning downloads, and nothing in the end.
HeldInv ==
    /\ pc \notin Planned => held = {}
    /\ held \subseteq {"repomd", "package", "dependency"}
    /\ "package" \in held => DOMAIN plan \cap Selected # {}
    /\ pc \in Parsed => "dependency" \notin held
    /\ pc \in Bound => held = {}

\* A plan moves a selected package, fits the inventory, and is accepted before execution.
PlanInv ==
    /\ pc \in Planned => plan = NoPlan \/ DOMAIN plan \cap Selected # {}
    /\ pc \in Parsed => ExactRows
    /\ pc \in Late => approved /\ ~dryRun /\ plan # NoPlan

\* Install times only grow.
ObservedInv ==
    /\ pc \in Observed =>
         before \in Database /\ \A n \in Names : before[n].time <= installed[n].time
    /\ pc \in Listed => inventory \in Database

\* A running replay still has to install what it finds as planned, and what it has
\* installed is newer than what was observed.
ReplayInv ==
    /\ pc = "applying" => todo \subseteq DOMAIN plan /\ \A n \in todo : Version(installed, n) = plan[n]
    /\ pc \in {"applying", "after"} => \A n \in replayed : before[n].time < installed[n].time
    /\ pc \notin {"idle", "applying", "after"} => replayed = {}

\* Only a session that has ended has a code.
ReportInv == IF pc = "idle" THEN ReplayedIsReported ELSE code = None

IInv == TypeOK /\ FlawInv /\ HeldInv /\ PlanInv /\ ObservedInv /\ ReplayInv /\ ReportInv

-----------------------------------------------------------------------------
\* At first no session runs.
LEMMA InitInv == Init => IInv
<1> SUFFICES ASSUME Init PROVE IInv
    OBVIOUS
<1>1. installed \in Database
    BY InstallerConstants DEF Init, Database
<1>2. NoPlan \in [{} -> Versions]
    BY DEF NoPlan
<1>3. plan \in Plans
    BY <1>2 DEF Init, Plans
<1>4. failures \in 0 .. MaxFailures /\ foreign \in 0 .. MaxForeign
    BY InstallerConstants DEF Init
<1>5. TypeOK
    BY <1>1, <1>3, <1>4 DEF Init, TypeOK
<1>6. pc \notin Located
    BY DEF Init, Located, Signed, Profiled, Observed, Configured, Listed, Planned, Parsed, Bound, Late
<1>7. FlawInv /\ HeldInv /\ PlanInv /\ ObservedInv
    BY <1>6 DEF Init, FlawInv, HeldInv, PlanInv, ObservedInv, Located, Signed, Profiled, Observed,
                Configured, Listed, Planned, Parsed, Bound
<1>8. ReplayInv /\ ReportInv
    BY DEF Init, ReplayInv, ReportInv, ReplayedIsReported
<1>9. QED BY <1>5, <1>7, <1>8 DEF IInv

\* A session that ends.
LEMMA EndStep ==
    ASSUME IInv, NEW c \in {None, 0, 2, 10, 20, 21, 30}, NEW native \in {None, 0, 1},
           NEW reported \in SUBSET NeedReboot, End(c, native, reported),
           failures' \in 0 .. MaxFailures, hidden' \subseteq NeedReboot,
           c = 0 /\ native = 0 => replayed \cap NeedReboot \subseteq reported
    PROVE  IInv'
<1>1. pc' = "idle" /\ UNCHANGED <<installed, etc, flaw, site, dryRun, yes, foreign, approved, replayed>>
    BY DEF End, published, request
<1>2. NoPlan \in [{} -> Versions]
    BY DEF NoPlan
<1>3. plan' \in Plans
    BY <1>2 DEF End, Plans
<1>4. TypeOK'
    BY <1>1, <1>3 DEF End, TypeOK, IInv
<1>5. pc' \notin Located
    BY <1>1 DEF Located, Signed, Profiled, Observed, Configured, Listed, Planned, Parsed, Bound, Late
<1>6. (FlawInv /\ HeldInv /\ PlanInv /\ ObservedInv)'
    BY <1>5 DEF End, FlawInv, HeldInv, PlanInv, ObservedInv, Located, Signed, Profiled, Observed,
                Configured, Listed, Planned, Parsed, Bound
<1>7. ReplayInv' /\ ReportInv'
    BY <1>1 DEF End, ReplayInv, ReportInv, ReplayedIsReported
<1>8. QED BY <1>4, <1>6, <1>7 DEF IInv

\* It refuses, or a call fails.
LEMMA ExitStep ==
    ASSUME IInv, NEW at, NEW c \in {0, 2, 10, 20, 21, 30}, Exit(at, c) \/ Trouble(at, c)
    PROVE  IInv'
<1>1. End(c, None, {}) /\ failures' \in 0 .. MaxFailures /\ hidden' \subseteq NeedReboot
    BY InstallerConstants DEF Exit, Trouble, IInv, TypeOK
<1>2. None # 0
    BY InstallerConstants
<1>3. QED BY <1>1, <1>2, EndStep

\* The ends of a replay that succeeds, and of any other.
LEMMA Ends ==
    ASSUME IInv, Crash \/ ApplyFails \/ (pc = "replay" /\ ReplayFailed) \/ VerifyAfter
    PROVE  IInv'
<1>1. None # 0 /\ hidden \subseteq NeedReboot /\ failures \in 0 .. MaxFailures /\ MaxFailures \in Nat
    BY InstallerConstants DEF IInv, TypeOK
<1>2. CASE Crash
    BY <1>1, <1>2, EndStep DEF Crash
<1>3. CASE ApplyFails \/ ReplayFailed
    BY <1>1, <1>3, EndStep DEF ApplyFails, ReplayFailed
<1>4. CASE pc = "after" /\ End(0, 0, Reported) /\ hidden' = hidden \ Reported /\ UNCHANGED failures
    <2>1. replayed \cap NeedReboot \subseteq Reported
        <3>1. before \in Database /\ installed \in Database /\ replayed \subseteq Names
            BY <1>4 DEF IInv, ObservedInv, TypeOK, Observed, Configured, Listed, Planned, Parsed,
                        Bound, Late, Names
        <3>2. ASSUME NEW n \in replayed PROVE before[n] # installed[n]
            <4>1. before[n].time < installed[n].time
                BY <1>4 DEF IInv, ReplayInv
            <4>2. before[n].time \in Nat /\ installed[n].time \in Nat
                BY <3>1 DEF Database
            <4>3. QED BY <4>1, <4>2
        <3>3. QED BY <3>2 DEF Reported, Changed
    <2>2. Reported \subseteq NeedReboot
        BY DEF Reported
    <2>3. QED BY <1>1, <1>4, <2>1, <2>2, EndStep
<1>5. CASE pc = "after" /\ ~(End(0, 0, Reported) /\ hidden' = hidden \ Reported /\ UNCHANGED failures)
    <2>1. CASE End(21, 0, {}) /\ UNCHANGED <<failures, hidden>>
        BY <1>1, <2>1, EndStep
    <2>2. CASE failures < MaxFailures /\ failures' = failures + 1 /\ End(30, 0, {}) /\ UNCHANGED hidden
        BY <1>1, <2>2, EndStep
    <2>3. CASE ~VerifyAfter
        BY <1>2, <1>3, <2>3, <1>5
    <2>4. QED BY <1>5, <2>1, <2>2, <2>3 DEF VerifyAfter
<1>6. QED BY <1>2, <1>3, <1>4, <1>5 DEF VerifyAfter

-----------------------------------------------------------------------------
\* A session that goes on before its plan is there, with what the step has found out.
LEMMA Onward ==
    ASSUME IInv, NEW at \in Steps, NEW next \in Steps \ {"applying", "after"}, Advance(at, next),
           at \notin {"applying", "after"},
           UNCHANGED <<installed, etc, tree, flaw, site>>,
           before' \in Database \cup {None}, inventory' \in Database \cup {None},
           plan' \in Plans, (FlawInv /\ HeldInv /\ PlanInv /\ ObservedInv)'
    PROVE  IInv'
<1>1. /\ pc = at /\ pc' = next
      /\ UNCHANGED <<dryRun, yes, todo, code, status, pending, failures, foreign, approved, replayed, hidden>>
    BY DEF Advance, request, report, history
<1>2. held' \subseteq Files
    BY DEF HeldInv, Files, DownloadedAt
<1>3. TypeOK'
    BY <1>1, <1>2 DEF TypeOK, IInv
<1>4. at # "idle" /\ next # "idle"
    BY DEF Steps
<1>5. ReplayInv' /\ ReportInv'
    BY <1>1, <1>4 DEF IInv, ReplayInv, ReportInv
<1>6. QED BY <1>3, <1>5 DEF IInv

\* Nothing is taken of a file whose bytes the step pins.
LEMMA Pinned ==
    ASSUME IInv, NEW at \in Steps, NEW next \in Located \ Planned, NEW file, NEW holds,
           holds => site # file, at \notin Planned, Verify(at, next, file, holds),
           pc' = next => FlawInv', next \notin Observed
    PROVE  IInv'
<1>1. CASE /\ pc = at /\ holds
           /\ Advance(at, next)
           /\ held' = IF site = file THEN held \cup {file} ELSE held
           /\ UNCHANGED <<system, before, inventory, plan>>
    <2>1. /\ held = {} /\ held' = {} /\ pc' = next
          /\ UNCHANGED <<installed, etc, tree, flaw, site, before, inventory, plan>>
        BY <1>1 DEF IInv, HeldInv, Advance, system, published
    <2>2. next \notin Planned /\ next \notin Parsed /\ next \notin Bound /\ next \notin Late
          /\ next \notin Listed /\ next \notin {"applying", "after", "idle"} /\ next \in Steps
        BY DEF Located, Signed, Profiled, Observed, Configured, Listed, Planned, Parsed, Bound, Late,
               Steps
    <2>3. (HeldInv /\ PlanInv /\ ObservedInv)'
        BY <2>1, <2>2 DEF HeldInv, PlanInv, ObservedInv
    <2>4. at \notin {"applying", "after"}
        BY DEF Planned, Parsed, Bound, Late
    <2>5. QED BY <1>1, <2>1, <2>2, <2>3, <2>4, Onward DEF IInv, TypeOK
<1>2. CASE Exit(at, 20) \/ Trouble(at, 20)
    BY <1>2, ExitStep
<1>3. QED BY <1>1, <1>2 DEF Verify

\* Fetching and verifying the release.
LEMMA FetchSteps ==
    ASSUME IInv, Fetch \/ FetchSignature \/ FetchProfile
    PROVE  IInv'
<1>0. /\ {"fetch", "signature", "profile"} \subseteq Steps \ Planned
      /\ {"signature", "profile", "request"} \subseteq (Located \ Planned) \ Observed
    BY DEF Steps, Located, Signed, Profiled, Observed, Configured, Listed, Planned, Parsed, Bound, Late
<1>1. CASE Fetch
    <2>1. ASSUME pc' = "signature" PROVE FlawInv'
        <3>1. Advance("fetch", "signature") /\ ValidLocation(release) /\ flaw' = flaw
            BY <1>1, <2>1 DEF Fetch, Verify, Exit, Trouble, End, system, published
        <3>2. release' = release
            BY <3>1 DEF release
        <3>3. QED BY <2>1, <3>1, <3>2 DEF FlawInv, Located, Signed, Profiled, Observed, Configured, Listed,
               Planned, Parsed, Bound, Late
    <2>2. ValidLocation(release) /\ MetadataIsPinned => site # "metadata"
        BY DEF MetadataIsPinned
    <2>3. QED BY <1>0, <1>1, <2>1, <2>2, Pinned DEF Fetch
<1>2. CASE FetchSignature
    <2>1. ASSUME pc' = "profile" PROVE FlawInv'
        <3>1. /\ Advance("signature", "profile") /\ flaw' = flaw
              /\ DetachedHolds(release) /\ ValidManifest(release) /\ NamesPinnedVersion(release)
            BY <1>2, <2>1 DEF FetchSignature, Verify, Exit, Trouble, End, system, published
        <3>2. pc = "signature" /\ release' = release
            BY <3>1 DEF Advance, release
        <3>3. QED BY <2>1, <3>1, <3>2 DEF FlawInv, IInv, Located, Signed, Profiled, Observed, Configured, Listed,
               Planned, Parsed, Bound, Late
    <2>2. QED BY <1>0, <1>2, <2>1, Pinned DEF FetchSignature
<1>3. CASE FetchProfile
    <2>1. ASSUME pc' = "request" PROVE FlawInv'
        <3>1. Advance("profile", "request") /\ flaw' = flaw /\ ProfileBinds(release)
            BY <1>3, <2>1 DEF FetchProfile, Verify, Exit, Trouble, End, system, published
        <3>2. pc = "profile" /\ release' = release
            BY <3>1 DEF Advance, release
        <3>3. QED BY <2>1, <3>1, <3>2 DEF FlawInv, IInv, Located, Signed, Profiled, Observed, Configured, Listed,
               Planned, Parsed, Bound, Late
    <2>2. QED BY <1>0, <1>3, <2>1, Pinned DEF FetchProfile
<1>4. QED BY <1>1, <1>2, <1>3

\* Looking at the host, and configuring the planner.
LEMMA HostSteps ==
    ASSUME IInv, CheckRequest \/ VerifySources \/ QueryBefore \/ Compose \/ QueryInventory
    PROVE  IInv'
<1> USE DEF Located, Signed, Profiled, Observed, Configured, Listed, Planned, Parsed, Bound, Late,
            Steps, system, published, observations
<1>1. CASE \/ \E c \in {2, 10, 20, 30} : \E at : Trouble(at, c)
           \/ Exit("sources", 20) \/ Exit("compose", 20)
    BY <1>1, ExitStep
<1>2. CASE /\ Advance("request", "sources") \/ Advance("sources", "before")
           /\ UNCHANGED <<system, observations>>
    <2>1. /\ UNCHANGED <<installed, etc, tree, flaw, site, before, inventory, plan, held>>
          /\ pc \in {"request", "sources"} /\ pc' \in {"sources", "before"}
        BY <1>2 DEF Advance
    <2>2. (FlawInv /\ HeldInv /\ PlanInv /\ ObservedInv)'
        BY <2>1 DEF IInv, FlawInv, HeldInv, PlanInv, ObservedInv, release
    <2>3. QED BY <1>2, <2>1, <2>2, Onward DEF IInv, TypeOK
<1>3. CASE /\ Advance("before", "compose") /\ before' = installed
           /\ UNCHANGED <<system, inventory, plan, held>>
    <2>1. /\ UNCHANGED <<installed, etc, tree, flaw, site, inventory, plan, held>>
          /\ pc = "before" /\ pc' = "compose" /\ installed \in Database
        BY <1>3 DEF Advance, IInv, TypeOK
    <2>2. (FlawInv /\ HeldInv /\ PlanInv)'
        BY <2>1 DEF IInv, FlawInv, HeldInv, PlanInv, release
    <2>3. \A n \in Names : installed[n].time <= installed[n].time
        BY <2>1 DEF Database
    <2>4. ObservedInv'
        BY <1>3, <2>1, <2>3 DEF ObservedInv
    <2>5. QED BY <1>3, <2>1, <2>2, <2>4, Onward DEF IInv, TypeOK
<1>4. CASE /\ Advance("compose", "inventory") /\ UNCHANGED <<system, observations>>
           /\ OwnRepository(release) /\ TrustsProjectKey(release)
    <2>1. /\ UNCHANGED <<installed, etc, tree, flaw, site, before, inventory, plan, held>>
          /\ pc = "compose" /\ pc' = "inventory"
        BY <1>4 DEF Advance
    <2>2. (FlawInv /\ HeldInv /\ PlanInv /\ ObservedInv)'
        BY <1>4, <2>1 DEF IInv, FlawInv, HeldInv, PlanInv, ObservedInv, release
    <2>3. QED BY <1>4, <2>1, <2>2, Onward DEF IInv, TypeOK
<1>5. CASE /\ Advance("inventory", "plan") /\ inventory' = installed
           /\ UNCHANGED <<system, before, plan, held>>
    <2>1. /\ UNCHANGED <<installed, etc, tree, flaw, site, before, plan, held>>
          /\ pc = "inventory" /\ pc' = "plan" /\ installed \in Database
        BY <1>5 DEF Advance, IInv, TypeOK
    <2>2. (FlawInv /\ HeldInv /\ PlanInv /\ ObservedInv)'
        BY <1>5, <2>1 DEF IInv, FlawInv, HeldInv, PlanInv, ObservedInv, release
    <2>3. QED BY <1>5, <2>1, <2>2, Onward DEF IInv, TypeOK
<1>6. CASE CheckRequest
    BY <1>1, <1>2, <1>6 DEF CheckRequest
<1>7. CASE VerifySources
    BY <1>1, <1>2, <1>7 DEF VerifySources, Check
<1>8. CASE QueryBefore
    BY <1>1, <1>3, <1>8 DEF QueryBefore
<1>9. CASE Compose
    BY <1>1, <1>4, <1>9 DEF Compose, Check
<1>10. CASE QueryInventory
    BY <1>1, <1>5, <1>10 DEF QueryInventory
<1>11. QED BY <1>6, <1>7, <1>8, <1>9, <1>10

-----------------------------------------------------------------------------
\* dnf5 moves a selected package, if it moves any.
LEMMA Solved ==
    ASSUME installed \in Database, NEW s \in Solutions(installed)
    PROVE  s \in Plans /\ (s = NoPlan \/ DOMAIN s \cap Selected # {})
<1> DEFINE moving == {n \in Selected : Version(installed, n) # Target}
           lacking == {n \in Deps : Version(installed, n) = 0}
           older == {n \in Unselected : Version(installed, n) \in 1 .. Target - 1}
<1>1. CASE moving = {}
    <2>1. s = NoPlan /\ NoPlan \in [{} -> Versions]
        BY <1>1 DEF Solutions, NoPlan
    <2>2. QED BY <2>1 DEF Plans
<1>2. CASE moving # {}
    <2>1. PICK S \in SUBSET older : s = [n \in moving \cup lacking \cup S |-> Version(installed, n)]
        BY <1>2 DEF Solutions
    <2>2. moving \cup lacking \cup S \subseteq Packages
        BY DEF Packages
    <2>3. \A n \in Packages : Version(installed, n) \in Versions
        BY DEF Database, Version, Names
    <2>4. s \in [moving \cup lacking \cup S -> Versions]
        BY <2>1, <2>2, <2>3
    <2>5. s \in Plans
        BY <2>2, <2>4 DEF Plans
    <2>6. DOMAIN s \cap Selected # {}
        BY <1>2, <2>4
    <2>7. QED BY <2>5, <2>6
<1>3. QED BY <1>1, <1>2

\* Planning and what is checked of the plan.
LEMMA PlanSteps ==
    ASSUME IInv, PlanDownloads \/ ParsePlan \/ BindCache
    PROVE  IInv'
<1> USE DEF Located, Signed, Profiled, Observed, Configured, Listed, Planned, Parsed, Bound, Late,
            Steps, system, published, observations
<1>1. CASE \E c \in {20, 30} : \E at : Trouble(at, c) \/ Exit(at, c)
    BY <1>1, ExitStep
<1>2. CASE /\ Advance("plan", "parse") /\ plan' \in Solutions(installed)
           /\ held' = held \cup Downloaded(DOMAIN plan')
           /\ UNCHANGED <<system, before, inventory>>
    <2>1. /\ UNCHANGED <<installed, etc, tree, flaw, site, before, inventory>>
          /\ pc = "plan" /\ pc' = "parse" /\ installed \in Database /\ held = {}
        BY <1>2 DEF Advance, IInv, TypeOK, HeldInv
    <2>2. plan' \in Plans /\ (plan' = NoPlan \/ DOMAIN plan' \cap Selected # {})
        BY <1>2, <2>1, Solved
    <2>3. /\ held' \subseteq {"repomd", "package", "dependency"}
          /\ "package" \in held' => DOMAIN plan' \cap Selected # {}
        BY <1>2, <2>1 DEF Downloaded
    <2>4. (HeldInv /\ PlanInv)'
        BY <2>1, <2>2, <2>3 DEF HeldInv, PlanInv
    <2>5. (FlawInv /\ ObservedInv)'
        BY <2>1 DEF IInv, FlawInv, ObservedInv, release
    <2>6. QED BY <1>2, <2>1, <2>2, <2>4, <2>5, Onward DEF IInv, TypeOK
<1>3. CASE Advance("parse", "bind") /\ SignedRows /\ ExactRows /\ UNCHANGED <<system, observations>>
    <2>1. /\ UNCHANGED <<installed, etc, tree, flaw, site, before, inventory, plan, held>>
          /\ pc = "parse" /\ pc' = "bind" /\ "dependency" \notin held
        BY <1>3 DEF Advance, SignedRows, FedoraSigned
    <2>2. ExactRows'
        BY <1>3, <2>1 DEF ExactRows, Inputs, Incoming
    <2>3. (FlawInv /\ HeldInv /\ PlanInv /\ ObservedInv)'
        BY <2>1, <2>2 DEF IInv, FlawInv, HeldInv, PlanInv, ObservedInv, release
    <2>4. QED BY <1>3, <2>1, <2>3, Onward DEF IInv, TypeOK
<1>4. CASE /\ Advance("bind", "review") /\ PackagesAuthentic /\ CacheIsListed
           /\ UNCHANGED <<system, observations>>
    <2>1. /\ UNCHANGED <<installed, etc, tree, flaw, site, before, inventory, plan, held>>
          /\ pc = "bind" /\ pc' = "review" /\ release' = release
        BY <1>4 DEF Advance, release
    <2>2. held = {}
        BY <1>4, <2>1 DEF PackagesAuthentic, CacheIsListed, IInv, HeldInv
    <2>3. CacheBinds(release) /\ (DOMAIN plan \cap Selected # {} => ProjectRpmHolds(release))
        BY <1>4 DEF PackagesAuthentic, CacheIsListed
    <2>4. ExactRows'
        BY <2>1 DEF IInv, PlanInv, ExactRows, Inputs, Incoming
    <2>5. (HeldInv /\ PlanInv /\ ObservedInv)'
        BY <2>1, <2>2, <2>4 DEF IInv, HeldInv, PlanInv, ObservedInv
    <2>6. FlawInv'
        BY <2>1, <2>3 DEF IInv, FlawInv, release
    <2>7. QED BY <1>4, <2>1, <2>5, <2>6, Onward DEF IInv, TypeOK
<1>5. CASE PlanDownloads
    BY <1>1, <1>2, <1>5 DEF PlanDownloads, PlannerFails
<1>6. CASE ParsePlan
    BY <1>1, <1>3, <1>6 DEF ParsePlan
<1>7. CASE BindCache
    BY <1>1, <1>4, <1>7 DEF BindCache, Check
<1>8. QED BY <1>5, <1>6, <1>7

-----------------------------------------------------------------------------
\* Once accepted, a plan is executed as it is.
LEMMA ReviewSteps ==
    ASSUME IInv, ReviewPlan \/ VerifyBound \/ VerifyStored \/ ConfirmKey
    PROVE  IInv'
<1> USE DEF Located, Signed, Profiled, Observed, Configured, Listed, Planned, Parsed, Bound, Late,
            Steps, system, published, observations
<1>1. CASE \E c \in {0, 2, 20, 30} : \E at : Trouble(at, c) \/ Exit(at, c)
    BY <1>1, ExitStep
<1>2. CASE ~dryRun /\ plan # NoPlan /\ Accept
    <2>1. /\ UNCHANGED <<installed, etc, tree, flaw, site, before, inventory, plan, held, dryRun, yes,
                         todo, code, status, pending, failures, foreign, replayed, hidden>>
          /\ pc = "review" /\ pc' = "bound" /\ approved' = TRUE /\ release' = release
        BY <1>2 DEF Accept, request, report, release
    <2>2. TypeOK'
        BY <2>1 DEF IInv, TypeOK
    <2>3. ExactRows'
        BY <2>1 DEF IInv, PlanInv, ExactRows, Inputs, Incoming
    <2>4. (HeldInv /\ PlanInv /\ ObservedInv /\ ReplayInv /\ ReportInv)'
        BY <1>2, <2>1, <2>3 DEF IInv, HeldInv, PlanInv, ObservedInv, ReplayInv, ReportInv
    <2>5. FlawInv'
        BY <2>1 DEF IInv, FlawInv, release
    <2>6. QED BY <2>2, <2>4, <2>5 DEF IInv
<1>3. CASE /\ \/ Advance("bound", "stored") \/ Advance("stored", "import")
              \/ Advance("confirm", "replay")
           /\ UNCHANGED <<system, observations>>
    <2>1. /\ UNCHANGED <<installed, etc, tree, flaw, site, before, inventory, plan, held>>
          /\ UNCHANGED <<approved, dryRun>>
          /\ pc \in {"bound", "stored", "confirm"} /\ pc' \in {"stored", "import", "replay"}
        BY <1>3 DEF Advance, request, history
    <2>2. ExactRows'
        BY <2>1 DEF IInv, PlanInv, ExactRows, Inputs, Incoming
    <2>3. (HeldInv /\ PlanInv /\ ObservedInv)'
        BY <2>1, <2>2 DEF IInv, HeldInv, PlanInv, ObservedInv
    <2>4. FlawInv'
        BY <2>1 DEF IInv, FlawInv, release
    <2>5. QED BY <1>3, <2>1, <2>3, <2>4, Onward DEF IInv, TypeOK
<1>4. CASE ReviewPlan
    BY <1>1, <1>2, <1>4 DEF ReviewPlan
<1>5. CASE VerifyBound
    BY <1>1, <1>3, <1>5 DEF VerifyBound, Check
<1>6. CASE VerifyStored
    BY <1>1, <1>3, <1>6 DEF VerifyStored, Check
<1>7. CASE ConfirmKey
    BY <1>1, <1>3, <1>7 DEF ConfirmKey, Check
<1>8. QED BY <1>4, <1>5, <1>6, <1>7

\* A change of a package gives it a later install time.
LEMMA PutIs ==
    ASSUME installed \in Database, NEW n \in Names, NEW v \in Versions, installed' = Put(installed, n, v)
    PROVE  /\ installed' \in Database /\ Version(installed', n) = v
           /\ installed[n].time < installed'[n].time
           /\ \A m \in Names \ {n} : installed'[m] = installed[m]
           /\ \A m \in Names : installed[m].time <= installed'[m].time
<1> DEFINE entry == [version |-> v, time |-> installed[n].time + 1]
<1>1. installed[n].time \in Nat /\ \A m \in Names : installed[m].time \in Nat
    BY DEF Database
<1>2. entry \in [version : Versions, time : Nat] /\ entry.version = v /\ entry.time = installed[n].time + 1
    BY <1>1
<1>3. installed' = [installed EXCEPT ![n] = entry]
    BY DEF Put, Database
<1> HIDE DEF entry
<1>4. /\ installed' \in Database /\ installed'[n] = entry
      /\ \A m \in Names \ {n} : installed'[m] = installed[m]
    BY <1>2, <1>3 DEF Database
<1>5. installed[n].time < installed'[n].time
    BY <1>1, <1>2, <1>4
<1>6. ASSUME NEW m \in Names PROVE installed[m].time <= installed'[m].time
    <2>1. CASE m = n
        BY <1>1, <1>2, <1>4, <2>1
    <2>2. CASE m # n
        BY <1>1, <1>4, <2>2
    <2>3. QED BY <2>1, <2>2
<1>7. QED BY <1>2, <1>4, <1>5, <1>6 DEF Version

\* So what was observed stays behind it.
LEMMA StillBehind ==
    ASSUME IInv, installed' \in Database, \A m \in Names : installed[m].time <= installed'[m].time,
           UNCHANGED <<before, inventory>>, pc' \in Observed => pc \in Observed,
           pc' \in Listed => pc \in Listed
    PROVE  /\ ObservedInv'
           /\ \A n \in replayed : pc \in {"applying", "after"} => before[n].time < installed'[n].time
<1>1. installed \in Database /\ \A n \in Names : installed[n].time \in Nat /\ installed'[n].time \in Nat
    BY DEF IInv, TypeOK, Database
<1>2. pc \in Observed => before \in Database /\ \A n \in Names : before[n].time \in Nat
    BY DEF IInv, ObservedInv, Database
<1>3. ObservedInv'
    BY <1>1, <1>2 DEF IInv, ObservedInv
<1>4. ASSUME NEW n \in replayed, pc \in {"applying", "after"}
      PROVE  before[n].time < installed'[n].time
    <2>1. n \in Names /\ before[n].time < installed[n].time
        BY <1>4 DEF IInv, TypeOK, ReplayInv, Names
    <2>2. pc \in Observed
        BY <1>4 DEF Observed, Configured, Listed, Planned, Parsed, Bound, Late
    <2>3. QED BY <1>1, <1>2, <2>1, <2>2
<1>5. QED BY <1>3, <1>4

\* What a plan is about.
LEMMA PlanIs == ASSUME TypeOK PROVE DOMAIN plan \subseteq Packages
BY DEF TypeOK, Plans

\* The key, and the replay of the plan.
LEMMA ReplaySteps ==
    ASSUME IInv, ImportKey \/ Replay \/ Apply \/ ReplaySucceeds
    PROVE  IInv'
<1> USE DEF Located, Signed, Profiled, Observed, Configured, Listed, Planned, Parsed, Bound, Late,
            Steps, system, published, observations
<1>1. CASE \E at : Trouble(at, 30)
    BY <1>1, ExitStep
<1>2. CASE pc = "replay" /\ ReplayFailed
    BY <1>2, Ends
<1>3. TypeOK /\ installed \in Database /\ DOMAIN plan \subseteq Packages /\ Key \in Names
    BY PlanIs DEF IInv, TypeOK, Names
<1>4. CASE /\ Advance("import", "confirm")
           /\ installed' = IF Version(installed, Key) = 0 THEN Put(installed, Key, 1) ELSE installed
           /\ UNCHANGED <<etc, tree, published, observations>>
    <2>1. /\ UNCHANGED <<etc, tree, flaw, site, before, inventory, plan, held, dryRun, yes, todo, code,
                         status, pending, failures, foreign, approved, replayed, hidden>>
          /\ pc = "import" /\ pc' = "confirm"
        BY <1>4 DEF Advance, request, report, history
    <2>2. installed' \in Database /\ \A m \in Names : installed[m].time <= installed'[m].time
        <3>1. CASE installed' = Put(installed, Key, 1)
            BY <1>3, <3>1, PutIs DEF Versions
        <3>2. CASE installed' = installed
            BY <1>3, <3>2 DEF Database
        <3>3. QED BY <1>4, <3>1, <3>2
    <2>3. ObservedInv'
        BY <2>1, <2>2, StillBehind
    <2>4. TypeOK'
        BY <2>1, <2>2, <1>3 DEF TypeOK
    <2>5. ExactRows'
        BY <2>1 DEF IInv, PlanInv, ExactRows, Inputs, Incoming
    <2>6. (HeldInv /\ PlanInv /\ ReplayInv /\ ReportInv)'
        BY <2>1, <2>5 DEF IInv, HeldInv, PlanInv, ReplayInv, ReportInv
    <2>7. FlawInv'
        BY <2>1 DEF IInv, FlawInv, release
    <2>8. QED BY <2>3, <2>4, <2>6, <2>7 DEF IInv
<1>5. CASE /\ pc = "replay" /\ Replayable /\ pc' = "applying" /\ todo' = DOMAIN plan
           /\ UNCHANGED <<system, observations, request, report, failures, foreign, history>>
    <2>1. UNCHANGED <<installed, etc, tree, flaw, site, before, inventory, plan, held, dryRun, yes, code,
                      status, pending, failures, foreign, approved, replayed, hidden>>
        BY <1>5 DEF request, report, history
    <2>2. TypeOK'
        BY <1>3, <1>5, <2>1 DEF TypeOK
    <2>3. ExactRows'
        BY <1>5, <2>1 DEF IInv, PlanInv, ExactRows, Inputs, Incoming
    <2>4. (HeldInv /\ PlanInv /\ ObservedInv /\ ReportInv)'
        BY <1>5, <2>1, <2>3 DEF IInv, HeldInv, PlanInv, ObservedInv, ReportInv
    <2>5. ReplayInv'
        BY <1>5, <2>1 DEF IInv, ReplayInv, Replayable
    <2>6. FlawInv'
        BY <1>5, <2>1 DEF IInv, FlawInv, release
    <2>7. QED BY <2>2, <2>4, <2>5, <2>6 DEF IInv
<1>6. CASE Apply
    <2>1. /\ UNCHANGED <<etc, tree, flaw, site, pc, before, inventory, plan, held, dryRun, yes, code,
                         status, pending, failures, foreign, approved>>
          /\ pc = "applying"
        BY <1>6 DEF Apply, request, report
    <2>2. PICK n \in todo : /\ installed' = Put(installed, n, Target)
                            /\ todo' = todo \ {n}
                            /\ replayed' = replayed \cup {n}
                            /\ hidden' = hidden \cup ({n} \cap NeedReboot)
        BY <1>6 DEF Apply
    <2>3. n \in Packages /\ n \in Names /\ Target \in Versions
        BY <1>3, <2>2 DEF TypeOK, Names, Target, Versions
    <2>4. /\ installed' \in Database /\ installed[n].time < installed'[n].time
          /\ \A m \in Names \ {n} : installed'[m] = installed[m]
          /\ \A m \in Names : installed[m].time <= installed'[m].time
        BY <1>3, <2>2, <2>3, PutIs
    <2>5. ObservedInv' /\ \A m \in replayed : before[m].time < installed'[m].time
        BY <2>1, <2>4, StillBehind
    <2>6. TypeOK'
        BY <1>3, <2>1, <2>2, <2>3, <2>4 DEF TypeOK
    <2>7. before[n].time < installed'[n].time
        <3>1. before \in Database /\ before[n].time <= installed[n].time
            BY <2>1, <2>3 DEF IInv, ObservedInv
        <3>2. before[n].time \in Nat /\ installed[n].time \in Nat /\ installed'[n].time \in Nat
            BY <1>3, <2>3, <2>4, <3>1 DEF Database
        <3>3. QED BY <2>4, <3>1, <3>2
    <2>8. \A m \in todo' : m \in DOMAIN plan /\ Version(installed', m) = plan[m]
        <3>1. ASSUME NEW m \in todo' PROVE m \in DOMAIN plan /\ Version(installed', m) = plan[m]
            <4>1. m \in todo /\ m # n /\ m \in Names
                BY <1>3, <2>2, <3>1 DEF TypeOK, Names
            <4>2. m \in DOMAIN plan /\ Version(installed, m) = plan[m]
                BY <2>1, <4>1 DEF IInv, ReplayInv
            <4>3. QED BY <2>4, <4>1, <4>2 DEF Version
        <3>2. QED BY <3>1
    <2>9. ReplayInv'
        BY <2>1, <2>2, <2>5, <2>7, <2>8 DEF ReplayInv
    <2>10. ExactRows'
        BY <2>1 DEF IInv, PlanInv, ExactRows, Inputs, Incoming
    <2>11. (HeldInv /\ PlanInv /\ ReportInv)'
        BY <2>1, <2>10 DEF IInv, HeldInv, PlanInv, ReportInv
    <2>12. FlawInv'
        BY <2>1 DEF IInv, FlawInv, release
    <2>13. QED BY <2>5, <2>6, <2>9, <2>11, <2>12 DEF IInv
<1>7. CASE ReplaySucceeds
    <2>1. /\ UNCHANGED <<installed, etc, tree, flaw, site, before, inventory, plan, held, dryRun, yes, todo,
                         code, pending, failures, foreign, approved, replayed, hidden>>
          /\ pc = "applying" /\ pc' = "after" /\ status' = 0
        BY <1>7 DEF ReplaySucceeds, request, history
    <2>2. TypeOK'
        BY <1>3, <2>1 DEF TypeOK
    <2>3. ExactRows'
        BY <2>1 DEF IInv, PlanInv, ExactRows, Inputs, Incoming
    <2>4. (HeldInv /\ PlanInv /\ ObservedInv /\ ReplayInv /\ ReportInv)'
        BY <2>1, <2>3 DEF IInv, HeldInv, PlanInv, ObservedInv, ReplayInv, ReportInv
    <2>5. FlawInv'
        BY <2>1 DEF IInv, FlawInv, release
    <2>6. QED BY <2>2, <2>4, <2>5 DEF IInv
<1>8. CASE ImportKey
    BY <1>1, <1>4, <1>8 DEF ImportKey
<1>9. CASE Replay
    BY <1>1, <1>2, <1>5, <1>9 DEF Replay
<1>10. QED BY <1>6, <1>7, <1>8, <1>9

-----------------------------------------------------------------------------
\* What others do to files, mirrors and the tree.
LEMMA OthersStep ==
    ASSUME IInv, EditSources \/ ServeOther \/ AlterTree \/ Reboot \/ UNCHANGED vars
    PROVE  IInv'
<1>1. UNCHANGED <<installed, flaw, pc, before, inventory, plan, held, dryRun, yes, todo, code,
                  status, pending, failures, approved, replayed>>
    BY DEF EditSources, ServeOther, AlterTree, Reboot, Foreign, vars, published, request, report,
           system, observations
<1>2. /\ etc' \in {"shipped", "edited", "updated"} /\ site' \in Files \cup {None}
      /\ tree' \in {"intact", "altered"} /\ hidden' \subseteq NeedReboot
      /\ foreign' \in 0 .. MaxForeign
    <2>1. foreign' = foreign \/ (foreign < MaxForeign /\ foreign' = foreign + 1)
        BY DEF EditSources, ServeOther, AlterTree, Reboot, Foreign, vars
    <2>2. hidden' = hidden \/ hidden' = {}
        BY DEF EditSources, ServeOther, AlterTree, Reboot, vars
    <2>3. foreign' \in 0 .. MaxForeign
        BY <2>1, InstallerConstants DEF IInv, TypeOK
    <2>4. QED BY <2>2, <2>3 DEF EditSources, ServeOther, AlterTree, Reboot, vars, published, system,
                                IInv, TypeOK
<1>3. TypeOK'
    BY <1>1, <1>2 DEF IInv, TypeOK
<1>4. ExactRows' <=> ExactRows
    BY <1>1 DEF ExactRows, Inputs, Incoming
<1>5. (HeldInv /\ PlanInv /\ ObservedInv /\ ReplayInv /\ ReportInv)'
    BY <1>1, <1>4 DEF IInv, HeldInv, PlanInv, ObservedInv, ReplayInv, ReportInv, ReplayedIsReported
<1>6. FlawInv'
    BY <1>1 DEF IInv, FlawInv, release
<1>7. QED BY <1>3, <1>5, <1>6 DEF IInv

\* What another package manager does, except while dnf5 replays.
LEMMA PackageStep ==
    ASSUME IInv, ChangePackage
    PROVE  IInv'
<1>1. /\ UNCHANGED <<etc, tree, flaw, site, pc, before, inventory, plan, held, dryRun, yes, todo, code,
                     status, pending, failures, approved, replayed>>
      /\ pc # "applying" /\ foreign < MaxForeign /\ foreign' = foreign + 1
    BY DEF ChangePackage, Foreign, published, request, report
<1>2. PICK n \in Names, v \in Versions : installed' = Put(installed, n, v) /\ hidden' = hidden \ {n}
    BY DEF ChangePackage
<1>3. installed' \in Database /\ \A m \in Names : installed[m].time <= installed'[m].time
    BY <1>2, PutIs DEF IInv, TypeOK
<1>4. ObservedInv' /\ \A m \in replayed : pc \in {"applying", "after"} => before[m].time < installed'[m].time
    BY <1>1, <1>3, StillBehind
<1>5. foreign' \in 0 .. MaxForeign
    BY <1>1, InstallerConstants DEF IInv, TypeOK
<1>6. TypeOK'
    BY <1>1, <1>2, <1>3, <1>5 DEF IInv, TypeOK
<1>7. ExactRows' <=> ExactRows
    BY <1>1 DEF ExactRows, Inputs, Incoming
<1>8. (HeldInv /\ PlanInv /\ ReplayInv /\ ReportInv)'
    BY <1>1, <1>4, <1>7 DEF IInv, HeldInv, PlanInv, ReplayInv, ReportInv, ReplayedIsReported
<1>9. FlawInv'
    BY <1>1 DEF IInv, FlawInv, release
<1>10. QED BY <1>4, <1>6, <1>8, <1>9 DEF IInv

\* The user starts another session.
LEMMA BeginStep ==
    ASSUME IInv, NEW dry \in BOOLEAN, NEW assume \in BOOLEAN, Begin(dry, assume)
    PROVE  IInv'
<1>1. /\ UNCHANGED <<installed, etc, tree, flaw, site, before, inventory, plan, held, todo, failures,
                     foreign, hidden>>
      /\ pc = "idle" /\ pc' = "fetch" /\ dryRun' = dry /\ yes' = assume
      /\ code' = None /\ status' = None /\ pending' = {} /\ approved' = FALSE /\ replayed' = {}
    BY DEF Begin, system, published, observations
<1>2. TypeOK'
    BY <1>1 DEF IInv, TypeOK, Steps
<1>3. held' = {}
    BY <1>1 DEF IInv, HeldInv, Planned, Parsed, Bound, Late
<1>4. pc' \notin Located
    BY <1>1 DEF Located, Signed, Profiled, Observed, Configured, Listed, Planned, Parsed, Bound, Late
<1>5. (FlawInv /\ HeldInv /\ PlanInv /\ ObservedInv)'
    BY <1>3, <1>4 DEF FlawInv, HeldInv, PlanInv, ObservedInv, Located, Signed, Profiled, Observed,
                      Configured, Listed, Planned, Parsed, Bound
<1>6. (ReplayInv /\ ReportInv)'
    BY <1>1 DEF ReplayInv, ReportInv
<1>7. QED BY <1>2, <1>5, <1>6 DEF IInv

\* No step breaks it.
LEMMA StepInv == IInv /\ [Next]_vars => IInv'
<1> SUFFICES ASSUME IInv, [Next]_vars PROVE IInv'
    OBVIOUS
<1>1. CASE Session
    BY <1>1, FetchSteps, HostSteps, PlanSteps, ReviewSteps, ReplaySteps, Ends DEF Session
<1>2. CASE \E dry, assume \in BOOLEAN : Begin(dry, assume)
    BY <1>2, BeginStep
<1>3. QED BY <1>1, <1>2, Ends, PackageStep, OthersStep DEF Next

-----------------------------------------------------------------------------
\* Plan, inventories and reports keep their shape, however calls fail and others act.
THEOREM TypeCorrect == Spec => []TypeOK
<1>1. IInv => TypeOK
    BY DEF IInv
<1>2. QED BY <1>1, InitInv, StepInv, PTL DEF Spec

\* The plan that is reviewed turns the observed packages into the release's, although
\* dnf5 planned on a later state than the one observed (parse_inputs).
THEOREM PlanCompletes == Spec => []ReviewedPlanCompletes
<1>1. IInv => ReviewedPlanCompletes
    BY DEF IInv, PlanInv, ReviewedPlanCompletes, ExactRows, Inputs, Incoming, Parsed, Bound, Late
<1>2. QED BY <1>1, InitInv, StepInv, PTL DEF Spec

\* What a replay has still to put in place is at the version the review showed as
\* replaced: a change in between makes verify_stored or dnf5 refuse.
THEOREM ShownIsReplaced == Spec => []ReplacesWhatWasShown
<1>1. IInv => ReplacesWhatWasShown
    BY DEF IInv, PlanInv, ReplayInv, ReplacesWhatWasShown, ExactRows, Parsed, Bound, Late
<1>2. QED BY <1>1, InitInv, StepInv, PTL DEF Spec

\* A verified installation reports each provider it replayed that needs a reboot, also
\* one that was removed and put back: install times tell (verify_installation).
THEOREM ReportsReplayed == Spec => []ReplayedIsReported
<1>1. IInv => ReplayedIsReported
    BY InstallerConstants DEF IInv, ReportInv, ReplayedIsReported
<1>2. QED BY <1>1, InitInv, StepInv, PTL DEF Spec

-----------------------------------------------------------------------------
\* Every signature but a good one by the pinned key is noticed (verify_signature_status).
LEMMA GoodSignature ==
    ASSUME NEW r, DetachedHolds(r), r.fingerprint = "keyring",
           r.signature \in {"bad", "expired", "stranger", "weak", "text", "cosigned"}
    PROVE  FALSE
<1>1. SignatureStatusHolds(GnupgStatus(r), "keyring") /\ r.signature # "bad"
    BY DEF DetachedHolds, GnupgAccepts
<1>2. CASE r.signature = "expired"
    BY <1>1, <1>2 DEF SignatureStatusHolds, Neutral, GnupgStatus, Says, By, Valid
<1>3. CASE r.signature \in {"stranger", "weak", "text"}
    <2>1. CASE r.signature = "stranger"
        BY <1>1, <2>1 DEF SignatureStatusHolds, GnupgStatus, One, Says, By, Valid
    <2>2. CASE r.signature = "weak"
        BY <1>1, <2>2 DEF SignatureStatusHolds, GnupgStatus, One, Says, By, Valid
    <2>3. CASE r.signature = "text"
        BY <1>1, <2>3 DEF SignatureStatusHolds, GnupgStatus, One, Says, By, Valid
    <2>4. QED BY <1>3, <2>1, <2>2, <2>3
<1>4. CASE r.signature = "cosigned"
    BY <1>1, <1>4 DEF SignatureStatusHolds, GnupgStatus, One, Says, By, Valid
<1>5. QED BY <1>1, <1>2, <1>3, <1>4

\* A release that passes every check on its way is wrong in nothing.
LEMMA SoundRelease ==
    ASSUME flaw \in Flaws \cup {NoFlaw}, ValidLocation(release), DetachedHolds(release),
           ValidManifest(release), NamesPinnedVersion(release), ProfileBinds(release),
           OwnRepository(release), TrustsProjectKey(release), CacheBinds(release),
           ProjectRpmHolds(release)
    PROVE  flaw = NoFlaw
<1> SUFFICES ASSUME flaw \in Flaws PROVE FALSE
    OBVIOUS
<1>0. PICK f \in DOMAIN Facts : \E i \in 2 .. Len(Facts[f]) : flaw = <<f, i>>
    BY DEF Flaws
<1>1. PICK i \in 2 .. Len(Facts[f]) : flaw = <<f, i>>
    BY <1>0
<1> DEFINE r == release
           x == Facts[f][i]
<1>2. r = [Sound EXCEPT ![f] = x] /\ r[f] = x
    BY <1>1 DEF release, ReleaseWith, NoFlaw, Sound
<1>3. r.fingerprint = "keyring"
    BY DEF TrustsProjectKey
<1>4. CASE f = "signature"
    <2>1. x \in {"bad", "expired", "stranger", "weak", "text", "cosigned"} /\ r.signature = x
        BY <1>1, <1>2, <1>4 DEF Facts
    <2> HIDE DEF r, x
    <2>2. DetachedHolds(r)
        BY DEF r
    <2>3. QED BY <1>3, <2>1, <2>2, GoodSignature
<1>5. CASE f = "location"
    <2>1. x \in {"moving", "plain"} /\ r.location = x
        BY <1>1, <1>2, <1>5 DEF Facts
    <2>2. QED BY <2>1 DEF ValidLocation, ExactUrl
<1>6. CASE f = "keyring"
    <2>1. x \in {"binary", "broken"} /\ r.keyring = x
        BY <1>1, <1>2, <1>6 DEF Facts
    <2>2. QED BY <2>1 DEF TrustsProjectKey
<1>7. CASE f = "fingerprint"
    <2>1. x \in {"other"} /\ r.fingerprint = x
        BY <1>1, <1>2, <1>7 DEF Facts
    <2>2. QED BY <2>1 DEF TrustsProjectKey
<1>8. CASE f = "schema"
    <2>1. x \in {2} /\ r.schema = x
        BY <1>1, <1>2, <1>8 DEF Facts
    <2>2. QED BY <2>1 DEF ValidManifest
<1>9. CASE f = "version"
    <2>1. x \in {"other"} /\ r.version = x
        BY <1>1, <1>2, <1>9 DEF Facts
    <2>2. QED BY <2>1 DEF NamesPinnedVersion
<1>10. CASE f = "url"
    <2>1. x \in {"moving"} /\ r.url = x
        BY <1>1, <1>2, <1>10 DEF Facts
    <2>2. QED BY <2>1 DEF ValidManifest, ExactUrl
<1>11. CASE f = "repository"
    <2>1. x \in {"fedora", "malformed"} /\ r.repository = x
        BY <1>1, <1>2, <1>11 DEF Facts
    <2>2. QED BY <2>1 DEF OwnRepository, ValidManifest
<1>12. CASE f = "packages"
    <2>1. x \in {"none", "excessive"} /\ r.packages = x
        BY <1>1, <1>2, <1>12 DEF Facts
    <2>2. QED BY <2>1 DEF ValidManifest
<1>13. CASE f = "naming"
    <2>1. x \in {"no_epoch", "other_dist", "other_filename", "other_arch"} /\ r.naming = x
        BY <1>1, <1>2, <1>13 DEF Facts
    <2>2. QED BY <2>1 DEF ValidManifest, ValidPackages
<1>14. CASE f = "names"
    <2>1. x \in {"repeated"} /\ r.names = x
        BY <1>1, <1>2, <1>14 DEF Facts
    <2>2. QED BY <2>1 DEF ValidManifest
<1>15. CASE f = "required"
    <2>1. x \in {"absent", "devel"} /\ r.required = x
        BY <1>1, <1>2, <1>15 DEF Facts
    <2>2. QED BY <2>1 DEF ValidManifest
<1>16. CASE f = "profile"
    <2>1. x \in {"other"} /\ r.profile = x
        BY <1>1, <1>2, <1>16 DEF Facts
    <2>2. QED BY <2>1 DEF ProfileBinds
<1>17. CASE f = "profiled"
    <2>1. x \in {"unparsed", "other_release", "other_platform"} /\ r.profiled = x
        BY <1>1, <1>2, <1>17 DEF Facts
    <2>2. QED BY <2>1 DEF ProfileBinds
<1>18. CASE f = "component"
    <2>1. x \in {"absent", "not_runtime", "other_nevr", "other_digest"} /\ r.component = x
        BY <1>1, <1>2, <1>18 DEF Facts
    <2>2. QED BY <2>1 DEF ProfileBinds
<1>19. CASE f = "verdict"
    <2>1. x \in {"forbidden", "external_only"} /\ r.verdict = x
        BY <1>1, <1>2, <1>19 DEF Facts
    <2>2. QED BY <2>1 DEF ProfileBinds
<1>20. CASE f = "repomd"
    <2>1. x \in {"other", "unsigned"} /\ r.repomd = x
        BY <1>1, <1>2, <1>20 DEF Facts
    <2>2. QED BY <2>1 DEF CacheBinds
<1>21. CASE f = "bytes"
    <2>1. x \in {"other"} /\ r.bytes = x
        BY <1>1, <1>2, <1>21 DEF Facts
    <2>2. QED BY <2>1 DEF ProjectRpmHolds, NativeRpmHolds
<1>22. CASE f = "signers"
    <2>1. x \in {"none", "other", "both"} /\ r.signers = x
        BY <1>1, <1>2, <1>22 DEF Facts
    <2>2. QED BY <2>1 DEF ProjectRpmHolds, NativeRpmHolds
<1>23. CASE f = "header"
    <2>1. x \in {"other_name", "other_nevr", "other_arch"} /\ r.header = x
        BY <1>1, <1>2, <1>23 DEF Facts
    <2>2. QED BY <2>1 DEF ProjectRpmHolds
<1>24. QED BY <1>4, <1>5, <1>6, <1>7, <1>8, <1>9, <1>10, <1>11, <1>12, <1>13,
            <1>14, <1>15, <1>16, <1>17, <1>18, <1>19, <1>20, <1>21, <1>22, <1>23 DEF Facts

\* The session itself changes the package database only after its plan was accepted, never
\* in a dry run and never a package the plan does not list; nothing of a release that is
\* wrong in any fact, and no file of another build, gets as far.
THEOREM OnlyReviewed == Spec => OnlyAsReviewed
<1> DEFINE AsReviewed ==
        installed' # installed /\ foreign' = foreign =>
            /\ approved /\ ~dryRun
            /\ flaw = NoFlaw /\ held = {}
            /\ \A n \in Names : installed'[n] # installed[n] => n \in DOMAIN plan \cup {Key}
<1>1. ASSUME IInv, [Next]_vars PROVE AsReviewed
    <2> SUFFICES ASSUME installed' # installed, foreign' = foreign PROVE AsReviewed
        OBVIOUS
    <2>1. ~Foreign
        BY <1>1, InstallerConstants DEF Foreign, IInv, TypeOK
    <2>2. (ImportKey /\ pc = "import") \/ Apply
        BY <1>1, <2>1 DEF Next, vars, Begin, Session, Crash, ChangePackage, EditSources, ServeOther,
                    AlterTree, Reboot, Fetch, FetchSignature, FetchProfile, CheckRequest,
                    VerifySources, QueryBefore, Compose, QueryInventory, PlanDownloads, PlannerFails,
                    ParsePlan, BindCache, ReviewPlan, Accept, VerifyBound, VerifyStored, ImportKey,
                    ConfirmKey, Replay, ReplayFailed, ApplyFails, ReplaySucceeds, VerifyAfter, Verify,
                    Check, Exit, Trouble, End, Advance, system
    <2>3. pc \in {"import", "applying"}
        BY <2>2 DEF Apply
    <2>4. pc \in Late /\ pc \in Bound /\ pc \in Configured /\ pc \in Profiled /\ pc \in Signed
          /\ pc \in Located /\ pc \in Planned
        BY <2>3 DEF Located, Signed, Profiled, Observed, Configured, Listed, Planned, Parsed, Bound,
                    Late
    <2>5. approved /\ ~dryRun /\ held = {} /\ DOMAIN plan \cap Selected # {}
        BY <1>1, <2>4 DEF IInv, PlanInv, HeldInv
    <2>6. flaw = NoFlaw
        BY <1>1, <2>4, <2>5, SoundRelease DEF IInv, TypeOK, FlawInv
    <2>7. ASSUME NEW n \in Names, installed'[n] # installed[n] PROVE n \in DOMAIN plan \cup {Key}
        <3>1. PICK m \in DOMAIN plan \cup {Key}, v \in Versions : installed' = Put(installed, m, v)
            <4>1. CASE Apply
                <5>1. todo \subseteq DOMAIN plan
                    BY <1>1, <4>1 DEF IInv, ReplayInv, Apply
                <5>2. QED BY <4>1, <5>1 DEF Apply, Target, Versions
            <4>2. CASE ImportKey
                <5>1. installed' = Put(installed, Key, 1)
                    BY <4>2, <2>3 DEF ImportKey, Trouble, End
                <5>2. QED BY <5>1 DEF Versions
            <4>3. QED BY <2>2, <4>1, <4>2
        <3>2. n = m
            BY <1>1, <2>7, <3>1 DEF Put, IInv, TypeOK, Database
        <3>3. QED BY <3>2
    <2>8. QED BY <2>5, <2>6, <2>7
<1>2. IInv /\ [Next]_vars => [AsReviewed]_vars
    BY <1>1
<1>3. QED BY <1>2, InitInv, StepInv, PTL DEF Spec, OnlyAsReviewed

-----------------------------------------------------------------------------
(* Sessions implement the reviewed installation. *)

\* What the promise says of a step.
ReviewedStep == Reviewed!Next \/ UNCHANGED Reviewed!vars

\* A running transaction has installed what it no longer has to.
AppliedInv == pc = "applying" => replayed \cup todo = DOMAIN plan

\* Where a session stands in the eyes of the user.
LEMMA PhaseIs ==
    /\ Phase = "open" <=> pc \notin Late
    /\ Phase = "agreed" <=> pc \in Late \ {"applying", "after"}
    /\ Phase = "installing" <=> pc = "applying"
    /\ Phase = "installed" <=> pc = "after"
BY DEF Phase, Late

\* It grows as the rest shrinks, and no one else comes near it.
LEMMA AppliedStep == IInv /\ AppliedInv /\ [Next]_vars => AppliedInv'
<1> SUFFICES ASSUME IInv, AppliedInv, [Next]_vars, pc' = "applying"
             PROVE  replayed' \cup todo' = DOMAIN plan'
    BY DEF AppliedInv
<1>1. CASE pc = "applying" /\ UNCHANGED <<replayed, todo, plan>>
    BY <1>1 DEF AppliedInv
<1>2. CASE Replay
    <2>1. pc = "replay" /\ todo' = DOMAIN plan /\ UNCHANGED <<replayed, plan>>
        BY <1>2 DEF Replay, ReplayFailed, Trouble, End, observations, history
    <2>2. QED BY <2>1 DEF IInv, ReplayInv
<1>3. CASE Apply
    BY <1>3 DEF Apply, AppliedInv, observations
<1>4. CASE \E dry, assume \in BOOLEAN : Begin(dry, assume)
    BY <1>4 DEF Begin
<1>5. CASE Crash \/ ApplyFails \/ ReplaySucceeds \/ VerifyAfter
    BY <1>5 DEF Crash, ApplyFails, ReplaySucceeds, VerifyAfter, End
<1>6. CASE ChangePackage \/ EditSources \/ ServeOther \/ AlterTree \/ Reboot \/ UNCHANGED vars
    BY <1>1, <1>6 DEF ChangePackage, EditSources, ServeOther, AlterTree, Reboot, Foreign, vars, observations
<1>7. ASSUME NEW at, NEW c, Exit(at, c) \/ Trouble(at, c) PROVE FALSE
    BY <1>7 DEF Exit, Trouble, End
<1>8. ASSUME NEW at, NEW next, Advance(at, next) PROVE next = "applying"
    BY <1>8 DEF Advance
<1>9. CASE Fetch \/ FetchSignature \/ FetchProfile \/ CheckRequest \/ VerifySources
           \/ QueryBefore \/ Compose \/ QueryInventory
    BY <1>7, <1>8, <1>9 DEF Fetch, FetchSignature, FetchProfile, CheckRequest, VerifySources, QueryBefore,
       Compose, QueryInventory, Verify, Check
<1>10. CASE PlanDownloads \/ ParsePlan \/ BindCache \/ VerifyBound \/ VerifyStored \/ ImportKey \/ ConfirmKey
    BY <1>7, <1>8, <1>10 DEF PlanDownloads, PlannerFails, ParsePlan, BindCache, VerifyBound, VerifyStored,
       ImportKey, ConfirmKey, Check
<1>11. CASE ReviewPlan
    BY <1>7, <1>11 DEF ReviewPlan, Accept
<1>12. QED BY <1>2, <1>3, <1>4, <1>5, <1>6, <1>9, <1>10, <1>11 DEF Next, Session

\* What a session does before its plan is accepted.
LEMMA Gathers ==
    ASSUME pc \notin Late, pc' \notin Late,
           UNCHANGED <<installed, foreign, dryRun, todo, replayed, code, status, pending>>
    PROVE  ReviewedStep
<1>1. Phase = "open" /\ Phase' = "open"
    BY PhaseIs DEF Phase, Late
<1>2. (flaw' = NoFlaw /\ held' = {}) \in BOOLEAN
    OBVIOUS
<1>3. Reviewed!Gather
    BY <1>1, <1>2 DEF Reviewed!Gather
<1>4. QED BY <1>3 DEF ReviewedStep, Reviewed!Next

\* A session that ends closes what it had open,
LEMMA Closes ==
    ASSUME NEW c, NEW native, NEW reported, End(c, native, reported)
    PROVE  Reviewed!Closed
<1>1. Phase' = "open" /\ todo' = {} /\ UNCHANGED <<installed, foreign, dryRun, replayed>>
    BY DEF End, Phase, request
<1>2. (flaw' = NoFlaw /\ held' = {}) \in BOOLEAN
    OBVIOUS
<1>3. NoPlan = Reviewed!Nothing
    BY DEF NoPlan, Reviewed!Nothing
<1>4. QED BY <1>1, <1>2, <1>3 DEF Reviewed!Closed

\* and does not report success,
LEMMA GivesUp ==
    ASSUME NEW c, NEW native, End(c, native, {}), ~(c = 0 /\ native = 0)
    PROVE  ReviewedStep
<1>1. (code' = 0 /\ status' = 0) = FALSE /\ pending' = {}
    BY DEF End
<1>2. Reviewed!GiveUp
    BY <1>1, Closes DEF Reviewed!GiveUp
<1>3. QED BY <1>2 DEF ReviewedStep, Reviewed!Next

\* also when it refuses or a call fails.
LEMMA Refuses ==
    ASSUME NEW at, NEW c, Exit(at, c) \/ Trouble(at, c)
    PROVE  ReviewedStep
<1>1. End(c, None, {}) /\ None # 0
    BY InstallerConstants DEF Exit, Trouble
<1>2. QED BY <1>1, GivesUp

\* Steps that change nothing the user was promised.
LEMMA Quiet ==
    ASSUME Phase' = Phase,
           UNCHANGED <<installed, foreign, dryRun, flaw, held, plan, todo, replayed, code, status, pending>>
    PROVE  ReviewedStep
BY DEF ReviewedStep, Reviewed!vars

\* All steps up to the review.
LEMMA EarlySteps ==
    ASSUME Fetch \/ FetchSignature \/ FetchProfile \/ CheckRequest \/ VerifySources
           \/ QueryBefore \/ Compose \/ QueryInventory \/ PlanDownloads \/ ParsePlan \/ BindCache
    PROVE  ReviewedStep
<1>1. ASSUME NEW at, NEW c, Exit(at, c) \/ Trouble(at, c) PROVE ReviewedStep
    BY <1>1, Refuses
<1>2. ASSUME NEW at, NEW next, at \notin Late, next \notin Late, Advance(at, next),
             installed' = installed
      PROVE  ReviewedStep
    <2>1. pc \notin Late /\ pc' \notin Late
          /\ UNCHANGED <<installed, foreign, dryRun, todo, replayed, code, status, pending>>
        BY <1>2 DEF Advance, request, report, history
    <2>2. QED BY <2>1, Gathers
<1>3. CASE Fetch \/ FetchSignature \/ FetchProfile \/ CheckRequest
    BY <1>1, <1>2, <1>3 DEF Fetch, FetchSignature, FetchProfile, CheckRequest, Verify, system, Late
<1>4. CASE VerifySources \/ QueryBefore \/ Compose \/ QueryInventory
    BY <1>1, <1>2, <1>4 DEF VerifySources, QueryBefore, Compose, QueryInventory, Check, system, Late
<1>5. CASE PlanDownloads \/ ParsePlan \/ BindCache
    BY <1>1, <1>2, <1>5 DEF PlanDownloads, PlannerFails, ParsePlan, BindCache, Check, system, Late
<1>6. QED BY <1>3, <1>4, <1>5

\* The user agrees to what was verified in every fact.
LEMMA Agrees ==
    ASSUME IInv, ReviewPlan
    PROVE  ReviewedStep
<1>1. CASE \E c : Exit("review", c) \/ Trouble("review", c)
    BY <1>1, Refuses
<1>2. CASE ~dryRun /\ plan # NoPlan /\ Accept
    <2>1. /\ pc = "review" /\ pc' = "bound"
          /\ UNCHANGED <<installed, foreign, dryRun, flaw, held, plan, todo, replayed, code, status, pending>>
        BY <1>2 DEF Accept, system, published, observations, request, report
    <2>2. pc \in Bound /\ pc \in Configured /\ pc \in Profiled /\ pc \in Signed /\ pc \in Located
          /\ pc \in Planned
        BY <2>1 DEF Located, Signed, Profiled, Observed, Configured, Listed, Planned, Parsed, Bound
    <2>3. held = {} /\ DOMAIN plan \cap Selected # {} /\ plan \in Plans
        BY <1>2, <2>2 DEF IInv, PlanInv, HeldInv, TypeOK
    <2>4. flaw = NoFlaw
        BY <2>2, <2>3, SoundRelease DEF IInv, TypeOK, FlawInv
    <2>5. Phase = "open" /\ Phase' = "agreed"
        BY <2>1 DEF Phase
    <2>6. DOMAIN plan \subseteq Packages
        BY PlanIs DEF IInv
    <2>7. Reviewed!Agree
        BY <1>2, <2>1, <2>3, <2>4, <2>5, <2>6 DEF Reviewed!Agree
    <2>8. QED BY <2>7 DEF ReviewedStep, Reviewed!Next
<1>3. QED BY <1>1, <1>2 DEF ReviewPlan

\* The checks after the review look, and refuse or go on.
LEMMA Rechecks ==
    ASSUME VerifyBound \/ VerifyStored \/ ConfirmKey
    PROVE  ReviewedStep
<1>1. ASSUME NEW at, NEW c, Exit(at, c) \/ Trouble(at, c) PROVE ReviewedStep
    BY <1>1, Refuses
<1>2. ASSUME NEW at, NEW next, Advance(at, next), UNCHANGED <<system, observations>>,
             <<at, next>> \in {<<"bound", "stored">>, <<"stored", "import">>, <<"confirm", "replay">>}
      PROVE  ReviewedStep
    <2>1. Phase' = Phase
        BY <1>2 DEF Advance, Phase
    <2>2. QED BY <1>2, <2>1, Quiet DEF Advance, system, published, observations, request, report, history
<1>3. QED BY <1>1, <1>2 DEF VerifyBound, VerifyStored, ConfirmKey, Check

\* One entry of the database changes.
LEMMA PutInstalls ==
    ASSUME installed \in Database, NEW n \in Names, NEW v, installed' = Put(installed, n, v)
    PROVE  Reviewed!Install(n, v)
<1>1. installed' = [installed EXCEPT ![n] = installed'[n]]
    BY DEF Put, Database
<1>2. installed'[n].version = v
    BY DEF Put, Database
<1>3. QED BY <1>1, <1>2 DEF Reviewed!Install

\* The key comes in, unless it is there.
LEMMA Imports ==
    ASSUME IInv, ImportKey
    PROVE  ReviewedStep
<1>1. CASE Trouble("import", 30)
    BY <1>1, Refuses
<1>2. CASE Advance("import", "confirm") /\ UNCHANGED <<published, observations>>
           /\ installed' = IF Version(installed, Key) = 0 THEN Put(installed, Key, 1) ELSE installed
    <2>1. /\ Phase = "agreed" /\ Phase' = "agreed"
          /\ UNCHANGED <<foreign, dryRun, flaw, held, plan, todo, replayed, code, status, pending>>
        BY <1>2 DEF Advance, Phase, published, observations, request, report, history
    <2>2. CASE installed' = installed
        BY <2>1, <2>2, Quiet
    <2>3. CASE Version(installed, Key) = 0 /\ installed' = Put(installed, Key, 1)
        <3>1. Reviewed!Install(Key, 1)
            BY <2>3, PutInstalls DEF IInv, TypeOK, Names
        <3>2. Reviewed!TakeKey
            BY <2>1, <2>3, <3>1 DEF Reviewed!TakeKey, Version
        <3>3. QED BY <3>2 DEF ReviewedStep, Reviewed!Next
    <2>4. QED BY <1>2, <2>2, <2>3
<1>3. QED BY <1>1, <1>2 DEF ImportKey

\* The transaction starts over what was shown, installs it and nothing else, and ends.
LEMMA Replays ==
    ASSUME IInv, AppliedInv, Replay \/ Apply \/ ApplyFails \/ ReplaySucceeds
    PROVE  ReviewedStep
<1>1. CASE pc = "replay" /\ ReplayFailed
    BY <1>1, GivesUp DEF ReplayFailed
<1>2. CASE Trouble("replay", 30)
    BY <1>2, Refuses
<1>3. CASE ApplyFails
    BY <1>3, GivesUp DEF ApplyFails
<1>4. CASE Replay /\ Replayable /\ pc' = "applying"
    <2>1. /\ Phase = "agreed" /\ Phase' = "installing" /\ todo' = DOMAIN plan
          /\ UNCHANGED <<installed, foreign, dryRun, flaw, held, plan, replayed, code, status, pending>>
        BY <1>4 DEF Replay, ReplayFailed, Trouble, End, Phase, system, published, observations, request,
                    report, history
    <2>2. Version(installed, Key) # 0 /\ \A n \in DOMAIN plan : Version(installed, n) = plan[n]
        BY <1>4 DEF Replayable
    <2>3. Reviewed!StartInstall
        BY <2>1, <2>2 DEF Reviewed!StartInstall, Version
    <2>4. QED BY <2>3 DEF ReviewedStep, Reviewed!Next
<1>5. CASE Apply
    <2>1. /\ Phase = "installing" /\ Phase' = "installing"
          /\ UNCHANGED <<foreign, dryRun, flaw, held, plan, code, status, pending>>
        BY <1>5 DEF Apply, Phase, published, observations, request, report
    <2>2. PICK n \in todo : /\ installed' = Put(installed, n, Target)
                            /\ todo' = todo \ {n} /\ replayed' = replayed \cup {n}
        BY <1>5 DEF Apply
    <2>3. Reviewed!Install(n, Target)
        BY <2>2, PutInstalls DEF IInv, TypeOK, Names
    <2>4. Reviewed!InstallNext
        BY <2>1, <2>2, <2>3 DEF Reviewed!InstallNext
    <2>5. QED BY <2>4 DEF ReviewedStep, Reviewed!Next
<1>6. CASE ReplaySucceeds
    <2>1. /\ pc = "applying" /\ Phase = "installing" /\ Phase' = "installed" /\ todo = {}
          /\ UNCHANGED <<installed, foreign, dryRun, flaw, held, plan, todo, replayed, code, pending>>
        BY <1>6 DEF ReplaySucceeds, Phase, system, published, observations, request, report, history
    <2>2. code = None /\ None # 0
        BY <2>1, InstallerConstants DEF IInv, ReportInv
    <2>3. replayed = DOMAIN plan
        BY <2>1 DEF AppliedInv
    <2>4. (code' = 0 /\ status' = 0) = (code = 0 /\ status = 0)
        BY <2>1, <2>2
    <2>5. Reviewed!Finish
        BY <2>1, <2>3, <2>4 DEF Reviewed!Finish
    <2>6. QED BY <2>5 DEF ReviewedStep, Reviewed!Next
<1>7. QED BY <1>1, <1>2, <1>3, <1>4, <1>5, <1>6 DEF Replay

\* Success is reported with the selection in place and with every reboot due.
LEMMA Reports ==
    ASSUME IInv, IInv', VerifyAfter
    PROVE  ReviewedStep
<1>1. CASE End(21, 0, {}) \/ End(30, 0, {})
    BY <1>1, GivesUp
<1>2. CASE pc = "after" /\ VerifiedInstallation /\ End(0, 0, Reported)
    <2>1. Phase = "installed"
        BY <1>2 DEF Phase
    <2>2. /\ code' = 0 /\ status' = 0 /\ pc' = "idle" /\ pending' = Reported /\ replayed' = replayed
          /\ pending' \subseteq NeedReboot
        BY <1>2 DEF End, IInv, TypeOK
    <2>3. replayed \cap NeedReboot \subseteq pending'
        BY <2>2 DEF IInv, ReportInv, ReplayedIsReported
    <2>4. Reviewed!Closed
        BY <1>2, Closes
    <2>5. Reviewed!Succeed
        BY <1>2, <2>1, <2>2, <2>3, <2>4 DEF Reviewed!Succeed, VerifiedInstallation, Version
    <2>6. QED BY <2>5 DEF ReviewedStep, Reviewed!Next
<1>3. QED BY <1>1, <1>2 DEF VerifyAfter

\* Other actors, whom only the database lock of a running transaction stops.
LEMMA OthersAct ==
    ASSUME IInv, IInv', ChangePackage \/ EditSources \/ ServeOther \/ AlterTree
    PROVE  ReviewedStep
<1>1. /\ foreign' = foreign + 1 /\ pc' = pc
      /\ UNCHANGED <<dryRun, flaw, held, plan, todo, replayed, code, status, pending>>
      /\ pc = "applying" => installed' = installed
    BY DEF ChangePackage, EditSources, ServeOther, AlterTree, Foreign, published, request, report
<1>2. installed' \in [Reviewed!Names -> [version : Versions, time : Nat]]
    BY DEF IInv, TypeOK, Database, Names, Reviewed!Names
<1>3. Phase' = Phase /\ (Phase = "installing" => installed' = installed)
    BY <1>1 DEF Phase
<1>4. Reviewed!Others
    BY <1>1, <1>2, <1>3 DEF Reviewed!Others
<1>5. QED BY <1>4 DEF ReviewedStep, Reviewed!Next

\* So every step is one that was promised.
LEMMA StepReviewed == IInv /\ AppliedInv /\ [Next]_vars => ReviewedStep
<1> SUFFICES ASSUME IInv, AppliedInv, [Next]_vars PROVE ReviewedStep
    OBVIOUS
<1>1. IInv'
    BY StepInv
<1>2. CASE \E dry, assume \in BOOLEAN : Begin(dry, assume)
    <2>1. PICK dry, assume \in BOOLEAN : Begin(dry, assume)
        BY <1>2
    <2>2. /\ Phase = "open" /\ Phase' = "open" /\ dryRun' \in BOOLEAN
          /\ replayed' = {} /\ code' = None /\ pending' = {} /\ None # 0
          /\ UNCHANGED <<installed, foreign, flaw, held, todo>>
        BY <2>1, InstallerConstants DEF Begin, Phase, system, published, observations
    <2>3. (code' = 0 /\ status' = 0) = FALSE
        BY <2>2
    <2>4. Reviewed!Ask
        BY <2>2, <2>3 DEF Reviewed!Ask
    <2>5. QED BY <2>4 DEF ReviewedStep, Reviewed!Next
<1>3. CASE Session
    BY <1>1, <1>3, EarlySteps, Agrees, Rechecks, Imports, Replays, Reports DEF Session
<1>4. CASE Crash
    <2>1. None # 0
        BY InstallerConstants
    <2>2. QED BY <1>4, <2>1, GivesUp DEF Crash
<1>5. CASE ChangePackage \/ EditSources \/ ServeOther \/ AlterTree
    BY <1>1, <1>5, OthersAct
<1>6. CASE Reboot \/ UNCHANGED vars
    <2>1. UNCHANGED <<pc, installed, foreign, dryRun, flaw, held, plan, todo, replayed, code, status, pending>>
        BY <1>6 DEF Reboot, vars, system, published, observations, request, report
    <2>2. QED BY <2>1, Quiet DEF Phase
<1>7. QED BY <1>2, <1>3, <1>4, <1>5, <1>6 DEF Next

\* Sessions implement the reviewed installation, for any packages, plans and flaws and any
\* number of failures and of changes by others: the session changes nothing but the key and
\* what the user agreed to, only over the versions shown, and reports success only with the
\* selection in place and with all reboots due.
THEOREM ImplementsReviewed == Spec => ImplementsReviewedInstall
<1>1. Init => Reviewed!Init /\ AppliedInv
    <2> SUFFICES ASSUME Init PROVE Reviewed!Init /\ AppliedInv
        OBVIOUS
    <2>1. TypeOK
        BY InitInv DEF IInv
    <2>2. /\ installed \in [Reviewed!Names -> [version : Versions, time : Nat]]
          /\ foreign \in Nat
        BY <2>1, InstallerConstants DEF TypeOK, Database, Names, Reviewed!Names
    <2>3. /\ Phase = "open" /\ pc # "applying" /\ NoPlan = Reviewed!Nothing
          /\ (flaw = NoFlaw /\ held = {}) \in BOOLEAN
        BY DEF Init, Phase, NoPlan, Reviewed!Nothing
    <2>4. (code = 0 /\ status = 0) = FALSE
        BY InstallerConstants DEF Init
    <2>5. QED BY <2>2, <2>3, <2>4 DEF Init, Reviewed!Init, AppliedInv
<1>2. QED BY <1>1, InitInv, StepInv, AppliedStep, StepReviewed, PTL
         DEF Spec, ReviewedStep, ImplementsReviewedInstall, Reviewed!Spec
-----------------------------------------------------------------------------
(* What the installer refuses, it refuses for a reason: the safety half of  *)
(* EventuallyInstalled.                                                     *)

\* Nothing fails, nobody else acts and the release is as it should be.
Undisturbed == flaw = NoFlaw /\ failures = 0 /\ foreign = 0

\* Nothing newer than the release is installed, and no older part of it besides.
Movable ==
    /\ \A n \in Selected : Start[n] <= Target
    /\ \A n \in Unselected : Start[n] \notin 1 .. Target - 1

InPlace == \A n \in Selected : Version(installed, n) = Target

\* The rows are what the selected packages lack.
Fits ==
    /\ DOMAIN plan \cap Unselected = {}
    /\ \A n \in DOMAIN plan : plan[n] = Version(installed, n) /\ plan[n] < Target
    /\ \A n \in Selected : n \in DOMAIN plan <=> Version(installed, n) # Target

\* What the session has before it when nothing is in its way.
SmoothInv ==
    /\ etc = "shipped" /\ site = None /\ tree = "intact" /\ held = {}
    /\ \A n \in Selected : Version(installed, n) <= Target
    /\ \A n \in Unselected : Version(installed, n) \notin 1 .. Target - 1
    /\ pc \in Observed => \A n \in Unselected : before[n] = installed[n]
    /\ pc \in Listed \ {"confirm", "replay", "applying", "after"} => inventory = installed
    /\ pc \in Planned \ {"applying", "after"} => Fits
    /\ pc \in {"confirm", "replay"} => Version(installed, Key) # 0
    /\ pc = "applying" =>
         /\ DOMAIN plan \cap Unselected = {}
         /\ \A n \in Selected \ todo : Version(installed, n) = Target
    /\ pc = "after" => InPlace

\* A session then ends with the packages in place, unless it was a dry run or declined.
EndsWell ==
    pc = "idle" =>
        /\ code \in {None, 0, 2}
        /\ code = 2 => ~yes /\ ~dryRun
        /\ code = 0 => dryRun \/ InPlace

\* A sound release passes every check.
LEMMA SoundPasses ==
    ASSUME flaw = NoFlaw
    PROVE  /\ ValidLocation(release) /\ DetachedHolds(release) /\ ValidManifest(release)
           /\ NamesPinnedVersion(release) /\ ProfileBinds(release) /\ OwnRepository(release)
           /\ TrustsProjectKey(release) /\ CacheBinds(release) /\ ProjectRpmHolds(release)
<1>1. release = Sound
    BY DEF release, ReleaseWith
<1>2. /\ Sound.location = "exact" /\ Sound.keyring = "armored" /\ Sound.fingerprint = "keyring"
      /\ Sound.signature = "good" /\ Sound.schema = 1 /\ Sound.version = "pinned" /\ Sound.url = "exact"
      /\ Sound.repository = "own" /\ Sound.packages = "some" /\ Sound.naming = "exact"
      /\ Sound.names = "distinct" /\ Sound.required = "runtime" /\ Sound.profile = "listed"
      /\ Sound.profiled = "fedora44" /\ Sound.component = "agrees" /\ Sound.verdict = "allowed"
      /\ Sound.repomd = "listed" /\ Sound.bytes = "listed" /\ Sound.signers = "release"
      /\ Sound.header = "listed"
    BY DEF Sound, Facts
<1>3. DetachedHolds(Sound)
    <2> DEFINE said == One("keyring", "binary", "SHA512")
    <2>1. GnupgStatus(Sound) = said
        BY <1>2 DEF GnupgStatus
    <2>2. /\ DOMAIN said = 1 .. 5
          /\ said[1].kind = "NEWSIG" /\ said[2].kind = "KEY_CONSIDERED" /\ said[3].kind = "SIG_ID"
          /\ said[4].kind = "GOODSIG" /\ said[4].key = "keyring"
          /\ said[5].kind = "VALIDSIG" /\ said[5].key = "keyring"
          /\ said[5].class = "binary" /\ said[5].hash = "SHA512"
        BY DEF One, Says, By, Valid
    <2> HIDE DEF said
    <2>3. /\ {i \in DOMAIN said : said[i].kind = "NEWSIG"} = {1}
          /\ {i \in DOMAIN said : said[i].kind = "GOODSIG"} = {4}
          /\ {i \in DOMAIN said : said[i].kind = "VALIDSIG"} = {5}
        BY <2>2
    <2>4. \A kind \in {"NEWSIG", "GOODSIG", "VALIDSIG"} : Occurrences(said, kind) = 1
        <3>1. \A i \in {1, 4, 5} : Cardinality({i}) = 1
            BY FS_Singleton
        <3>2. /\ Occurrences(said, "NEWSIG") = 1 /\ Occurrences(said, "GOODSIG") = 1
              /\ Occurrences(said, "VALIDSIG") = 1
            BY <2>3, <3>1 DEF Occurrences
        <3>3. QED BY <3>2
    <2>5. SignatureStatusHolds(said, "keyring")
        BY <2>2, <2>4 DEF SignatureStatusHolds, Neutral
    <2>6. QED BY <1>2, <2>1, <2>5 DEF DetachedHolds, Imported, GnupgAccepts
<1>4. QED BY <1>1, <1>2, <1>3 DEF ValidLocation, ExactUrl, ValidManifest, ValidPackages, NamesPinnedVersion,
             ProfileBinds, OwnRepository, TrustsProjectKey, CacheBinds, ProjectRpmHolds, NativeRpmHolds

\* The checks on the way from the pinned location to the stored packages refuse exactly the
\* releases that are wrong in something: none of the flaws passes, and the sound release does.
THEOREM ChecksAreExact ==
    flaw \in Flaws \cup {NoFlaw} =>
        (flaw = NoFlaw <=>
            /\ ValidLocation(release) /\ DetachedHolds(release) /\ ValidManifest(release)
            /\ NamesPinnedVersion(release) /\ ProfileBinds(release) /\ OwnRepository(release)
            /\ TrustsProjectKey(release) /\ CacheBinds(release) /\ ProjectRpmHolds(release))
BY SoundRelease, SoundPasses

\* The invariant of a session that nothing disturbs, and what it ends with.
Smoothly == SmoothInv /\ EndsWell
Calm == IInv /\ Undisturbed /\ Smoothly /\ UNCHANGED <<failures, foreign, flaw>>

\* An undisturbed session was so before.
LEMMA StaysCalm ==
    ASSUME IInv, [Next]_vars, Undisturbed'
    PROVE  /\ Undisturbed /\ UNCHANGED <<failures, foreign, flaw>>
           /\ \/ Session \/ Reboot \/ UNCHANGED vars
              \/ \E dry, assume \in BOOLEAN : Begin(dry, assume)
<1>1. failures \in Nat /\ foreign \in Nat
    BY InstallerConstants DEF IInv, TypeOK
<1>2. flaw' = flaw /\ failures' \in {failures, failures + 1} /\ foreign' \in {foreign, foreign + 1}
    BY DEF Next, Session, Begin, Fetch, FetchSignature, FetchProfile, CheckRequest, VerifySources,
           QueryBefore, Compose, QueryInventory, PlanDownloads, PlannerFails, ParsePlan, BindCache,
           ReviewPlan, VerifyBound, VerifyStored, ImportKey, ConfirmKey, Replay, ReplayFailed, Apply,
           ApplyFails, ReplaySucceeds, VerifyAfter, Crash, ChangePackage, EditSources, ServeOther,
           AlterTree, Reboot, Foreign, Verify, Check, Advance, Accept, Exit, Trouble, End,
           system, published, vars
<1>3. Undisturbed /\ UNCHANGED <<failures, foreign, flaw>>
    BY <1>1, <1>2 DEF Undisturbed
<1>4. ~ Crash /\ ~ ChangePackage /\ ~ EditSources /\ ~ ServeOther /\ ~ AlterTree
    BY <1>1, <1>3 DEF Crash, ChangePackage, EditSources, ServeOther, AlterTree, Foreign
<1>5. QED BY <1>3, <1>4 DEF Next

\* Nothing fails.
LEMMA NoTrouble ==
    ASSUME Calm
    PROVE  \A at, c : ~ Trouble(at, c)
BY InstallerConstants DEF Calm, Trouble, IInv, TypeOK

\* An end leaves nothing to take up.
LEMMA EndsSmoothly ==
    ASSUME Calm, NEW c \in {0, 2}, NEW native, NEW reported, End(c, native, reported),
           c = 2 => ~yes /\ ~dryRun, c = 0 => dryRun \/ InPlace
    PROVE  Smoothly'
<1>1. /\ pc' = "idle" /\ code' = c /\ held' = {} /\ tree' = "intact"
      /\ UNCHANGED <<installed, etc, site, dryRun, yes>>
    BY DEF End, published, request
<1>2. SmoothInv'
    BY <1>1 DEF Calm, Smoothly, SmoothInv, Observed, Configured, Listed, Planned, Parsed, Bound, Late, Version
<1>3. EndsWell'
    BY <1>1 DEF EndsWell, InPlace, Version
<1>4. QED BY <1>2, <1>3 DEF Smoothly

\* A step that only goes on.
LEMMA GoesOn ==
    ASSUME Calm, NEW at, NEW next \in Steps, Advance(at, next), UNCHANGED <<system, held>>
    PROVE  /\ pc = at /\ pc' = next /\ EndsWell'
           /\ UNCHANGED <<installed, etc, site, tree, held, todo, dryRun, yes>>
<1>1. /\ pc = at /\ pc' = next /\ code' = code
      /\ UNCHANGED <<installed, etc, site, tree, held, todo, dryRun, yes>>
    BY DEF Advance, system, published, request, report
<1>2. pc' # "idle"
    BY <1>1 DEF Steps
<1>3. QED BY <1>1, <1>2 DEF EndsWell

\* The release is fetched: no other build's files are served, and every check passes.
LEMMA FetchSmooth ==
    ASSUME Calm, Fetch \/ FetchSignature \/ FetchProfile
    PROVE  Smoothly'
<1>1. site = None /\ \A f \in Files : site # f
    BY InstallerConstants DEF Calm, Smoothly, SmoothInv
<1>2. {"metadata", "signature", "profile"} \subseteq Files
    BY DEF Files, DownloadedAt
<1>3. ASSUME NEW at, NEW next \in {"signature", "profile", "request"}, NEW file \in Files, NEW holds,
             holds, Verify(at, next, file, holds)
      PROVE  Smoothly'
    <2>1. Advance(at, next) /\ UNCHANGED <<system, held>> /\ next \in Steps
        BY <1>1, <1>3, NoTrouble DEF Verify, Steps
    <2>2. /\ pc' = next /\ EndsWell'
          /\ UNCHANGED <<installed, etc, site, tree, held, todo, dryRun, yes>>
        BY <2>1, GoesOn
    <2>3. SmoothInv'
        BY <1>3, <2>2 DEF Calm, Smoothly, SmoothInv, Observed, Configured, Listed, Planned, Parsed, Bound,
                          Late, Version
    <2>4. QED BY <2>2, <2>3 DEF Smoothly
<1>4. flaw = NoFlaw
    BY DEF Calm, Undisturbed
<1>5. CASE Fetch
    BY <1>1, <1>2, <1>3, <1>4, <1>5, SoundPasses DEF Fetch, MetadataIsPinned
<1>6. CASE FetchSignature
    BY <1>1, <1>2, <1>3, <1>4, <1>6, SoundPasses DEF FetchSignature
<1>7. CASE FetchProfile
    BY <1>1, <1>2, <1>3, <1>4, <1>7, SoundPasses DEF FetchProfile
<1>8. QED BY <1>5, <1>6, <1>7

\* Platform, request and Fedora sources pass; what is observed is what is there.
LEMMA HostSmooth ==
    ASSUME Calm, CheckRequest \/ VerifySources \/ QueryBefore \/ Compose \/ QueryInventory
    PROVE  Smoothly'
<1> USE DEF Observed, Configured, Listed, Planned, Parsed, Bound, Late
<1>1. SmoothInv /\ flaw = NoFlaw /\ etc = "shipped"
    BY DEF Calm, Smoothly, SmoothInv, Undisturbed
<1>2. CASE CheckRequest
    <2>1. Advance("request", "sources") /\ UNCHANGED <<system, observations>>
        BY <1>2, NoTrouble DEF CheckRequest
    <2>2. pc' = "sources" /\ EndsWell' /\ UNCHANGED <<installed, etc, site, tree, held>>
        BY <2>1, GoesOn DEF Steps, observations
    <2>3. QED BY <1>1, <2>2 DEF Smoothly, SmoothInv, Version
<1>3. CASE VerifySources
    <2>1. Advance("sources", "before") /\ UNCHANGED <<system, observations>>
        BY <1>1, <1>3, NoTrouble DEF VerifySources, Check, NativeSources, CapturedSources
    <2>2. pc' = "before" /\ EndsWell' /\ UNCHANGED <<installed, etc, site, tree, held>>
        BY <2>1, GoesOn DEF Steps, observations
    <2>3. QED BY <1>1, <2>2 DEF Smoothly, SmoothInv, Version
<1>4. CASE QueryBefore
    <2>1. Advance("before", "compose") /\ before' = installed /\ UNCHANGED <<system, inventory, plan, held>>
        BY <1>4, NoTrouble DEF QueryBefore
    <2>2. pc' = "compose" /\ EndsWell' /\ UNCHANGED <<installed, etc, site, tree, held>>
        BY <2>1, GoesOn DEF Steps
    <2>3. QED BY <1>1, <2>1, <2>2 DEF Smoothly, SmoothInv, Version
<1>5. CASE Compose
    <2>1. Advance("compose", "inventory") /\ UNCHANGED <<system, observations>>
        BY <1>1, <1>5, NoTrouble, SoundPasses DEF Compose, Check, SourcesAsVerified
    <2>2. /\ pc = "compose" /\ pc' = "inventory" /\ EndsWell'
          /\ UNCHANGED <<installed, etc, site, tree, held, before>>
        BY <2>1, GoesOn DEF Steps, observations
    <2>3. QED BY <1>1, <2>2 DEF Smoothly, SmoothInv, Version
<1>6. CASE QueryInventory
    <2>1. /\ Advance("inventory", "plan") /\ inventory' = installed
          /\ UNCHANGED <<system, before, plan, held>>
        BY <1>6, NoTrouble DEF QueryInventory
    <2>2. pc = "inventory" /\ pc' = "plan" /\ EndsWell' /\ UNCHANGED <<installed, etc, site, tree, held>>
        BY <2>1, GoesOn DEF Steps
    <2>3. QED BY <1>1, <2>1, <2>2 DEF Smoothly, SmoothInv, Version
<1>7. QED BY <1>2, <1>3, <1>4, <1>5, <1>6

\* What dnf5 stores fits, if no older part of the release has to move along.
LEMMA FittingPlan ==
    ASSUME Calm, pc = "plan", plan' \in Solutions(installed), installed' = installed
    PROVE  Fits'
<1> DEFINE moving == {n \in Selected : Version(installed, n) # Target}
           lacking == {n \in Deps : Version(installed, n) = 0}
<1>1. \A n \in Unselected : Version(installed, n) \notin 1 .. Target - 1
    BY DEF Calm, Smoothly, SmoothInv
<1>2. plan' = IF moving = {} THEN NoPlan ELSE [n \in moving \cup lacking |-> Version(installed, n)]
    <2>1. ASSUME moving # {},
                 NEW S \in SUBSET {n \in Unselected : Version(installed, n) \in 1 .. Target - 1},
                 plan' = [n \in moving \cup lacking \cup S |-> Version(installed, n)]
          PROVE  plan' = [n \in moving \cup lacking |-> Version(installed, n)]
        <3>1. S = {}
            BY <1>1
        <3>2. moving \cup lacking \cup S = moving \cup lacking
            BY <3>1
        <3>3. QED BY <2>1, <3>2
    <2>2. QED BY <2>1 DEF Solutions
<1>3. CASE moving = {}
    <2>1. DOMAIN plan' = {}
        BY <1>2, <1>3 DEF NoPlan
    <2>2. QED BY <1>3, <2>1 DEF Fits, Version
<1>4. CASE moving # {}
    <2>1. /\ DOMAIN plan' = moving \cup lacking
          /\ \A n \in moving \cup lacking : plan'[n] = Version(installed, n)
        BY <1>2, <1>4
    <2>2. \A n \in moving \cup lacking : Version(installed, n) < Target
        <3>1. \A n \in Selected : Version(installed, n) \in Versions /\ Version(installed, n) <= Target
            BY DEF Calm, Smoothly, SmoothInv, IInv, TypeOK, Database, Version, Names, Packages
        <3>2. QED BY <3>1 DEF Target, Versions
    <2>3. QED BY <2>1, <2>2, InstallerConstants DEF Fits, Version
<1>5. QED BY <1>3, <1>4

\* A plan that fits passes the parser, which reads it against the inventory.
LEMMA FittingPasses ==
    ASSUME Calm, pc \in {"parse", "bind"}
    PROVE  SignedRows /\ ExactRows
<1>1. /\ Fits /\ inventory = installed /\ held = {}
      /\ \A n \in Selected : Version(installed, n) <= Target
    BY DEF Calm, Smoothly, SmoothInv, Listed, Planned, Parsed, Bound, Late
<1>2. DOMAIN plan \subseteq Packages /\ \A n \in DOMAIN plan : Version(installed, n) \in Versions
    BY PlanIs DEF Calm, IInv, TypeOK, Database, Version, Names
<1>3. SignedRows
    BY <1>1 DEF SignedRows, FedoraSigned, Fits
<1>4. QED BY <1>1, <1>2, <1>3 DEF ExactRows, Fits, Inputs, Incoming, Newer, Target, Versions

\* So the parser, the digests and the reviewer have nothing to refuse.
LEMMA PlanSmooth ==
    ASSUME Calm, IInv', PlanDownloads \/ ParsePlan \/ BindCache
    PROVE  Smoothly'
<1> USE DEF Observed, Configured, Listed, Planned, Parsed, Bound, Late
<1>1. /\ SmoothInv /\ flaw = NoFlaw /\ site = None /\ held = {}
      /\ \A n \in Selected : ~Newer(installed, n)
    <2>1. \A n \in Selected : Version(installed, n) \in Versions /\ Version(installed, n) <= Target
        BY DEF Calm, Smoothly, SmoothInv, IInv, TypeOK, Database, Version, Names, Packages
    <2>2. QED BY <2>1 DEF Calm, Smoothly, SmoothInv, Undisturbed, Newer, Target, Versions
<1>2. CASE PlanDownloads
    <2>1. /\ Advance("plan", "parse") /\ plan' \in Solutions(installed)
          /\ held' = held \cup Downloaded(DOMAIN plan') /\ UNCHANGED <<system, before, inventory>>
        BY <1>1, <1>2, NoTrouble DEF PlanDownloads, PlannerFails
    <2>2. held' = {}
        <3>1. None \notin {"repomd", "package", "dependency"}
            BY InstallerConstants DEF Files, DownloadedAt
        <3>2. QED BY <1>1, <2>1, <3>1 DEF Downloaded
    <2>3. pc = "plan" /\ pc' = "parse" /\ EndsWell' /\ UNCHANGED <<installed, etc, site, tree>>
        BY <1>1, <2>1, <2>2, GoesOn DEF Steps
    <2>4. Fits'
        BY <2>1, <2>3, FittingPlan
    <2>5. QED BY <1>1, <2>1, <2>2, <2>3, <2>4 DEF Smoothly, SmoothInv, Version
<1>3. CASE ParsePlan
    <2>1. Advance("parse", "bind") /\ UNCHANGED <<system, observations>>
        BY <1>3, NoTrouble, FittingPasses DEF ParsePlan
    <2>2. /\ pc = "parse" /\ pc' = "bind" /\ EndsWell'
          /\ UNCHANGED <<installed, etc, site, tree, held, before, inventory, plan>>
        BY <2>1, GoesOn DEF Steps, observations
    <2>3. QED BY <1>1, <2>2 DEF Smoothly, SmoothInv, Version, Fits
<1>4. CASE BindCache
    <2>1. Advance("bind", "review") /\ UNCHANGED <<system, observations>>
        BY <1>1, <1>4, NoTrouble, SoundPasses DEF BindCache, Check, PackagesAuthentic, CacheIsListed
    <2>2. /\ pc = "bind" /\ pc' = "review" /\ EndsWell'
          /\ UNCHANGED <<installed, etc, site, tree, held, before, inventory, plan>>
        BY <2>1, GoesOn DEF Steps, observations
    <2>3. QED BY <1>1, <2>2 DEF Smoothly, SmoothInv, Version, Fits
<1>5. QED BY <1>2, <1>3, <1>4

\* Nothing has changed since the plan was made, and the key is imported.
LEMMA ReviewSmooth ==
    ASSUME Calm, ReviewPlan \/ VerifyBound \/ VerifyStored \/ ImportKey \/ ConfirmKey
    PROVE  Smoothly'
<1> USE DEF Observed, Configured, Listed, Planned, Parsed, Bound, Late
<1>1. SmoothInv /\ etc = "shipped" /\ tree = "intact"
    BY DEF Calm, Smoothly, SmoothInv
<1>2. CASE ReviewPlan
    <2>1. CASE Accept
        <3>1. /\ pc = "review" /\ pc' = "bound"
              /\ UNCHANGED <<installed, etc, site, tree, held, before, inventory, plan>>
            BY <2>1 DEF Accept, system, published, observations
        <3>2. QED BY <1>1, <3>1 DEF Smoothly, SmoothInv, EndsWell, Version, Fits
    <2>2. CASE Exit("review", 0) /\ (dryRun \/ plan = NoPlan)
        <3>1. plan = NoPlan => InPlace
            BY <1>1, <2>2 DEF Exit, SmoothInv, Fits, NoPlan, InPlace
        <3>2. QED BY <2>2, <3>1, EndsSmoothly DEF Exit
    <2>3. CASE Exit("review", 2) /\ ~dryRun /\ ~yes
        BY <2>3, EndsSmoothly DEF Exit
    <2>4. QED BY <1>2, <2>1, <2>2, <2>3, NoTrouble DEF ReviewPlan
<1>3. CASE VerifyBound \/ VerifyStored
    <2>1. /\ \/ Advance("bound", "stored") /\ pc = "bound"
             \/ Advance("stored", "import") /\ pc = "stored"
          /\ UNCHANGED <<system, observations>>
        BY <1>1, <1>3, NoTrouble
           DEF VerifyBound, VerifyStored, Check, SourcesAsVerified, StoredBytes, SmoothInv
    <2>2. /\ pc \in {"bound", "stored"} /\ pc' \in {"stored", "import"} /\ EndsWell'
          /\ UNCHANGED <<installed, etc, site, tree, held, before, inventory, plan>>
        BY <2>1, GoesOn DEF Steps, observations
    <2>3. QED BY <1>1, <2>2 DEF Smoothly, SmoothInv, Version, Fits
<1>4. CASE ImportKey
    <2>1. /\ pc = "import" /\ pc' = "confirm" /\ code' = code
          /\ installed' = IF Version(installed, Key) = 0 THEN Put(installed, Key, 1) ELSE installed
          /\ UNCHANGED <<etc, site, tree, held, before, inventory, plan>>
        BY <1>4, NoTrouble DEF ImportKey, Advance, published, observations, report
    <2>2. /\ \A n \in Packages : installed'[n] = installed[n]
          /\ Version(installed', Key) # 0
        <3>1. CASE Version(installed, Key) = 0
            <4>1. installed \in Database /\ Key \in Names /\ 1 \in Versions
                BY DEF Calm, IInv, TypeOK, Names, Versions
            <4>2. QED BY <2>1, <3>1, <4>1, PutIs, InstallerConstants DEF Names
        <3>2. CASE Version(installed, Key) # 0
            BY <2>1, <3>2
        <3>3. QED BY <3>1, <3>2
    <2>3. Fits /\ DOMAIN plan \subseteq Packages
        BY <1>1, <2>1, PlanIs DEF SmoothInv, Calm, IInv
    <2>4. QED BY <1>1, <2>1, <2>2, <2>3 DEF Smoothly, SmoothInv, EndsWell, Version, Fits, Packages
<1>5. CASE ConfirmKey
    <2>1. Advance("confirm", "replay") /\ UNCHANGED <<system, observations>>
        BY <1>1, <1>5, NoTrouble DEF ConfirmKey, Check, SmoothInv
    <2>2. /\ pc = "confirm" /\ pc' = "replay" /\ EndsWell'
          /\ UNCHANGED <<installed, etc, site, tree, held, before, inventory, plan>>
        BY <2>1, GoesOn DEF Steps, observations
    <2>3. QED BY <1>1, <2>2 DEF Smoothly, SmoothInv, Version, Fits
<1>6. QED BY <1>2, <1>3, <1>4, <1>5

\* The replay finds what was planned, and the inspection after it what was replayed.
LEMMA ReplaySmooth ==
    ASSUME Calm, Replay \/ Apply \/ ApplyFails \/ ReplaySucceeds \/ VerifyAfter
    PROVE  Smoothly'
<1> USE DEF Observed, Configured, Listed, Planned, Parsed, Bound, Late
<1>1. SmoothInv
    BY DEF Calm, Smoothly
<1>2. failures' # failures + 1
    BY InstallerConstants DEF Calm, IInv, TypeOK
<1>3. CASE Replay
    <2>1. pc = "replay" /\ Replayable
        BY <1>1, <1>3, NoTrouble DEF Replay, Trouble, SmoothInv, Replayable, Snapshots, Fits
    <2>2. /\ pc' = "applying" /\ todo' = DOMAIN plan
          /\ UNCHANGED <<installed, etc, site, tree, held, before, inventory, plan>>
        BY <1>3, <2>1, NoTrouble DEF Replay, system, published, observations
    <2>3. QED BY <1>1, <2>1, <2>2 DEF Smoothly, SmoothInv, EndsWell, Version, Fits
<1>4. CASE Apply
    <2>1. PICK n \in todo : installed' = Put(installed, n, Target) /\ todo' = todo \ {n}
        BY <1>4 DEF Apply
    <2>2. /\ pc = "applying" /\ pc' = pc
          /\ UNCHANGED <<etc, site, tree, held, before, inventory, plan>>
        BY <1>4 DEF Apply, published, observations
    <2>3. n \in DOMAIN plan /\ n \in Packages \ Unselected
        BY <1>1, <2>2, PlanIs DEF SmoothInv, Calm, IInv, ReplayInv
    <2>4. /\ Version(installed', n) = Target
          /\ \A m \in Names \ {n} : installed'[m] = installed[m]
        <3>1. installed \in Database /\ n \in Names /\ Target \in Versions
            BY <2>3 DEF Calm, IInv, TypeOK, Names, Target, Versions
        <3>2. QED BY <2>1, <3>1, PutIs
    <2>5. \A m \in Selected : Version(installed', m) <= Target
        BY <1>1, <2>4 DEF SmoothInv, Version, Names, Packages, Target
    <2>6. \A m \in Unselected : installed'[m] = installed[m]
        BY <2>3, <2>4 DEF Names, Packages
    <2>7. \A m \in Selected \ todo' : Version(installed', m) = Target
        BY <1>1, <2>1, <2>2, <2>4 DEF SmoothInv, Version, Names, Packages
    <2>8. QED BY <1>1, <2>2, <2>5, <2>6, <2>7 DEF Smoothly, SmoothInv, EndsWell, Version
<1>5. ~ ApplyFails
    BY <1>2 DEF ApplyFails
<1>6. CASE ReplaySucceeds
    <2>1. /\ pc = "applying" /\ todo = {} /\ pc' = "after"
          /\ UNCHANGED <<installed, etc, site, tree, held, before>>
        BY <1>6 DEF ReplaySucceeds, system, published, observations
    <2>2. QED BY <1>1, <2>1 DEF Smoothly, SmoothInv, EndsWell, InPlace, Version
<1>7. CASE VerifyAfter
    <2>1. pc = "after"
        BY <1>7 DEF VerifyAfter
    <2>2. InPlace /\ VerifiedInstallation
        BY <1>1, <2>1 DEF SmoothInv, InPlace, VerifiedInstallation, Changed
    <2>3. \E reported : End(0, 0, reported)
        BY <1>2, <1>7, <2>2 DEF VerifyAfter
    <2>4. QED BY <2>2, <2>3, EndsSmoothly
<1>8. QED BY <1>3, <1>4, <1>5, <1>6, <1>7

\* Undisturbed sessions find nothing in their way.
LEMMA StepSmooth ==
    ASSUME IInv, [Next]_vars, Undisturbed => Smoothly
    PROVE  Undisturbed' => Smoothly'
<1> SUFFICES ASSUME Undisturbed' PROVE Smoothly'
    OBVIOUS
<1>1. Calm
    BY StaysCalm DEF Calm
<1>2. IInv'
    BY StepInv
<1>3. CASE Session
    BY <1>1, <1>2, <1>3, FetchSmooth, HostSmooth, PlanSmooth, ReviewSmooth, ReplaySmooth DEF Session
<1>4. CASE \E dry, assume \in BOOLEAN : Begin(dry, assume)
    <2>1. pc' = "fetch" /\ UNCHANGED <<installed, etc, site, tree, held>>
        BY <1>4 DEF Begin, system, published, observations
    <2>2. QED BY <1>1, <2>1
              DEF Calm, Smoothly, SmoothInv, EndsWell, Version,
                  Observed, Configured, Listed, Planned, Parsed, Bound, Late
<1>5. CASE Reboot \/ UNCHANGED vars
    <2>1. UNCHANGED <<installed, etc, site, tree, pc, before, inventory, plan, held, todo, code, dryRun, yes>>
        BY <1>5 DEF Reboot, system, published, observations, request, report, vars
    <2>2. QED BY <1>1, <2>1 DEF Calm, Smoothly, SmoothInv, EndsWell, InPlace, Fits, Version
<1>6. QED BY <1>3, <1>4, <1>5, StaysCalm

\* Whatever the packages, a sound release is refused nowhere as long as no call fails, nobody
\* changes anything and neither a newer package nor an older part of the release stands in
\* the way: a session that is not declined exits 0, and but for a dry run with every selected
\* package in place.  What one step makes passes the checks of the next (dnf5's rows the
\* parser of inputs, the plan the recheck of what it rests on, the import the replay).
THEOREM UndisturbedInstalls == Movable => (Spec => [](Undisturbed => EndsWell))
<1> SUFFICES ASSUME Movable PROVE Spec => [](Undisturbed => EndsWell)
    OBVIOUS
<1>1. Init => (Undisturbed => Smoothly)
    <2> SUFFICES ASSUME Init, Undisturbed PROVE Smoothly
        OBVIOUS
    <2>1. \A n \in Selected \cup Unselected : Version(installed, n) = Start[n]
        BY DEF Init, Version, Names, Packages
    <2>2. SmoothInv
        BY <2>1 DEF Init, Movable, SmoothInv, Observed, Configured, Listed, Planned, Parsed, Bound, Late
    <2>3. EndsWell
        BY InstallerConstants DEF Init, EndsWell
    <2>4. QED BY <2>2, <2>3 DEF Smoothly
<1>2. IInv /\ [Next]_vars /\ (Undisturbed => Smoothly) => (Undisturbed => Smoothly)'
    BY StepSmooth
<1>3. (Undisturbed => Smoothly) => (Undisturbed => EndsWell)
    BY DEF Smoothly
<1>4. QED BY <1>1, <1>2, <1>3, InitInv, StepInv, PTL DEF Spec

-----------------------------------------------------------------------------
(* And it ends: what a session does brings it further. *)

StepsAhead ==
    [fetch |-> 19, signature |-> 18, profile |-> 17, request |-> 16, sources |-> 15, before |-> 14,
     compose |-> 13, inventory |-> 12, plan |-> 11, parse |-> 10, bind |-> 9, review |-> 8, bound |-> 7,
     stored |-> 6, import |-> 5, confirm |-> 4, replay |-> 3, applying |-> 2, after |-> 1, idle |-> 0]

\* The session is at a later step, or a package of its transaction is done with.
StepsOn ==
    \/ StepsAhead[pc'] < StepsAhead[pc]
    \/ pc = "applying" /\ pc' = pc /\ todo' \subseteq todo /\ todo' # todo

\* Ending is a step on.
LEMMA EndStepsOn ==
    ASSUME pc \in Steps, pc' = "idle"
    PROVE  StepsOn
BY DEF StepsOn, StepsAhead, Steps

\* A session goes from step to step, and no step is taken twice but for the packages of its
\* transaction, each of which is installed once; nobody else moves it.  So it ends after
\* nineteen steps and one for every row of its plan, whatever it finds on its way.
THEOREM SessionsEnd ==
    Spec => [][pc = "idle" \/ StepsOn \/ (foreign' = foreign + 1 /\ UNCHANGED <<pc, todo>>)]_vars
<1>1. ASSUME IInv, Next, pc # "idle"
      PROVE  StepsOn \/ (foreign' = foreign + 1 /\ UNCHANGED <<pc, todo>>)
    <2>1. pc \in Steps
        BY <1>1 DEF IInv, TypeOK
    <2>2. ASSUME NEW at, NEW next, Advance(at, next), StepsAhead[next] < StepsAhead[at] PROVE StepsOn
        BY <2>2 DEF Advance, StepsOn
    <2>3. ASSUME NEW at, NEW c, Exit(at, c) \/ Trouble(at, c) PROVE StepsOn
        BY <2>1, <2>3, EndStepsOn DEF Exit, Trouble, End
    <2>4. ASSUME NEW at, NEW next, NEW holds, NEW c, Check(at, next, holds, c),
                 StepsAhead[next] < StepsAhead[at]
          PROVE  StepsOn
        BY <2>2, <2>3, <2>4 DEF Check
    <2>5. ASSUME NEW at, NEW next, NEW file, NEW holds, Verify(at, next, file, holds),
                 StepsAhead[next] < StepsAhead[at]
          PROVE  StepsOn
        BY <2>2, <2>3, <2>5 DEF Verify
    <2>6. CASE Fetch \/ FetchSignature \/ FetchProfile
        <3>1. /\ StepsAhead["signature"] < StepsAhead["fetch"]
              /\ StepsAhead["profile"] < StepsAhead["signature"]
              /\ StepsAhead["request"] < StepsAhead["profile"]
            BY DEF StepsAhead
        <3>2. CASE Fetch
            BY <2>5, <3>1, <3>2 DEF Fetch
        <3>3. CASE FetchSignature
            BY <2>5, <3>1, <3>3 DEF FetchSignature
        <3>4. CASE FetchProfile
            BY <2>5, <3>1, <3>4 DEF FetchProfile
        <3>5. QED BY <2>6, <3>2, <3>3, <3>4
    <2>7. CASE CheckRequest \/ QueryBefore \/ QueryInventory
        BY <2>2, <2>3, <2>7 DEF CheckRequest, QueryBefore, QueryInventory, StepsAhead
    <2>8. CASE VerifySources \/ Compose \/ BindCache
        BY <2>3, <2>4, <2>8 DEF VerifySources, Compose, BindCache, StepsAhead
    <2>9. CASE PlanDownloads \/ ParsePlan \/ ImportKey
        BY <2>2, <2>3, <2>9 DEF PlanDownloads, PlannerFails, ParsePlan, ImportKey, StepsAhead
    <2>10. CASE VerifyBound \/ VerifyStored \/ ConfirmKey
        BY <2>3, <2>4, <2>10 DEF VerifyBound, VerifyStored, ConfirmKey, StepsAhead
    <2>11. CASE ReviewPlan
        <3>1. CASE Accept
            BY <3>1 DEF Accept, StepsOn, StepsAhead
        <3>2. QED BY <2>3, <2>11, <3>1 DEF ReviewPlan
    <2>12. CASE Replay
        <3>1. CASE pc = "replay" /\ pc' = "applying"
            BY <3>1 DEF StepsOn, StepsAhead
        <3>2. CASE ReplayFailed
            BY <2>1, <3>2, EndStepsOn DEF ReplayFailed, End
        <3>3. QED BY <2>3, <2>12, <3>1, <3>2 DEF Replay
    <2>13. CASE Apply
        BY <2>13 DEF Apply, StepsOn
    <2>14. CASE ReplaySucceeds
        BY <2>14 DEF ReplaySucceeds, StepsOn, StepsAhead
    <2>15. CASE ApplyFails \/ VerifyAfter \/ Crash
        BY <2>1, <2>15, EndStepsOn DEF ApplyFails, VerifyAfter, Crash, End
    <2>16. CASE ChangePackage \/ EditSources \/ ServeOther \/ AlterTree
        BY <2>16 DEF ChangePackage, EditSources, ServeOther, AlterTree, Foreign
    <2>17. CASE Reboot \/ \E dry, assume \in BOOLEAN : Begin(dry, assume)
        BY <1>1, <2>17 DEF Reboot, Begin
    <2>18. QED BY <1>1, <2>6, <2>7, <2>8, <2>9, <2>10, <2>11, <2>12, <2>13, <2>14, <2>15, <2>16, <2>17
               DEF Next, Session
<1>2. IInv /\ [Next]_vars
        => [pc = "idle" \/ StepsOn \/ (foreign' = foreign + 1 /\ UNCHANGED <<pc, todo>>)]_vars
    BY <1>1
<1>3. QED BY <1>2, InitInv, StepInv, PTL DEF Spec
=============================================================================
