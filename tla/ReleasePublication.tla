------------------------- MODULE ReleasePublication -------------------------
(***************************************************************************)
(* Publication of versions as GitHub releases and as one GitHub Pages site *)
(* (scripts/ci/release_publish.py under .github/workflows/release.yml).    *)
(*                                                                         *)
(* A run of the workflow is dispatched at a commit of main and carries     *)
(* that commit's version and registry (release/published-versions.json)    *)
(* for good, re-runs included.  Its jobs read and write shared state one   *)
(* API call after the other: releases, tags and the live site.  The        *)
(* concurrency group lets one run be in progress at a time, but nothing    *)
(* keeps people out: they delete releases, move tags, flip the immutable   *)
(* releases setting, land registry changes and re-run jobs of old runs.    *)
(*                                                                         *)
(* A run stands for the bytes it signed: no other run produces them, so    *)
(* digests, signatures, notes and archives are compared as run names, and  *)
(* a commit is the number of changes main had seen.                        *)
(***************************************************************************)
EXTENDS Naturals, FiniteSets, FiniteSetsExt

CONSTANTS
    Runs,        \* workflow runs, each with its own signed publication
    None,        \* no value
    Assets,      \* the release assets of release_assets()
    Sums,        \* the SHA256SUMS asset
    MaxVersion,  \* versions are 1 .. MaxVersion
    Size,        \* bytes of each version's site
    Reserve,     \* SITE_BUDGET_BYTES: what preflight reserves, verify enforces
    MaxSite,     \* MAX_SITE, the Pages budget
    MaxReleases, \* bound: releases ever created
    MaxLandings, \* bound: changes landed on main
    MaxFailures, \* bound: jobs that die between two calls
    MaxManual,   \* bound: manual changes to releases, tags and the setting
    ManualKinds  \* which manual changes people make

Versions == 1 .. MaxVersion
Commits == 0 .. MaxLandings
ReleaseIds == 1 .. MaxReleases
MaybeRun == Runs \cup {None}

Release == [version : Versions, draft : BOOLEAN, prerelease : BOOLEAN, immutable : BOOLEAN,
            target : Commits, assets : [Assets -> MaybeRun], notes : MaybeRun]

ASSUME PublicationConstants ==
    /\ None \notin Runs /\ None \notin Commits /\ None \notin Versions /\ None \notin Release
    /\ None \notin [content : Runs, id : ReleaseIds, commit : Commits]
    /\ Sums \in Assets
    /\ MaxVersion \in Nat \ {0} /\ MaxReleases \in Nat /\ MaxLandings \in Nat
    /\ MaxFailures \in Nat /\ MaxManual \in Nat
    /\ Reserve \in Nat /\ MaxSite \in Nat
    /\ Size \in [Versions -> 0 .. Reserve]
    /\ ManualKinds \subseteq {"setting", "deleteRelease", "deleteTag", "pushTag",
                              "prerelease", "edit", "publish"}

VARIABLES
    main,        \* the committed version, registry and commit
    releases,    \* release id -> release or None, drafts included
    nextId,      \* the id the next created release gets
    tags,        \* version -> the commit its tag names, or None
    immutableOn, \* the repository's immutable-releases setting
    live,        \* version -> the run whose bytes Pages serves, or None
    run,         \* each workflow run
    active,      \* the run in progress: the release-publication concurrency group
    failures,    \* jobs that died so far
    manual,      \* manual changes so far
    released,    \* history: <<version, run>> that were public and immutable
    tampered     \* history: a tag was deleted or a draft published by hand

github == <<releases, nextId, tags>>
settings == <<main, immutableOn>>
budgets == <<failures, manual>>
history == <<released, tampered>>
vars == <<main, releases, nextId, tags, immutableOn, live, run, active, failures, manual, released,
          tampered>>

Registry == [published : [Versions -> MaybeRun], retired : [Versions -> MaybeRun]]

\* One version of a composed site: its bytes, its release and the commit its tag named.
Composed == [content : Runs, id : ReleaseIds, commit : Commits]
Composition == [Versions -> Composed \cup {None}]

\* What served_state() reads; a run compares it and never looks inside.
Snapshot == [releases : [ReleaseIds -> Release \cup {None}], tags : [Versions -> Commits \cup {None}]]

\* Publish-release walks Classify .. Final; then pages-build, pages-deploy, verify-live.
Steps == {"classify", "snapshot", "compose", "room", "resnapshot", "state", "create",
          "update", "upload", "readback", "draft", "served", "sums", "undraft", "final",
          "build", "check", "deploy", "verify"}

Run == [pc : Steps \cup {"undispatched", "queued", "stopped", "succeeded"},
        reached : 0 .. 4,             \* the last job whose needs succeeded
        version : Versions, commit : Commits, registry : Registry,
        served : Snapshot \cup {None}, room : Composition \cup {None},
        release : ReleaseIds \cup {None}, todo : SUBSET Assets,
        record : Composition \cup {None}]   \* the Pages manifest

TypeOK ==
    /\ main \in [version : Versions, commit : Commits, registry : Registry]
    /\ releases \in [ReleaseIds -> Release \cup {None}]
    /\ nextId \in 1 .. MaxReleases + 1
    /\ tags \in [Versions -> Commits \cup {None}]
    /\ immutableOn \in BOOLEAN
    /\ live \in [Versions -> MaybeRun]
    /\ run \in [Runs -> Run]
    /\ active \in MaybeRun
    /\ failures \in 0 .. MaxFailures
    /\ manual \in 0 .. MaxManual
    /\ released \subseteq Versions \X Runs
    /\ tampered \in BOOLEAN

EmptyRegistry == [published |-> [v \in Versions |-> None], retired |-> [v \in Versions |-> None]]

Init ==
    /\ main = [version |-> 1, commit |-> 0, registry |-> EmptyRegistry]
    /\ releases = [i \in ReleaseIds |-> None]
    /\ nextId = 1
    /\ tags = [v \in Versions |-> None]
    /\ immutableOn = TRUE
    /\ live = [v \in Versions |-> None]
    /\ run = [r \in Runs |->
               [pc |-> "undispatched", reached |-> 0, version |-> 1, commit |-> 0,
                registry |-> EmptyRegistry, served |-> None, room |-> None,
                release |-> None, todo |-> {}, record |-> None]]
    /\ active = None
    /\ failures = 0
    /\ manual = 0
    /\ released = {} /\ tampered = FALSE

-----------------------------------------------------------------------------
(* What the jobs read. *)

Existing == {i \in ReleaseIds : releases[i] # None}
Public == {i \in Existing : ~releases[i].draft}

\* Every public release but the pending version's; pending is None when composing.
Candidates(pending) == {i \in Public : releases[i].version # pending}

Retired(registry) == {v \in Versions : registry.retired[v] # None}
Listed(registry) == Retired(registry) \cup {v \in Versions : registry.published[v] # None}

\* A release nothing can change any more.
Settled(rel) == ~rel.draft /\ ~rel.prerelease /\ rel.immutable

\* All four assets are one run's, the tag names the commit that run was signed
\* for, and the title and notes are that run's rendering.
VerifiedAs(rel, c) ==
    /\ \A a \in Assets : rel.assets[a] = c
    /\ tags[rel.version] = run[c].commit
    /\ rel.notes = c

\* compose_releases: every gate on every public release, then on the registry.
ComposePasses(registry, pending) ==
    /\ \A i \in Candidates(pending) :
         LET rel == releases[i] IN
         /\ pending # None => rel.version < pending
         /\ Settled(rel)
         /\ IF rel.version \in Retired(registry)
            THEN rel.assets[Sums] = registry.retired[rel.version]
            ELSE \E c \in Runs : VerifiedAs(rel, c)
    /\ \A v \in Listed(registry) :
         \E i \in Candidates(pending) :
             /\ releases[i].version = v
             /\ v \notin Retired(registry) => releases[i].assets[Sums] = registry.published[v]

\* What compose_releases returns: the public releases the registry does not retire.
Compose(registry, pending) ==
    [v \in Versions |->
        LET at == {i \in Candidates(pending) : releases[i].version = v}
        IN IF at = {} \/ v \in Retired(registry) THEN None
           ELSE LET i == CHOOSE i \in at : TRUE
                IN [content |-> releases[i].assets[Sums], id |-> i, commit |-> tags[v]]]

Serves(composition) == {v \in Versions : composition[v] # None}
Bytes(composition) == MapThenSumSet(LAMBDA v : Size[v], Serves(composition))

RecordedOnMain(registry, version) == TRUE \* mutant: tags not compared with the registry

\* check_recorded
Recorded(registry, version) ==
    \A v \in Versions \ {version} : tags[v] # None => v \in Listed(registry)

LiveSumsSkipped(composition, undeployed) == TRUE \* mutant: no backlog check

\* check_live_sums; undeployed is None when every version must be live.
LiveSums(composition, undeployed) ==
    \A v \in Serves(composition) \ {undeployed} : live[v] = composition[v].content

\* served_state
ServedState(version) ==
    [releases |-> [i \in ReleaseIds |-> IF i \in Candidates(version) THEN releases[i] ELSE None],
     tags |-> [tags EXCEPT ![version] = None]]

FitsWithoutReserve(composition, reserve) == Bytes(composition) <= MaxSite \* mutant

Fits(composition, reserve) == Bytes(composition) + reserve <= MaxSite

\* check_pages_room
PagesRoom(version, registry, reserve) ==
    /\ version \notin Listed(registry)
    /\ ComposePasses(registry, version)
    /\ Recorded(registry, version)
    /\ LiveSums(Compose(registry, version), None)
    /\ Fits(Compose(registry, version), reserve)

Tagged(version) == {i \in Existing : releases[i].version = version}

Carries(i, r) == \A a \in Assets : releases[i].assets[a] = r

FreshWithoutRelease(r) == Tagged(run[r].version) = {} \* mutant: the tag not looked at

\* publish_state, one predicate per state it can return.
Fresh(r) == Tagged(run[r].version) = {} /\ tags[run[r].version] = None

DraftResume(r, i) ==
    /\ Tagged(run[r].version) = {i}
    /\ \A a \in Assets : releases[i].assets[a] \in {r, None}
    /\ releases[i].draft /\ ~releases[i].prerelease
    /\ releases[i].target = run[r].commit
    /\ tags[run[r].version] \in {None, run[r].commit}

PublishedIsRefused(r, i) == FALSE \* mutant: no resuming once public

PublishedResume(r, i) ==
    /\ Tagged(run[r].version) = {i}
    /\ Carries(i, r)
    /\ Settled(releases[i])
    /\ tags[run[r].version] = run[r].commit

PublishStateKnown(r) ==
    Fresh(r) \/ \E i \in Existing : DraftResume(r, i) \/ PublishedResume(r, i)

-----------------------------------------------------------------------------
(* How a run moves through its jobs. *)

At(r, step) == active = r /\ run[r].pc = step

\* The jobs in order; re-running one runs those that need it after it.
JobStart == <<"classify", "build", "check", "verify">>

Goto(r, step) == /\ run' = [run EXCEPT ![r].pc = step] /\ UNCHANGED active

\* What a job keeps in memory is gone when it ends.
End(r, how) ==
    /\ run' = [run EXCEPT ![r] = [@ EXCEPT !.pc = how, !.served = None, !.room = None,
                                           !.release = None, !.todo = {}]]
    /\ active' = None

Refuse(r) == End(r, "stopped")

\* A read-only gate: pass on or refuse.
Gate(r, step, passes, next) ==
    /\ At(r, step)
    /\ IF passes THEN Goto(r, next) ELSE Refuse(r)
    /\ UNCHANGED <<github, settings, live, budgets, history>>

\* A request that took effect goes on, or its response is lost and the job dies.
Effective(r, next) ==
    \/ Goto(r, next) /\ UNCHANGED failures
    \/ /\ failures < MaxFailures
       /\ failures' = failures + 1
       /\ Refuse(r)

\* The runner dies, or a request fails without effect, at any step.
Fail(r) ==
    /\ active = r
    /\ failures < MaxFailures
    /\ failures' = failures + 1
    /\ Refuse(r)
    /\ UNCHANGED <<github, settings, live, manual, history>>

\* A dispatch fixes the commit; the run waits while another is in progress, and
\* a later dispatch would replace a waiting one.
Dispatch(r) ==
    /\ run[r].pc = "undispatched"
    /\ \A q \in Runs : run[q].pc # "queued"
    /\ run' = [run EXCEPT ![r] = [@ EXCEPT !.pc = "queued", !.version = main.version,
                                           !.commit = main.commit, !.registry = main.registry]]
    /\ UNCHANGED <<github, settings, live, active, budgets, history>>

\* check-unpublished --phase preflight with the gates of a new dispatch, then the
\* jobs up to attest, which touch nothing shared.  GitHub hides drafts from it.
Preflight(r) ==
    LET version == run[r].version IN
    /\ active = None
    /\ run[r].pc = "queued"
    /\ IF /\ tags[version] = None
          /\ \A i \in Public : releases[i].version # version
          /\ live[version] = None
          /\ PagesRoom(version, run[r].registry, Reserve)
       THEN /\ run' = [run EXCEPT ![r].pc = "classify", ![r].reached = 1]
            /\ active' = r
       ELSE Refuse(r)
    /\ UNCHANGED <<github, settings, live, budgets, history>>

ReachNext(r, job) == run[r].reached + 1 \* mutant: counts a re-run job again

\* The last job whose needs have succeeded, job 'job' being one.
Reach(r, job) == IF run[r].reached < job THEN job ELSE run[r].reached

\* Re-run a job whose needs succeeded, in any later order and however old the run.
Rerun(r, job) ==
    /\ active = None
    /\ run[r].pc \in {"stopped", "succeeded"}
    /\ job \in 1 .. run[r].reached
    /\ run' = [run EXCEPT ![r].pc = JobStart[job]]
    /\ active' = r
    /\ UNCHANGED <<github, settings, live, budgets, history>>

-----------------------------------------------------------------------------
(* publish-release *)

\* check-unpublished --phase publish: the room check with the real size, then publish_state.
Classify(r) ==
    Gate(r, "classify",
         /\ PagesRoom(run[r].version, run[r].registry, Size[run[r].version])
         /\ PublishStateKnown(r), "snapshot")

TakeSnapshot(r) ==
    /\ At(r, "snapshot")
    /\ run' = [run EXCEPT ![r].pc = "compose", ![r].served = ServedState(run[r].version)]
    /\ UNCHANGED <<github, settings, live, active, budgets, history>>

ComposeRoom(r) ==
    LET version == run[r].version
        registry == run[r].registry
    IN /\ At(r, "compose")
       /\ IF version \notin Listed(registry) /\ ComposePasses(registry, version)
          THEN /\ run' = [run EXCEPT ![r].pc = "room", ![r].room = Compose(registry, version)]
               /\ UNCHANGED active
          ELSE Refuse(r)
       /\ UNCHANGED <<github, settings, live, budgets, history>>

CheckRoom(r) ==
    Gate(r, "room",
         /\ Recorded(run[r].registry, run[r].version)
         /\ LiveSums(run[r].room, None)
         /\ Fits(run[r].room, Size[run[r].version]), "resnapshot")

SameServed(r) == ServedState(run[r].version) = run[r].served

Resnapshot(r) == Gate(r, "resnapshot", SameServed(r), "state")

ReadState(r) ==
    /\ At(r, "state")
    /\ \/ Fresh(r) /\ Goto(r, "create")
       \/ \E i \in Existing :
            /\ DraftResume(r, i)
            /\ run' = [run EXCEPT ![r].pc = "update", ![r].release = i,
                                  ![r].todo = {a \in Assets : releases[i].assets[a] = None}]
            /\ UNCHANGED active
       \/ \E i \in Existing :
            /\ PublishedResume(r, i)
            /\ run' = [run EXCEPT ![r].pc = "final", ![r].release = i]
            /\ UNCHANGED active
       \/ ~PublishStateKnown(r) /\ Refuse(r)
    /\ UNCHANGED <<github, settings, live, budgets, history>>

CreateDraft(r) ==
    /\ At(r, "create")
    /\ nextId \in ReleaseIds
    /\ releases' = [releases EXCEPT ![nextId] =
                      [version |-> run[r].version, draft |-> TRUE, prerelease |-> FALSE,
                       immutable |-> FALSE, target |-> run[r].commit,
                       assets |-> [a \in Assets |-> None], notes |-> r]]
    /\ nextId' = nextId + 1
    /\ \/ /\ run' = [run EXCEPT ![r].pc = "update", ![r].release = nextId, ![r].todo = Assets]
          /\ UNCHANGED <<active, failures>>
       \/ failures < MaxFailures /\ failures' = failures + 1 /\ Refuse(r)
    /\ UNCHANGED <<tags, settings, live, manual, history>>

\* The draft as this run names it: tag, commit, title and notes again.
Renamed(r) == [releases[run[r].release] EXCEPT !.version = run[r].version,
                                               !.target = run[r].commit, !.notes = r]

UpdateDraft(r) ==
    LET i == run[r].release IN
    /\ At(r, "update")
    /\ IF i \in Existing
       THEN /\ releases' = [releases EXCEPT ![i] = Renamed(r)]
            /\ Effective(r, "upload")
       ELSE Refuse(r) /\ UNCHANGED <<releases, failures>>
    /\ UNCHANGED <<nextId, tags, settings, live, manual, history>>

\* Only the assets missing when the draft was first read are uploaded; GitHub
\* refuses a name it has and any change to an immutable release.
Upload(r) ==
    LET i == run[r].release IN
    /\ At(r, "upload")
    /\ \E a \in run[r].todo :
         IF i \in Existing /\ releases[i].assets[a] = None /\ ~releases[i].immutable
         THEN /\ releases' = [releases EXCEPT ![i].assets[a] = r]
              /\ \/ /\ run' = [run EXCEPT ![r].todo = @ \ {a}]
                    /\ UNCHANGED <<active, failures>>
                 \/ failures < MaxFailures /\ failures' = failures + 1 /\ Refuse(r)
         ELSE Refuse(r) /\ UNCHANGED <<releases, failures>>
    /\ UNCHANGED <<nextId, tags, settings, live, manual, history>>

Uploaded(r) == run[r].todo = {} /\ Gate(r, "upload", TRUE, "readback")

Readback(r) ==
    LET i == run[r].release IN
    Gate(r, "readback",
         i \in Existing /\ releases[i].draft /\ releases[i].notes = r /\ Carries(i, r), "draft")

\* check_draft
CheckDraft(r) ==
    LET i == run[r].release IN
    Gate(r, "draft",
         /\ i \in Existing
         /\ releases[i].draft /\ ~releases[i].prerelease
         /\ releases[i].version = run[r].version /\ releases[i].target = run[r].commit
         /\ releases[i].notes = r /\ Carries(i, r)
         /\ tags[run[r].version] \in {None, run[r].commit}, "served")

StillServed(r) == Gate(r, "served", SameServed(r), "sums")

StillLive(r) == Gate(r, "sums", LiveSums(run[r].room, None), "undraft")

\* Making a release public: the setting decides whether it is immutable, and an
\* existing tag is kept, whatever the draft targets.
MakePublic(i, rel) ==
    /\ releases' = [releases EXCEPT ![i] = [rel EXCEPT !.draft = FALSE, !.immutable = immutableOn]]
    /\ tags' = [tags EXCEPT ![rel.version] = IF @ = None THEN rel.target ELSE @]
    /\ released' = IF immutableOn /\ rel.assets[Sums] # None
                   THEN released \cup {<<rel.version, rel.assets[Sums]>>} ELSE released

\* GitHub refuses a second public release on one tag.
TagTaken(i, version) == \E j \in Public \ {i} : releases[j].version = version

\* The irreversible request.
Undraft(r) ==
    LET i == run[r].release
        full == [Renamed(r) EXCEPT !.prerelease = FALSE]
    IN /\ At(r, "undraft")
       /\ IF i \notin Existing \/ TagTaken(i, run[r].version)
          THEN Refuse(r) /\ UNCHANGED <<releases, tags, released, failures>>
          ELSE /\ IF releases[i].draft THEN MakePublic(i, full)
                  ELSE /\ releases' = [releases EXCEPT ![i] = full]
                       /\ UNCHANGED <<tags, released>>
               /\ Effective(r, "final")
       /\ UNCHANGED <<nextId, settings, live, manual, tampered>>

\* The publish-release job succeeds and pages-build follows.
ConfirmPublished(r) ==
    LET i == run[r].release IN
    /\ At(r, "final")
    /\ IF /\ i \in Existing
          /\ Settled(releases[i])
          /\ releases[i].version = run[r].version /\ releases[i].notes = r /\ Carries(i, r)
          /\ tags[run[r].version] = run[r].commit
       THEN /\ run' = [run EXCEPT ![r] = [@ EXCEPT !.pc = "build", !.served = None, !.room = None,
                                             !.release = None,
                                             !.reached = Reach(r, 2)]]
            /\ UNCHANGED active
       ELSE Refuse(r)
    /\ UNCHANGED <<github, settings, live, budgets, history>>

-----------------------------------------------------------------------------
(* pages-build, pages-deploy, verify-live *)

Newest(composition, version) ==
    version \in Serves(composition) /\ \A v \in Serves(composition) : v <= version

\* compose_pages with this run's version as --new-version.
BuildPages(r) ==
    LET version == run[r].version
        registry == run[r].registry
        site == Compose(registry, None)
    IN /\ At(r, "build")
       /\ IF /\ ComposePasses(registry, None)
             /\ Newest(site, version)
             /\ Recorded(registry, version)
             /\ LiveSums(site, version)
             /\ Fits(site, 0)
          THEN /\ run' = [run EXCEPT ![r] = [@ EXCEPT !.pc = "check", !.record = site,
                                                !.reached = Reach(r, 3)]]
               /\ UNCHANGED active
          ELSE Refuse(r)
       /\ UNCHANGED <<github, settings, live, budgets, history>>

\* check_deploy: the recorded composition is still the one to serve.
CheckDeploy(r) ==
    LET version == run[r].version
        registry == run[r].registry
        record == run[r].record
        public == {releases[i].version : i \in Public}
    IN Gate(r, "check",
            /\ version \in public /\ \A v \in public : v <= version
            /\ public \ Retired(registry) = Serves(record)
            /\ \A i \in Public :
                 LET v == releases[i].version IN
                 v \notin Retired(registry) =>
                     /\ releases[i].assets[Sums] = record[v].content
                     /\ i = record[v].id
                     /\ tags[v] = record[v].commit
            /\ Recorded(registry, version)
            /\ LiveSums(record, version), "deploy")

\* deploy-pages replaces the whole site by this run's Pages artifact.
Deploy(r) ==
    /\ At(r, "deploy")
    /\ live' = [v \in Versions |-> IF run[r].record[v] = None THEN None
                                   ELSE run[r].record[v].content]
    /\ \/ /\ run' = [run EXCEPT ![r] = [@ EXCEPT !.pc = "verify",
                                                 !.reached = Reach(r, 4)]]
          /\ UNCHANGED <<active, failures>>
       \/ failures < MaxFailures /\ failures' = failures + 1 /\ Refuse(r)
    /\ UNCHANGED <<github, settings, manual, history>>

\* verify_live: this version is served, the retired ones are gone, the others unchanged.
LiveVerified(r) ==
    /\ live[run[r].version] = r
    /\ \A v \in Retired(run[r].registry) : live[v] = None
    /\ LiveSums(run[r].record, run[r].version)

VerifyLive(r) ==
    /\ At(r, "verify")
    /\ IF LiveVerified(r) THEN End(r, "succeeded") ELSE Refuse(r)
    /\ UNCHANGED <<github, settings, live, budgets, history>>

Publish(r) ==
    \/ Classify(r) \/ TakeSnapshot(r) \/ ComposeRoom(r) \/ CheckRoom(r) \/ Resnapshot(r)
    \/ ReadState(r) \/ CreateDraft(r) \/ UpdateDraft(r) \/ Upload(r) \/ Uploaded(r)
    \/ Readback(r) \/ CheckDraft(r) \/ StillServed(r) \/ StillLive(r) \/ Undraft(r)
    \/ ConfirmPublished(r)

Pages(r) == BuildPages(r) \/ CheckDeploy(r) \/ Deploy(r) \/ VerifyLive(r)

-----------------------------------------------------------------------------
(* People. *)

Land(change) ==
    /\ main.commit < MaxLandings
    /\ main' = [change EXCEPT !.commit = main.commit + 1]
    /\ UNCHANGED <<github, immutableOn, live, run, active, budgets, history>>

BumpVersion == main.version < MaxVersion /\ Land([main EXCEPT !.version = @ + 1])

\* The reviewed change that records a public version with its SHA256SUMS, or retires it.
PublicSums(v) == {releases[i].assets[Sums] : i \in {j \in Public : releases[j].version = v}} \ {None}

RecordVersion ==
    \E v \in Versions \ Listed(main.registry) : \E c \in PublicSums(v) :
        Land([main EXCEPT !.registry.published[v] = c])

RetireVersion ==
    \E v \in Versions \ Retired(main.registry) : \E c \in PublicSums(v) :
        Land([main EXCEPT !.registry.published[v] = None, !.registry.retired[v] = c])

\* The entry of a deleted release is removed by hand.
RemoveEntry ==
    \E v \in Listed(main.registry) :
        /\ PublicSums(v) = {}
        /\ Land([main EXCEPT !.registry.published[v] = None, !.registry.retired[v] = None])

ByHand(kind) ==
    /\ kind \in ManualKinds
    /\ manual < MaxManual
    /\ manual' = manual + 1
    /\ UNCHANGED <<main, nextId, live, run, active, failures>>

ToggleSetting ==
    /\ ByHand("setting")
    /\ immutableOn' = ~immutableOn
    /\ UNCHANGED <<releases, tags, history>>

\* Deleting a release keeps its tag.
DeleteRelease ==
    /\ ByHand("deleteRelease")
    /\ \E i \in Existing : releases' = [releases EXCEPT ![i] = None]
    /\ UNCHANGED <<tags, immutableOn, history>>

DeleteTag ==
    /\ ByHand("deleteTag")
    /\ \E v \in Versions : tags[v] # None /\ tags' = [tags EXCEPT ![v] = None]
    /\ tampered' = TRUE
    /\ UNCHANGED <<releases, immutableOn, released>>

\* A tag created or force-moved to a commit of main.
PushTag ==
    /\ ByHand("pushTag")
    /\ \E v \in Versions, c \in 0 .. main.commit :
         tags[v] # c /\ tags' = [tags EXCEPT ![v] = c]
    /\ UNCHANGED <<releases, immutableOn, history>>

FlipPrerelease ==
    /\ ByHand("prerelease")
    /\ \E i \in Existing : releases' = [releases EXCEPT ![i].prerelease = ~@]
    /\ UNCHANGED <<tags, immutableOn, history>>

EditNotes ==
    /\ ByHand("edit")
    /\ \E i \in Existing : releases' = [releases EXCEPT ![i].notes = None]
    /\ UNCHANGED <<tags, immutableOn, history>>

PublishDraftByHand ==
    /\ ByHand("publish")
    /\ \E i \in Existing : /\ releases[i].draft
                           /\ ~TagTaken(i, releases[i].version)
                           /\ MakePublic(i, releases[i])
    /\ tampered' = TRUE
    /\ UNCHANGED immutableOn

Landing == BumpVersion \/ RecordVersion \/ RetireVersion \/ RemoveEntry

Manual ==
    \/ ToggleSetting \/ DeleteRelease \/ DeleteTag \/ PushTag \/ FlipPrerelease
    \/ EditNotes \/ PublishDraftByHand

-----------------------------------------------------------------------------

RunStep(r) == Publish(r) \/ Pages(r)

Next ==
    \/ \E r \in Runs : Dispatch(r) \/ Preflight(r) \/ RunStep(r) \/ Fail(r)
    \/ \E r \in Runs, job \in 1 .. 4 : Rerun(r, job)
    \/ Landing
    \/ Manual

Spec == Init /\ [][Next]_vars

\* Jobs that start are run to an end, and a run that stopped or succeeded has its
\* last reached job run again: the retry docs/release-process.md asks for.
Fairness ==
    \A r \in Runs : WF_vars(Preflight(r) \/ RunStep(r)) /\ SF_vars(Rerun(r, run[r].reached))

FairSpec == Spec /\ Fairness

-----------------------------------------------------------------------------
(* Properties. *)

Site == INSTANCE PublishedSite WITH Contents <- Runs

\* The jobs implement the published site: however often calls fail and old runs are
\* re-run, a deployment puts only the run's own version in place and serves every
\* other version as it was or not at all (check_live_sums, check_deploy).
ImplementsPublishedSite == Site!Spec

\* Deployments only go forward: once a newer version was released no older run
\* changes the site again, though the newer release be deleted, and a version leaves
\* the site only when the deploying run's registry retires it, though its release be
\* deleted; as long as tags are kept (check_recorded, check_deploy).
DeploysOnlyForward ==
    [][live' # live /\ ~tampered =>
         /\ \A p \in released : p[1] <= run[active].version
         /\ \A v \in Versions :
              live[v] # None /\ live'[v] = None => v \in Retired(run[active].registry)]_vars

\* As long as tags are kept and no draft is published by hand, no version number is
\* used for two sets of bytes, even when a release is deleted and several runs were
\* dispatched for its version (publish_state).
NeverReissued ==
    \A p, q \in released : p[1] = q[1] => p[2] = q[2] \/ tampered

\* The public releases the committed registry does not retire.
Servable == {i \in Public : releases[i].version \notin Retired(main.registry)}

\* At most one public release waits for Pages: publish_release ends with the check
\* that every earlier one is live, across runs that resume in any order, unless
\* somebody deletes tags or publishes drafts.
AtMostOneBehind ==
    tampered \/ Cardinality({i \in Servable : live[releases[i].version] # releases[i].assets[Sums]}) <= 1

\* Whatever has become public can be served together within the Pages budget: the
\* irreversible step comes only after check_pages_room counted the others and itself,
\* and what is retired meanwhile only makes room.  A draft published by hand is not counted.
PublicFitsPages ==
    tampered \/ MapThenSumSet(LAMBDA v : Size[v], {releases[i].version : i \in Servable}) <= MaxSite

\* A release that became public is eventually served, or retired first: resuming is
\* possible after a failure or a lost answer at any call.
PublicBecomesLive ==
    \A r \in Runs, v \in Versions :
        <<v, r>> \in released ~> live[v] = r \/ v \in Retired(main.registry)

\* docs/release-process.md, "Re-running an earlier run cannot remove a version": a
\* version main records stays on the site unless the run's registry retires it.
RecordedVersionsStay ==
    [][\A v \in Versions :
         live[v] # None /\ live'[v] = None /\ main.registry.published[v] # None
            => v \in Retired(run[active].registry)]_vars
=============================================================================
