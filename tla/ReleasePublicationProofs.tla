----------------------- MODULE ReleasePublicationProofs -----------------------
(***************************************************************************)
(* The workflow implements PublishedSite, for any runs, versions, sizes    *)
(* and bounds, whatever fails and whatever people do by hand.  What a run  *)
(* deploys it composed in an earlier job, perhaps of an earlier attempt:   *)
(* IInv says what its record promises from then on, and what check_deploy  *)
(* has just added to that.  And no version is reissued: IssueInv says what *)
(* a released version leaves behind that every later run sees.             *)
(***************************************************************************)
EXTENDS ReleasePublication, TLAPS

\* A public and immutable release with its checksums counts as released.
ReleasedInv ==
    \A i \in Public : releases[i].immutable /\ releases[i].assets[Sums] # None =>
        <<releases[i].version, releases[i].assets[Sums]>> \in released

\* The draft that a run is working on is of its version.
DraftSteps == {"update", "upload", "readback", "draft", "served", "sums", "undraft"}
DraftInv ==
    \A r \in Runs :
        active = r /\ run[r].pc \in DraftSteps /\ run[r].release \in Existing =>
            releases[run[r].release].version = run[r].version

\* A composed site has the version of its run, with a content released under it.
Recorded3(x) ==
    x.reached >= 3 =>
        /\ x.record \in Composition /\ x.version \in Serves(x.record)
        /\ <<x.version, x.record[x.version].content>> \in released

RecordInv ==
    \A r \in Runs :
        /\ Recorded3(run[r])
        /\ run[r].pc = "undispatched" => run[r].reached = 0
        /\ active = r /\ run[r].pc \in {"check", "deploy", "verify"} => run[r].reached >= 3

\* From check_deploy to the deployment nothing else is deployed.
DeployInv ==
    \A r \in Runs : active = r /\ run[r].pc = "deploy" => LiveSums(run[r].record, run[r].version)

IInv == TypeOK /\ ReleasedInv /\ DraftInv /\ RecordInv /\ DeployInv

-----------------------------------------------------------------------------
\* At first nothing is dispatched and nothing released.
LEMMA InitInv == Init => IInv
<1> SUFFICES ASSUME Init PROVE IInv
    OBVIOUS
<1>1. EmptyRegistry \in Registry
    BY DEF EmptyRegistry, Registry, MaybeRun
<1>2. 1 \in Versions /\ 0 \in Commits /\ 1 \in 1 .. MaxReleases + 1
    BY PublicationConstants DEF Versions, Commits
<1>3. run \in [Runs -> Run]
    BY <1>1, <1>2 DEF Init, Run
<1>4. TypeOK
    <2>1. /\ main \in [version : Versions, commit : Commits, registry : Registry]
          /\ nextId \in 1 .. MaxReleases + 1
        BY <1>1, <1>2 DEF Init
    <2>2. /\ releases \in [ReleaseIds -> Release \cup {None}]
          /\ tags \in [Versions -> Commits \cup {None}]
          /\ live \in [Versions -> MaybeRun]
          /\ active \in MaybeRun
        BY DEF Init, MaybeRun
    <2>3. failures \in 0 .. MaxFailures /\ manual \in 0 .. MaxManual
        BY PublicationConstants DEF Init
    <2>4. /\ immutableOn \in BOOLEAN /\ tampered \in BOOLEAN
          /\ released \subseteq Versions \X Runs
        BY DEF Init
    <2>5. QED BY <1>3, <2>1, <2>2, <2>3, <2>4 DEF TypeOK
<1>5. ReleasedInv /\ DraftInv /\ DeployInv
    BY PublicationConstants DEF Init, ReleasedInv, DraftInv, DeployInv, Public, Existing
<1>6. RecordInv
    BY DEF Init, RecordInv, Recorded3
<1>7. QED BY <1>4, <1>5, <1>6 DEF IInv

\* A run goes on, or stops, and the shared state stays.
Stays(r) ==
    /\ run' = [run EXCEPT ![r] = run'[r]] /\ run'[r] \in Run
    /\ run'[r].version = run[r].version /\ run'[r].pc # "undispatched"
    /\ active' \in {r, None} /\ failures' \in 0 .. MaxFailures
    /\ UNCHANGED <<main, releases, nextId, tags, immutableOn, live, manual, released, tampered>>

\* It keeps the invariant when its own part of it holds afterwards.
LEMMA Steady ==
    ASSUME IInv, NEW r \in Runs, Stays(r), Recorded3(run'[r]),
           active' = r =>
             /\ run'[r].pc \in {"check", "deploy", "verify"} => run'[r].reached >= 3
             /\ run'[r].pc = "deploy" => LiveSums(run'[r].record, run[r].version)
             /\ run'[r].pc \in DraftSteps /\ run'[r].release \in Existing =>
                  releases[run'[r].release].version = run[r].version
    PROVE  IInv'
<1> USE DEF IInv, Stays
<1>1. run \in [Runs -> Run] /\ run' \in [Runs -> Run] /\ \A q \in Runs \ {r} : run'[q] = run[q]
    BY DEF TypeOK
<1>2. None \notin Runs /\ (\A q \in Runs \ {r} : active' # q)
    BY PublicationConstants
<1>3. TypeOK'
    BY <1>1 DEF TypeOK, MaybeRun
<1>4. ReleasedInv'
    BY DEF ReleasedInv, Public, Existing
<1>5. DraftInv'
    BY <1>1, <1>2 DEF DraftInv, Existing
<1>6. RecordInv'
    BY <1>1, <1>2 DEF RecordInv, Recorded3, Serves
<1>7. DeployInv'
    BY <1>1, <1>2 DEF DeployInv, LiveSums, Serves
<1>8. QED BY <1>3, <1>4, <1>5, <1>6, <1>7

\* Nothing that a gate could change, or the budget of failures alone.
Quiet ==
    /\ failures' \in 0 .. MaxFailures
    /\ UNCHANGED <<main, releases, nextId, tags, immutableOn, live, manual, released, tampered>>

\* A job that ends keeps what was composed.
LEMMA Ended ==
    ASSUME IInv, NEW r \in Runs, NEW how \in {"stopped", "succeeded"}, End(r, how), Quiet
    PROVE  IInv'
<1>1. run \in [Runs -> Run] /\ None \notin Runs
    BY PublicationConstants DEF IInv, TypeOK
<1>2. /\ run'[r] = [run[r] EXCEPT !.pc = how, !.served = None, !.room = None,
                                    !.release = None, !.todo = {}]
      /\ run' = [run EXCEPT ![r] = run'[r]] /\ active' = None
    BY <1>1 DEF End
<1>3. run[r] \in Run
    BY <1>1
<1>4. /\ run'[r] \in Run /\ run'[r].version = run[r].version
      /\ run'[r].reached = run[r].reached /\ run'[r].record = run[r].record
      /\ run'[r].pc # "undispatched"
    BY <1>2, <1>3 DEF Run
<1>5. Recorded3(run'[r])
    BY <1>4 DEF IInv, RecordInv, Recorded3, Serves
<1>6. Stays(r)
    BY <1>2, <1>4 DEF Stays, Quiet
<1>7. QED BY <1>1, <1>2, <1>5, <1>6, Steady

\* A step that passes goes to a step that promises no more.
LEMMA Went ==
    ASSUME IInv, NEW r \in Runs, NEW step, NEW next \in Steps, At(r, step), Goto(r, next), Quiet,
           next \in DraftSteps => step \in DraftSteps,
           next \in {"check", "deploy", "verify"} => step \in {"check", "deploy", "verify"},
           next = "deploy" => LiveSums(run[r].record, run[r].version)
    PROVE  IInv'
<1>1. run \in [Runs -> Run]
    BY DEF IInv, TypeOK
<1>2. /\ run'[r] = [run[r] EXCEPT !.pc = next]
      /\ run' = [run EXCEPT ![r] = run'[r]] /\ active = r /\ active' = r
      /\ run[r].pc = step
    BY <1>1 DEF Goto, At
<1>3. run[r] \in Run /\ next # "undispatched"
    BY <1>1 DEF Steps
<1>4. /\ run'[r] \in Run /\ run'[r].version = run[r].version /\ run'[r].release = run[r].release
      /\ run'[r].reached = run[r].reached /\ run'[r].record = run[r].record
      /\ run'[r].pc = next
    BY <1>2, <1>3 DEF Run
<1>5. Recorded3(run'[r])
    BY <1>4 DEF IInv, RecordInv, Recorded3, Serves
<1>6. Stays(r)
    BY <1>2, <1>3, <1>4 DEF Stays, Quiet
<1>7. /\ next \in {"check", "deploy", "verify"} => run[r].reached >= 3
      /\ next \in DraftSteps /\ run[r].release \in Existing =>
            releases[run[r].release].version = run[r].version
    BY <1>2 DEF IInv, RecordInv, DraftInv
<1>8. QED BY <1>2, <1>4, <1>5, <1>6, <1>7, Steady

-----------------------------------------------------------------------------
\* What passes compose_releases is a version per release, each with the content of
\* a public, immutable release.
LEMMA Composes ==
    ASSUME TypeOK, NEW registry, NEW pending, ComposePasses(registry, pending)
    PROVE  /\ Compose(registry, pending) \in Composition
           /\ \A v \in Serves(Compose(registry, pending)) :
                \E i \in Public : /\ releases[i].immutable /\ releases[i].version = v
                                 /\ releases[i].assets[Sums] = Compose(registry, pending)[v].content
                                 /\ releases[i].assets[Sums] \in Runs
<1> DEFINE c == Compose(registry, pending)
<1>1. ASSUME NEW i \in Candidates(pending), releases[i].version \notin Retired(registry)
      PROVE  /\ releases[i].immutable /\ i \in Public /\ i \in ReleaseIds
             /\ releases[i].assets[Sums] \in Runs
             /\ tags[releases[i].version] \in Commits
    <2>1. Settled(releases[i])
        BY <1>1 DEF ComposePasses
    <2>2. PICK q \in Runs : VerifiedAs(releases[i], q)
        BY <1>1 DEF ComposePasses
    <2>3. run[q].commit \in Commits
        BY DEF TypeOK, Run
    <2>4. QED BY <2>1, <2>2, <2>3, PublicationConstants
              DEF Settled, VerifiedAs, Candidates, Public, Existing
<1>2. ASSUME NEW v \in Versions
      PROVE  \/ c[v] = None
             \/ \E i \in Candidates(pending) :
                    /\ releases[i].version = v /\ v \notin Retired(registry)
                    /\ c[v] = [content |-> releases[i].assets[Sums], id |-> i, commit |-> tags[v]]
    <2> DEFINE at == {i \in Candidates(pending) : releases[i].version = v}
    <2>1. CASE at = {} \/ v \in Retired(registry)
        BY <2>1 DEF Compose
    <2>2. CASE at # {} /\ v \notin Retired(registry)
        <3> DEFINE i == CHOOSE i \in at : TRUE
        <3>1. i \in at
            BY <2>2
        <3>2. c[v] = [content |-> releases[i].assets[Sums], id |-> i, commit |-> tags[v]]
            BY <2>2 DEF Compose
        <3> HIDE DEF i
        <3>3. QED BY <2>2, <3>1, <3>2
    <2>3. QED BY <2>1, <2>2
<1>3. ASSUME NEW v \in Versions, c[v] # None
      PROVE  /\ c[v] \in Composed
             /\ \E i \in Public : /\ releases[i].immutable /\ releases[i].version = v
                                 /\ releases[i].assets[Sums] = c[v].content
                                 /\ releases[i].assets[Sums] \in Runs
    <2> HIDE DEF c
    <2>1. PICK i \in Candidates(pending) :
                /\ releases[i].version = v /\ v \notin Retired(registry)
                /\ c[v] = [content |-> releases[i].assets[Sums], id |-> i, commit |-> tags[v]]
        BY <1>2, <1>3
    <2>2. QED BY <1>1, <2>1 DEF Composed
<1>4. c \in Composition
    <2>1. c = [v \in Versions |-> c[v]]
        BY DEF Compose
    <2> HIDE DEF c
    <2>2. QED BY <1>3, <2>1 DEF Composition
<1>5. QED BY <1>3, <1>4 DEF Serves

-----------------------------------------------------------------------------
(* Dispatch and the gates: the shared state stays. *)

\* A refusal, and a job that dies.
LEMMA RefuseStep ==
    ASSUME IInv, NEW r \in Runs, Refuse(r), Quiet
    PROVE  IInv'
BY Ended DEF Refuse

\* A job that dies where no request is under way.
LEMMA FailStep ==
    ASSUME IInv, NEW r \in Runs, Fail(r)
    PROVE  IInv'
<1>1. Refuse(r) /\ Quiet
    BY PublicationConstants DEF Fail, Quiet, IInv, TypeOK, github, settings, history
<1>2. QED BY <1>1, RefuseStep

\* A run's commit, version and registry are those of main when it is dispatched.
LEMMA DispatchStep ==
    ASSUME IInv, NEW r \in Runs, Dispatch(r)
    PROVE  IInv'
<1>1. /\ run \in [Runs -> Run] /\ run[r] \in Run /\ run[r].pc = "undispatched"
      /\ main \in [version : Versions, commit : Commits, registry : Registry]
    BY DEF IInv, TypeOK, Dispatch
<1>2. /\ run' = [run EXCEPT ![r] = run'[r]]
      /\ run'[r] = [run[r] EXCEPT !.pc = "queued", !.version = main.version,
                                    !.commit = main.commit, !.registry = main.registry]
      /\ UNCHANGED <<main, releases, nextId, tags, immutableOn, live, active, failures, manual,
                     released, tampered>>
    BY <1>1 DEF Dispatch, github, settings, budgets, history
<1>3. /\ run'[r] \in Run /\ run'[r].pc = "queued" /\ run'[r].reached = 0
      /\ run' \in [Runs -> Run] /\ \A q \in Runs \ {r} : run'[q] = run[q]
    <2>1. run[r].reached = 0
        BY <1>1 DEF IInv, RecordInv
    <2>2. run'[r] \in Run /\ run'[r].pc = "queued" /\ run'[r].reached = run[r].reached
        BY <1>1, <1>2 DEF Run
    <2>3. QED BY <1>1, <1>2, <2>1, <2>2
<1> USE DEF IInv
<1>4. TypeOK'
    BY <1>2, <1>3 DEF TypeOK
<1>5. ReleasedInv'
    BY <1>2 DEF ReleasedInv, Public, Existing
<1>6. DraftInv'
    BY <1>2, <1>3 DEF DraftInv, DraftSteps, Existing
<1>7. RecordInv'
    <2>1. Recorded3(run[r])'
        BY <1>3 DEF Recorded3
    <2>2. ASSUME NEW q \in Runs \ {r} PROVE Recorded3(run[q])'
        BY <1>2, <1>3 DEF RecordInv, Recorded3, Serves
    <2>3. QED BY <1>2, <1>3, <2>1, <2>2 DEF RecordInv
<1>8. DeployInv'
    <2>1. ASSUME NEW q \in Runs, active' = q, run'[q].pc = "deploy"
          PROVE  LiveSums(run[q].record, run[q].version) /\ run'[q] = run[q]
        BY <1>2, <1>3, <2>1 DEF DeployInv
    <2>2. QED BY <1>2, <2>1 DEF DeployInv, LiveSums
<1>9. QED BY <1>4, <1>5, <1>6, <1>7, <1>8

\* The preflight, and a re-run of a job that was reached before.
LEMMA StartStep ==
    ASSUME IInv, NEW r \in Runs, Preflight(r) \/ \E job \in 1 .. 4 : Rerun(r, job)
    PROVE  IInv'
<1>1. /\ run \in [Runs -> Run] /\ run[r] \in Run
      /\ failures \in 0 .. MaxFailures
    BY DEF IInv, TypeOK
<1> USE DEF github, settings, budgets, history
<1>2. CASE Preflight(r)
    <2>1. Quiet
        BY <1>1, <1>2 DEF Preflight, Quiet
    <2>2. CASE Refuse(r)
        BY <2>1, <2>2, RefuseStep
    <2>3. CASE /\ run' = [run EXCEPT ![r].pc = "classify", ![r].reached = 1]
               /\ active' = r
        <3>1. /\ run' = [run EXCEPT ![r] = run'[r]]
              /\ run'[r] = [run[r] EXCEPT !.pc = "classify", !.reached = 1]
            BY <1>1, <2>3
        <3>2. [run[r] EXCEPT !.pc = "classify"] \in Run
            BY <1>1 DEF Run, Steps
        <3>3. /\ run'[r] \in Run /\ run'[r].pc = "classify" /\ run'[r].reached = 1
              /\ run'[r].version = run[r].version
            <4> DEFINE x == [run[r] EXCEPT !.pc = "classify"]
            <4>1. /\ x.pc = "classify" /\ x.version = run[r].version
                  /\ run'[r] = [x EXCEPT !.reached = 1] /\ 1 \in 0 .. 4
                BY <1>1, <3>1 DEF Run
            <4> HIDE DEF x
            <4>2. QED BY <3>2, <4>1 DEF Run, x
        <3>4. Stays(r)
            BY <2>1, <2>3, <3>1, <3>3 DEF Stays, Quiet
        <3>5. Recorded3(run'[r])
            BY <3>3 DEF Recorded3
        <3>6. "classify" \notin {"check", "deploy", "verify"} \cup DraftSteps
            BY DEF DraftSteps
        <3>7. QED BY <3>3, <3>4, <3>5, <3>6, Steady
    <2>4. QED BY <1>2, <2>2, <2>3 DEF Preflight
<1>3. ASSUME NEW job \in 1 .. 4, Rerun(r, job) PROVE IInv'
    <2>1. Quiet /\ active' = r
        BY <1>1, <1>3 DEF Rerun, Quiet
    <2>2. /\ run' = [run EXCEPT ![r] = run'[r]]
          /\ run'[r] = [run[r] EXCEPT !.pc = JobStart[job]]
        BY <1>1, <1>3 DEF Rerun
    <2>3. /\ JobStart[job] \in {"classify", "build", "check", "verify"}
          /\ JobStart[job] \in {"check", "verify"} => job >= 3
          /\ job <= run[r].reached /\ run[r].reached \in 0 .. 4
        BY <1>1, <1>3 DEF Rerun, JobStart, Run
    <2>4. /\ run'[r] \in Run /\ run'[r].pc = JobStart[job] /\ run'[r].version = run[r].version
          /\ run'[r].reached = run[r].reached /\ run'[r].record = run[r].record
        BY <1>1, <2>2, <2>3 DEF Run, Steps
    <2>5. Stays(r)
        BY <2>1, <2>2, <2>3, <2>4 DEF Stays, Quiet
    <2>6. Recorded3(run'[r])
        BY <2>4 DEF IInv, RecordInv, Recorded3, Serves
    <2>7. QED BY <2>1, <2>3, <2>4, <2>5, <2>6, Steady DEF DraftSteps
<1>4. QED BY <1>2, <1>3

\* The gates of publish-release, which read only.
LEMMA GateSteps ==
    ASSUME IInv, NEW r \in Runs,
           \/ Classify(r) \/ CheckRoom(r) \/ Resnapshot(r) \/ Uploaded(r) \/ Readback(r)
           \/ CheckDraft(r) \/ StillServed(r) \/ StillLive(r)
    PROVE  IInv'
<1>1. Quiet
    BY DEF Classify, CheckRoom, Resnapshot, Uploaded, Readback, CheckDraft, StillServed, StillLive,
           Gate, Quiet, github, settings, budgets, history, IInv, TypeOK
<1>2. \/ Refuse(r)
      \/ At(r, "classify") /\ Goto(r, "snapshot")
      \/ At(r, "room") /\ Goto(r, "resnapshot")
      \/ At(r, "resnapshot") /\ Goto(r, "state")
      \/ At(r, "upload") /\ Goto(r, "readback")
      \/ At(r, "readback") /\ Goto(r, "draft")
      \/ At(r, "draft") /\ Goto(r, "served")
      \/ At(r, "served") /\ Goto(r, "sums")
      \/ At(r, "sums") /\ Goto(r, "undraft")
    BY DEF Classify, CheckRoom, Resnapshot, Uploaded, Readback, CheckDraft, StillServed, StillLive,
           Gate
<1>3. QED BY <1>1, <1>2, RefuseStep, Went DEF Steps, DraftSteps

\* check_deploy finds every other served version as it is recorded.
LEMMA CheckDeployStep ==
    ASSUME IInv, NEW r \in Runs, CheckDeploy(r)
    PROVE  IInv'
<1>1. Quiet
    BY DEF CheckDeploy, Gate, Quiet, github, settings, budgets, history, IInv, TypeOK
<1>2. \/ Refuse(r)
      \/ At(r, "check") /\ Goto(r, "deploy") /\ LiveSums(run[r].record, run[r].version)
    BY DEF CheckDeploy, Gate
<1>3. QED BY <1>1, <1>2, RefuseStep, Went DEF Steps, DraftSteps

-----------------------------------------------------------------------------
(* What a run reads and composes. *)

\* The snapshot and the composition of the other versions.
LEMMA ReadingSteps ==
    ASSUME IInv, NEW r \in Runs, TakeSnapshot(r) \/ ComposeRoom(r)
    PROVE  IInv'
<1>1. /\ run \in [Runs -> Run] /\ run[r] \in Run /\ TypeOK /\ Recorded3(run[r])
    BY DEF IInv, TypeOK, RecordInv
<1>2. Quiet
    BY DEF TakeSnapshot, ComposeRoom, Quiet, github, settings, budgets, history, IInv, TypeOK
<1>3. CASE TakeSnapshot(r)
    <2>1. ServedState(run[r].version) \in Snapshot
        BY <1>1 DEF ServedState, Snapshot, TypeOK
    <2>2. /\ run' = [run EXCEPT ![r] = run'[r]] /\ active' = r
          /\ run'[r] = [run[r] EXCEPT !.pc = "compose", !.served = ServedState(run[r].version)]
        BY <1>1, <1>3 DEF TakeSnapshot, At
    <2>3. /\ run'[r] \in Run /\ run'[r].pc = "compose" /\ run'[r].version = run[r].version
          /\ run'[r].reached = run[r].reached /\ run'[r].record = run[r].record
        BY <1>1, <2>1, <2>2 DEF Run, Steps
    <2>4. Stays(r) /\ Recorded3(run'[r])
        BY <1>1, <1>2, <2>2, <2>3 DEF Stays, Quiet, Recorded3, Serves
    <2>5. QED BY <2>3, <2>4, Steady DEF DraftSteps
<1>4. CASE ComposeRoom(r)
    <2> DEFINE site == Compose(run[r].registry, run[r].version)
    <2>1. CASE Refuse(r)
        BY <1>2, <2>1, RefuseStep
    <2>2. CASE /\ ComposePasses(run[r].registry, run[r].version) /\ At(r, "compose")
               /\ run' = [run EXCEPT ![r].pc = "room", ![r].room = site] /\ active' = active
        <3>1. site \in Composition
            BY <1>1, <2>2, Composes
        <3>2. /\ run' = [run EXCEPT ![r] = run'[r]] /\ active' = r
              /\ run'[r] = [run[r] EXCEPT !.pc = "room", !.room = site]
            BY <1>1, <2>2 DEF At
        <3> HIDE DEF site
        <3>3. /\ run'[r] \in Run /\ run'[r].pc = "room" /\ run'[r].version = run[r].version
              /\ run'[r].reached = run[r].reached /\ run'[r].record = run[r].record
            BY <1>1, <3>1, <3>2 DEF Run, Steps
        <3>4. Stays(r) /\ Recorded3(run'[r])
            BY <1>1, <1>2, <3>2, <3>3 DEF Stays, Quiet, Recorded3, Serves
        <3>5. QED BY <3>3, <3>4, Steady DEF DraftSteps
    <2>3. QED BY <1>4, <2>1, <2>2 DEF ComposeRoom
<1>5. QED BY <1>3, <1>4

\* publish_state: the release a run works on is the only one of its version.
LEMMA ReadStateStep ==
    ASSUME IInv, NEW r \in Runs, ReadState(r)
    PROVE  IInv'
<1>1. /\ run \in [Runs -> Run] /\ run[r] \in Run /\ Recorded3(run[r]) /\ At(r, "state")
    BY DEF IInv, TypeOK, RecordInv, ReadState
<1>2. Quiet
    BY DEF ReadState, Quiet, github, settings, budgets, history, IInv, TypeOK
<1>3. CASE Goto(r, "create")
    BY <1>1, <1>2, <1>3, Went DEF Steps, DraftSteps
<1>4. CASE Refuse(r)
    BY <1>2, <1>4, RefuseStep
<1>5. ASSUME NEW i \in Existing, releases[i].version = run[r].version, active' = active,
             NEW todo \in SUBSET Assets, NEW next \in {"update", "final"},
             run' = [run EXCEPT ![r] = [run[r] EXCEPT !.pc = next, !.release = i, !.todo = todo]]
      PROVE  IInv'
    <2>1. /\ run' = [run EXCEPT ![r] = run'[r]] /\ active' = r /\ i \in ReleaseIds
          /\ run'[r] = [run[r] EXCEPT !.pc = next, !.release = i, !.todo = todo]
        BY <1>1, <1>5 DEF At, Existing
    <2>2. /\ run'[r] \in Run /\ run'[r].pc = next /\ run'[r].version = run[r].version
          /\ run'[r].reached = run[r].reached /\ run'[r].record = run[r].record
          /\ run'[r].release = i
        BY <1>1, <2>1 DEF Run, Steps
    <2>3. Stays(r) /\ Recorded3(run'[r])
        BY <1>1, <1>2, <2>1, <2>2 DEF Stays, Quiet, Recorded3, Serves
    <2>4. QED BY <1>5, <2>2, <2>3, Steady
<1>6. ASSUME NEW i \in Existing, DraftResume(r, i), active' = active,
             run' = [run EXCEPT ![r].pc = "update", ![r].release = i,
                                ![r].todo = {a \in Assets : releases[i].assets[a] = None}]
      PROVE  IInv'
    <2>1. releases[i].version = run[r].version
        BY <1>6 DEF DraftResume, Tagged
    <2>2. run' = [run EXCEPT ![r] = [run[r] EXCEPT !.pc = "update", !.release = i,
                                !.todo = {a \in Assets : releases[i].assets[a] = None}]]
        BY <1>1, <1>6
    <2>3. QED BY <1>5, <1>6, <2>1, <2>2
<1>7. ASSUME NEW i \in Existing, PublishedResume(r, i), active' = active,
             run' = [run EXCEPT ![r].pc = "final", ![r].release = i]
      PROVE  IInv'
    <2>1. releases[i].version = run[r].version
        BY <1>7 DEF PublishedResume, Tagged
    <2>2. /\ run' = [run EXCEPT ![r] = [run[r] EXCEPT !.pc = "final", !.release = i, !.todo = run[r].todo]]
          /\ run[r].todo \in SUBSET Assets
        BY <1>1, <1>7 DEF Run
    <2>3. QED BY <1>5, <1>7, <2>1, <2>2
<1>8. QED BY <1>3, <1>4, <1>6, <1>7 DEF ReadState

\* What is reached never goes down, and is at most the last job.
LEMMA Reached ==
    ASSUME NEW r, NEW job \in 1 .. 4, run[r].reached \in 0 .. 4
    PROVE  /\ Reach(r, job) \in 0 .. 4 /\ Reach(r, job) >= job
           /\ Reach(r, job) >= 3 => job >= 3 \/ run[r].reached >= 3
           /\ Reach(r, job) >= run[r].reached
BY DEF Reach

\* Only the counter changes when a job is reached.
LEMMA Counted ==
    ASSUME NEW x \in Run, NEW n \in 0 .. 4, NEW y, y = [x EXCEPT !.reached = n]
    PROVE  y \in Run /\ y.pc = x.pc /\ y.version = x.version /\ y.record = x.record /\ y.reached = n
BY DEF Run

\* What a record promises does not depend on the rest of the run.
LEMMA PromiseKept ==
    ASSUME NEW x, NEW y, Recorded3(x), y.version = x.version, y.record = x.record,
           y.reached >= 3 => x.reached >= 3
    PROVE  Recorded3(y)
BY DEF Recorded3

\* The end of publish-release.
LEMMA ConfirmStep ==
    ASSUME IInv, NEW r \in Runs, ConfirmPublished(r)
    PROVE  IInv'
<1>1. /\ run \in [Runs -> Run] /\ run[r] \in Run /\ Recorded3(run[r]) /\ At(r, "final")
    BY DEF IInv, TypeOK, RecordInv, ConfirmPublished
<1>2. Quiet
    BY DEF ConfirmPublished, Quiet, github, settings, budgets, history, IInv, TypeOK
<1>3. CASE Refuse(r)
    BY <1>2, <1>3, RefuseStep
<1>4. CASE /\ run' = [run EXCEPT ![r] = [@ EXCEPT !.pc = "build", !.served = None, !.room = None,
                                            !.release = None, !.reached = Reach(r, 2)]]
           /\ active' = active
    <2>1. /\ run' = [run EXCEPT ![r] = run'[r]] /\ active' = r
          /\ run'[r] = [run[r] EXCEPT !.pc = "build", !.served = None, !.room = None,
                                      !.release = None, !.reached = Reach(r, 2)]
        BY <1>1, <1>4 DEF At
    <2>2. /\ Reach(r, 2) \in 0 .. 4
          /\ Reach(r, 2) >= 3 => run[r].reached >= 3
        BY <1>1, Reached DEF Run
    <2>3. /\ run'[r] \in Run /\ run'[r].pc = "build" /\ run'[r].version = run[r].version
          /\ run'[r].reached = Reach(r, 2) /\ run'[r].record = run[r].record
        <3> DEFINE x == [run[r] EXCEPT !.pc = "build", !.served = None, !.room = None, !.release = None]
        <3>1. /\ x \in Run /\ x.pc = "build" /\ x.version = run[r].version /\ x.record = run[r].record
            BY <1>1 DEF Run, Steps
        <3>2. run'[r] = [x EXCEPT !.reached = Reach(r, 2)]
            BY <2>1
        <3> HIDE DEF x
        <3>3. QED BY <2>2, <3>1, <3>2, Counted
    <2>4. Stays(r)
        BY <1>2, <2>1, <2>3 DEF Stays, Quiet
    <2>5. Recorded3(run'[r])
        BY <1>1, <2>2, <2>3, PromiseKept
    <2>6. QED BY <2>3, <2>4, <2>5, Steady DEF DraftSteps
<1>5. QED BY <1>3, <1>4 DEF ConfirmPublished

\* The composition that a run records has its version, with what was released as it.
LEMMA BuildStep ==
    ASSUME IInv, NEW r \in Runs, BuildPages(r)
    PROVE  IInv'
<1> DEFINE site == Compose(run[r].registry, None)
<1>1. /\ run \in [Runs -> Run] /\ run[r] \in Run /\ Recorded3(run[r]) /\ At(r, "build")
      /\ TypeOK
    BY DEF IInv, TypeOK, RecordInv, BuildPages
<1>2. Quiet
    BY DEF BuildPages, Quiet, github, settings, budgets, history, IInv, TypeOK
<1>3. CASE Refuse(r)
    BY <1>2, <1>3, RefuseStep
<1>4. CASE /\ ComposePasses(run[r].registry, None) /\ Newest(site, run[r].version)
           /\ run' = [run EXCEPT ![r] = [@ EXCEPT !.pc = "check", !.record = site, !.reached = Reach(r, 3)]]
           /\ active' = active
    <2>1. site \in Composition
        BY <1>1, <1>4, Composes
    <2>2. run[r].version \in Serves(site)
        BY <1>4 DEF Newest
    <2>3. \E i \in Public : /\ releases[i].immutable /\ releases[i].version = run[r].version
                           /\ releases[i].assets[Sums] = site[run[r].version].content
                           /\ releases[i].assets[Sums] \in Runs
        BY <1>1, <1>4, <2>2, Composes
    <2>4. <<run[r].version, site[run[r].version].content>> \in released
        BY <2>3, PublicationConstants DEF IInv, ReleasedInv
    <2>5. /\ run' = [run EXCEPT ![r] = run'[r]] /\ active' = r
          /\ run'[r] = [run[r] EXCEPT !.pc = "check", !.record = site, !.reached = Reach(r, 3)]
        BY <1>1, <1>4 DEF At
    <2>6. Reach(r, 3) \in 0 .. 4 /\ Reach(r, 3) >= 3
        BY <1>1, Reached DEF Run
    <2> HIDE DEF site
    <2>7. /\ run'[r] \in Run /\ run'[r].pc = "check" /\ run'[r].version = run[r].version
          /\ run'[r].reached = Reach(r, 3) /\ run'[r].record = site
        <3> DEFINE x == [run[r] EXCEPT !.pc = "check", !.record = site]
        <3>1. /\ x \in Run /\ x.pc = "check" /\ x.version = run[r].version /\ x.record = site
            BY <1>1, <2>1 DEF Run, Steps
        <3>2. run'[r] = [x EXCEPT !.reached = Reach(r, 3)]
            BY <2>5
        <3> HIDE DEF x
        <3>3. QED BY <2>6, <3>1, <3>2, Counted
    <2>8. Stays(r)
        BY <1>2, <2>5, <2>7 DEF Stays, Quiet
    <2>9. Recorded3(run'[r])
        BY <2>1, <2>2, <2>4, <2>7 DEF Recorded3
    <2>10. QED BY <2>6, <2>7, <2>8, <2>9, Steady DEF DraftSteps
<1>5. QED BY <1>3, <1>4 DEF BuildPages

\* verify-live ends the run.
LEMMA VerifyStep ==
    ASSUME IInv, NEW r \in Runs, VerifyLive(r)
    PROVE  IInv'
<1>1. Quiet
    BY DEF VerifyLive, Quiet, github, settings, budgets, history, IInv, TypeOK
<1>2. QED BY <1>1, RefuseStep, Ended DEF VerifyLive

\* A deployment moves the run and the site; until it, both are as check_deploy left them.
LEMMA DeployStep ==
    ASSUME IInv, NEW r \in Runs, Deploy(r)
    PROVE  IInv' /\ Site!Deploy(run[r].version)
<1> DEFINE record == run[r].record
           version == run[r].version
<1>1. /\ run \in [Runs -> Run] /\ run[r] \in Run /\ Recorded3(run[r]) /\ At(r, "deploy")
      /\ run[r].reached >= 3 /\ LiveSums(record, version)
      /\ version \in Versions /\ run[r].reached \in 0 .. 4
      /\ failures \in 0 .. MaxFailures /\ MaxFailures \in Nat
    BY PublicationConstants DEF IInv, TypeOK, RecordInv, DeployInv, Deploy, At, Run
<1>2. /\ record \in Composition /\ version \in Serves(record)
      /\ <<version, record[version].content>> \in released
    BY <1>1 DEF Recorded3
<1>3. /\ live' = [v \in Versions |-> IF record[v] = None THEN None ELSE record[v].content]
      /\ UNCHANGED <<main, releases, nextId, tags, immutableOn, manual, released, tampered>>
    BY DEF Deploy, github, settings, history
<1>4. \A v \in Versions : record[v] # None => record[v].content \in Runs
    BY <1>2 DEF Composition, Composed
<1>5. live' \in [Versions -> MaybeRun]
    BY <1>3, <1>4 DEF MaybeRun
<1>6. Site!Deploy(version)
    <2>1. live'[version] = record[version].content
        BY <1>1, <1>2, <1>3 DEF Serves
    <2>2. ASSUME NEW v \in Versions \ {version} PROVE live'[v] \in {live[v], None}
        BY <1>1, <1>3 DEF LiveSums, Serves
    <2>3. QED BY <1>2, <1>3, <1>5, <2>1, <2>2 DEF Site!Deploy, MaybeRun
<1>7. /\ run' \in [Runs -> Run] /\ \A q \in Runs \ {r} : run'[q] = run[q]
      /\ Recorded3(run'[r]) /\ run'[r].pc \in {"verify", "stopped"}
      /\ run'[r].pc = "verify" => run'[r].reached >= 3
      /\ active' \in {r, None} /\ failures' \in 0 .. MaxFailures
    <2>1. CASE /\ run' = [run EXCEPT ![r] = [@ EXCEPT !.pc = "verify", !.reached = Reach(r, 4)]]
               /\ UNCHANGED <<active, failures>>
        <3>1. Reach(r, 4) \in 0 .. 4 /\ Reach(r, 4) >= 4
            BY <1>1, Reached
        <3>2. run'[r] = [run[r] EXCEPT !.pc = "verify", !.reached = Reach(r, 4)]
            BY <1>1, <2>1
        <3>3. /\ run'[r] \in Run /\ run'[r].pc = "verify" /\ run'[r].version = version
              /\ run'[r].reached = Reach(r, 4) /\ run'[r].record = record
            <4> DEFINE x == [run[r] EXCEPT !.pc = "verify"]
            <4>1. /\ x \in Run /\ x.pc = "verify" /\ x.version = version /\ x.record = record
                BY <1>1 DEF Run, Steps
            <4>2. run'[r] = [x EXCEPT !.reached = Reach(r, 4)]
                BY <3>2
            <4> HIDE DEF x
            <4>3. QED BY <3>1, <4>1, <4>2, Counted
        <3>4. Recorded3(run'[r])
            BY <1>2, <3>3 DEF Recorded3
        <3>5. QED BY <1>1, <2>1, <3>1, <3>3, <3>4 DEF At
    <2>2. CASE failures < MaxFailures /\ failures' = failures + 1 /\ Refuse(r)
        <3>1. run'[r] = [run[r] EXCEPT !.pc = "stopped", !.served = None, !.room = None,
                                       !.release = None, !.todo = {}]
            BY <1>1, <2>2 DEF Refuse, End
        <3>2. /\ run'[r] \in Run /\ run'[r].pc = "stopped" /\ run'[r].version = version
              /\ run'[r].reached = run[r].reached /\ run'[r].record = record
            BY <1>1, <3>1 DEF Run
        <3>3. Recorded3(run'[r])
            BY <1>2, <3>2 DEF Recorded3
        <3>4. QED BY <1>1, <2>2, <3>2, <3>3 DEF Refuse, End
    <2>3. QED BY <2>1, <2>2 DEF Deploy
<1>8. None \notin Runs
    BY PublicationConstants
<1> USE DEF IInv
<1>9. TypeOK'
    BY <1>3, <1>5, <1>7 DEF TypeOK, MaybeRun
<1>10. ReleasedInv'
    BY <1>3 DEF ReleasedInv, Public, Existing
<1>11. DraftInv'
    BY <1>3, <1>7, <1>8 DEF DraftInv, DraftSteps, Existing
<1>12. RecordInv'
    <2>1. ASSUME NEW q \in Runs \ {r} PROVE Recorded3(run[q])' /\ active' # q
        BY <1>3, <1>7, <1>8 DEF RecordInv, Recorded3, Serves
    <2>2. Recorded3(run[r])'
        BY <1>3, <1>7 DEF Recorded3, Serves
    <2>3. QED BY <1>7, <2>1, <2>2 DEF RecordInv
<1>13. DeployInv'
    BY <1>7, <1>8 DEF DeployInv
<1>14. QED BY <1>6, <1>9, <1>10, <1>11, <1>12, <1>13

-----------------------------------------------------------------------------
(* Releases and tags change. *)

\* A run that works on its release.
LEMMA Worked ==
    ASSUME IInv, NEW r \in Runs, active = r, TypeOK', ReleasedInv', released \subseteq released',
           live' = live, active' \in {r, None}, run' = [run EXCEPT ![r] = run'[r]],
           run'[r].version = run[r].version, run'[r].record = run[r].record,
           run'[r].reached = run[r].reached,
           run'[r].pc \in DraftSteps \cup {"final", "stopped"},
           active' = r /\ run'[r].pc \in DraftSteps /\ run'[r].release \in Existing' =>
                releases'[run'[r].release].version = run[r].version
    PROVE  IInv'
<1>1. run \in [Runs -> Run] /\ \A q \in Runs \ {r} : run'[q] = run[q]
    BY DEF IInv, TypeOK
<1>2. None \notin Runs /\ (\A q \in Runs \ {r} : active' # q)
    BY PublicationConstants
<1>3. run'[r].pc \notin {"undispatched", "check", "deploy", "verify"}
    BY DEF DraftSteps
<1>4. DraftInv'
    BY <1>1, <1>2 DEF DraftInv
<1>5. RecordInv'
    <2>1. ASSUME NEW q \in Runs PROVE Recorded3(run[q])'
        <3>1. Recorded3(run[q])
            BY DEF IInv, RecordInv
        <3>2. /\ run'[q].version = run[q].version /\ run'[q].record = run[q].record
              /\ run'[q].reached = run[q].reached
            BY <1>1
        <3>3. QED BY <3>1, <3>2 DEF Recorded3, Serves
    <2>2. QED BY <1>1, <1>2, <1>3, <2>1 DEF IInv, RecordInv
<1>6. DeployInv'
    BY <1>1, <1>2, <1>3 DEF DeployInv
<1>7. QED BY <1>4, <1>5, <1>6 DEF IInv

\* What somebody does by hand, while a run may be in progress.
LEMMA Touched ==
    ASSUME IInv, TypeOK', ReleasedInv', released \subseteq released',
           UNCHANGED <<run, active, live>>,
           \A i \in Existing' : i \in Existing /\ releases'[i].version = releases[i].version
    PROVE  IInv'
<1>1. DraftInv'
    BY DEF IInv, DraftInv
<1>2. RecordInv'
    <2>1. ASSUME NEW q \in Runs PROVE Recorded3(run[q])'
        BY DEF IInv, RecordInv, Recorded3, Serves
    <2>2. QED BY <2>1 DEF IInv, RecordInv
<1>3. DeployInv'
    BY DEF IInv, DeployInv, LiveSums, Serves
<1>4. QED BY <1>1, <1>2, <1>3 DEF IInv

\* A release is a draft at first, and nothing of it is released.
LEMMA CreateStep ==
    ASSUME IInv, NEW r \in Runs, CreateDraft(r)
    PROVE  IInv'
<1> DEFINE draft == [version |-> run[r].version, draft |-> TRUE, prerelease |-> FALSE,
                     immutable |-> FALSE, target |-> run[r].commit,
                     assets |-> [a \in Assets |-> None], notes |-> r]
<1>1. /\ run \in [Runs -> Run] /\ run[r] \in Run /\ At(r, "create") /\ TypeOK
      /\ nextId \in ReleaseIds /\ nextId' = nextId + 1
      /\ releases' = [releases EXCEPT ![nextId] = draft]
      /\ UNCHANGED <<main, tags, immutableOn, live, manual, released, tampered>>
    BY DEF IInv, TypeOK, CreateDraft, settings, history
<1>2. draft \in Release
    BY <1>1 DEF Release, Run, MaybeRun
<1> HIDE DEF draft
<1>3. /\ run' = [run EXCEPT ![r] = run'[r]] /\ run'[r] \in Run /\ active' \in {r, None}
      /\ run'[r].version = run[r].version /\ run'[r].record = run[r].record
      /\ run'[r].reached = run[r].reached
      /\ \/ run'[r].pc = "update" /\ run'[r].release = nextId
         \/ run'[r].pc = "stopped"
      /\ failures' \in 0 .. MaxFailures
    <2>1. CASE /\ run' = [run EXCEPT ![r].pc = "update", ![r].release = nextId, ![r].todo = Assets]
               /\ UNCHANGED <<active, failures>>
        <3>1. /\ run'[r] = [run[r] EXCEPT !.pc = "update", !.release = nextId, !.todo = Assets]
              /\ run[r] \in Run /\ nextId \in ReleaseIds
            BY <1>1, <2>1
        <3> DEFINE x == [run[r] EXCEPT !.pc = "update", !.release = nextId]
        <3>2. /\ x \in Run /\ x.pc = "update" /\ x.release = nextId
              /\ x.version = run[r].version /\ x.record = run[r].record
              /\ x.reached = run[r].reached
            BY <3>1 DEF Run, Steps
        <3>3. run'[r] = [x EXCEPT !.todo = Assets]
            BY <3>1
        <3> HIDE DEF x
        <3>4. /\ run'[r] \in Run /\ run'[r].pc = "update" /\ run'[r].release = nextId
              /\ run'[r].version = run[r].version /\ run'[r].record = run[r].record
              /\ run'[r].reached = run[r].reached
            BY <3>2, <3>3 DEF Run
        <3>5. QED BY <1>1, <2>1, <3>4 DEF At, TypeOK
    <2>2. CASE failures < MaxFailures /\ failures' = failures + 1 /\ Refuse(r)
        <3>1. run'[r] = [run[r] EXCEPT !.pc = "stopped", !.served = None, !.room = None,
                                       !.release = None, !.todo = {}]
            BY <1>1, <2>2 DEF Refuse, End
        <3>2. /\ run'[r] \in Run /\ run'[r].pc = "stopped"
              /\ run'[r].version = run[r].version /\ run'[r].record = run[r].record
              /\ run'[r].reached = run[r].reached
            BY <1>1, <3>1 DEF Run
        <3>3. QED BY <1>1, <2>2, <3>2, PublicationConstants DEF Refuse, End, TypeOK
    <2>3. QED BY <2>1, <2>2 DEF CreateDraft
<1>4. TypeOK'
    <2>1. releases' \in [ReleaseIds -> Release \cup {None}]
        BY <1>1, <1>2 DEF TypeOK
    <2>2. nextId' \in 1 .. MaxReleases + 1
        BY <1>1, PublicationConstants DEF ReleaseIds
    <2>3. QED BY <1>1, <1>3, <2>1, <2>2 DEF TypeOK, MaybeRun
<1>5. ReleasedInv'
    <2>1. draft.draft = TRUE
        BY DEF draft
    <2>2. ASSUME NEW i \in Public' PROVE i \in Public /\ releases'[i] = releases[i]
        BY <1>1, <2>1 DEF Public, Existing, TypeOK
    <2>3. QED BY <1>1, <2>2 DEF IInv, ReleasedInv
<1>6. releases'[nextId].version = run[r].version
    BY <1>1 DEF draft, TypeOK
<1>7. run'[r].pc \in DraftSteps => run'[r].release = nextId
    BY <1>3 DEF DraftSteps
<1>8. QED BY <1>1, <1>3, <1>4, <1>5, <1>6, <1>7, Worked DEF At, DraftSteps

\* A request that a job makes: it goes on, or the job ends.
Requested(r, next) ==
    \/ Goto(r, next) /\ failures' = failures
    \/ Refuse(r) /\ failures' = failures
    \/ Refuse(r) /\ failures < MaxFailures /\ failures' = failures + 1

RunMoved(r, next) ==
    /\ run' = [run EXCEPT ![r] = run'[r]] /\ run' \in [Runs -> Run]
    /\ active' \in {r, None} /\ failures' \in 0 .. MaxFailures
    /\ run'[r].version = run[r].version /\ run'[r].record = run[r].record
    /\ run'[r].reached = run[r].reached
    /\ \/ run'[r].pc = next /\ run'[r].release = run[r].release
       \/ run'[r].pc = "stopped"

\* It ends before its own job, or where it was to go on.
LEMMA RequestMoves ==
    ASSUME TypeOK, NEW r \in Runs, active = r, NEW next \in Steps, Requested(r, next)
    PROVE  RunMoved(r, next)
<1>1. run \in [Runs -> Run] /\ run[r] \in Run
    BY DEF TypeOK
<1>2. failures' \in 0 .. MaxFailures
    BY PublicationConstants DEF Requested, TypeOK
<1>3. CASE Goto(r, next)
    <2>1. run'[r] = [run[r] EXCEPT !.pc = next] /\ run' = [run EXCEPT ![r] = run'[r]] /\ active' = r
        BY <1>1, <1>3 DEF Goto
    <2>2. /\ run'[r] \in Run /\ run'[r].pc = next /\ run'[r].release = run[r].release
          /\ run'[r].version = run[r].version /\ run'[r].record = run[r].record
          /\ run'[r].reached = run[r].reached
        BY <1>1, <2>1 DEF Run
    <2>3. QED BY <1>1, <1>2, <2>1, <2>2 DEF RunMoved
<1>4. CASE Refuse(r)
    <2>1. /\ run'[r] = [run[r] EXCEPT !.pc = "stopped", !.served = None, !.room = None,
                                      !.release = None, !.todo = {}]
          /\ run' = [run EXCEPT ![r] = run'[r]] /\ active' = None
        BY <1>1, <1>4 DEF Refuse, End
    <2>2. /\ run'[r] \in Run /\ run'[r].pc = "stopped"
          /\ run'[r].version = run[r].version /\ run'[r].record = run[r].record
          /\ run'[r].reached = run[r].reached
        BY <1>1, <2>1 DEF Run
    <2>3. QED BY <1>1, <1>2, <2>1, <2>2 DEF RunMoved
<1>5. QED BY <1>3, <1>4 DEF Requested

\* A release that is named again is of the run's version, with the same assets.
LEMMA RenamedIs ==
    ASSUME TypeOK, NEW r \in Runs, run[r].release \in Existing
    PROVE  /\ Renamed(r) \in Release /\ Renamed(r).version = run[r].version
           /\ Renamed(r).assets = releases[run[r].release].assets
           /\ Renamed(r).immutable = releases[run[r].release].immutable
           /\ Renamed(r).draft = releases[run[r].release].draft
<1> DEFINE i == run[r].release
<1>1. releases[i] \in Release /\ run[r].version \in Versions /\ run[r].commit \in Commits /\ r \in MaybeRun
    BY DEF TypeOK, Existing, Run, MaybeRun
<1>2. Renamed(r) = [releases[i] EXCEPT !.version = run[r].version, !.target = run[r].commit, !.notes = r]
    BY DEF Renamed
<1> HIDE DEF i
<1>3. /\ Renamed(r) \in Release /\ Renamed(r).version = run[r].version
      /\ Renamed(r).assets = releases[i].assets /\ Renamed(r).immutable = releases[i].immutable
      /\ Renamed(r).draft = releases[i].draft
    BY <1>1, <1>2 DEF Release
<1>4. QED BY <1>3 DEF i

\* Naming the draft again, and uploading to it.
LEMMA UpdateStep ==
    ASSUME IInv, NEW r \in Runs, UpdateDraft(r)
    PROVE  IInv'
<1> DEFINE i == run[r].release
<1>1. /\ TypeOK /\ active = r /\ run[r].pc = "update"
      /\ i \in Existing => releases[i].version = run[r].version
      /\ UNCHANGED <<main, nextId, tags, immutableOn, live, manual, released, tampered>>
    BY DEF IInv, DraftInv, DraftSteps, UpdateDraft, At, settings, history
<1>2. Requested(r, "upload")
    BY DEF UpdateDraft, Effective, Requested
<1>3. RunMoved(r, "upload")
    BY <1>1, <1>2, RequestMoves DEF Steps
<1>4. CASE i \in Existing /\ releases' = [releases EXCEPT ![i] = Renamed(r)]
    <2>1. /\ Renamed(r) \in Release /\ Renamed(r).version = run[r].version
          /\ Renamed(r).assets = releases[i].assets
          /\ Renamed(r).immutable = releases[i].immutable /\ Renamed(r).draft = releases[i].draft
        BY <1>1, <1>4, RenamedIs
    <2>2. i \in ReleaseIds /\ releases \in [ReleaseIds -> Release \cup {None}]
        BY <1>1, <1>4 DEF Existing, TypeOK
    <2> HIDE DEF i
    <2>3. releases' \in [ReleaseIds -> Release \cup {None}] /\ releases'[i] = Renamed(r)
        BY <1>4, <2>1, <2>2
    <2>4. TypeOK'
        BY <1>1, <1>3, <2>3 DEF TypeOK, RunMoved, MaybeRun
    <2>5. ReleasedInv'
        <3>1. ASSUME NEW j \in Public'
              PROVE  /\ j \in Public /\ releases'[j].version = releases[j].version
                     /\ releases'[j].assets = releases[j].assets
                     /\ releases'[j].immutable = releases[j].immutable
            BY <1>1, <1>4, <2>1, <2>2, <2>3 DEF Public, Existing, i
        <3>2. QED BY <1>1, <3>1 DEF IInv, ReleasedInv
    <2>6. releases'[i].version = run[r].version
        BY <2>1, <2>3
    <2>7. QED BY <1>1, <1>3, <2>4, <2>5, <2>6, Worked DEF RunMoved, DraftSteps, i
<1>5. CASE Refuse(r) /\ releases' = releases /\ failures' = failures
    <2>1. Quiet
        BY <1>1, <1>5 DEF Quiet, TypeOK
    <2>2. QED BY <1>5, <2>1, RefuseStep
<1>6. QED BY <1>4, <1>5 DEF UpdateDraft

\* An asset is added to a release that nobody has made immutable.
LEMMA UploadStep ==
    ASSUME IInv, NEW r \in Runs, Upload(r)
    PROVE  IInv'
<1> DEFINE i == run[r].release
<1>1. /\ TypeOK /\ active = r /\ run[r].pc = "upload" /\ run[r] \in Run
      /\ i \in Existing => releases[i].version = run[r].version
      /\ UNCHANGED <<main, nextId, tags, immutableOn, live, manual, released, tampered>>
    BY DEF IInv, TypeOK, DraftInv, DraftSteps, Upload, At, settings, history
<1>2. PICK a \in run[r].todo :
         IF i \in Existing /\ releases[i].assets[a] = None /\ ~releases[i].immutable
         THEN /\ releases' = [releases EXCEPT ![i].assets[a] = r]
              /\ \/ /\ run' = [run EXCEPT ![r].todo = @ \ {a}]
                    /\ UNCHANGED <<active, failures>>
                 \/ failures < MaxFailures /\ failures' = failures + 1 /\ Refuse(r)
         ELSE Refuse(r) /\ UNCHANGED <<releases, failures>>
    BY DEF Upload
<1>3. a \in Assets
    BY <1>1 DEF Run
<1>4. CASE i \in Existing /\ releases[i].assets[a] = None /\ ~releases[i].immutable
    <2>1. RunMoved(r, "upload")
        <3>1. CASE /\ run' = [run EXCEPT ![r].todo = @ \ {a}]
                   /\ UNCHANGED <<active, failures>>
            <4>1. /\ run \in [Runs -> Run] /\ run'[r] = [run[r] EXCEPT !.todo = @ \ {a}]
                  /\ run' = [run EXCEPT ![r] = run'[r]] /\ active' = r
                BY <1>1, <3>1 DEF TypeOK
            <4>2. /\ run'[r] \in Run /\ run'[r].pc = "upload" /\ run'[r].release = run[r].release
                  /\ run'[r].version = run[r].version /\ run'[r].record = run[r].record
                  /\ run'[r].reached = run[r].reached
                BY <1>1, <4>1 DEF Run
            <4>3. QED BY <1>1, <3>1, <4>1, <4>2 DEF RunMoved, TypeOK
        <3>2. CASE failures < MaxFailures /\ failures' = failures + 1 /\ Refuse(r)
            BY <1>1, <3>2, RequestMoves DEF Requested, Steps
        <3>3. QED BY <1>2, <1>4, <3>1, <3>2
    <2>2. /\ i \in ReleaseIds /\ releases \in [ReleaseIds -> Release \cup {None}]
          /\ releases[i] \in Release /\ r \in MaybeRun
        BY <1>1, <1>4 DEF Existing, TypeOK, MaybeRun
    <2>3. releases' = [releases EXCEPT ![i] = [releases[i] EXCEPT !.assets[a] = r]]
        BY <1>2, <1>4, <2>2
    <2> DEFINE full == [releases[i] EXCEPT !.assets[a] = r]
    <2>4. /\ full \in Release /\ full.version = run[r].version /\ ~full.immutable
        BY <1>1, <1>3, <1>4, <2>2 DEF Release
    <2> HIDE DEF full, i
    <2>5. releases' \in [ReleaseIds -> Release \cup {None}] /\ releases'[i] = full
        BY <2>2, <2>3, <2>4 DEF full
    <2>6. TypeOK'
        BY <1>1, <2>1, <2>5 DEF TypeOK, RunMoved, MaybeRun
    <2>7. ReleasedInv'
        <3>1. ASSUME NEW j \in Public', releases'[j].immutable
              PROVE  j \in Public /\ releases'[j] = releases[j]
            <4>1. j \in ReleaseIds /\ j # i
                BY <2>4, <2>5, <3>1 DEF Public, Existing
            <4>2. releases'[j] = releases[j]
                BY <2>2, <2>3, <4>1
            <4>3. QED BY <3>1, <4>1, <4>2 DEF Public, Existing
        <3>2. QED BY <1>1, <3>1 DEF IInv, ReleasedInv
    <2>8. releases'[i].version = run[r].version
        BY <2>4, <2>5
    <2>9. QED BY <1>1, <2>1, <2>6, <2>7, <2>8, Worked DEF RunMoved, DraftSteps, i
<1>5. CASE ~(i \in Existing /\ releases[i].assets[a] = None /\ ~releases[i].immutable)
    <2>1. Refuse(r) /\ UNCHANGED <<releases, failures>>
        BY <1>2, <1>5
    <2>2. Quiet
        BY <1>1, <2>1 DEF Quiet, TypeOK
    <2>3. QED BY <2>1, <2>2, RefuseStep
<1>6. QED BY <1>4, <1>5

\* Making a release public.
LEMMA MadePublic ==
    ASSUME TypeOK, ReleasedInv, NEW i \in ReleaseIds, NEW rel \in Release, MakePublic(i, rel)
    PROVE  /\ releases' \in [ReleaseIds -> Release \cup {None}] /\ releases'[i].version = rel.version
           /\ \A j \in ReleaseIds \ {i} : releases'[j] = releases[j]
           /\ tags' \in [Versions -> Commits \cup {None}]
           /\ released' \subseteq Versions \X Runs /\ released \subseteq released'
           /\ ReleasedInv'
           /\ \/ released' = released
              \/ \E v \in Versions, c \in Runs : released' = released \cup {<<v, c>>}
<1> DEFINE new == [rel EXCEPT !.draft = FALSE, !.immutable = immutableOn]
<1>1. /\ releases \in [ReleaseIds -> Release \cup {None}] /\ immutableOn \in BOOLEAN
      /\ tags \in [Versions -> Commits \cup {None}] /\ released \subseteq Versions \X Runs
    BY DEF TypeOK
<1>2. /\ new \in Release /\ new.version = rel.version /\ new.assets = rel.assets
      /\ new.immutable = immutableOn
    BY <1>1 DEF Release
<1>3. releases' = [releases EXCEPT ![i] = new]
    BY DEF MakePublic
<1> HIDE DEF new
<1>4. /\ releases' \in [ReleaseIds -> Release \cup {None}] /\ releases'[i] = new
      /\ \A j \in ReleaseIds \ {i} : releases'[j] = releases[j]
    BY <1>1, <1>2, <1>3
<1>5. rel.version \in Versions /\ rel.target \in Commits /\ rel.assets[Sums] \in MaybeRun
    BY PublicationConstants DEF Release
<1>6. tags' \in [Versions -> Commits \cup {None}]
    BY <1>1, <1>5 DEF MakePublic
<1>7. released' = IF immutableOn /\ rel.assets[Sums] # None
                  THEN released \cup {<<rel.version, rel.assets[Sums]>>} ELSE released
    BY DEF MakePublic
<1>8. /\ released \subseteq released' /\ released' \subseteq Versions \X Runs
      /\ \/ released' = released
         \/ \E v \in Versions, c \in Runs : released' = released \cup {<<v, c>>}
    <2>1. CASE immutableOn /\ rel.assets[Sums] # None
        <3>1. rel.assets[Sums] \in Runs
            BY <1>5, <2>1 DEF MaybeRun
        <3>2. QED BY <1>1, <1>5, <1>7, <2>1, <3>1
    <2>2. CASE ~(immutableOn /\ rel.assets[Sums] # None)
        BY <1>1, <1>7, <2>2
    <2>3. QED BY <2>1, <2>2
<1>9. ReleasedInv'
    <2>1. ASSUME NEW j \in Public', releases'[j].immutable, releases'[j].assets[Sums] # None, j # i
          PROVE  <<releases'[j].version, releases'[j].assets[Sums]>> \in released'
        <3>1. j \in Public /\ releases'[j] = releases[j]
            BY <1>4, <2>1 DEF Public, Existing
        <3>2. QED BY <1>8, <2>1, <3>1 DEF ReleasedInv
    <2>2. releases'[i].immutable /\ releases'[i].assets[Sums] # None =>
             <<releases'[i].version, releases'[i].assets[Sums]>> \in released'
        BY <1>2, <1>4, <1>7
    <2>3. QED BY <2>1, <2>2 DEF ReleasedInv
<1>10. QED BY <1>2, <1>4, <1>6, <1>8, <1>9

\* A version and a content are released, or none.
MayRelease == released' = released \/ \E v \in Versions, c \in Runs : released' = released \cup {<<v, c>>}

\* The irreversible request.
LEMMA UndraftStep ==
    ASSUME IInv, NEW r \in Runs, Undraft(r)
    PROVE  IInv' /\ MayRelease /\ live' = live
<1> DEFINE i == run[r].release
           full == [Renamed(r) EXCEPT !.prerelease = FALSE]
<1>1. /\ TypeOK /\ ReleasedInv /\ active = r /\ run[r].pc = "undraft" /\ run[r] \in Run
      /\ i \in Existing => releases[i].version = run[r].version
      /\ UNCHANGED <<main, nextId, immutableOn, live, manual, tampered>>
    BY DEF IInv, TypeOK, DraftInv, DraftSteps, Undraft, At, settings
<1>2. CASE i \notin Existing \/ TagTaken(i, run[r].version)
    <2>1. Refuse(r) /\ UNCHANGED <<releases, tags, released, failures>>
        BY <1>2 DEF Undraft
    <2>2. Quiet
        BY <1>1, <2>1 DEF Quiet, TypeOK
    <2>3. QED BY <1>1, <2>1, <2>2, RefuseStep DEF MayRelease
<1>3. CASE ~(i \notin Existing \/ TagTaken(i, run[r].version))
    <2>1. /\ i \in Existing
          /\ IF releases[i].draft THEN MakePublic(i, full)
             ELSE /\ releases' = [releases EXCEPT ![i] = full]
                  /\ UNCHANGED <<tags, released>>
          /\ Effective(r, "final")
        BY <1>3 DEF Undraft
    <2>2. RunMoved(r, "final")
        BY <1>1, <2>1, RequestMoves DEF Requested, Effective, Steps
    <2>3. /\ full \in Release /\ full.version = run[r].version
          /\ full.assets = releases[i].assets /\ full.immutable = releases[i].immutable
          /\ full.draft = releases[i].draft
        <3>1. /\ Renamed(r) \in Release /\ Renamed(r).version = run[r].version
              /\ Renamed(r).assets = releases[i].assets
              /\ Renamed(r).immutable = releases[i].immutable
              /\ Renamed(r).draft = releases[i].draft
            BY <1>1, <2>1, RenamedIs
        <3>2. QED BY <3>1 DEF Release
    <2>4. i \in ReleaseIds /\ releases \in [ReleaseIds -> Release \cup {None}]
        BY <1>1, <2>1 DEF Existing, TypeOK
    <2> HIDE DEF i, full
    <2>5. /\ releases' \in [ReleaseIds -> Release \cup {None}]
          /\ tags' \in [Versions -> Commits \cup {None}]
          /\ released' \subseteq Versions \X Runs /\ released \subseteq released'
          /\ ReleasedInv' /\ MayRelease
        <3>1. CASE releases[i].draft
            BY <1>1, <2>1, <2>3, <2>4, <3>1, MadePublic DEF MayRelease
        <3>2. CASE ~releases[i].draft
            <4>1. releases' = [releases EXCEPT ![i] = full] /\ UNCHANGED <<tags, released>>
                BY <2>1, <3>2
            <4>2. releases' \in [ReleaseIds -> Release \cup {None}] /\ releases'[i] = full
                BY <2>3, <2>4, <4>1
            <4>3. ASSUME NEW j \in Public'
                  PROVE  /\ j \in Public /\ releases'[j].version = releases[j].version
                         /\ releases'[j].assets = releases[j].assets
                         /\ releases'[j].immutable = releases[j].immutable
                <5>1. j \in ReleaseIds /\ releases'[j] # None /\ ~releases'[j].draft
                    BY <4>3 DEF Public, Existing
                <5>2. CASE j = i
                    BY <1>1, <2>1, <2>3, <3>2, <4>2, <5>2 DEF Public, i
                <5>3. CASE j # i
                    <6>1. releases'[j] = releases[j]
                        BY <2>4, <4>1, <5>1, <5>3
                    <6>2. QED BY <5>1, <6>1 DEF Public, Existing
                <5>4. QED BY <5>2, <5>3
            <4>4. ReleasedInv'
                BY <1>1, <4>1, <4>3 DEF ReleasedInv
            <4>5. QED BY <1>1, <4>1, <4>2, <4>4 DEF TypeOK, MayRelease
        <3>3. QED BY <3>1, <3>2
    <2>6. TypeOK'
        BY <1>1, <2>2, <2>5 DEF TypeOK, RunMoved, MaybeRun
    <2>7. QED BY <1>1, <2>2, <2>5, <2>6, Worked DEF RunMoved, DraftSteps
<1>4. QED BY <1>2, <1>3

-----------------------------------------------------------------------------
(* People. *)

\* What a public release records as its checksums is a run.
LEMMA LandingStep ==
    ASSUME IInv, Landing
    PROVE  IInv' /\ UNCHANGED <<released, live>>
<1>1. TypeOK /\ main \in [version : Versions, commit : Commits, registry : Registry]
    BY DEF IInv, TypeOK
<1>2. ASSUME NEW change, Land(change), change.version \in Versions, change.registry \in Registry,
             \E x \in [version : Versions, commit : Commits, registry : Registry] : change = x
      PROVE  IInv' /\ UNCHANGED <<released, live>>
    <2>1. main.commit + 1 \in Commits
        BY <1>1, <1>2, PublicationConstants DEF Land, Commits
    <2>2. main' \in [version : Versions, commit : Commits, registry : Registry]
        BY <1>2, <2>1 DEF Land
    <2>3. UNCHANGED <<releases, nextId, tags, immutableOn, live, run, active, failures, manual,
                      released, tampered>>
        BY <1>2 DEF Land, github, budgets, history
    <2>4. TypeOK'
        BY <1>1, <2>2, <2>3 DEF TypeOK
    <2>5. ReleasedInv'
        BY <2>3 DEF IInv, ReleasedInv, Public, Existing
    <2>6. \A i \in Existing' : i \in Existing /\ releases'[i].version = releases[i].version
        BY <2>3 DEF Existing
    <2>7. QED BY <2>3, <2>4, <2>5, <2>6, Touched
<1>3. ASSUME NEW v, NEW c \in PublicSums(v) PROVE c \in Runs
    <2>1. PICK i \in Public : c = releases[i].assets[Sums] /\ c # None
        BY <1>3 DEF PublicSums
    <2>2. releases[i] \in Release
        BY <1>1 DEF TypeOK, Public, Existing
    <2>3. QED BY <2>1, <2>2, PublicationConstants DEF Release, MaybeRun
<1>4. CASE BumpVersion
    <2> DEFINE change == [main EXCEPT !.version = @ + 1]
    <2>1. main.version + 1 \in Versions /\ Land(change)
        BY <1>1, <1>4, PublicationConstants DEF BumpVersion, Versions
    <2>2. change \in [version : Versions, commit : Commits, registry : Registry]
        BY <1>1, <2>1
    <2> HIDE DEF change
    <2>3. QED BY <1>2, <2>1, <2>2
<1>5. CASE RecordVersion
    <2>0. PICK v \in Versions : \E c \in PublicSums(v) :
              Land([main EXCEPT !.registry.published[v] = c])
        BY <1>5 DEF RecordVersion
    <2>1. PICK c \in PublicSums(v) : Land([main EXCEPT !.registry.published[v] = c])
        BY <2>0
    <2> DEFINE change == [main EXCEPT !.registry.published[v] = c]
    <2>2. c \in MaybeRun
        BY <1>3 DEF MaybeRun
    <2>3. change \in [version : Versions, commit : Commits, registry : Registry]
        BY <1>1, <2>2 DEF Registry
    <2>4. Land(change)
        BY <2>1
    <2> HIDE DEF change
    <2>5. QED BY <1>2, <2>3, <2>4
<1>6. CASE RetireVersion
    <2>0. PICK v \in Versions : \E c \in PublicSums(v) :
              Land([main EXCEPT !.registry.published[v] = None, !.registry.retired[v] = c])
        BY <1>6 DEF RetireVersion
    <2>1. PICK c \in PublicSums(v) :
              Land([main EXCEPT !.registry.published[v] = None, !.registry.retired[v] = c])
        BY <2>0
    <2> DEFINE change == [main EXCEPT !.registry.published[v] = None, !.registry.retired[v] = c]
    <2>2. c \in MaybeRun /\ None \in MaybeRun
        BY <1>3 DEF MaybeRun
    <2>3. change \in [version : Versions, commit : Commits, registry : Registry]
        BY <1>1, <2>2 DEF Registry
    <2>4. Land(change)
        BY <2>1
    <2> HIDE DEF change
    <2>5. QED BY <1>2, <2>3, <2>4
<1>7. CASE RemoveEntry
    <2>1. PICK v \in Listed(main.registry) :
              Land([main EXCEPT !.registry.published[v] = None, !.registry.retired[v] = None])
        BY <1>7 DEF RemoveEntry
    <2> DEFINE change == [main EXCEPT !.registry.published[v] = None, !.registry.retired[v] = None]
    <2>2. None \in MaybeRun
        BY DEF MaybeRun
    <2>3. change \in [version : Versions, commit : Commits, registry : Registry]
        BY <1>1, <2>2 DEF Registry
    <2>4. Land(change)
        BY <2>1
    <2> HIDE DEF change
    <2>5. QED BY <1>2, <2>3, <2>4
<1>8. QED BY <1>4, <1>5, <1>6, <1>7 DEF Landing

\* A release is changed by hand, and neither its version nor what makes it count.
LEMMA Edited ==
    ASSUME IInv, NEW i \in Existing, NEW x \in Release, releases' = [releases EXCEPT ![i] = x],
           x.version = releases[i].version, x.draft = releases[i].draft,
           x.immutable = releases[i].immutable, x.assets = releases[i].assets, manual' \in 0 .. MaxManual,
           UNCHANGED <<main, nextId, tags, immutableOn, live, run, active, failures, released, tampered>>
    PROVE  IInv'
<1>1. /\ i \in ReleaseIds /\ releases[i] # None
      /\ releases \in [ReleaseIds -> Release \cup {None}]
    BY DEF IInv, TypeOK, Existing
<1>2. /\ releases' \in [ReleaseIds -> Release \cup {None}] /\ releases'[i] = x
      /\ \A j \in ReleaseIds \ {i} : releases'[j] = releases[j]
    BY <1>1
<1>3. TypeOK'
    BY <1>2 DEF IInv, TypeOK
<1>4. ASSUME NEW j \in Existing'
      PROVE  /\ j \in Existing /\ releases'[j].version = releases[j].version
             /\ releases'[j].draft = releases[j].draft
             /\ releases'[j].immutable = releases[j].immutable
             /\ releases'[j].assets = releases[j].assets
    BY <1>1, <1>2 DEF Existing
<1>5. ReleasedInv'
    BY <1>4 DEF IInv, ReleasedInv, Public
<1>6. QED BY <1>3, <1>4, <1>5, Touched

\* By hand nothing deploys, and only the setting makes a release immutable.
LEMMA ManualStep ==
    ASSUME IInv, Manual
    PROVE  IInv' /\ live' = live /\ MayRelease
<1>1. TypeOK /\ ReleasedInv
    BY DEF IInv
<1>2. /\ UNCHANGED <<main, nextId, live, run, active, failures>>
      /\ manual < MaxManual /\ manual' = manual + 1
    BY DEF Manual, ToggleSetting, DeleteRelease, DeleteTag, PushTag, FlipPrerelease, EditNotes,
           PublishDraftByHand, ByHand
<1>3. manual' \in 0 .. MaxManual
    BY <1>1, <1>2, PublicationConstants DEF TypeOK
<1>4. CASE ToggleSetting \/ DeleteTag \/ PushTag
    <2>1. UNCHANGED <<releases, released>>
        BY <1>4 DEF ToggleSetting, DeleteTag, PushTag, history
    <2>2. immutableOn' \in BOOLEAN /\ tampered' \in BOOLEAN
        BY <1>1, <1>4 DEF ToggleSetting, DeleteTag, PushTag, history, TypeOK
    <2>3. tags' \in [Versions -> Commits \cup {None}]
        <3>1. CASE PushTag
            <4>1. PICK v \in Versions, c \in 0 .. main.commit : tags' = [tags EXCEPT ![v] = c]
                BY <3>1 DEF PushTag
            <4>2. c \in Commits
                BY <1>1, <4>1, PublicationConstants DEF TypeOK, Commits
            <4>3. QED BY <1>1, <4>1, <4>2 DEF TypeOK
        <3>2. CASE ToggleSetting \/ DeleteTag
            BY <1>1, <3>2 DEF ToggleSetting, DeleteTag, TypeOK
        <3>3. QED BY <1>4, <3>1, <3>2
    <2>4. TypeOK'
        BY <1>1, <1>2, <1>3, <2>1, <2>2, <2>3 DEF TypeOK
    <2>5. ReleasedInv'
        BY <1>1, <2>1 DEF ReleasedInv, Public, Existing
    <2>6. \A i \in Existing' : i \in Existing /\ releases'[i].version = releases[i].version
        BY <2>1 DEF Existing
    <2>7. QED BY <1>2, <2>1, <2>4, <2>5, <2>6, Touched DEF MayRelease
<1>5. CASE DeleteRelease
    <2>1. /\ \E i \in Existing : releases' = [releases EXCEPT ![i] = None]
          /\ UNCHANGED <<tags, immutableOn, released, tampered>>
        BY <1>5 DEF DeleteRelease, history
    <2>2. TypeOK'
        BY <1>1, <1>2, <1>3, <2>1 DEF TypeOK
    <2>3. \A i \in Existing' : i \in Existing /\ releases'[i] = releases[i]
        BY <1>1, <2>1 DEF TypeOK, Existing
    <2>4. ReleasedInv'
        BY <1>1, <2>1, <2>3 DEF ReleasedInv, Public
    <2>5. QED BY <1>2, <2>1, <2>2, <2>3, <2>4, Touched DEF MayRelease
<1>6. CASE FlipPrerelease
    <2>1. /\ UNCHANGED <<tags, immutableOn, released, tampered>>
          /\ \E i \in Existing : releases' = [releases EXCEPT ![i].prerelease = ~@]
        BY <1>6 DEF FlipPrerelease, history
    <2>2. PICK i \in Existing : releases' = [releases EXCEPT ![i].prerelease = ~@]
        BY <2>1
    <2>3. releases \in [ReleaseIds -> Release \cup {None}] /\ i \in ReleaseIds /\ releases[i] \in Release
        BY <1>1 DEF TypeOK, Existing
    <2> DEFINE x == [releases[i] EXCEPT !.prerelease = ~releases[i].prerelease]
    <2>4. /\ x \in Release /\ x.version = releases[i].version /\ x.draft = releases[i].draft
          /\ x.immutable = releases[i].immutable /\ x.assets = releases[i].assets
        BY <2>3 DEF Release
    <2>5. releases' = [releases EXCEPT ![i] = x]
        BY <2>2, <2>3
    <2> HIDE DEF x
    <2>6. QED BY <1>2, <1>3, <2>1, <2>4, <2>5, Edited DEF MayRelease
<1>7. CASE EditNotes
    <2>1. /\ UNCHANGED <<tags, immutableOn, released, tampered>>
          /\ \E i \in Existing : releases' = [releases EXCEPT ![i].notes = None]
        BY <1>7 DEF EditNotes, history
    <2>2. PICK i \in Existing : releases' = [releases EXCEPT ![i].notes = None]
        BY <2>1
    <2>3. releases \in [ReleaseIds -> Release \cup {None}] /\ i \in ReleaseIds /\ releases[i] \in Release
        BY <1>1 DEF TypeOK, Existing
    <2> DEFINE x == [releases[i] EXCEPT !.notes = None]
    <2>4. /\ x \in Release /\ x.version = releases[i].version /\ x.draft = releases[i].draft
          /\ x.immutable = releases[i].immutable /\ x.assets = releases[i].assets
        BY <2>3 DEF Release, MaybeRun
    <2>5. releases' = [releases EXCEPT ![i] = x]
        BY <2>2, <2>3
    <2> HIDE DEF x
    <2>6. QED BY <1>2, <1>3, <2>1, <2>4, <2>5, Edited DEF MayRelease
<1>8. CASE PublishDraftByHand
    <2>1. PICK i \in Existing : MakePublic(i, releases[i])
        BY <1>8 DEF PublishDraftByHand
    <2>2. i \in ReleaseIds /\ releases[i] \in Release
        BY <1>1 DEF TypeOK, Existing
    <2>3. /\ releases' \in [ReleaseIds -> Release \cup {None}]
          /\ releases'[i].version = releases[i].version
          /\ \A j \in ReleaseIds \ {i} : releases'[j] = releases[j]
          /\ tags' \in [Versions -> Commits \cup {None}]
          /\ released' \subseteq Versions \X Runs /\ released \subseteq released'
          /\ ReleasedInv' /\ MayRelease
        BY <1>1, <2>1, <2>2, MadePublic DEF MayRelease
    <2>4. tampered' \in BOOLEAN /\ immutableOn' = immutableOn
        BY <1>8 DEF PublishDraftByHand
    <2>5. TypeOK'
        BY <1>1, <1>2, <1>3, <2>3, <2>4 DEF TypeOK
    <2>6. \A j \in Existing' : j \in Existing /\ releases'[j].version = releases[j].version
        BY <2>2, <2>3 DEF Existing
    <2>7. QED BY <1>2, <2>3, <2>5, <2>6, Touched
<1>9. QED BY <1>4, <1>5, <1>6, <1>7, <1>8 DEF Manual

-----------------------------------------------------------------------------
\* The site as a reader sees it changes by a release or by a deployment, if at all.
SiteStep == [Site!Next]_<<released, live>>

\* A release of a version is a release of the published site.
LEMMA ReleaseIsRelease ==
    ASSUME MayRelease, live' = live
    PROVE  SiteStep
BY DEF MayRelease, SiteStep, Site!Next, Site!Release

\* What the jobs of a run do, the last of all lemmas on steps.
LEMMA JobStep ==
    ASSUME IInv, NEW r \in Runs, RunStep(r)
    PROVE  IInv' /\ SiteStep
<1> USE DEF github, settings, budgets, history
<1>1. CASE Undraft(r)
    BY <1>1, UndraftStep, ReleaseIsRelease
<1>2. CASE Deploy(r)
    <2>1. IInv' /\ Site!Deploy(run[r].version)
        BY <1>2, DeployStep
    <2>2. run[r].version \in Versions
        BY DEF IInv, TypeOK, Run
    <2>3. QED BY <2>1, <2>2 DEF SiteStep, Site!Next
<1>3. CASE \/ Classify(r) \/ CheckRoom(r) \/ Resnapshot(r) \/ Uploaded(r) \/ Readback(r)
           \/ CheckDraft(r) \/ StillServed(r) \/ StillLive(r)
    <2>1. UNCHANGED <<released, live>>
        BY <1>3 DEF Classify, CheckRoom, Resnapshot, Uploaded, Readback, CheckDraft, StillServed,
                    StillLive, Gate
    <2>2. QED BY <1>3, <2>1, GateSteps DEF SiteStep
<1>4. CASE TakeSnapshot(r) \/ ComposeRoom(r) \/ ReadState(r) \/ ConfirmPublished(r)
    <2>1. UNCHANGED <<released, live>>
        BY <1>4 DEF TakeSnapshot, ComposeRoom, ReadState, ConfirmPublished
    <2>2. QED BY <1>4, <2>1, ReadingSteps, ReadStateStep, ConfirmStep DEF SiteStep
<1>5. CASE CreateDraft(r) \/ UpdateDraft(r) \/ Upload(r)
    <2>1. UNCHANGED <<released, live>>
        BY <1>5 DEF CreateDraft, UpdateDraft, Upload
    <2>2. QED BY <1>5, <2>1, CreateStep, UpdateStep, UploadStep DEF SiteStep
<1>6. CASE BuildPages(r) \/ CheckDeploy(r) \/ VerifyLive(r)
    <2>1. UNCHANGED <<released, live>>
        BY <1>6 DEF BuildPages, CheckDeploy, VerifyLive, Gate
    <2>2. QED BY <1>6, <2>1, BuildStep, CheckDeployStep, VerifyStep DEF SiteStep
<1>7. QED BY <1>1, <1>2, <1>3, <1>4, <1>5, <1>6 DEF RunStep, Publish, Pages

\* No step breaks the invariant, and none changes the site otherwise.
LEMMA StepInv == IInv /\ [Next]_vars => IInv' /\ SiteStep
<1> SUFFICES ASSUME IInv, [Next]_vars PROVE IInv' /\ SiteStep
    OBVIOUS
<1>1. ASSUME NEW r \in Runs, Dispatch(r) \/ Preflight(r) \/ Fail(r) \/ \E job \in 1 .. 4 : Rerun(r, job)
      PROVE  IInv' /\ SiteStep
    <2>1. UNCHANGED <<released, live>>
        BY <1>1 DEF Dispatch, Preflight, Fail, Rerun, history
    <2>2. QED BY <1>1, <2>1, DispatchStep, StartStep, FailStep DEF SiteStep
<1>2. CASE Landing
    BY <1>2, LandingStep DEF SiteStep
<1>3. CASE Manual
    BY <1>3, ManualStep, ReleaseIsRelease
<1>4. CASE UNCHANGED vars
    <2>1. UNCHANGED <<releases, run, active, live, released>> /\ TypeOK'
        BY <1>4 DEF vars, IInv, TypeOK
    <2>2. ReleasedInv' /\ \A i \in Existing' : i \in Existing /\ releases'[i] = releases[i]
        BY <2>1 DEF IInv, ReleasedInv, Public, Existing
    <2>3. QED BY <2>1, <2>2, Touched DEF SiteStep
<1>5. QED BY <1>1, <1>2, <1>3, <1>4, JobStep DEF Next

\* Every release, run and tag keeps its shape: no handler, failure or manual change
\* leaves a state that the next handler cannot read.
THEOREM TypeCorrect == Spec => []TypeOK
<1>1. IInv => TypeOK
    BY DEF IInv
<1>2. IInv /\ [Next]_vars => IInv'
    BY StepInv
<1>3. QED BY <1>1, <1>2, InitInv, PTL DEF Spec

\* The workflow implements the published site: whatever fails, is re-run or is changed
\* by hand, a deployment puts only the run's own version in place, with a content that
\* was released under it, and serves every other version as it was or not at all.
THEOREM Implements == Spec => ImplementsPublishedSite
<1>1. Init => Site!Init
    BY DEF Init, Site!Init
<1>2. IInv /\ [Next]_vars => IInv' /\ SiteStep
    BY StepInv
<1>3. QED BY <1>1, <1>2, InitInv, PTL DEF Spec, SiteStep, ImplementsPublishedSite, Site!Spec

-----------------------------------------------------------------------------
(* A version is not reissued. *)

\* Releases of one version are one release, also while a run is about to create it.
OneEach ==
    /\ \A i, j \in Existing : releases[i].version = releases[j].version => i = j
    /\ \A r \in Runs : At(r, "create") => Tagged(run[r].version) = {}

\* A version that was released has a tag, which stands in the way of another release of
\* it, and no draft is left or about to be made that could become one.
Spent ==
    \A v \in Versions, c \in Runs : <<v, c>> \in released =>
        /\ tags[v] # None
        /\ \A i \in Existing : releases[i].version = v => ~releases[i].draft
        /\ \A r \in Runs : At(r, "create") => run[r].version # v
        /\ \A d \in Runs : <<v, d>> \in released => c = d

IssueInv == OneEach /\ (tampered \/ Spent)

\* No run comes to the point where it creates a draft.
CreateKept == \A q \in Runs : At(q, "create")' => At(q, "create") /\ run'[q].version = run[q].version

\* A step that releases nothing, makes no draft and keeps the tags, or is tampering.
LEMMA IssueKept ==
    ASSUME IssueInv, CreateKept, tampered => tampered', tampered' \/ released' = released,
           \A i \in Existing' : i \in Existing /\ releases'[i].version = releases[i].version,
           \A i \in Existing' : ~tampered' /\ releases'[i].draft => releases[i].draft,
           tampered' \/ \A v \in Versions : tags[v] # None => tags'[v] # None
    PROVE  IssueInv'
<1>1. OneEach'
    BY DEF IssueInv, OneEach, CreateKept, Tagged, Existing
<1>2. ASSUME ~tampered' PROVE Spent'
    BY <1>2 DEF IssueInv, Spent, CreateKept
<1>3. QED BY <1>1, <1>2 DEF IssueInv

\* A run that reads nothing of its version, neither release nor tag, may create.
LEMMA IssueReadState ==
    ASSUME IInv, IssueInv, NEW r \in Runs, ReadState(r)
    PROVE  IssueInv'
<1>1. /\ UNCHANGED <<releases, tags, released, tampered>> /\ run \in [Runs -> Run] /\ active = r
      /\ run' = [run EXCEPT ![r] = run'[r]] /\ active' \in {r, None}
    BY DEF ReadState, Goto, Refuse, End, At, github, history, IInv, TypeOK
<1>2. CASE Fresh(r) /\ Goto(r, "create")
    <2>1. run'[r].version = run[r].version /\ Tagged(run[r].version) = {} /\ tags[run[r].version] = None
        BY <1>1, <1>2 DEF Goto, Fresh
    <2>2. ASSUME NEW q \in Runs, At(q, "create")' PROVE q = r
        BY <1>1, <1>2, <2>2 DEF At, Goto
    <2>3. OneEach'
        BY <1>1, <2>1, <2>2 DEF IssueInv, OneEach, Tagged, Existing
    <2>4. ASSUME Spent PROVE Spent'
        BY <1>1, <2>1, <2>2, <2>4 DEF Spent, Existing
    <2>5. QED BY <1>1, <2>3, <2>4 DEF IssueInv
<1>3. CASE ~(Fresh(r) /\ Goto(r, "create"))
    <2>1. run'[r].pc # "create"
        <3>1. CASE Refuse(r)
            BY <1>1, <3>1 DEF Refuse, End
        <3>2. CASE ~Refuse(r)
            <4>1. /\ run[r].pc = "state"
                  /\ \/ \E i : run' = [run EXCEPT ![r].pc = "update", ![r].release = i,
                                        ![r].todo = {a \in Assets : releases[i].assets[a] = None}]
                     \/ \E i : run' = [run EXCEPT ![r].pc = "final", ![r].release = i]
                BY <1>3, <3>2 DEF ReadState, At
            <4>2. run[r] \in Run
                BY <1>1
            <4>3. CASE \E i : run' = [run EXCEPT ![r].pc = "update", ![r].release = i,
                                     ![r].todo = {a \in Assets : releases[i].assets[a] = None}]
                BY <1>1, <4>2, <4>3 DEF Run
            <4>4. CASE \E i : run' = [run EXCEPT ![r].pc = "final", ![r].release = i]
                BY <1>1, <4>2, <4>4 DEF Run
            <4>5. QED BY <4>1, <4>3, <4>4
        <3>3. QED BY <3>1, <3>2
    <2>2. CreateKept
        BY <1>1, <2>1, PublicationConstants DEF CreateKept, At
    <2>3. \A i \in Existing' : i \in Existing /\ releases'[i] = releases[i]
        BY <1>1 DEF Existing
    <2>4. QED BY <1>1, <2>2, <2>3, IssueKept
<1>4. QED BY <1>2, <1>3

\* Nothing else is of the version of a draft that is created.
LEMMA IssueCreate ==
    ASSUME IInv, IssueInv, NEW r \in Runs, CreateDraft(r)
    PROVE  IssueInv'
<1> DEFINE draft == [version |-> run[r].version, draft |-> TRUE, prerelease |-> FALSE,
                     immutable |-> FALSE, target |-> run[r].commit,
                     assets |-> [a \in Assets |-> None], notes |-> r]
<1>1. /\ At(r, "create") /\ nextId \in ReleaseIds /\ run \in [Runs -> Run]
      /\ releases \in [ReleaseIds -> Release \cup {None}]
      /\ releases' = [releases EXCEPT ![nextId] = draft]
      /\ UNCHANGED <<tags, released, tampered>>
    BY DEF IInv, TypeOK, CreateDraft, history
<1>2. draft.version = run[r].version
    BY DEF draft
<1>3. \A q \in Runs : ~At(q, "create")'
    <2>1. /\ run' = [run EXCEPT ![r] = run'[r]] /\ run'[r].pc # "create" /\ active' \in {r, None}
        <3>1. CASE Refuse(r)
            BY <1>1, <3>1 DEF Refuse, End
        <3>2. CASE ~Refuse(r)
            <4>1. /\ run' = [run EXCEPT ![r].pc = "update", ![r].release = nextId, ![r].todo = Assets]
                  /\ active' = active
                BY <3>2 DEF CreateDraft
            <4>2. run[r] \in Run
                BY <1>1
            <4>3. QED BY <1>1, <4>1, <4>2 DEF Run, At
        <3>3. QED BY <3>1, <3>2
    <2>2. QED BY <1>1, <2>1, PublicationConstants DEF At
<1> HIDE DEF draft
<1>4. Tagged(run[r].version) = {}
    BY <1>1 DEF IssueInv, OneEach
<1>5. ASSUME NEW i \in Existing', i # nextId
      PROVE  i \in Existing /\ releases'[i] = releases[i] /\ releases[i].version # run[r].version
    BY <1>1, <1>4, <1>5 DEF Existing, Tagged
<1>6. releases'[nextId].version = run[r].version
    BY <1>1, <1>2
<1>7. OneEach'
    BY <1>3, <1>5, <1>6 DEF IssueInv, OneEach
<1>8. ASSUME Spent PROVE Spent'
    <2>1. \A c \in Runs : <<run[r].version, c>> \notin released
        BY <1>1, <1>8 DEF Spent, Run
    <2>2. QED BY <1>1, <1>3, <1>5, <1>6, <1>8, <2>1 DEF Spent
<1>9. QED BY <1>1, <1>7, <1>8 DEF IssueInv

\* A run that is past creating its release creates none.
LEMMA NoneCreates ==
    ASSUME IInv, NEW r \in Runs, run' = [run EXCEPT ![r] = run'[r]], active' \in {r, None},
           active' = r => run'[r].pc # "create"
    PROVE  CreateKept
<1>1. run \in [Runs -> Run] /\ None \notin Runs
    BY PublicationConstants DEF IInv, TypeOK
<1>2. QED BY <1>1 DEF CreateKept, At

\* The irreversible request is made of the one release of its version.
LEMMA IssueUndraft ==
    ASSUME IInv, IssueInv, NEW r \in Runs, Undraft(r)
    PROVE  IssueInv'
<1> DEFINE i == run[r].release
           full == [Renamed(r) EXCEPT !.prerelease = FALSE]
           v == run[r].version
<1>1. /\ TypeOK /\ ReleasedInv /\ active = r /\ run[r].pc = "undraft" /\ run[r] \in Run
      /\ i \in Existing => releases[i].version = v
      /\ tampered' = tampered /\ v \in Versions
    BY DEF IInv, TypeOK, DraftInv, DraftSteps, Undraft, At, Run
<1>2. CreateKept
    <2>1. Requested(r, "final")
        BY DEF Undraft, Effective, Requested
    <2>2. RunMoved(r, "final")
        BY <1>1, <2>1, RequestMoves DEF Steps
    <2>3. QED BY <1>1, <2>2, NoneCreates DEF RunMoved
<1>3. CASE i \notin Existing \/ TagTaken(i, v)
    <2>1. UNCHANGED <<releases, tags, released>>
        BY <1>3 DEF Undraft
    <2>2. \A j \in Existing' : j \in Existing /\ releases'[j] = releases[j]
        BY <2>1 DEF Existing
    <2>3. QED BY <1>1, <1>2, <2>1, <2>2, IssueKept
<1>4. CASE i \in Existing /\ ~TagTaken(i, v)
    <2>1. IF releases[i].draft THEN MakePublic(i, full)
          ELSE /\ releases' = [releases EXCEPT ![i] = full]
               /\ UNCHANGED <<tags, released>>
        BY <1>4 DEF Undraft
    <2>2. /\ full \in Release /\ full.version = v /\ full.draft = releases[i].draft
        <3>1. Renamed(r) \in Release /\ Renamed(r).version = v /\ Renamed(r).draft = releases[i].draft
            BY <1>1, <1>4, RenamedIs
        <3>2. QED BY <3>1 DEF Release
    <2>3. /\ i \in ReleaseIds /\ releases \in [ReleaseIds -> Release \cup {None}]
          /\ tags \in [Versions -> Commits \cup {None}]
        BY <1>1, <1>4 DEF Existing, TypeOK
    <2> HIDE DEF i, full, v
    <2>4. CASE ~releases[i].draft
        <3>1. releases'[i] = full /\ \A j \in ReleaseIds \ {i} : releases'[j] = releases[j]
            BY <2>1, <2>2, <2>3, <2>4
        <3>2. ASSUME NEW j \in Existing'
              PROVE  /\ j \in Existing /\ releases'[j].version = releases[j].version
                     /\ releases'[j].draft = releases[j].draft
            BY <1>1, <1>4, <2>2, <3>1 DEF Existing
        <3>3. UNCHANGED <<tags, released>>
            BY <2>1, <2>4
        <3>4. QED BY <1>1, <1>2, <3>2, <3>3, IssueKept
    <2>5. CASE releases[i].draft
        <3> DEFINE new == [full EXCEPT !.draft = FALSE, !.immutable = immutableOn]
        <3>1. new.draft = FALSE /\ new.version = v
            BY <2>2 DEF Release
        <3>2. releases' = [releases EXCEPT ![i] = new]
            BY <2>1, <2>5 DEF MakePublic
        <3> HIDE DEF new
        <3>3. releases'[i] = new /\ \A j \in ReleaseIds \ {i} : releases'[j] = releases[j]
            BY <2>3, <3>2
        <3>4. ASSUME NEW j \in Existing'
              PROVE  j \in Existing /\ releases'[j].version = releases[j].version
            BY <1>1, <1>4, <3>1, <3>3 DEF Existing
        <3>5. OneEach'
            BY <1>2, <3>4 DEF IssueInv, OneEach, CreateKept, Tagged
        <3>6. /\ tags'[v] # None /\ \A w \in Versions : tags[w] # None => tags'[w] # None
            <4>1. tags' = [tags EXCEPT ![v] = IF @ = None THEN full.target ELSE @]
                BY <2>1, <2>2, <2>5 DEF MakePublic
            <4>2. full.target # None
                BY <2>2, PublicationConstants DEF Release
            <4>3. QED BY <1>1, <2>3, <4>1, <4>2
        <3>7. ASSUME NEW w, NEW c, <<w, c>> \in released', <<w, c>> \notin released
              PROVE  w = v /\ c = full.assets[Sums]
            BY <2>1, <2>2, <2>5, <3>7 DEF MakePublic
        <3>8. ASSUME Spent PROVE Spent'
            <4>1. i \in Existing /\ releases[i].version = v
                BY <1>1, <1>4
            <4>2. \A c \in Runs : <<v, c>> \notin released
                BY <1>1, <2>5, <3>8, <4>1 DEF Spent
            <4>3. ASSUME NEW j \in Existing', releases'[j].version = v
                  PROVE  ~releases'[j].draft
                <5>1. j = i
                    BY <3>4, <4>1, <4>3 DEF IssueInv, OneEach
                <5>2. QED BY <3>1, <3>3, <5>1
            <4>4. ASSUME NEW q \in Runs, At(q, "create")' PROVE FALSE
                BY <1>1, <1>2, <4>4, PublicationConstants DEF CreateKept, At
            <4>5. ASSUME NEW w \in Versions, NEW c \in Runs, <<w, c>> \in released'
                  PROVE  /\ tags'[w] # None
                         /\ \A j \in Existing' : releases'[j].version = w => ~releases'[j].draft
                         /\ \A d \in Runs : <<w, d>> \in released' => c = d
                <5>1. CASE w = v
                    BY <3>6, <3>7, <4>2, <4>3, <4>5, <5>1
                <5>2. CASE w # v
                    <6>1. \A d : <<w, d>> \in released' => <<w, d>> \in released
                        BY <3>7, <5>2
                    <6>2. /\ tags[w] # None
                          /\ \A j \in Existing : releases[j].version = w => ~releases[j].draft
                          /\ \A d \in Runs : <<w, d>> \in released => c = d
                        BY <3>8, <4>5, <6>1 DEF Spent
                    <6>3. ASSUME NEW j \in Existing', releases'[j].version = w
                          PROVE  ~releases'[j].draft
                        <7>1. j # i /\ j \in ReleaseIds
                            BY <3>1, <3>3, <5>2, <6>3 DEF Existing
                        <7>2. QED BY <3>3, <3>4, <6>2, <6>3, <7>1
                    <6>4. QED BY <3>6, <6>1, <6>2, <6>3
                <5>3. QED BY <5>1, <5>2
            <4>6. QED BY <4>4, <4>5 DEF Spent
        <3>9. QED BY <1>1, <3>5, <3>8 DEF IssueInv
    <2>6. QED BY <2>4, <2>5
<1>5. QED BY <1>3, <1>4

\* Nothing is released when a request names a draft again or adds an asset.
LEMMA IssueEdit ==
    ASSUME IInv, IssueInv, NEW r \in Runs, UpdateDraft(r) \/ Upload(r)
    PROVE  IssueInv'
<1> DEFINE i == run[r].release
<1>1. /\ TypeOK /\ active = r /\ run[r] \in Run /\ run[r].pc \in {"update", "upload"}
      /\ i \in Existing => releases[i].version = run[r].version
      /\ UNCHANGED <<tags, released, tampered>>
    BY DEF IInv, TypeOK, DraftInv, DraftSteps, UpdateDraft, Upload, At, history
<1>2. CreateKept
    <2>1. /\ run' = [run EXCEPT ![r] = run'[r]] /\ active' \in {r, None}
          /\ run'[r].pc # "create"
        <3>1. CASE UpdateDraft(r)
            <4>1. Requested(r, "upload")
                BY <3>1 DEF UpdateDraft, Effective, Requested
            <4>2. RunMoved(r, "upload")
                BY <1>1, <4>1, RequestMoves DEF Steps
            <4>3. QED BY <4>2 DEF RunMoved
        <3>2. CASE Upload(r)
            <4>1. CASE Refuse(r)
                <5>1. run \in [Runs -> Run]
                    BY <1>1 DEF TypeOK
                <5>2. QED BY <1>1, <4>1, <5>1 DEF Refuse, End
            <4>2. CASE \E a : run' = [run EXCEPT ![r].todo = @ \ {a}] /\ active' = active
                <5>1. run \in [Runs -> Run] /\ run[r].pc = "upload"
                    BY <1>1, <3>2 DEF TypeOK, Upload, At
                <5>2. QED BY <1>1, <4>2, <5>1 DEF Run
            <4>3. QED BY <3>2, <4>1, <4>2 DEF Upload
        <3>3. QED BY <3>1, <3>2
    <2>2. QED BY <1>1, <2>1, NoneCreates
<1>3. ASSUME NEW j \in Existing'
      PROVE  /\ j \in Existing /\ releases'[j].version = releases[j].version
             /\ releases'[j].draft = releases[j].draft
    <2>1. CASE releases' = releases
        BY <1>3, <2>1 DEF Existing
    <2>2. CASE i \in Existing /\ \E x : /\ releases' = [releases EXCEPT ![i] = x]
                                        /\ x.version = releases[i].version /\ x.draft = releases[i].draft
        <3>1. releases \in [ReleaseIds -> Release \cup {None}] /\ i \in ReleaseIds
            BY <1>1, <2>2 DEF TypeOK, Existing
        <3> HIDE DEF i
        <3>2. QED BY <1>3, <2>2, <3>1 DEF Existing
    <2>3. QED
        <3>1. CASE UpdateDraft(r)
            <4>1. CASE i \in Existing
                <5>1. Renamed(r).version = releases[i].version /\ Renamed(r).draft = releases[i].draft
                    BY <1>1, <4>1, RenamedIs
                <5>2. releases' = [releases EXCEPT ![i] = Renamed(r)]
                    BY <3>1, <4>1 DEF UpdateDraft
                <5>3. QED BY <2>2, <4>1, <5>1, <5>2
            <4>2. QED BY <2>1, <3>1, <4>1 DEF UpdateDraft
        <3>2. CASE Upload(r)
            <4>1. CASE releases' # releases
                <5>1. PICK a \in run[r].todo : /\ i \in Existing
                                               /\ releases' = [releases EXCEPT ![i].assets[a] = r]
                    BY <3>2, <4>1 DEF Upload
                <5>2. releases[i] \in Release
                    BY <1>1, <5>1 DEF TypeOK, Existing
                <5> DEFINE x == [releases[i] EXCEPT !.assets[a] = r]
                <5>3. x.version = releases[i].version /\ x.draft = releases[i].draft
                    BY <5>2 DEF Release
                <5>4. releases' = [releases EXCEPT ![i] = x]
                    BY <5>1
                <5>5. QED BY <2>2, <5>1, <5>3, <5>4
            <4>2. QED BY <2>1, <4>1
        <3>3. QED BY <3>1, <3>2
<1>4. QED BY <1>1, <1>2, <1>3, IssueKept

\* A step of a run that leaves releases and tags alone.
LEMMA IssueQuiet ==
    ASSUME IssueInv, CreateKept, UNCHANGED <<releases, tags, released, tampered>>
    PROVE  IssueInv'
<1>1. \A j \in Existing' : j \in Existing /\ releases'[j] = releases[j]
    BY DEF Existing
<1>2. QED BY <1>1, IssueKept

\* Only the reading of publish_state leads to the creation of a release.
LEMMA IssueJobs ==
    ASSUME IInv, IssueInv, NEW r \in Runs, RunStep(r)
    PROVE  IssueInv'
<1>1. TypeOK /\ run \in [Runs -> Run] /\ run[r] \in Run
    BY DEF IInv, TypeOK
<1> USE DEF github, history
<1>2. CASE \/ Classify(r) \/ CheckRoom(r) \/ Resnapshot(r) \/ Uploaded(r) \/ Readback(r)
           \/ CheckDraft(r) \/ StillServed(r) \/ StillLive(r) \/ CheckDeploy(r)
    <2>1. PICK next \in Steps \ {"create"} : active = r /\ Requested(r, next)
        BY <1>2 DEF Classify, CheckRoom, Resnapshot, Uploaded, Readback, CheckDraft, StillServed,
                    StillLive, CheckDeploy, Gate, At, Requested, budgets, Steps
    <2>2. RunMoved(r, next)
        BY <1>1, <2>1, RequestMoves
    <2>3. CreateKept
        BY <2>1, <2>2, NoneCreates DEF RunMoved
    <2>4. UNCHANGED <<releases, tags, released, tampered>>
        BY <1>2 DEF Classify, CheckRoom, Resnapshot, Uploaded, Readback, CheckDraft, StillServed,
                    StillLive, CheckDeploy, Gate
    <2>5. QED BY <2>3, <2>4, IssueQuiet
<1>3. CASE \/ TakeSnapshot(r) \/ ComposeRoom(r) \/ ConfirmPublished(r) \/ BuildPages(r) \/ Deploy(r)
           \/ VerifyLive(r)
    <2>1. UNCHANGED <<releases, tags, released, tampered>> /\ active = r
        BY <1>3 DEF TakeSnapshot, ComposeRoom, ConfirmPublished, BuildPages, Deploy, VerifyLive, At
    <2>2. /\ run' = [run EXCEPT ![r] = run'[r]] /\ active' \in {r, None}
          /\ run'[r].pc # "create"
        <3>1. CASE \E how \in {"stopped", "succeeded"} : End(r, how)
            BY <1>1, <3>1 DEF End
        <3>2. CASE TakeSnapshot(r)
            BY <1>1, <2>1, <3>2 DEF TakeSnapshot, Run
        <3>3. CASE ComposeRoom(r) /\ ~Refuse(r)
            BY <1>1, <2>1, <3>3 DEF ComposeRoom, Run
        <3>4. CASE ConfirmPublished(r) /\ ~Refuse(r)
            <4>1. /\ run' = [run EXCEPT ![r] = [@ EXCEPT !.pc = "build", !.served = None, !.room = None,
                                                     !.release = None, !.reached = Reach(r, 2)]]
                  /\ active' = active
                BY <3>4 DEF ConfirmPublished
            <4>2. QED BY <1>1, <2>1, <4>1 DEF Run
        <3>5. CASE BuildPages(r) /\ ~Refuse(r)
            BY <1>1, <2>1, <3>5 DEF BuildPages, Run
        <3>6. CASE Deploy(r) /\ ~Refuse(r)
            <4>1. /\ run' = [run EXCEPT ![r] = [@ EXCEPT !.pc = "verify", !.reached = Reach(r, 4)]]
                  /\ active' = active
                BY <3>6 DEF Deploy
            <4>2. QED BY <1>1, <2>1, <4>1 DEF Run
        <3>7. QED BY <1>3, <3>1, <3>2, <3>3, <3>4, <3>5, <3>6 DEF VerifyLive, Refuse
    <2>3. QED BY <2>1, <2>2, NoneCreates, IssueQuiet
<1>4. QED BY <1>2, <1>3, IssueReadState, IssueCreate, IssueEdit, IssueUndraft
          DEF RunStep, Publish, Pages

\* Starting a job or ending it creates no release either.
LEMMA IssueStarts ==
    ASSUME IInv, IssueInv, NEW r \in Runs,
           Dispatch(r) \/ Preflight(r) \/ Fail(r) \/ \E job \in 1 .. 4 : Rerun(r, job)
    PROVE  IssueInv'
<1>1. run \in [Runs -> Run] /\ run[r] \in Run
    BY DEF IInv, TypeOK
<1>2. UNCHANGED <<releases, tags, released, tampered>>
    BY DEF Dispatch, Preflight, Fail, Rerun, github, history
<1>3. CASE Dispatch(r)
    <2>1. /\ run' = [run EXCEPT ![r] = run'[r]] /\ active' = active
          /\ run'[r].pc = "queued"
        BY <1>1, <1>3 DEF Dispatch, Run
    <2>2. CreateKept
        BY <1>1, <2>1 DEF CreateKept, At
    <2>3. QED BY <1>2, <2>2, IssueQuiet
<1>4. CASE Preflight(r) \/ Fail(r) \/ \E job \in 1 .. 4 : Rerun(r, job)
    <2>1. /\ run' = [run EXCEPT ![r] = run'[r]] /\ active' \in {r, None}
          /\ run'[r].pc # "create"
        <3>1. CASE Refuse(r)
            BY <1>1, <3>1 DEF Refuse, End
        <3>2. CASE Preflight(r) /\ ~Refuse(r)
            <4>1. run' = [run EXCEPT ![r].pc = "classify", ![r].reached = 1] /\ active' = r
                BY <3>2 DEF Preflight
            <4>2. QED BY <1>1, <4>1 DEF Run
        <3>3. CASE \E job \in 1 .. 4 : Rerun(r, job)
            <4>1. PICK job \in 1 .. 4 : run' = [run EXCEPT ![r].pc = JobStart[job]] /\ active' = r
                BY <3>3 DEF Rerun
            <4>2. JobStart[job] # "create"
                BY DEF JobStart
            <4>3. QED BY <1>1, <4>1, <4>2 DEF Run
        <3>4. QED BY <1>4, <3>1, <3>2, <3>3 DEF Fail
    <2>2. QED BY <1>2, <2>1, NoneCreates, IssueQuiet
<1>5. QED BY <1>3, <1>4

\* People make no drafts; deleting a tag and publishing a draft by hand is tampering.
LEMMA IssuePeople ==
    ASSUME IInv, IssueInv, Landing \/ Manual \/ UNCHANGED vars
    PROVE  IssueInv'
<1>1. /\ UNCHANGED <<run, active>> /\ TypeOK /\ ReleasedInv
      /\ tags \in [Versions -> Commits \cup {None}]
      /\ releases \in [ReleaseIds -> Release \cup {None}]
    BY DEF Landing, BumpVersion, RecordVersion, RetireVersion, RemoveEntry, Land, Manual,
           ToggleSetting, DeleteRelease, DeleteTag, PushTag, FlipPrerelease, EditNotes,
           PublishDraftByHand, ByHand, vars, IInv, TypeOK
<1>2. CreateKept
    BY <1>1 DEF CreateKept, At
<1>3. CASE Landing \/ ToggleSetting \/ UNCHANGED vars
    <2>1. UNCHANGED <<releases, tags, released, tampered>>
        BY <1>3 DEF Landing, BumpVersion, RecordVersion, RetireVersion, RemoveEntry, Land,
                    ToggleSetting, github, history, vars
    <2>2. QED BY <1>2, <2>1, IssueQuiet
<1>4. CASE DeleteRelease \/ FlipPrerelease \/ EditNotes
    <2>1. UNCHANGED <<tags, released, tampered>>
        BY <1>4 DEF DeleteRelease, FlipPrerelease, EditNotes, history
    <2>2. \A j \in Existing' : /\ j \in Existing /\ releases'[j].version = releases[j].version
                               /\ releases'[j].draft = releases[j].draft
        <3>1. CASE DeleteRelease
            BY <1>1, <3>1 DEF DeleteRelease, Existing
        <3>2. CASE FlipPrerelease
            BY <1>1, <3>2 DEF FlipPrerelease, Existing, Release
        <3>3. CASE EditNotes
            BY <1>1, <3>3 DEF EditNotes, Existing, Release
        <3>4. QED BY <1>4, <3>1, <3>2, <3>3
    <2>3. QED BY <1>2, <2>1, <2>2, IssueKept
<1>5. CASE DeleteTag \/ PushTag
    <2>1. UNCHANGED <<releases, released>> /\ (tampered => tampered')
        BY <1>5 DEF DeleteTag, PushTag, history
    <2>2. \A j \in Existing' : j \in Existing /\ releases'[j] = releases[j]
        BY <2>1 DEF Existing
    <2>3. tampered' \/ \A v \in Versions : tags[v] # None => tags'[v] # None
        <3>1. CASE DeleteTag
            BY <3>1 DEF DeleteTag
        <3>2. CASE PushTag
            <4>1. PICK v \in Versions, c \in 0 .. main.commit : tags' = [tags EXCEPT ![v] = c]
                BY <3>2 DEF PushTag
            <4>2. c \in Commits
                BY <1>1, <4>1, PublicationConstants DEF TypeOK, Commits
            <4>3. QED BY <1>1, <4>1, <4>2, PublicationConstants
        <3>3. QED BY <1>5, <3>1, <3>2
    <2>4. QED BY <1>2, <2>1, <2>2, <2>3, IssueKept
<1>6. CASE PublishDraftByHand
    <2>1. PICK i \in Existing : MakePublic(i, releases[i])
        BY <1>6 DEF PublishDraftByHand
    <2>2. i \in ReleaseIds /\ releases[i] \in Release
        BY <1>1 DEF Existing
    <2>3. /\ releases'[i].version = releases[i].version
          /\ \A j \in ReleaseIds \ {i} : releases'[j] = releases[j]
        BY <1>1, <2>1, <2>2, MadePublic
    <2>4. \A j \in Existing' : j \in Existing /\ releases'[j].version = releases[j].version
        BY <2>2, <2>3 DEF Existing
    <2>5. tampered'
        BY <1>6 DEF PublishDraftByHand
    <2>6. QED BY <1>2, <2>4, <2>5, IssueKept
<1>7. QED BY <1>3, <1>4, <1>5, <1>6 DEF Manual

\* Together with what the runs promise, all of it is kept by each step.
LEMMA IssueStep == IInv /\ IssueInv /\ [Next]_vars => IssueInv'
<1> SUFFICES ASSUME IInv, IssueInv, [Next]_vars PROVE IssueInv'
    OBVIOUS
<1>1. CASE Landing \/ Manual \/ UNCHANGED vars
    BY <1>1, IssuePeople
<1>2. ASSUME NEW r \in Runs, RunStep(r) PROVE IssueInv'
    BY <1>2, IssueJobs
<1>3. ASSUME NEW r \in Runs,
             Dispatch(r) \/ Preflight(r) \/ Fail(r) \/ \E job \in 1 .. 4 : Rerun(r, job)
      PROVE  IssueInv'
    BY <1>3, IssueStarts
<1>4. QED BY <1>1, <1>2, <1>3 DEF Next

\* As long as tags are kept and drafts are left alone, a version number stands for one
\* set of bytes, whatever fails, is re-run, deleted or dispatched twice: publish_state
\* sees the tag that an earlier release of the version has left.
THEOREM NeverIssuedTwice == Spec => []NeverReissued
<1>1. Init => IssueInv
    BY PublicationConstants DEF Init, IssueInv, OneEach, Spent, Existing, At
<1>2. IInv /\ IssueInv /\ [Next]_vars => IssueInv'
    BY IssueStep
<1>3. IInv /\ IssueInv => NeverReissued
    <2> SUFFICES ASSUME IInv, Spent, NEW p \in released, NEW q \in released, p[1] = q[1]
                 PROVE  p[2] = q[2]
        BY DEF IssueInv, NeverReissued
    <2>1. released \subseteq Versions \X Runs
        BY DEF IInv, TypeOK
    <2>2. /\ p = <<p[1], p[2]>> /\ q = <<p[1], q[2]>>
          /\ p[1] \in Versions /\ p[2] \in Runs /\ q[2] \in Runs
        BY <2>1
    <2>3. QED BY <2>2 DEF Spent
<1>4. IInv /\ [Next]_vars => IInv'
    BY StepInv
<1>5. QED BY <1>1, <1>2, <1>3, <1>4, InitInv, PTL DEF Spec
=============================================================================
