------------------------- MODULE ReleaseForwardProofs -------------------------
(***************************************************************************)
(* Deployments only go forward, and one public release at most waits for   *)
(* its deployment, whatever fails, is re-run, landed or deleted, as long   *)
(* as tags are kept and drafts are left alone.  ForwardInv says it of the  *)
(* shared state, and what the run in progress relies on at its step:       *)
(* versions only grow, what is live was released, a version once shown     *)
(* keeps its tag and gets no draft, and a run makes its release public     *)
(* only when every other public release is live.                           *)
(*                                                                         *)
(* And what is public can be served: PublicFits bounds a sum over the      *)
(* public versions by the room that the run's check has counted.  And as   *)
(* long as nobody acts by hand it gets live: PublicGoesOn, at the end,     *)
(* shows that no check refuses a run that made its release public, as      *)
(* HandsOff keeps what each of them compares.                              *)
(***************************************************************************)
EXTENDS ReleasePublicationProofs, FiniteSetTheorems

\* Versions only grow: no release, registry or run is ahead of main, and no registry
\* of the run that was dispatched with it.
GrowInv ==
    /\ \A i \in Existing : releases[i].version <= main.version
    /\ \A v \in Listed(main.registry) : v <= main.version
    /\ \A r \in Runs : /\ run[r].version <= main.version
                       /\ \A v \in Listed(run[r].registry) : v <= run[r].version

\* What is live was released, and a composed site has all that its registry published.
Complete3(x) ==
    x.reached >= 3 => \A v \in Listed(x.registry) : v \in Retired(x.registry) \/ x.record[v] # None
ServedInv ==
    /\ \A v \in Versions : live[v] # None => <<v, live[v]>> \in released
    /\ \A r \in Runs : Complete3(run[r])

\* A version that is public, or is or was listed by a registry that a run still has, keeps its
\* tag, and no draft of it is left or about to be made.
Shown ==
    {releases[i].version : i \in Public} \cup Listed(main.registry)
        \cup {v \in Versions : \E r \in Runs : v \in Listed(run[r].registry)}
ShownInv ==
    \A v \in Shown :
        /\ tags[v] # None
        /\ \A i \in Existing : releases[i].version = v => ~releases[i].draft
        /\ \A r \in Runs : At(r, "create") => run[r].version # v

\* What some registry retires main retires too, while it is public.
RetiredInv ==
    \A r \in Runs, i \in Public :
        releases[i].version \in Retired(run[r].registry) =>
            releases[i].version \in Retired(main.registry)

FilledInv == \A i \in Public : releases[i].assets[Sums] # None

\* A composition has the release with its bytes.
Has(composition, i) ==
    /\ composition[releases[i].version] # None
    /\ composition[releases[i].version].content = releases[i].assets[Sums]

\* What a run in progress relies on at its step: its release is a draft until it undrafts
\* it, its room has every other public release that it does not retire, all of them live
\* when it undrafts; and when it deploys nothing is ahead of it.
RoomSteps == DraftSteps \cup {"room", "resnapshot", "state", "create"}
DraftRelied(x) ==
    x.pc \in DraftSteps /\ x.release \in Existing =>
        /\ releases[x.release].draft
        /\ x.pc \in {"draft", "served", "sums", "undraft"} => releases[x.release].assets[Sums] # None
RoomRelied(x) ==
    x.pc \in RoomSteps =>
        \A i \in Public : \/ releases[i].version \in Retired(x.registry) \cup {x.version}
                           \/ Has(x.room, i)
DeployRelied(x) ==
    x.pc = "deploy" =>
        /\ \A v \in Versions, c \in Runs : <<v, c>> \in released => v <= x.version
        /\ \A v \in Versions : live[v] # None => v = x.version \/ v \in Listed(x.registry)
        /\ \A i \in Public : releases[i].version \in Retired(x.registry) \/ Has(x.record, i)
Relied(x) ==
    /\ DraftRelied(x) /\ RoomRelied(x) /\ DeployRelied(x)
    /\ x.pc = "undraft" => LiveSums(x.room, None)
ReliedInv == \A r \in Runs : active = r => Relied(run[r])

Behind == {i \in Servable : live[releases[i].version] # releases[i].assets[Sums]}
OneBehind == \A i, j \in Behind : i = j

LateInv == ShownInv /\ RetiredInv /\ FilledInv /\ ReliedInv /\ OneBehind
ForwardInv == GrowInv /\ ServedInv /\ (tampered \/ LateInv)

\* A run keeps version and registry once dispatched.
Moves(r) ==
    /\ run' = [run EXCEPT ![r] = run'[r]] /\ run \in [Runs -> Run] /\ run[r] \in Run
    /\ run'[r].version = run[r].version /\ run'[r].registry = run[r].registry
    /\ active' \in {r, None} /\ main' = main

-----------------------------------------------------------------------------
\* A job that goes on or ends.
LEMMA GoesOrEnds ==
    ASSUME TypeOK, NEW r \in Runs, main' = main, active \in {r, None},
           (\E next : Goto(r, next) /\ active = r) \/ \E how : End(r, how)
    PROVE  /\ Moves(r) /\ run'[r].reached = run[r].reached /\ run'[r].record = run[r].record
           /\ active' = r => run'[r].room = run[r].room /\ run'[r].release = run[r].release
<1>1. run \in [Runs -> Run] /\ run[r] \in Run /\ None \notin Runs
    BY PublicationConstants DEF TypeOK
<1>2. ASSUME NEW next, Goto(r, next), active = r
      PROVE  /\ Moves(r) /\ run'[r].reached = run[r].reached /\ run'[r].record = run[r].record
             /\ run'[r].room = run[r].room /\ run'[r].release = run[r].release
    <2>1. run' = [run EXCEPT ![r] = run'[r]] /\ run'[r] = [run[r] EXCEPT !.pc = next] /\ active' = r
        BY <1>1, <1>2 DEF Goto
    <2>2. QED BY <1>1, <2>1 DEF Moves, Run
<1>3. ASSUME NEW how, End(r, how)
      PROVE  /\ Moves(r) /\ run'[r].reached = run[r].reached /\ run'[r].record = run[r].record
             /\ active' = None
    <2>1. /\ run' = [run EXCEPT ![r] = run'[r]] /\ active' = None
          /\ run'[r] = [run[r] EXCEPT !.pc = how, !.served = None, !.room = None,
                                      !.release = None, !.todo = {}]
        BY <1>1, <1>3 DEF End
    <2>2. QED BY <1>1, <2>1 DEF Moves, Run
<1>4. QED BY <1>1, <1>2, <1>3

\* publish_state: create, resume with the draft that is there, or go to the last check.
LEMMA ReadStateMoves ==
    ASSUME TypeOK, NEW r \in Runs, ReadState(r)
    PROVE  /\ Moves(r) /\ run'[r].reached = run[r].reached /\ run'[r].record = run[r].record
           /\ active' = r =>
                /\ run'[r].room = run[r].room
                /\ \/ run'[r].pc = "create" /\ Fresh(r)
                   \/ /\ run'[r].pc = "update"
                      /\ \E i \in Existing : run'[r].release = i /\ DraftResume(r, i)
                   \/ run'[r].pc = "final"
<1>1. /\ run \in [Runs -> Run] /\ run[r] \in Run /\ active = r /\ main' = main
      /\ None \notin Runs
    BY PublicationConstants DEF TypeOK, ReadState, At, settings
<1>2. CASE Refuse(r)
    BY <1>1, <1>2, GoesOrEnds DEF Refuse, End
<1>3. CASE Goto(r, "create") /\ Fresh(r)
    <2>1. run'[r].pc = "create"
        BY <1>1, <1>3 DEF Goto, Run
    <2>2. QED BY <1>1, <1>3, <2>1, GoesOrEnds DEF Goto
<1>4. ASSUME NEW i \in Existing, active' = active, NEW todo \in SUBSET Assets,
             NEW next \in {"update", "final"},
             run' = [run EXCEPT ![r] = [run[r] EXCEPT !.pc = next, !.release = i, !.todo = todo]]
      PROVE  /\ Moves(r) /\ run'[r].reached = run[r].reached /\ run'[r].record = run[r].record
             /\ run'[r].room = run[r].room /\ run'[r].release = i /\ run'[r].pc = next
    <2>1. /\ run' = [run EXCEPT ![r] = run'[r]]
          /\ run'[r] = [run[r] EXCEPT !.pc = next, !.release = i, !.todo = todo]
        BY <1>1, <1>4
    <2>2. /\ run'[r].version = run[r].version /\ run'[r].registry = run[r].registry
          /\ run'[r].reached = run[r].reached /\ run'[r].record = run[r].record
          /\ run'[r].room = run[r].room /\ run'[r].release = i /\ run'[r].pc = next
        BY <1>1, <2>1 DEF Run
    <2>3. QED BY <1>1, <1>4, <2>1, <2>2 DEF Moves
<1>5. ASSUME NEW i \in Existing, DraftResume(r, i), active' = active,
             run' = [run EXCEPT ![r].pc = "update", ![r].release = i,
                                ![r].todo = {a \in Assets : releases[i].assets[a] = None}]
      PROVE  /\ Moves(r) /\ run'[r].reached = run[r].reached /\ run'[r].record = run[r].record
             /\ run'[r].room = run[r].room /\ run'[r].release = i /\ run'[r].pc = "update"
    <2>1. run' = [run EXCEPT ![r] = [run[r] EXCEPT !.pc = "update", !.release = i,
                                !.todo = {a \in Assets : releases[i].assets[a] = None}]]
        BY <1>1, <1>5
    <2>2. QED BY <1>4, <1>5, <2>1
<1>6. ASSUME NEW i \in Existing, active' = active,
             run' = [run EXCEPT ![r].pc = "final", ![r].release = i]
      PROVE  /\ Moves(r) /\ run'[r].reached = run[r].reached /\ run'[r].record = run[r].record
             /\ run'[r].room = run[r].room /\ run'[r].pc = "final"
    <2>1. run' = [run EXCEPT ![r] = [run[r] EXCEPT !.pc = "final", !.release = i]]
        BY <1>1, <1>6
    <2>3. /\ run[r].todo \in SUBSET Assets
          /\ [run[r] EXCEPT !.pc = "final", !.release = i]
               = [run[r] EXCEPT !.pc = "final", !.release = i, !.todo = run[r].todo]
        BY <1>1 DEF Run
    <2>4. run' = [run EXCEPT ![r] = [run[r] EXCEPT !.pc = "final", !.release = i,
                                                   !.todo = run[r].todo]]
        BY <2>1, <2>3
    <2>2. QED BY <1>4, <1>6, <2>3, <2>4
<1>7. QED BY <1>2, <1>3, <1>5, <1>6 DEF ReadState

\* A run's steps, however they end, keep its version and registry.
LEMMA JobMoves ==
    ASSUME TypeOK, NEW r \in Runs,
           RunStep(r) \/ Preflight(r) \/ Fail(r) \/ \E job \in 1 .. 4 : Rerun(r, job)
    PROVE  Moves(r)
<1>1. run \in [Runs -> Run] /\ run[r] \in Run /\ main' = main
    BY DEF TypeOK, RunStep, Publish, Pages, Classify, CheckRoom, Resnapshot, Uploaded, Readback,
           CheckDraft, StillServed, StillLive, CheckDeploy, Gate, TakeSnapshot, ComposeRoom,
           ReadState, CreateDraft, UpdateDraft, Upload, Undraft, ConfirmPublished, BuildPages,
           Deploy, VerifyLive, Preflight, Fail, Rerun, settings
<1>2. active \in {r, None}
    BY DEF RunStep, Publish, Pages, Classify, CheckRoom, Resnapshot, Uploaded, Readback,
           CheckDraft, StillServed, StillLive, CheckDeploy, Gate, TakeSnapshot, ComposeRoom,
           ReadState, CreateDraft, UpdateDraft, Upload, Undraft, ConfirmPublished, BuildPages,
           Deploy, VerifyLive, Preflight, Fail, Rerun, At
<1>3. CASE (\E next : Goto(r, next) /\ active = r) \/ \E how : End(r, how)
    BY <1>1, <1>2, <1>3, GoesOrEnds
<1>4. CASE /\ run' = [run EXCEPT ![r] = run'[r]] /\ active' = r
           /\ run'[r].version = run[r].version /\ run'[r].registry = run[r].registry
    BY <1>1, <1>4 DEF Moves
<1>5. CASE \/ Classify(r) \/ CheckRoom(r) \/ Resnapshot(r) \/ Uploaded(r) \/ Readback(r)
           \/ CheckDraft(r) \/ StillServed(r) \/ StillLive(r) \/ CheckDeploy(r) \/ VerifyLive(r)
           \/ UpdateDraft(r) \/ Undraft(r) \/ Fail(r)
    BY <1>3, <1>5 DEF Classify, CheckRoom, Resnapshot, Uploaded, Readback, CheckDraft, StillServed,
           StillLive, CheckDeploy, Gate, VerifyLive, UpdateDraft, Undraft, Fail, Effective, Refuse, At
<1> USE DEF Refuse, At, Run
<1>6. CASE TakeSnapshot(r) \/ ComposeRoom(r) \/ ReadState(r)
    <2>1. CASE TakeSnapshot(r)
        BY <1>1, <1>4, <2>1 DEF TakeSnapshot
    <2>2. CASE ComposeRoom(r)
        BY <1>1, <1>3, <1>4, <2>2 DEF ComposeRoom
    <2>3. CASE ReadState(r)
        BY <2>3, ReadStateMoves
    <2>4. QED BY <1>6, <2>1, <2>2, <2>3
<1>7. CASE CreateDraft(r) \/ Upload(r)
    <2>1. CASE Refuse(r)
        BY <1>3, <2>1
    <2>2. CASE /\ run' = [run EXCEPT ![r].pc = "update", ![r].release = nextId, ![r].todo = Assets]
               /\ active' = r
        BY <1>1, <1>4, <2>2
    <2>3. CASE \E a : run' = [run EXCEPT ![r].todo = @ \ {a}] /\ active' = r
        BY <1>1, <1>4, <2>3
    <2>4. QED BY <1>7, <2>1, <2>2, <2>3 DEF CreateDraft, Upload
<1>8. CASE ConfirmPublished(r) \/ BuildPages(r) \/ Deploy(r)
    <2>1. CASE Refuse(r)
        BY <1>3, <2>1
    <2>2. CASE \E n : /\ run' = [run EXCEPT ![r] = [@ EXCEPT !.pc = "build", !.served = None,
                                     !.room = None, !.release = None, !.reached = n]]
                      /\ active' = r
        BY <1>1, <1>4, <2>2
    <2>3. CASE \E n, site : /\ run' = [run EXCEPT ![r] = [@ EXCEPT !.pc = "check", !.record = site,
                                                         !.reached = n]]
                            /\ active' = r
        BY <1>1, <1>4, <2>3
    <2>4. CASE \E n : /\ run' = [run EXCEPT ![r] = [@ EXCEPT !.pc = "verify", !.reached = n]]
                      /\ active' = r
        BY <1>1, <1>4, <2>4
    <2>5. QED BY <1>8, <2>1, <2>2, <2>3, <2>4 DEF ConfirmPublished, BuildPages, Deploy
<1>9. CASE Preflight(r) \/ \E job \in 1 .. 4 : Rerun(r, job)
    <2>1. CASE Refuse(r)
        BY <1>3, <2>1
    <2>2. CASE run' = [run EXCEPT ![r].pc = "classify", ![r].reached = 1] /\ active' = r
        BY <1>1, <1>4, <2>2
    <2>3. CASE \E job : run' = [run EXCEPT ![r].pc = JobStart[job]] /\ active' = r
        BY <1>1, <1>4, <2>3
    <2>4. QED BY <1>9, <2>1, <2>2, <2>3 DEF Preflight, Rerun
<1>10. QED BY <1>5, <1>6, <1>7, <1>8, <1>9 DEF RunStep, Publish, Pages

\* A release that a job leaves there has the version it had, or the job's.
LEMMA JobReleases ==
    ASSUME TypeOK, NEW r \in Runs, RunStep(r), NEW i \in Existing'
    PROVE  \/ releases'[i].version = run[r].version
           \/ i \in Existing /\ releases'[i].version = releases[i].version
<1>1. /\ releases \in [ReleaseIds -> Release \cup {None}] /\ run[r] \in Run /\ i \in ReleaseIds
    BY DEF TypeOK, Existing
<1>2. CASE releases' = releases
    BY <1>2 DEF Existing
<1>3. CASE CreateDraft(r)
    <2> DEFINE draft == [version |-> run[r].version, draft |-> TRUE, prerelease |-> FALSE,
                         immutable |-> FALSE, target |-> run[r].commit,
                         assets |-> [a \in Assets |-> None], notes |-> r]
    <2>1. releases' = [releases EXCEPT ![nextId] = draft] /\ draft.version = run[r].version
        BY <1>3 DEF CreateDraft
    <2> HIDE DEF draft
    <2>2. QED BY <1>1, <2>1 DEF Existing
<1>4. CASE UpdateDraft(r) /\ releases' # releases
    <2>1. run[r].release \in Existing /\ releases' = [releases EXCEPT ![run[r].release] = Renamed(r)]
        BY <1>4 DEF UpdateDraft
    <2>2. Renamed(r).version = run[r].version
        BY <2>1, RenamedIs
    <2>3. QED BY <1>1, <2>1, <2>2 DEF Existing
<1>5. CASE Upload(r) /\ releases' # releases
    <2>1. PICK a, j : j \in Existing /\ releases' = [releases EXCEPT ![j].assets[a] = r]
        BY <1>5 DEF Upload
    <2>2. releases[j] \in Release /\ j \in ReleaseIds
        BY <1>1, <2>1 DEF Existing
    <2> DEFINE x == [releases[j] EXCEPT !.assets[a] = r]
    <2>3. x.version = releases[j].version /\ releases' = [releases EXCEPT ![j] = x]
        BY <2>1, <2>2 DEF Release
    <2> HIDE DEF x
    <2>4. QED BY <1>1, <2>1, <2>2, <2>3 DEF Existing
<1>6. CASE Undraft(r) /\ releases' # releases
    <2> DEFINE j == run[r].release
               full == [Renamed(r) EXCEPT !.prerelease = FALSE]
    <2>1. /\ j \in Existing
          /\ IF releases[j].draft THEN MakePublic(j, full)
             ELSE releases' = [releases EXCEPT ![j] = full]
        BY <1>6 DEF Undraft
    <2>2. full \in Release /\ full.version = run[r].version
        <3>1. Renamed(r) \in Release /\ Renamed(r).version = run[r].version
            BY <2>1, RenamedIs
        <3>2. QED BY <3>1 DEF Release
    <2>3. \E x : x.version = run[r].version /\ releases' = [releases EXCEPT ![j] = x]
        <3> HIDE DEF full
        <3>1. CASE releases[j].draft
            <4>1. [full EXCEPT !.draft = FALSE, !.immutable = immutableOn].version = run[r].version
                BY <2>2 DEF Release
            <4>2. QED BY <2>1, <3>1, <4>1 DEF MakePublic
        <3>2. QED BY <2>1, <2>2, <3>1
    <2> HIDE DEF j
    <2>4. QED BY <1>1, <2>1, <2>3 DEF Existing
<1>7. QED BY <1>2, <1>3, <1>4, <1>5, <1>6 DEF RunStep, Publish, Pages, Classify, CheckRoom,
          Resnapshot, Uploaded, Readback, CheckDraft, StillServed, StillLive, CheckDeploy, Gate,
          TakeSnapshot, ComposeRoom, ReadState, ConfirmPublished, BuildPages, Deploy, VerifyLive, github

\* A reviewed change of main: it bumps the version, or lists one that is public, or drops one
\* that is not; what is retired stays so unless it is dropped.
Landed ==
    /\ main'.version >= main.version
    /\ \A v \in Listed(main'.registry) :
         v \in Listed(main.registry) \/ \E i \in Public : releases[i].version = v
    /\ \A v \in Retired(main.registry) : v \in Retired(main'.registry) \/ PublicSums(v) = {}
    /\ UNCHANGED <<releases, tags, live, run, active, released, tampered>>

\* Each landing is such a change.
LEMMA LandingLands ==
    ASSUME TypeOK, Landing
    PROVE  Landed
<1>1. /\ main \in [version : Versions, commit : Commits, registry : Registry]
      /\ main.version \in Nat
    BY PublicationConstants DEF TypeOK, Versions
<1>2. ASSUME NEW v, NEW c \in PublicSums(v) PROVE \E i \in Public : releases[i].version = v
    BY <1>2 DEF PublicSums
<1>3. ASSUME NEW change, Land(change)
      PROVE  /\ main' = [change EXCEPT !.commit = main.commit + 1]
             /\ UNCHANGED <<releases, tags, live, run, active, released, tampered>>
    BY <1>3 DEF Land, github, budgets, history
<1>4. CASE BumpVersion
    <2>1. main' = [main EXCEPT !.version = @ + 1, !.commit = main.commit + 1]
        BY <1>3, <1>4 DEF BumpVersion
    <2>2. main'.version = main.version + 1 /\ main'.registry = main.registry
        BY <1>1, <2>1
    <2>3. QED BY <1>1, <1>3, <1>4, <2>2 DEF BumpVersion, Landed
<1>5. CASE RecordVersion
    <2>1. PICK v \in Versions \ Listed(main.registry) : \E c \in PublicSums(v) :
              Land([main EXCEPT !.registry.published[v] = c])
        BY <1>5 DEF RecordVersion
    <2>2. PICK c \in PublicSums(v) : Land([main EXCEPT !.registry.published[v] = c])
        BY <2>1
    <2> DEFINE registry == [main.registry EXCEPT !.published[v] = c]
    <2>3. /\ main'.version = main.version /\ main'.registry = registry
        BY <1>1, <1>3, <2>2
    <2>4. registry.retired = main.registry.retired /\ \A w \in Versions \ {v} :
              registry.published[w] = main.registry.published[w]
        BY <1>1 DEF Registry
    <2> HIDE DEF registry
    <2>5. QED BY <1>1, <1>2, <1>3, <2>2, <2>3, <2>4 DEF Landed, Listed, Retired
<1>6. CASE RetireVersion
    <2>1. PICK v \in Versions \ Retired(main.registry) : \E c \in PublicSums(v) :
              Land([main EXCEPT !.registry.published[v] = None, !.registry.retired[v] = c])
        BY <1>6 DEF RetireVersion
    <2>2. PICK c \in PublicSums(v) :
              Land([main EXCEPT !.registry.published[v] = None, !.registry.retired[v] = c])
        BY <2>1
    <2> DEFINE registry == [main.registry EXCEPT !.published[v] = None, !.retired[v] = c]
    <2>3. /\ main'.version = main.version /\ main'.registry = registry
        <3> DEFINE x == [main EXCEPT !.registry.published[v] = None]
                   y == [x EXCEPT !.registry.retired[v] = c]
        <3>1. /\ x \in [version : Versions, commit : Commits,
                        registry : [published : [Versions -> MaybeRun],
                                    retired : [Versions -> MaybeRun]]]
              /\ x.version = main.version /\ x.registry = [main.registry EXCEPT !.published[v] = None]
            BY <1>1 DEF Registry, MaybeRun
        <3>2. Land(y)
            BY <2>2
        <3>3. main' = [y EXCEPT !.commit = main.commit + 1]
            BY <1>3, <3>2
        <3> HIDE DEF x
        <3>4. y.version = x.version /\ y.registry = [x.registry EXCEPT !.retired[v] = c]
            BY <3>1
        <3>5. main'.version = y.version /\ main'.registry = y.registry
            BY <3>1, <3>3
        <3>6. QED BY <3>1, <3>4, <3>5
    <2>4. \A w \in Versions \ {v} : /\ registry.published[w] = main.registry.published[w]
                                    /\ registry.retired[w] = main.registry.retired[w]
        BY <1>1 DEF Registry
    <2> HIDE DEF registry
    <2>5. v \notin Retired(main.registry)
        BY <2>1
    <2>6. \E i \in Public : releases[i].version = v
        BY <1>2, <2>2
    <2>7. \A w \in Listed(registry) : w \in Listed(main.registry) \/ w = v
        BY <2>4 DEF Listed, Retired
    <2>8. \A w \in Retired(main.registry) : w \in Retired(registry)
        BY <2>4, <2>5 DEF Retired
    <2>9. QED BY <1>1, <1>3, <2>2, <2>3, <2>6, <2>7, <2>8 DEF Landed
<1>7. CASE RemoveEntry
    <2>1. PICK v \in Listed(main.registry) :
              /\ PublicSums(v) = {}
              /\ Land([main EXCEPT !.registry.published[v] = None, !.registry.retired[v] = None])
        BY <1>7 DEF RemoveEntry
    <2> DEFINE registry == [main.registry EXCEPT !.published[v] = None, !.retired[v] = None]
    <2>2. /\ main'.version = main.version /\ main'.registry = registry
        <3> DEFINE x == [main EXCEPT !.registry.published[v] = None]
                   y == [x EXCEPT !.registry.retired[v] = None]
        <3>1. /\ x \in [version : Versions, commit : Commits,
                        registry : [published : [Versions -> MaybeRun],
                                    retired : [Versions -> MaybeRun]]]
              /\ x.version = main.version /\ x.registry = [main.registry EXCEPT !.published[v] = None]
            BY <1>1 DEF Registry, MaybeRun
        <3>2. Land(y)
            BY <2>1
        <3>3. main' = [y EXCEPT !.commit = main.commit + 1]
            BY <1>3, <3>2
        <3> HIDE DEF x
        <3>4. y.version = x.version /\ y.registry = [x.registry EXCEPT !.retired[v] = None]
            BY <3>1
        <3>5. main'.version = y.version /\ main'.registry = y.registry
            BY <3>1, <3>3
        <3>6. QED BY <3>1, <3>4, <3>5
    <2>3. /\ \A w \in Versions \ {v} : /\ registry.published[w] = main.registry.published[w]
                                       /\ registry.retired[w] = main.registry.retired[w]
          /\ registry.published[v] = None /\ registry.retired[v] = None
        BY <1>1, <2>1 DEF Registry, Listed, Retired
    <2> HIDE DEF registry
    <2>4. \A w \in Listed(registry) : w \in Listed(main.registry)
        BY <2>3 DEF Listed, Retired
    <2>5. \A w \in Retired(main.registry) : w \in Retired(registry) \/ w = v
        BY <2>3 DEF Retired
    <2>6. QED BY <1>1, <1>3, <2>1, <2>2, <2>4, <2>5 DEF Landed
<1>8. QED BY <1>4, <1>5, <1>6, <1>7 DEF Landing

\* A change by hand: releases keep their versions, and unless it is tampering they keep draft
\* and bytes too, and so do the tags and what was released.
Kept ==
    \A i \in Existing' :
        /\ i \in Existing /\ releases'[i].version = releases[i].version
        /\ releases'[i].draft = releases[i].draft
        /\ releases'[i].assets[Sums] = releases[i].assets[Sums]

\* Each change by hand is one, or tampering.
LEMMA ManualKeeps ==
    ASSUME TypeOK, Manual
    PROVE  /\ UNCHANGED <<main, live, run, active>> /\ released \subseteq released'
           /\ \A i \in Existing' : i \in Existing /\ releases'[i].version = releases[i].version
           /\ \/ tampered'
              \/ /\ Kept /\ tampered' = tampered /\ released' = released
                 /\ \A v \in Versions : tags[v] # None => tags'[v] # None
<1>1. /\ releases \in [ReleaseIds -> Release \cup {None}]
      /\ UNCHANGED <<main, live, run, active>>
    BY DEF TypeOK, Manual, ToggleSetting, DeleteRelease, DeleteTag, PushTag, FlipPrerelease,
           EditNotes, PublishDraftByHand, ByHand
<1>2. CASE ToggleSetting \/ DeleteTag \/ PushTag
    <2>1. UNCHANGED <<releases, released>> /\ (tampered' = tampered \/ tampered')
        BY <1>2 DEF ToggleSetting, DeleteTag, PushTag, history
    <2>2. tampered' \/ \A v \in Versions : tags[v] # None => tags'[v] # None
        <3>1. CASE PushTag
            <4>1. PICK v \in Versions, c \in 0 .. main.commit : tags' = [tags EXCEPT ![v] = c]
                BY <3>1 DEF PushTag
            <4>2. c # None
                BY <4>1, PublicationConstants DEF TypeOK, Commits
            <4>3. QED BY <4>1, <4>2 DEF TypeOK
        <3>2. QED BY <1>2, <3>1 DEF ToggleSetting, DeleteTag, history
    <2>3. QED BY <1>1, <2>1, <2>2 DEF Existing, Kept
<1>3. CASE DeleteRelease \/ FlipPrerelease \/ EditNotes
    <2>1. UNCHANGED <<tags, released, tampered>>
        BY <1>3 DEF DeleteRelease, FlipPrerelease, EditNotes, history
    <2>2. CASE DeleteRelease
        BY <1>1, <2>1, <2>2 DEF DeleteRelease, Existing, Kept
    <2>3. CASE FlipPrerelease
        BY <1>1, <2>1, <2>3 DEF FlipPrerelease, Existing, Release, Kept
    <2>4. CASE EditNotes
        BY <1>1, <2>1, <2>4 DEF EditNotes, Existing, Release, Kept
    <2>5. QED BY <1>3, <2>2, <2>3, <2>4
<1>4. CASE PublishDraftByHand
    <2>1. PICK i \in Existing : MakePublic(i, releases[i])
        BY <1>4 DEF PublishDraftByHand
    <2>2. i \in ReleaseIds /\ releases[i] \in Release
        BY <1>1 DEF Existing
    <2> DEFINE new == [releases[i] EXCEPT !.draft = FALSE, !.immutable = immutableOn]
    <2>3. new.version = releases[i].version
        BY <2>2 DEF Release
    <2>4. releases' = [releases EXCEPT ![i] = new]
        BY <2>1 DEF MakePublic
    <2> HIDE DEF new
    <2>5. \A j \in Existing' : j \in Existing /\ releases'[j].version = releases[j].version
        BY <1>1, <2>2, <2>3, <2>4 DEF Existing
    <2>6. released \subseteq released'
        BY <2>1 DEF MakePublic
    <2>7. QED BY <1>1, <1>4, <2>5, <2>6 DEF PublishDraftByHand
<1>5. QED BY <1>2, <1>3, <1>4 DEF Manual

-----------------------------------------------------------------------------
\* What is not a job's step moves no release.
LEMMA StartKeeps ==
    ASSUME NEW r \in Runs,
           Dispatch(r) \/ Preflight(r) \/ Fail(r) \/ \E job \in 1 .. 4 : Rerun(r, job)
    PROVE  UNCHANGED <<main, releases, tags, live, released, tampered>>
BY DEF Dispatch, Preflight, Fail, Rerun, github, settings, history

\* A run is dispatched at main as it is.
LEMMA DispatchMoves ==
    ASSUME TypeOK, NEW r \in Runs, Dispatch(r)
    PROVE  /\ run \in [Runs -> Run] /\ run' = [run EXCEPT ![r] = run'[r]]
           /\ run'[r].version = main.version /\ run'[r].registry = main.registry
           /\ run'[r].pc = "queued" /\ run'[r].reached = run[r].reached
           /\ run[r].pc = "undispatched" /\ active' = active
<1>1. /\ run \in [Runs -> Run] /\ run[r] \in Run
    BY DEF TypeOK
<1>2. /\ run' = [run EXCEPT ![r] = run'[r]]
      /\ run'[r] = [run[r] EXCEPT !.pc = "queued", !.version = main.version,
                                    !.commit = main.commit, !.registry = main.registry]
      /\ run[r].pc = "undispatched" /\ active' = active
    BY <1>1 DEF Dispatch
<1>3. /\ run'[r].version = main.version /\ run'[r].registry = main.registry
      /\ run'[r].pc = "queued" /\ run'[r].reached = run[r].reached
    BY <1>1, <1>2 DEF Run
<1>4. QED BY <1>1, <1>2, <1>3

\* No version gets ahead of main's, whatever is dispatched, released or recorded.
LEMMA GrowStep == IInv /\ GrowInv /\ [Next]_vars => GrowInv'
<1> SUFFICES ASSUME IInv, TypeOK, GrowInv, [Next]_vars PROVE GrowInv'
    BY DEF IInv
<1>1. /\ main.version \in Nat /\ \A r \in Runs : run[r].version \in Nat
      /\ \A i \in Existing : releases[i].version \in Nat
      /\ releases \in [ReleaseIds -> Release \cup {None}]
    BY PublicationConstants DEF TypeOK, Versions, Run, Release, Existing
<1>2. ASSUME NEW r \in Runs, RunStep(r) PROVE GrowInv'
    <2>1. Moves(r)
        BY <1>2, JobMoves
    <2>2. \A i \in Existing' : \/ releases'[i].version = run[r].version
                               \/ i \in Existing /\ releases'[i].version = releases[i].version
        BY <1>2, JobReleases
    <2>3. \A q \in Runs : run'[q].version = run[q].version /\ run'[q].registry = run[q].registry
        BY <2>1 DEF Moves
    <2>4. QED BY <2>1, <2>2, <2>3 DEF Moves, GrowInv, Listed, Retired
<1>3. ASSUME NEW r \in Runs, Preflight(r) \/ Fail(r) \/ \E job \in 1 .. 4 : Rerun(r, job)
      PROVE  GrowInv'
    <2>1. Moves(r) /\ releases' = releases
        BY <1>3, JobMoves, StartKeeps
    <2>2. \A q \in Runs : run'[q].version = run[q].version /\ run'[q].registry = run[q].registry
        BY <2>1 DEF Moves
    <2>3. QED BY <2>1, <2>2 DEF Moves, GrowInv, Existing, Listed, Retired
<1>4. ASSUME NEW r \in Runs, Dispatch(r) PROVE GrowInv'
    <2>1. UNCHANGED <<main, releases>>
        BY <1>4, StartKeeps
    <2>2. \A q \in Runs : \/ run'[q] = run[q]
                          \/ run'[q].version = main.version /\ run'[q].registry = main.registry
        BY <1>4, DispatchMoves
    <2>3. QED BY <1>1, <2>1, <2>2 DEF GrowInv, Existing, Listed, Retired
<1>5. CASE Landing
    <2>1. Landed
        BY <1>5, LandingLands
    <2>2. main'.version >= main.version /\ main'.version \in Nat
        <3>1. TypeOK'
            BY <1>5, LandingStep DEF IInv
        <3>2. QED BY <2>1, <3>1, PublicationConstants DEF Landed, TypeOK, Versions
    <2>3. \A v \in Listed(main'.registry) : v <= main.version /\ v \in Nat
        BY <1>1, <2>1, PublicationConstants DEF Landed, GrowInv, Public, Listed, Retired, Versions
    <2>4. QED BY <1>1, <2>1, <2>2, <2>3 DEF GrowInv, Landed, Existing, Listed, Retired
<1>6. CASE Manual
    BY <1>6, ManualKeeps DEF GrowInv, Listed, Retired
<1>7. CASE UNCHANGED vars
    BY <1>7 DEF vars, GrowInv, Existing, Listed, Retired
<1>8. QED BY <1>2, <1>3, <1>4, <1>5, <1>6, <1>7 DEF Next

\* Only a deployment changes what is live, and only pages-build what is recorded.
LEMMA JobServes ==
    ASSUME TypeOK, NEW r \in Runs,
           RunStep(r) \/ Preflight(r) \/ Fail(r) \/ \E job \in 1 .. 4 : Rerun(r, job)
    PROVE  /\ Deploy(r) \/ live' = live
           /\ released \subseteq released'
           /\ \/ run'[r].reached < 3
              \/ run[r].reached >= 3 /\ run'[r].record = run[r].record
              \/ Deploy(r) /\ run'[r].record = run[r].record
              \/ /\ BuildPages(r) /\ ComposePasses(run[r].registry, None)
                 /\ run'[r].record = Compose(run[r].registry, None)
<1>1. /\ run \in [Runs -> Run] /\ run[r] \in Run /\ run[r].reached \in 0 .. 4 /\ main' = main
    BY JobMoves DEF TypeOK, Run, Moves
<1>2. Deploy(r) \/ live' = live
    BY DEF RunStep, Publish, Pages, Classify, CheckRoom, Resnapshot, Uploaded, Readback,
           CheckDraft, StillServed, StillLive, CheckDeploy, Gate, TakeSnapshot, ComposeRoom,
           ReadState, CreateDraft, UpdateDraft, Upload, Undraft, ConfirmPublished, BuildPages,
           VerifyLive, Preflight, Fail, Rerun
<1>3. released \subseteq released'
    <2>1. CASE Undraft(r)
        <3>1. released' = released \/ \E i, rel : MakePublic(i, rel)
            BY <2>1 DEF Undraft
        <3>2. QED BY <3>1 DEF MakePublic
    <2>2. QED BY <2>1 DEF RunStep, Publish, Pages, Classify, CheckRoom, Resnapshot, Uploaded, Readback,
           CheckDraft, StillServed, StillLive, CheckDeploy, Gate, TakeSnapshot, ComposeRoom,
           ReadState, CreateDraft, UpdateDraft, Upload, ConfirmPublished, BuildPages,
           VerifyLive, Deploy, Preflight, Fail, Rerun, history
<1>4. CASE (\E next : Goto(r, next) /\ active = r) \/ \E how : End(r, how)
    <2>1. CASE active \in {r, None}
        BY <1>1, <1>2, <1>3, <1>4, <2>1, GoesOrEnds
    <2>2. active \in {r, None}
        BY DEF RunStep, Publish, Pages, Classify, CheckRoom, Resnapshot, Uploaded, Readback,
           CheckDraft, StillServed, StillLive, CheckDeploy, Gate, TakeSnapshot, ComposeRoom,
           ReadState, CreateDraft, UpdateDraft, Upload, Undraft, ConfirmPublished, BuildPages,
           Deploy, VerifyLive, Preflight, Fail, Rerun, At
    <2>3. QED BY <2>1, <2>2
<1>5. CASE run'[r].reached = run[r].reached /\ run'[r].record = run[r].record
    BY <1>1, <1>2, <1>3, <1>5
<1>6. CASE \/ Classify(r) \/ CheckRoom(r) \/ Resnapshot(r) \/ Uploaded(r) \/ Readback(r)
           \/ CheckDraft(r) \/ StillServed(r) \/ StillLive(r) \/ CheckDeploy(r) \/ VerifyLive(r)
           \/ UpdateDraft(r) \/ Undraft(r) \/ Fail(r)
    BY <1>4, <1>6 DEF Classify, CheckRoom, Resnapshot, Uploaded, Readback, CheckDraft, StillServed,
           StillLive, CheckDeploy, Gate, VerifyLive, UpdateDraft, Undraft, Fail, Effective, Refuse, At
<1> USE DEF Refuse, At, Run
<1>7. CASE TakeSnapshot(r) \/ ComposeRoom(r) \/ ReadState(r) \/ CreateDraft(r) \/ Upload(r)
           \/ \E job \in 1 .. 4 : Rerun(r, job)
    <2>1. CASE TakeSnapshot(r)
        BY <1>1, <1>5, <2>1 DEF TakeSnapshot
    <2>2. CASE ComposeRoom(r)
        BY <1>1, <1>4, <1>5, <2>2 DEF ComposeRoom
    <2>3. CASE ReadState(r)
        BY <1>5, <2>3, ReadStateMoves
    <2>4. CASE CreateDraft(r) \/ Upload(r)
        <3>1. CASE Refuse(r)
            BY <1>4, <3>1
        <3>2. CASE run' = [run EXCEPT ![r].pc = "update", ![r].release = nextId, ![r].todo = Assets]
            BY <1>1, <1>5, <3>2
        <3>3. CASE \E a : run' = [run EXCEPT ![r].todo = @ \ {a}]
            BY <1>1, <1>5, <3>3
        <3>4. QED BY <2>4, <3>1, <3>2, <3>3 DEF CreateDraft, Upload
    <2>5. CASE \E job : run' = [run EXCEPT ![r].pc = JobStart[job]]
        BY <1>1, <1>5, <2>5
    <2>6. QED BY <1>7, <2>1, <2>2, <2>3, <2>4, <2>5 DEF Rerun
<1>8. CASE Preflight(r)
    <2>1. CASE run' = [run EXCEPT ![r].pc = "classify", ![r].reached = 1]
        BY <1>1, <1>2, <1>3, <2>1
    <2>2. QED BY <1>4, <1>8, <2>1 DEF Preflight
<1>9. CASE ConfirmPublished(r) /\ ~Refuse(r)
    <2>1. run'[r] = [run[r] EXCEPT !.pc = "build", !.served = None, !.room = None,
                                   !.release = None, !.reached = Reach(r, 2)]
        BY <1>1, <1>9 DEF ConfirmPublished
    <2>2. /\ run'[r].record = run[r].record /\ run'[r].reached = Reach(r, 2)
        <3> DEFINE x == [run[r] EXCEPT !.pc = "build", !.served = None, !.room = None, !.release = None]
        <3>1. x \in Run /\ x.record = run[r].record
            BY <1>1 DEF Run, Steps
        <3>2. run'[r] = [x EXCEPT !.reached = Reach(r, 2)]
            BY <2>1
        <3>3. Reach(r, 2) \in 0 .. 4
            BY <1>1, Reached
        <3> HIDE DEF x
        <3>4. QED BY <3>1, <3>2, <3>3, Counted
    <2>3. QED BY <1>1, <1>2, <1>3, <2>2 DEF Reach
<1>10. CASE BuildPages(r) /\ ~Refuse(r)
    <2> DEFINE site == Compose(run[r].registry, None)
               n == Reach(r, 3)
    <2>3. /\ run' = [run EXCEPT ![r] = [run[r] EXCEPT !.pc = "check", !.record = site, !.reached = n]]
          /\ ComposePasses(run[r].registry, None)
        BY <1>10 DEF BuildPages
    <2> HIDE DEF site, n
    <2>4. run'[r] = [run[r] EXCEPT !.pc = "check", !.record = site, !.reached = n]
        BY <1>1, <2>3
    <2>5. run'[r].record = site
        BY <1>1, <2>4
    <2>1. /\ run'[r].record = Compose(run[r].registry, None) /\ ComposePasses(run[r].registry, None)
        BY <2>3, <2>5 DEF site
    <2>2. QED BY <1>2, <1>3, <1>10, <2>1
<1>11. CASE Deploy(r) /\ ~Refuse(r)
    <2>1. run'[r].record = run[r].record
        BY <1>1, <1>11 DEF Deploy
    <2>2. QED BY <1>2, <1>3, <1>11, <2>1
<1>12. QED BY <1>4, <1>6, <1>7, <1>8, <1>9, <1>10, <1>11 DEF RunStep, Publish, Pages

\* Each listed version is in what compose_releases returns, or retired.
LEMMA ComposesListed ==
    ASSUME TypeOK, NEW registry, NEW pending, ComposePasses(registry, pending),
           NEW v \in Listed(registry)
    PROVE  v \in Retired(registry) \/ Compose(registry, pending)[v] # None
<1>1. SUFFICES ASSUME v \notin Retired(registry) PROVE Compose(registry, pending)[v] # None
    OBVIOUS
<1>2. v \in Versions
    BY DEF Listed, Retired
<1>3. PICK j \in Candidates(pending) : releases[j].version = v
    BY DEF ComposePasses
<1> DEFINE at == {i \in Candidates(pending) : releases[i].version = v}
           i == CHOOSE i \in at : TRUE
<1>4. i \in at
    BY <1>3
<1>5. Compose(registry, pending)[v] =
          [content |-> releases[i].assets[Sums], id |-> i, commit |-> tags[v]]
    BY <1>1, <1>2, <1>3 DEF Compose
<1> HIDE DEF i
<1>6. Settled(releases[i]) /\ \E c \in Runs : VerifiedAs(releases[i], c)
    BY <1>1, <1>4 DEF ComposePasses
<1>7. /\ releases[i].assets[Sums] \in Runs /\ i \in ReleaseIds /\ tags[v] \in Commits
    BY <1>4, <1>6, PublicationConstants DEF VerifiedAs, TypeOK, Run, Candidates, Public, Existing
<1>8. Compose(registry, pending)[v] \in Composed
    BY <1>5, <1>7 DEF Composed
<1>9. QED BY <1>8, PublicationConstants DEF Composed

\* What a deployment puts in place was composed from releases, and a registry stays complete.
LEMMA ServedStep == IInv /\ ServedInv /\ [Next]_vars => ServedInv'
<1> SUFFICES ASSUME IInv, TypeOK, ServedInv, [Next]_vars PROVE ServedInv'
    BY DEF IInv
<1>1. ASSUME NEW r \in Runs, RunStep(r) \/ Preflight(r) \/ Fail(r) \/ \E job \in 1 .. 4 : Rerun(r, job)
      PROVE  ServedInv'
    <2>1. Moves(r)
        BY <1>1, JobMoves
    <2>2. \A q \in Runs \ {r} : run'[q] = run[q]
        BY <2>1 DEF Moves
    <2>3. Complete3(run[r])'
        <3>0. run'[r].reached \in 0 .. 4
            <4>1. IInv'
                BY StepInv
            <4>2. QED BY <4>1 DEF IInv, TypeOK, Run
        <3>1. CASE run'[r].reached < 3
            BY <3>0, <3>1 DEF Complete3
        <3>2. CASE /\ run'[r].record = run[r].record
                   /\ run[r].reached >= 3
            BY <2>1, <3>2 DEF ServedInv, Complete3, Moves, Listed, Retired
        <3>3. CASE Deploy(r) /\ run'[r].record = run[r].record
            <4>1. run[r].reached >= 3
                BY <3>3 DEF Deploy, At, IInv, RecordInv
            <4>2. QED BY <3>2, <3>3, <4>1
        <3>4. CASE /\ ComposePasses(run[r].registry, None)
                   /\ run'[r].record = Compose(run[r].registry, None)
            <4>1. \A v \in Listed(run[r].registry) :
                      v \in Retired(run[r].registry) \/ Compose(run[r].registry, None)[v] # None
                BY <3>4, ComposesListed
            <4>2. QED BY <2>1, <3>4, <4>1 DEF Complete3, Moves, Listed, Retired
        <3>5. QED BY <1>1, <3>1, <3>2, <3>3, <3>4, JobServes
    <2>4. ASSUME NEW v \in Versions, live'[v] # None PROVE <<v, live'[v]>> \in released'
        <3>1. CASE live' = live
            BY <1>1, <2>4, <3>1, JobServes DEF ServedInv
        <3>2. CASE Deploy(r)
            <4>1. /\ run[r].reached >= 3 /\ LiveSums(run[r].record, run[r].version)
                  /\ <<run[r].version, run[r].record[run[r].version].content>> \in released
                BY <3>2 DEF Deploy, At, IInv, RecordInv, Recorded3, DeployInv
            <4>2. /\ live' = [w \in Versions |-> IF run[r].record[w] = None THEN None
                                                 ELSE run[r].record[w].content]
                  /\ released' = released
                BY <3>2 DEF Deploy, history
            <4>3. live'[v] = run[r].record[v].content /\ v \in Serves(run[r].record)
                BY <2>4, <4>2 DEF Serves
            <4>4. CASE v = run[r].version
                BY <4>1, <4>2, <4>3, <4>4
            <4>5. CASE v # run[r].version
                <5>1. live[v] = live'[v]
                    BY <4>1, <4>3, <4>5 DEF LiveSums
                <5>2. QED BY <2>4, <4>2, <5>1 DEF ServedInv
            <4>6. QED BY <4>4, <4>5
        <3>3. QED BY <1>1, <3>1, <3>2, JobServes
    <2>5. ASSUME NEW q \in Runs PROVE Complete3(run[q])'
        BY <2>2, <2>3 DEF ServedInv, Complete3, Listed, Retired
    <2>6. QED BY <2>4, <2>5 DEF ServedInv
<1>2. ASSUME NEW r \in Runs, Dispatch(r) PROVE ServedInv'
    <2>1. UNCHANGED <<live, released>>
        BY <1>2, StartKeeps
    <2>2. /\ run' = [run EXCEPT ![r] = run'[r]] /\ run \in [Runs -> Run]
          /\ run'[r].reached = run[r].reached /\ run[r].pc = "undispatched"
        BY <1>2, DispatchMoves
    <2>3. run'[r].reached = 0
        BY <2>2 DEF IInv, RecordInv
    <2>4. ASSUME NEW q \in Runs PROVE Complete3(run[q])'
        BY <2>2, <2>3 DEF ServedInv, Complete3, Listed, Retired
    <2>5. QED BY <2>1, <2>4 DEF ServedInv
<1>3. CASE Landing
    BY <1>3, LandingLands DEF Landed, ServedInv, Complete3, Listed, Retired
<1>4. CASE Manual
    BY <1>4, ManualKeeps DEF ServedInv, Complete3, Listed, Retired
<1>5. CASE UNCHANGED vars
    BY <1>5 DEF vars, ServedInv, Complete3, Listed, Retired
<1>6. QED BY <1>1, <1>2, <1>3, <1>4, <1>5 DEF Next

-----------------------------------------------------------------------------
\* Public releases stay as they are, or go.
PublicKept ==
    \A i \in Public' :
        /\ i \in Public /\ releases'[i].version = releases[i].version
        /\ releases'[i].assets[Sums] = releases[i].assets[Sums]

\* Each run has the registry it had, or is dispatched with main's.
RegistriesKept ==
    \A q \in Runs : run'[q].registry = run[q].registry \/ run'[q].registry = main.registry

\* What main retires it goes on to retire, at least while it is public.
RetirementsKept ==
    \A i \in Public :
        releases[i].version \in Retired(main.registry) =>
            releases[i].version \in Retired(main'.registry)

\* No version that was shown gets a draft.
NoneRedrafted ==
    /\ \A i \in Existing' : releases'[i].draft => releases'[i].version \notin Shown
    /\ \A q \in Runs : At(q, "create")' => run'[q].version \notin Shown

\* A step that shows no other version.
LEMMA ShownKept ==
    ASSUME ShownInv, PublicKept, RegistriesKept, NoneRedrafted,
           \A v \in Versions : tags[v] # None => tags'[v] # None,
           \A i \in Public : releases[i].version \in Versions,
           \A v \in Listed(main'.registry) : v \in Shown
    PROVE  ShownInv'
<1>1. \A v \in Shown : v \in Versions
    BY DEF Shown, Listed, Retired
<1>2. ASSUME NEW v \in Shown' PROVE v \in Shown
    <2>1. CASE v \in {releases'[i].version : i \in Public'}
        BY <2>1 DEF PublicKept, Shown
    <2>2. CASE v \in Listed(main'.registry)
        BY <2>2
    <2>3. CASE v \in Versions /\ \E r \in Runs : v \in Listed(run'[r].registry)
        BY <2>3 DEF RegistriesKept, Shown
    <2>4. QED BY <1>2, <2>1, <2>2, <2>3 DEF Shown, Listed, Retired
<1>3. QED BY <1>1, <1>2 DEF ShownInv, NoneRedrafted

\* A step that neither deploys nor makes a release public.
LEMMA LateKept ==
    ASSUME LateInv, PublicKept, RegistriesKept, RetirementsKept, NoneRedrafted, live' = live,
           \A v \in Versions : tags[v] # None => tags'[v] # None,
           \A i \in Public : releases[i].version \in Versions,
           \A v \in Listed(main'.registry) : v \in Shown,
           ReliedInv'
    PROVE  LateInv'
<1>1. ShownInv'
    BY ShownKept DEF LateInv
<1>2. RetiredInv'
    BY DEF LateInv, RetiredInv, PublicKept, RegistriesKept, RetirementsKept, Retired
<1>3. FilledInv'
    BY DEF LateInv, FilledInv, PublicKept
<1>4. OneBehind'
    <2>1. ASSUME NEW i \in Behind' PROVE i \in Behind
        <3>1. /\ i \in Public' /\ releases'[i].version \notin Retired(main'.registry)
              /\ live'[releases'[i].version] # releases'[i].assets[Sums]
            BY <2>1 DEF Behind, Servable, Retired
        <3>2. QED BY <3>1 DEF Behind, Servable, PublicKept, RetirementsKept
    <2>2. QED BY <2>1 DEF LateInv, OneBehind
<1>5. QED BY <1>1, <1>2, <1>3, <1>4 DEF LateInv

\* Only the run in progress relies on anything.
LEMMA ReliedThen ==
    ASSUME NEW r \in Runs, Moves(r), active' = r => Relied(run[r])'
    PROVE  ReliedInv'
<1>1. None \notin Runs
    BY PublicationConstants
<1>2. QED BY <1>1 DEF Moves, ReliedInv

\* At the other steps it relies on nothing.
LEMMA ReliedFree ==
    ASSUME NEW r \in Runs, run'[r].pc \notin RoomSteps \cup {"deploy"}
    PROVE  Relied(run[r])'
BY DEF Relied, DraftRelied, RoomRelied, DeployRelied, RoomSteps, DraftSteps

\* A gate that passes: the run goes on relying on what it did.
LEMMA ReliedGate ==
    ASSUME NEW r \in Runs, Relied(run[r]), UNCHANGED <<releases, live, released>>,
           run'[r].version = run[r].version, run'[r].registry = run[r].registry,
           run'[r].room = run[r].room, run'[r].release = run[r].release,
           run[r].pc \in RoomSteps, run'[r].pc \in RoomSteps,
           run'[r].pc \in DraftSteps => run[r].pc \in DraftSteps,
           run'[r].pc \in {"draft", "served", "sums", "undraft"} =>
               \/ run[r].pc \in {"draft", "served", "sums", "undraft"}
               \/ releases[run[r].release].assets[Sums] # None,
           run'[r].pc = "undraft" => LiveSums(run[r].room, None)
    PROVE  Relied(run[r])'
<1>1. DraftRelied(run[r])'
    BY DEF Relied, DraftRelied, Existing
<1>2. RoomRelied(run[r])'
    BY DEF Relied, RoomRelied, Public, Existing, Has, Retired
<1>3. DeployRelied(run[r])'
    BY DEF DeployRelied, RoomSteps, DraftSteps
<1>4. run'[r].pc = "undraft" => LiveSums(run[r].room, None)'
    BY DEF LiveSums, Serves
<1>5. QED BY <1>1, <1>2, <1>3, <1>4 DEF Relied

\* Beside a step of its own the run in progress goes on relying on what it did.
LEMMA ReliedBeside ==
    ASSUME ReliedInv, Kept, UNCHANGED <<run, active, live, released>>
    PROVE  ReliedInv'
<1>1. PublicKept
    BY DEF PublicKept, Kept, Public
<1>2. ASSUME NEW r \in Runs, active' = r PROVE Relied(run[r])'
    <2>1. Relied(run[r])
        BY <1>2 DEF ReliedInv
    <2>2. DraftRelied(run[r])'
        BY <2>1 DEF Relied, DraftRelied, Kept
    <2>3. RoomRelied(run[r])'
        BY <1>1, <2>1 DEF Relied, RoomRelied, PublicKept, Has, Retired
    <2>4. DeployRelied(run[r])'
        BY <1>1, <2>1 DEF Relied, DeployRelied, PublicKept, Has, Retired, Listed
    <2>5. run'[r].pc = "undraft" => LiveSums(run[r].room, None)'
        BY <2>1 DEF Relied, LiveSums
    <2>6. QED BY <2>2, <2>3, <2>4, <2>5 DEF Relied
<1>3. QED BY <1>2 DEF ReliedInv

\* While tags are kept and drafts left alone.
Calm == IInv /\ IssueInv /\ GrowInv /\ ServedInv /\ LateInv /\ ~tampered

\* What the lemmas below need of it again and again.
LEMMA CalmFacts ==
    ASSUME Calm
    PROVE  /\ TypeOK /\ releases \in [ReleaseIds -> Release \cup {None}] /\ run \in [Runs -> Run]
           /\ \A i \in Existing : /\ i \in ReleaseIds /\ releases[i] \in Release
                                  /\ releases[i].version \in Versions
           /\ \A v \in Listed(main.registry) : v \in Shown
           /\ \A i \in Public : i \in Existing /\ releases[i].version \in Shown
           /\ \A q \in Runs : \A v \in Listed(run[q].registry) : v \in Shown
           /\ \A v \in Shown : v \in Versions /\ tags[v] # None
<1>1. /\ TypeOK /\ releases \in [ReleaseIds -> Release \cup {None}] /\ run \in [Runs -> Run]
    BY DEF Calm, IInv, TypeOK
<1>2. \A i \in Existing : i \in ReleaseIds /\ releases[i] \in Release /\ releases[i].version \in Versions
    BY <1>1 DEF Existing, Release
<1>3. \A i \in Public : i \in Existing /\ releases[i].version \in Shown
    BY DEF Public, Shown
<1>4. \A q \in Runs : \A v \in Listed(run[q].registry) : v \in Shown
    BY DEF Shown, Listed, Retired
<1>5. \A v \in Shown : v \in Versions
    BY <1>2 DEF Shown, Public, Listed, Retired
<1>6. \A v \in Shown : tags[v] # None
    BY DEF Calm, LateInv, ShownInv
<1>7. QED BY <1>1, <1>2, <1>3, <1>4, <1>5, <1>6 DEF Shown

\* A step that leaves releases, tags and the site alone.
LEMMA LateQuiet ==
    ASSUME Calm, UNCHANGED <<main, releases, tags, live>>, RegistriesKept, ReliedInv',
           \A q \in Runs : At(q, "create")' => run'[q].version \notin Shown
    PROVE  LateInv'
<1>1. PublicKept /\ \A i \in Existing' : i \in Existing /\ releases'[i] = releases[i]
    BY DEF PublicKept, Public, Existing
<1>2. NoneRedrafted
    BY <1>1 DEF NoneRedrafted, Calm, LateInv, ShownInv
<1>3. RetirementsKept
    BY DEF RetirementsKept
<1>4. LateInv /\ (\A i \in Public : releases[i].version \in Versions)
      /\ (\A v \in Listed(main'.registry) : v \in Shown)
    BY CalmFacts DEF Calm
<1>5. QED BY <1>1, <1>2, <1>3, <1>4, LateKept

\* The same of a run's own step.
LEMMA LateJob ==
    ASSUME Calm, NEW r \in Runs, Moves(r), UNCHANGED <<releases, tags, live>>,
           active' = r => Relied(run[r])', run'[r].pc = "create" => run[r].version \notin Shown
    PROVE  LateInv'
<1>1. ReliedInv'
    BY ReliedThen
<1>2. RegistriesKept /\ \A q \in Runs \ {r} : run'[q] = run[q]
    BY DEF RegistriesKept, Moves
<1>3. ASSUME NEW q \in Runs, At(q, "create")' PROVE run'[q].version \notin Shown
    <2>1. q = r
        BY <1>3, PublicationConstants DEF At, Moves
    <2>2. QED BY <1>3, <2>1 DEF At, Moves
<1>4. QED BY <1>1, <1>2, <1>3, LateQuiet DEF Moves

\* compose_releases returns each public release of another version that it does not retire,
\* with its bytes: there is only one release of a version.
LEMMA ComposesEach ==
    ASSUME Calm, NEW registry, NEW pending, ComposePasses(registry, pending),
           NEW i \in Candidates(pending)
    PROVE  releases[i].version \in Retired(registry) \/ Has(Compose(registry, pending), i)
<1> SUFFICES ASSUME releases[i].version \notin Retired(registry)
             PROVE  Has(Compose(registry, pending), i)
    OBVIOUS
<1> DEFINE v == releases[i].version
           at == {k \in Candidates(pending) : releases[k].version = v}
           j == CHOOSE k \in at : TRUE
<1>1. i \in Existing /\ v \in Versions /\ at \subseteq Existing /\ i \in at
    BY CalmFacts DEF Candidates, Public
<1>2. j \in at
    BY <1>1
<1>3. j = i
    BY <1>1, <1>2 DEF Calm, IssueInv, OneEach
<1>4. Compose(registry, pending)[v] =
          [content |-> releases[j].assets[Sums], id |-> j, commit |-> tags[v]]
    BY <1>1 DEF Compose
<1> HIDE DEF j
<1>5. \E c \in Runs : VerifiedAs(releases[i], c)
    BY DEF ComposePasses
<1>6. /\ releases[i].assets[Sums] \in Runs /\ i \in ReleaseIds /\ tags[v] \in Commits
    BY <1>1, <1>5, CalmFacts, PublicationConstants DEF VerifiedAs, Run
<1>7. Compose(registry, pending)[v] \in Composed
    BY <1>3, <1>4, <1>6 DEF Composed
<1>8. Compose(registry, pending)[v] # None
    BY <1>7, PublicationConstants DEF Composed
<1>9. QED BY <1>3, <1>4, <1>8 DEF Has

-----------------------------------------------------------------------------
\* The gates.
LEMMA LateGate ==
    ASSUME Calm, NEW r \in Runs,
           \/ Classify(r) \/ CheckRoom(r) \/ Resnapshot(r) \/ Uploaded(r) \/ Readback(r)
           \/ CheckDraft(r) \/ StillServed(r) \/ StillLive(r)
    PROVE  LateInv'
<1>1. Moves(r) /\ UNCHANGED <<releases, tags, live, released>> /\ TypeOK
    <2>1. RunStep(r)
        BY DEF RunStep, Publish
    <2>2. QED BY <2>1, CalmFacts, JobMoves DEF Classify, CheckRoom, Resnapshot, Uploaded, Readback,
              CheckDraft, StillServed, StillLive, Gate, github, history
<1>2. CASE Refuse(r)
    <2>1. active' # r /\ run'[r].pc # "create"
        BY <1>1, <1>2, PublicationConstants DEF Refuse, End, Moves
    <2>2. QED BY <1>1, <2>1, LateJob
<1>3. ASSUME NEW step, NEW next, At(r, step), Goto(r, next)
      PROVE  /\ run[r].pc = step /\ run'[r].pc = next /\ active = r
             /\ run'[r].version = run[r].version /\ run'[r].registry = run[r].registry
             /\ run'[r].room = run[r].room /\ run'[r].release = run[r].release
    <2>1. run'[r] = [run[r] EXCEPT !.pc = next]
        BY <1>1, <1>3 DEF Goto, Moves
    <2>2. QED BY <1>1, <1>3, <2>1 DEF Moves, Run, At
<1>4. CASE At(r, "classify") /\ Goto(r, "snapshot")
    <2>1. run'[r].pc = "snapshot"
        BY <1>3, <1>4
    <2>2. QED BY <1>1, <2>1, ReliedFree, LateJob DEF RoomSteps, DraftSteps
<1>5. ASSUME NEW step \in RoomSteps, NEW next \in RoomSteps, At(r, step), Goto(r, next),
             next # "create", next \in DraftSteps => step \in DraftSteps,
             next \in {"draft", "served", "sums", "undraft"} =>
                 \/ step \in {"draft", "served", "sums", "undraft"}
                 \/ releases[run[r].release].assets[Sums] # None,
             next = "undraft" => LiveSums(run[r].room, None)
      PROVE  LateInv'
    <2>1. /\ run[r].pc = step /\ run'[r].pc = next /\ active = r
          /\ run'[r].version = run[r].version /\ run'[r].registry = run[r].registry
          /\ run'[r].room = run[r].room /\ run'[r].release = run[r].release
        BY <1>3, <1>5
    <2>2. Relied(run[r])
        BY <2>1 DEF Calm, LateInv, ReliedInv
    <2>3. Relied(run[r])'
        BY <1>1, <1>5, <2>1, <2>2, ReliedGate
    <2>4. QED BY <1>1, <1>5, <2>1, <2>3, LateJob
<1>6. \/ Refuse(r)
      \/ At(r, "classify") /\ Goto(r, "snapshot")
      \/ At(r, "room") /\ Goto(r, "resnapshot")
      \/ At(r, "resnapshot") /\ Goto(r, "state")
      \/ At(r, "upload") /\ Goto(r, "readback")
      \/ At(r, "readback") /\ Goto(r, "draft") /\ Carries(run[r].release, r)
      \/ At(r, "draft") /\ Goto(r, "served")
      \/ At(r, "served") /\ Goto(r, "sums")
      \/ At(r, "sums") /\ Goto(r, "undraft") /\ LiveSums(run[r].room, None)
    BY DEF Classify, CheckRoom, Resnapshot, Uploaded, Readback, CheckDraft, StillServed, StillLive,
           Gate
<1>7. Carries(run[r].release, r) => releases[run[r].release].assets[Sums] # None
    BY PublicationConstants DEF Carries
<1>8. QED BY <1>2, <1>4, <1>5, <1>6, <1>7 DEF RoomSteps, DraftSteps

\* Starting a job, ending it, and the jobs that follow publication.
LEMMA LateStart ==
    ASSUME Calm, NEW r \in Runs,
           \/ Preflight(r) \/ Fail(r) \/ (\E job \in 1 .. 4 : Rerun(r, job))
           \/ TakeSnapshot(r) \/ ConfirmPublished(r) \/ BuildPages(r) \/ VerifyLive(r)
    PROVE  LateInv'
<1>1. Moves(r) /\ UNCHANGED <<releases, tags, live>>
    BY CalmFacts, JobMoves DEF RunStep, Publish, Pages, Preflight, Fail, Rerun, TakeSnapshot,
        ConfirmPublished, BuildPages, VerifyLive, github
<1>2. /\ active' = r => run'[r].pc \notin RoomSteps \cup {"deploy"}
      /\ run'[r].pc # "create"
    <2>1. CASE \E how \in {"stopped", "succeeded"} : End(r, how)
        BY <1>1, <2>1, PublicationConstants DEF End, Moves
    <2>3. CASE Preflight(r) /\ ~Refuse(r)
        <3>1. run'[r].pc = "classify"
            BY <1>1, <2>3 DEF Preflight, Moves, Run
        <3>2. QED BY <3>1 DEF RoomSteps, DraftSteps
    <2>4. CASE \E job \in 1 .. 4 : Rerun(r, job)
        <3>1. PICK job \in 1 .. 4 : run' = [run EXCEPT ![r].pc = JobStart[job]]
            BY <2>4 DEF Rerun
        <3>2. run'[r].pc = JobStart[job] /\ JobStart[job] \in {"classify", "build", "check", "verify"}
            BY <1>1, <3>1 DEF Moves, Run, JobStart
        <3>3. QED BY <3>2 DEF RoomSteps, DraftSteps
    <2>5. CASE TakeSnapshot(r)
        <3>1. run'[r].pc = "compose"
            BY <1>1, <2>5 DEF TakeSnapshot, Moves, Run
        <3>2. QED BY <3>1 DEF RoomSteps, DraftSteps
    <2>6. CASE ConfirmPublished(r) /\ ~Refuse(r)
        <3>1. run' = [run EXCEPT ![r] = [@ EXCEPT !.pc = "build", !.served = None, !.room = None,
                                            !.release = None, !.reached = Reach(r, 2)]]
            BY <2>6 DEF ConfirmPublished
        <3>2. /\ run[r] \in Run
              /\ run'[r] = [run[r] EXCEPT !.pc = "build", !.served = None, !.room = None,
                                          !.release = None, !.reached = Reach(r, 2)]
            BY <1>1, <3>1 DEF Moves
        <3>3. run'[r].pc = "build"
            BY <3>2 DEF Run
        <3>4. QED BY <3>3 DEF RoomSteps, DraftSteps
    <2>7. CASE BuildPages(r) /\ ~Refuse(r)
        <3>1. run'[r].pc = "check"
            <4> DEFINE site == Compose(run[r].registry, None)
            <4>1. run' = [run EXCEPT ![r] = [@ EXCEPT !.pc = "check", !.record = site,
                                                  !.reached = Reach(r, 3)]]
                BY <2>7 DEF BuildPages
            <4> HIDE DEF site
            <4>2. run[r] \in Run
                BY <1>1 DEF Moves
            <4>3. run'[r] = [run[r] EXCEPT !.pc = "check", !.record = site, !.reached = Reach(r, 3)]
                BY <1>1, <4>1 DEF Moves
            <4>4. QED BY <4>2, <4>3 DEF Run
        <3>2. QED BY <3>1 DEF RoomSteps, DraftSteps
    <2>8. QED BY <2>1, <2>3, <2>4, <2>5, <2>6, <2>7 DEF Refuse, Fail, VerifyLive
<1>3. QED BY <1>1, <1>2, ReliedFree, LateJob

\* The room that a run checks is that of the other versions which are public.
LEMMA LateRoom ==
    ASSUME Calm, NEW r \in Runs, ComposeRoom(r)
    PROVE  LateInv'
<1>1. Moves(r) /\ UNCHANGED <<releases, tags, live>> /\ active = r
    BY CalmFacts, JobMoves DEF RunStep, Publish, ComposeRoom, github, At
<1>2. CASE Refuse(r)
    <2>1. active' # r /\ run'[r].pc # "create"
        BY <1>1, <1>2, PublicationConstants DEF Refuse, End, Moves
    <2>2. QED BY <1>1, <2>1, LateJob
<1>3. CASE ~Refuse(r)
    <2> DEFINE site == Compose(run[r].registry, run[r].version)
    <2>1. /\ ComposePasses(run[r].registry, run[r].version)
          /\ run' = [run EXCEPT ![r].pc = "room", ![r].room = site]
        BY <1>3 DEF ComposeRoom
    <2>2. \A i \in Public : \/ releases[i].version \in Retired(run[r].registry) \cup {run[r].version}
                            \/ Has(site, i)
        <3>1. ASSUME NEW i \in Public, releases[i].version # run[r].version
              PROVE  releases[i].version \in Retired(run[r].registry) \/ Has(site, i)
            <4>1. i \in Candidates(run[r].version)
                BY <3>1 DEF Candidates
            <4>2. QED BY <2>1, <4>1, ComposesEach
        <3>2. QED BY <3>1
    <2> HIDE DEF site
    <2>3. run'[r].pc = "room" /\ run'[r].room = site
        BY <1>1, <2>1 DEF Moves, Run
    <2>4. RoomRelied(run[r])'
        BY <1>1, <2>2, <2>3 DEF RoomRelied, Public, Existing, Has, Moves, Retired
    <2>5. Relied(run[r])'
        BY <2>3, <2>4 DEF Relied, DraftRelied, DeployRelied, DraftSteps
    <2>6. QED BY <1>1, <2>3, <2>5, LateJob
<1>4. QED BY <1>2, <1>3

\* What publish_state finds is a draft, or of a version that nobody has seen.
LEMMA LateReadState ==
    ASSUME Calm, NEW r \in Runs, ReadState(r)
    PROVE  LateInv'
<1>1. Moves(r) /\ UNCHANGED <<releases, tags, live, released>> /\ active = r /\ run[r].pc = "state"
    BY CalmFacts, JobMoves DEF RunStep, Publish, ReadState, github, history, At
<1>2. CASE active' # r
    <2>1. run'[r].pc # "create"
        <3>1. Refuse(r)
            BY <1>1, <1>2 DEF ReadState, Goto
        <3>2. QED BY <1>1, <3>1 DEF Refuse, End, Moves
    <2>2. QED BY <1>1, <1>2, <2>1, LateJob
<1>3. CASE active' = r
    <2>1. /\ run'[r].room = run[r].room
          /\ \/ run'[r].pc = "create" /\ Fresh(r)
             \/ run'[r].pc = "update" /\ \E i \in Existing : run'[r].release = i /\ DraftResume(r, i)
             \/ run'[r].pc = "final"
        BY <1>3, CalmFacts, ReadStateMoves
    <2>2. RoomRelied(run[r])'
        <3>1. \A i \in Public : \/ releases[i].version \in Retired(run[r].registry) \cup {run[r].version}
                                \/ Has(run[r].room, i)
            BY <1>1 DEF Calm, LateInv, ReliedInv, Relied, RoomRelied, RoomSteps
        <3>2. QED BY <1>1, <2>1, <3>1 DEF RoomRelied, Public, Existing, Has, Moves, Retired
    <2>3. CASE run'[r].pc = "create" /\ Fresh(r)
        <3>1. run[r].version \notin Shown
            BY <2>3, CalmFacts DEF Fresh
        <3>2. Relied(run[r])'
            BY <2>2, <2>3 DEF Relied, DraftRelied, DeployRelied, DraftSteps
        <3>3. QED BY <1>1, <3>1, <3>2, LateJob
    <2>4. CASE run'[r].pc = "update" /\ \E i \in Existing : run'[r].release = i /\ DraftResume(r, i)
        <3>1. releases'[run'[r].release].draft
            BY <1>1, <2>4 DEF DraftResume
        <3>2. Relied(run[r])'
            BY <2>2, <2>4, <3>1 DEF Relied, DraftRelied, DeployRelied
        <3>3. QED BY <1>1, <2>4, <3>2, LateJob
    <2>5. CASE run'[r].pc = "final"
        BY <1>1, <2>5, ReliedFree, LateJob DEF RoomSteps, DraftSteps
    <2>6. QED BY <2>1, <2>3, <2>4, <2>5
<1>4. QED BY <1>2, <1>3

\* check_deploy sees everything that was released: by its tag, as the registry has it.
LEMMA LateCheckDeploy ==
    ASSUME Calm, NEW r \in Runs, CheckDeploy(r)
    PROVE  LateInv'
<1>1. Moves(r) /\ UNCHANGED <<releases, tags, live, released>> /\ active = r
    BY CalmFacts, JobMoves DEF RunStep, Pages, CheckDeploy, Gate, github, history, At
<1>2. CASE Refuse(r)
    <2>1. active' # r /\ run'[r].pc # "create"
        BY <1>1, <1>2, PublicationConstants DEF Refuse, End, Moves
    <2>2. QED BY <1>1, <2>1, LateJob
<1>3. CASE ~Refuse(r)
    <2> DEFINE version == run[r].version
               registry == run[r].registry
               record == run[r].record
               public == {releases[i].version : i \in Public}
    <2>1. /\ public \ Retired(registry) = Serves(record)
          /\ \A i \in Public : releases[i].version \notin Retired(registry) =>
                 releases[i].assets[Sums] = record[releases[i].version].content
          /\ Recorded(registry, version)
          /\ Goto(r, "deploy")
        BY <1>3 DEF CheckDeploy, Gate
    <2>2. /\ run'[r].pc = "deploy" /\ run'[r].record = record
          /\ version \in Nat /\ version \in Versions
        BY <1>1, <2>1, PublicationConstants DEF Goto, Moves, Run, Versions
    <2>3. ASSUME NEW v \in Versions, NEW c \in Runs, <<v, c>> \in released
          PROVE  v = version \/ v \in Listed(registry)
        <3>1. tags[v] # None
            BY <2>3 DEF Calm, IssueInv, Spent
        <3>2. QED BY <2>1, <3>1 DEF Recorded
    <2>4. \A v \in Versions, c \in Runs : <<v, c>> \in released => v <= version
        BY <2>2, <2>3 DEF Calm, GrowInv
    <2>5. ASSUME NEW v \in Versions, live[v] # None PROVE v = version \/ v \in Listed(registry)
        <3>1. live[v] \in Runs /\ <<v, live[v]>> \in released
            BY <2>5, CalmFacts DEF Calm, ServedInv, TypeOK, MaybeRun
        <3>2. QED BY <2>3, <3>1
    <2>6. \A i \in Public : releases[i].version \in Retired(registry) \/ Has(record, i)
        BY <2>1 DEF Has, Serves
    <2>7. DeployRelied(run[r])'
        BY <1>1, <2>2, <2>4, <2>5, <2>6 DEF DeployRelied, Public, Existing, Has, Moves, Listed, Retired
    <2>8. Relied(run[r])'
        BY <2>2, <2>7 DEF Relied, DraftRelied, RoomRelied, RoomSteps, DraftSteps
    <2>9. QED BY <1>1, <2>2, <2>8, LateJob
<1>4. QED BY <1>2, <1>3

\* After a deployment nothing waits: what is public is served or retired.
LEMMA LateDeploy ==
    ASSUME Calm, NEW r \in Runs, Deploy(r)
    PROVE  LateInv'
<1>1. /\ Moves(r) /\ UNCHANGED <<main, releases, tags, released, tampered>>
      /\ active = r /\ run[r].pc = "deploy"
    BY CalmFacts, JobMoves DEF RunStep, Pages, Deploy, github, settings, history, At
<1>2. /\ active' = r => run'[r].pc = "verify"
      /\ run'[r].pc # "create"
    <2>1. CASE Refuse(r)
        BY <1>1, <2>1, PublicationConstants DEF Refuse, End, Moves
    <2>2. CASE ~Refuse(r)
        <3>1. run' = [run EXCEPT ![r] = [@ EXCEPT !.pc = "verify", !.reached = Reach(r, 4)]]
            BY <2>2 DEF Deploy
        <3>2. run[r] \in Run /\ run'[r] = [run[r] EXCEPT !.pc = "verify", !.reached = Reach(r, 4)]
            BY <1>1, <3>1 DEF Moves
        <3>3. QED BY <3>2 DEF Run
    <2>3. QED BY <2>1, <2>2
<1>3. ReliedInv'
    BY <1>1, <1>2, ReliedFree, ReliedThen DEF RoomSteps, DraftSteps
<1>4. PublicKept /\ \A i \in Existing' : i \in Existing /\ releases'[i] = releases[i]
    BY <1>1 DEF PublicKept, Public, Existing
<1>5. NoneRedrafted /\ RegistriesKept
    <2>1. \A q \in Runs : At(q, "create")' => q # r
        BY <1>2 DEF At
    <2>2. \A q \in Runs \ {r} : active' # q
        BY <1>1, PublicationConstants DEF Moves
    <2>3. QED BY <1>1, <1>4, <2>1, <2>2
             DEF NoneRedrafted, RegistriesKept, Calm, LateInv, ShownInv, At, Moves
<1>6. ShownInv'
    BY <1>1, <1>4, <1>5, ShownKept, CalmFacts DEF Calm, LateInv
<1>7. RetiredInv' /\ FilledInv'
    BY <1>1, <1>4, <1>5 DEF Calm, LateInv, RetiredInv, FilledInv, PublicKept, RegistriesKept, Retired
<1>8. ASSUME NEW i \in Behind' PROVE FALSE
    <2>1. /\ i \in Public /\ releases[i].version \notin Retired(main.registry)
          /\ live'[releases[i].version] # releases[i].assets[Sums]
        BY <1>1, <1>8 DEF Behind, Servable, Public, Existing, Retired
    <2>2. releases[i].version \notin Retired(run[r].registry)
        BY <2>1 DEF Calm, LateInv, RetiredInv
    <2>3. Has(run[r].record, i)
        BY <1>1, <2>1, <2>2 DEF Calm, LateInv, ReliedInv, Relied, DeployRelied
    <2>4. releases[i].version \in Versions
        BY <2>1, CalmFacts
    <2>5. live'[releases[i].version] = run[r].record[releases[i].version].content
        BY <2>3, <2>4 DEF Deploy, Has
    <2>6. QED BY <2>1, <2>3, <2>5 DEF Has
<1>9. QED BY <1>3, <1>6, <1>7, <1>8 DEF LateInv, OneBehind

-----------------------------------------------------------------------------
\* A step that changes drafts only, of a run that has checked its room.
LEMMA LateWork ==
    ASSUME Calm, NEW r \in Runs, Moves(r), active = r, UNCHANGED <<tags, live>>, PublicKept,
           \A i \in Existing' : releases'[i].draft => releases'[i].version \notin Shown,
           run'[r].pc # "create", run[r].pc \in RoomSteps,
           active' = r => /\ run'[r].pc \in {"update", "upload"} /\ run'[r].room = run[r].room
                          /\ DraftRelied(run[r])'
    PROVE  LateInv'
<1>1. ASSUME active' = r PROVE Relied(run[r])'
    <2>1. RoomRelied(run[r])
        BY DEF Calm, LateInv, ReliedInv, Relied
    <2>2. RoomRelied(run[r])'
        BY <1>1, <2>1 DEF RoomRelied, PublicKept, Has, Retired, Moves
    <2>3. QED BY <1>1, <2>2 DEF Relied, DeployRelied
<1>2. ReliedInv'
    BY <1>1, ReliedThen
<1>3. RegistriesKept
    BY DEF RegistriesKept, Moves
<1>4. NoneRedrafted
    <2>1. \A q \in Runs : ~At(q, "create")'
        BY PublicationConstants DEF At, Moves
    <2>2. QED BY <2>1 DEF NoneRedrafted
<1>5. RetirementsKept
    BY DEF RetirementsKept, Moves
<1>6. LateInv /\ (\A i \in Public : releases[i].version \in Versions)
      /\ (\A v \in Listed(main'.registry) : v \in Shown)
    BY CalmFacts DEF Calm, Moves
<1>7. QED BY <1>2, <1>3, <1>4, <1>5, <1>6, LateKept

\* A run that creates a draft has a version which nobody has seen.
LEMMA LateCreate ==
    ASSUME Calm, NEW r \in Runs, CreateDraft(r)
    PROVE  LateInv'
<1> DEFINE draft == [version |-> run[r].version, draft |-> TRUE, prerelease |-> FALSE,
                     immutable |-> FALSE, target |-> run[r].commit,
                     assets |-> [a \in Assets |-> None], notes |-> r]
<1>1. /\ Moves(r) /\ UNCHANGED <<tags, live>> /\ At(r, "create") /\ nextId \in ReleaseIds
      /\ releases' = [releases EXCEPT ![nextId] = draft]
    BY CalmFacts, JobMoves DEF RunStep, Publish, CreateDraft
<1>2. draft.draft = TRUE /\ draft.version = run[r].version
    BY DEF draft
<1> HIDE DEF draft
<1>3. releases'[nextId] = draft /\ \A i \in ReleaseIds \ {nextId} : releases'[i] = releases[i]
    BY <1>1, CalmFacts
<1>4. PublicKept
    BY <1>2, <1>3 DEF PublicKept, Public, Existing
<1>5. run[r].version \notin Shown
    BY <1>1 DEF Calm, LateInv, ShownInv
<1>6. ASSUME NEW i \in Existing', releases'[i].draft PROVE releases'[i].version \notin Shown
    <2>1. CASE i = nextId
        BY <1>2, <1>3, <1>5, <2>1
    <2>2. CASE i # nextId
        BY <1>3, <1>6, <2>2 DEF Calm, LateInv, ShownInv, Existing
    <2>3. QED BY <2>1, <2>2
<1>7. /\ run'[r].pc # "create"
      /\ active' = r => /\ run'[r].pc = "update" /\ run'[r].release = nextId
                        /\ run'[r].room = run[r].room
    <2>1. CASE Refuse(r)
        BY <1>1, <2>1, PublicationConstants DEF Refuse, End, Moves
    <2>2. CASE ~Refuse(r)
        <3>1. run' = [run EXCEPT ![r].pc = "update", ![r].release = nextId, ![r].todo = Assets]
            BY <2>2 DEF CreateDraft
        <3>2. /\ run[r] \in Run
              /\ run'[r] = [run[r] EXCEPT !.pc = "update", !.release = nextId, !.todo = Assets]
            BY <1>1, <3>1 DEF Moves
        <3>3. QED BY <3>2 DEF Run
    <2>3. QED BY <2>1, <2>2
<1>8. active' = r => DraftRelied(run[r])'
    BY <1>2, <1>3, <1>7 DEF DraftRelied
<1>9. QED BY <1>1, <1>4, <1>6, <1>7, <1>8, LateWork DEF RoomSteps, At

\* A draft that is named again is a draft of the same version.
LEMMA LateUpdate ==
    ASSUME Calm, NEW r \in Runs, UpdateDraft(r)
    PROVE  LateInv'
<1> DEFINE i == run[r].release
<1>1. /\ Moves(r) /\ UNCHANGED <<tags, live>> /\ active = r /\ run[r].pc = "update" /\ TypeOK
    BY CalmFacts, JobMoves DEF RunStep, Publish, UpdateDraft, At
<1>2. i \in Existing => releases[i].version = run[r].version /\ releases[i].draft
    BY <1>1 DEF Calm, IInv, DraftInv, DraftSteps, LateInv, ReliedInv, Relied, DraftRelied
<1>3. \A j \in Existing' : /\ j \in Existing /\ releases'[j].version = releases[j].version
                           /\ releases'[j].draft = releases[j].draft
                           /\ releases'[j].assets = releases[j].assets
    <2>1. CASE i \in Existing
        <3>1. /\ Renamed(r).version = releases[i].version /\ Renamed(r).draft = releases[i].draft
              /\ Renamed(r).assets = releases[i].assets
            BY <1>1, <1>2, <2>1, RenamedIs
        <3>2. releases' = [releases EXCEPT ![i] = Renamed(r)]
            BY <2>1 DEF UpdateDraft
        <3>3. releases'[i] = Renamed(r) /\ \A j \in ReleaseIds \ {i} : releases'[j] = releases[j]
            BY <2>1, <3>2, CalmFacts
        <3> HIDE DEF i
        <3>4. QED BY <2>1, <3>1, <3>3 DEF Existing
    <2>2. CASE i \notin Existing
        BY <2>2 DEF UpdateDraft, Existing
    <2>3. QED BY <2>1, <2>2
<1>4. PublicKept
    BY <1>3 DEF PublicKept, Public
<1>5. \A j \in Existing' : releases'[j].draft => releases'[j].version \notin Shown
    BY <1>3 DEF Calm, LateInv, ShownInv
<1>6. /\ run'[r].pc # "create"
      /\ active' = r => /\ run'[r].pc = "upload" /\ run'[r].release = run[r].release
                        /\ run'[r].room = run[r].room
    <2>1. CASE Refuse(r)
        BY <1>1, <2>1, PublicationConstants DEF Refuse, End, Moves
    <2>2. CASE ~Refuse(r)
        <3>1. Goto(r, "upload")
            BY <2>2 DEF UpdateDraft, Effective
        <3>2. run[r] \in Run /\ run'[r] = [run[r] EXCEPT !.pc = "upload"]
            BY <1>1, <3>1 DEF Moves, Goto
        <3>3. QED BY <3>2 DEF Run
    <2>3. QED BY <2>1, <2>2
<1>7. active' = r => DraftRelied(run[r])'
    BY <1>2, <1>3, <1>6 DEF DraftRelied
<1>8. QED BY <1>1, <1>4, <1>5, <1>6, <1>7, LateWork DEF RoomSteps, DraftSteps

\* What is uploaded is uploaded to a draft.
LEMMA LateUpload ==
    ASSUME Calm, NEW r \in Runs, Upload(r)
    PROVE  LateInv'
<1> DEFINE i == run[r].release
<1>1. /\ Moves(r) /\ UNCHANGED <<tags, live>> /\ active = r /\ run[r].pc = "upload"
    BY CalmFacts, JobMoves DEF RunStep, Publish, Upload, At
<1>2. i \in Existing => releases[i].draft
    BY <1>1 DEF Calm, DraftSteps, LateInv, ReliedInv, Relied, DraftRelied
<1>3. PICK a : \/ Refuse(r) /\ releases' = releases
               \/ /\ i \in Existing
                  /\ releases' = [releases EXCEPT ![i].assets[a] = r]
                  /\ \/ run' = [run EXCEPT ![r].todo = @ \ {a}]
                     \/ Refuse(r)
    BY DEF Upload
<1>4. \A j \in Existing' : /\ j \in Existing /\ releases'[j].version = releases[j].version
                           /\ releases'[j].draft = releases[j].draft
                           /\ j = i \/ releases'[j] = releases[j]
    <2>1. CASE releases' = releases
        BY <2>1 DEF Existing
    <2>2. CASE i \in Existing /\ releases' = [releases EXCEPT ![i].assets[a] = r]
        <3> DEFINE x == [releases[i] EXCEPT !.assets[a] = r]
        <3>1. releases[i] \in Release /\ i \in ReleaseIds
            BY <2>2, CalmFacts
        <3>2. x.version = releases[i].version /\ x.draft = releases[i].draft
            BY <3>1 DEF Release
        <3>3. releases' = [releases EXCEPT ![i] = x]
            BY <2>2
        <3> HIDE DEF x
        <3>4. releases'[i] = x /\ \A j \in ReleaseIds \ {i} : releases'[j] = releases[j]
            BY <3>1, <3>3, CalmFacts
        <3> HIDE DEF i
        <3>5. QED BY <2>2, <3>2, <3>4 DEF Existing
    <2>3. QED BY <1>3, <2>1, <2>2
<1>5. PublicKept
    BY <1>2, <1>4 DEF PublicKept, Public
<1>6. \A j \in Existing' : releases'[j].draft => releases'[j].version \notin Shown
    BY <1>4 DEF Calm, LateInv, ShownInv
<1>7. /\ run'[r].pc # "create"
      /\ active' = r => /\ run'[r].pc = "upload" /\ run'[r].release = run[r].release
                        /\ run'[r].room = run[r].room
    <2>1. CASE Refuse(r)
        BY <1>1, <2>1, PublicationConstants DEF Refuse, End, Moves
    <2>2. CASE run' = [run EXCEPT ![r].todo = @ \ {a}]
        <3>1. run[r] \in Run /\ run'[r] = [run[r] EXCEPT !.todo = @ \ {a}]
            BY <1>1, <2>2 DEF Moves
        <3>2. QED BY <1>1, <3>1 DEF Run
    <2>3. QED BY <1>3, <2>1, <2>2
<1>8. active' = r => DraftRelied(run[r])'
    BY <1>2, <1>4, <1>7 DEF DraftRelied
<1>9. QED BY <1>1, <1>5, <1>6, <1>7, <1>8, LateWork DEF RoomSteps, DraftSteps

\* The one release that a run makes public was a draft of a version that nobody has seen, and every
\* other public release is live: it is the only one that waits.
LEMMA LateUndraft ==
    ASSUME Calm, NEW r \in Runs, Undraft(r)
    PROVE  LateInv'
<1> DEFINE i == run[r].release
           full == [Renamed(r) EXCEPT !.prerelease = FALSE]
           v == run[r].version
<1>1. /\ Moves(r) /\ live' = live /\ active = r /\ run[r].pc = "undraft" /\ TypeOK /\ v \in Versions
    BY CalmFacts, JobMoves DEF RunStep, Publish, Undraft, At, Moves, Run
<1>2. /\ i \in Existing => /\ releases[i].version = v /\ releases[i].draft
                           /\ releases[i].assets[Sums] # None
      /\ RoomRelied(run[r]) /\ LiveSums(run[r].room, None)
    BY <1>1 DEF Calm, IInv, DraftInv, DraftSteps, LateInv, ReliedInv, Relied, DraftRelied
<1>3. run'[r].pc # "create" /\ (active' = r => run'[r].pc = "final")
    <2>1. CASE Refuse(r)
        BY <1>1, <2>1, PublicationConstants DEF Refuse, End, Moves
    <2>2. CASE ~Refuse(r)
        <3>1. Goto(r, "final")
            BY <2>2 DEF Undraft, Effective
        <3>2. run[r] \in Run /\ run'[r] = [run[r] EXCEPT !.pc = "final"]
            BY <1>1, <3>1 DEF Moves, Goto
        <3>3. QED BY <3>2 DEF Run
    <2>3. QED BY <2>1, <2>2
<1>4. ReliedInv'
    BY <1>1, <1>3, ReliedFree, ReliedThen DEF RoomSteps, DraftSteps
<1>5. CASE i \notin Existing \/ TagTaken(i, v)
    <2>1. UNCHANGED <<releases, tags>>
        BY <1>5 DEF Undraft
    <2>2. QED BY <1>1, <1>3, <2>1, ReliedFree, LateJob DEF RoomSteps, DraftSteps
<1>6. CASE i \in Existing /\ ~TagTaken(i, v)
    <2>1. MakePublic(i, full)
        BY <1>2, <1>6 DEF Undraft
    <2>2. /\ full \in Release /\ full.version = v /\ full.assets = releases[i].assets
        <3>1. /\ Renamed(r) \in Release /\ Renamed(r).version = v
              /\ Renamed(r).assets = releases[i].assets
            BY <1>1, <1>6, RenamedIs
        <3>2. QED BY <3>1 DEF Release
    <2> DEFINE new == [full EXCEPT !.draft = FALSE, !.immutable = immutableOn]
    <2>3. new.draft = FALSE /\ new.version = v /\ new.assets = releases[i].assets
        BY <2>2 DEF Release
    <2>4. releases' = [releases EXCEPT ![i] = new] /\ i \in ReleaseIds
        BY <1>6, <2>1, CalmFacts DEF MakePublic
    <2> HIDE DEF new
    <2>5. releases'[i] = new /\ \A j \in ReleaseIds \ {i} : releases'[j] = releases[j]
        BY <2>4, CalmFacts
    <2>6. /\ tags'[v] # None /\ \A w \in Versions : tags[w] # None => tags'[w] # None
        <3> HIDE DEF full, v
        <3>1. tags' = [tags EXCEPT ![v] = IF @ = None THEN full.target ELSE @]
            BY <2>1, <2>2 DEF MakePublic
        <3>2. full.target # None
            BY <2>2, PublicationConstants DEF Release
        <3>3. QED BY <1>1, <3>1, <3>2 DEF TypeOK
    <2> HIDE DEF i, full, v
    <2>7. ASSUME NEW j \in Existing'
          PROVE  /\ j \in Existing /\ releases'[j].version = releases[j].version
                 /\ releases'[j].version = v => j = i
                 /\ j # i => releases'[j] = releases[j]
        <3>1. j \in Existing /\ releases'[j].version = releases[j].version
              /\ (j # i => releases'[j] = releases[j])
            BY <1>2, <1>6, <2>3, <2>5, <2>7 DEF Existing
        <3>2. QED BY <1>2, <1>6, <3>1 DEF Calm, IssueInv, OneEach
    <2>8. ASSUME NEW j \in Public', j # i
          PROVE  /\ j \in Public /\ releases'[j] = releases[j] /\ releases[j].version # v
        BY <2>7, <2>8 DEF Public
    <2>9. v \notin Shown
        BY <1>2, <1>6 DEF Calm, LateInv, ShownInv
    <2>10. ASSUME NEW w \in Shown' PROVE w = v \/ w \in Shown
        <3>1. CASE w \in {releases'[j].version : j \in Public'}
            <4>1. PICK j \in Public' : w = releases'[j].version
                BY <3>1
            <4>2. QED BY <2>3, <2>5, <2>8, <4>1 DEF Shown
        <3>2. CASE w \in Listed(main'.registry)
            BY <1>1, <3>2 DEF Shown, Moves
        <3>3. CASE w \in Versions /\ \E q \in Runs : w \in Listed(run'[q].registry)
            BY <1>1, <3>3 DEF Shown, Moves
        <3>4. QED BY <2>10, <3>1, <3>2, <3>3 DEF Shown, Listed, Retired
    <2>11. ShownInv'
        <3>1. \A q \in Runs : ~At(q, "create")'
            BY <1>1, <1>3, PublicationConstants DEF At, Moves
        <3>2. ASSUME NEW w \in Shown', NEW j \in Existing', releases'[j].version = w
              PROVE  ~releases'[j].draft
            <4>1. CASE j = i
                BY <2>3, <2>5, <4>1
            <4>2. CASE j # i
                <5>1. j \in Existing /\ releases'[j] = releases[j] /\ w # v
                    BY <2>7, <3>2, <4>2
                <5>2. QED BY <2>10, <3>2, <5>1 DEF Calm, LateInv, ShownInv
            <4>3. QED BY <4>1, <4>2
        <3>3. \A w \in Shown' : tags'[w] # None
            BY <2>6, <2>10, CalmFacts
        <3>4. QED BY <3>1, <3>2, <3>3 DEF ShownInv, At
    <2>12. RetiredInv'
        <3>1. ASSUME NEW q \in Runs, NEW j \in Public',
                     releases'[j].version \in Retired(run'[q].registry)
              PROVE  releases'[j].version \in Retired(main.registry)
            <4>1. run'[q].registry = run[q].registry
                BY <1>1 DEF Moves
            <4>2. CASE j = i
                BY <2>3, <2>5, <2>9, <3>1, <4>1, <4>2, CalmFacts DEF Listed
            <4>3. CASE j # i
                BY <2>8, <3>1, <4>1, <4>3 DEF Calm, LateInv, RetiredInv
            <4>4. QED BY <4>2, <4>3
        <3>2. QED BY <1>1, <3>1 DEF RetiredInv, Moves, Retired
    <2>13. FilledInv'
        BY <1>2, <1>6, <2>3, <2>5, <2>8 DEF Calm, LateInv, FilledInv
    <2>14. ASSUME NEW j \in Behind', j # i PROVE FALSE
        <3>1. /\ j \in Public /\ releases[j].version # v
              /\ releases[j].version \notin Retired(main.registry)
              /\ live[releases[j].version] # releases[j].assets[Sums]
            <4>1. /\ j \in Public' /\ releases'[j].version \notin Retired(main'.registry)
                  /\ live'[releases'[j].version] # releases'[j].assets[Sums]
                BY <2>14 DEF Behind, Servable, Retired
            <4>2. QED BY <1>1, <2>8, <2>14, <4>1 DEF Moves
        <3>2. releases[j].version \notin Retired(run[r].registry)
            BY <3>1 DEF Calm, LateInv, RetiredInv
        <3>3. Has(run[r].room, j)
            BY <1>1, <1>2, <3>1, <3>2 DEF RoomRelied, RoomSteps, DraftSteps, v
        <3>4. releases[j].version \in Versions /\ releases[j].version # None
            BY <3>1, CalmFacts, PublicationConstants
        <3>5. live[releases[j].version] = run[r].room[releases[j].version].content
            BY <1>2, <3>3, <3>4 DEF LiveSums, Serves, Has
        <3>6. QED BY <3>1, <3>3, <3>5 DEF Has
    <2>15. OneBehind'
        BY <2>14 DEF OneBehind
    <2>16. QED BY <1>4, <2>11, <2>12, <2>13, <2>15 DEF LateInv
<1>7. QED BY <1>5, <1>6

-----------------------------------------------------------------------------
\* A run that is dispatched has main's registry.
LEMMA LateDispatch ==
    ASSUME Calm, NEW r \in Runs, Dispatch(r)
    PROVE  LateInv'
<1>1. UNCHANGED <<main, releases, tags, live, released>>
    BY StartKeeps
<1>2. /\ run \in [Runs -> Run] /\ run' = [run EXCEPT ![r] = run'[r]]
      /\ run'[r].registry = main.registry /\ run'[r].pc = "queued" /\ active' = active
    BY CalmFacts, DispatchMoves
<1>3. \A q \in Runs \ {r} : run'[q] = run[q]
    BY <1>2
<1>4. RegistriesKept
    BY <1>2, <1>3 DEF RegistriesKept
<1>5. ASSUME NEW q \in Runs, active' = q PROVE Relied(run[q])'
    <2>1. CASE q = r
        BY <1>2, <2>1, ReliedFree DEF RoomSteps, DraftSteps
    <2>2. CASE q # r
        <3>1. Relied(run[q]) /\ run'[q] = run[q]
            BY <1>2, <1>3, <1>5, <2>2 DEF Calm, LateInv, ReliedInv
        <3>2. DraftRelied(run[q])' /\ RoomRelied(run[q])'
            BY <1>1, <3>1 DEF Relied, DraftRelied, RoomRelied, Has, Retired, Public, Existing
        <3>3. DeployRelied(run[q])'
            BY <1>1, <3>1 DEF Relied, DeployRelied, Has, Retired, Listed, Public, Existing
        <3>4. QED BY <1>1, <3>1, <3>2, <3>3 DEF Relied, LiveSums, Serves
    <2>3. QED BY <2>1, <2>2
<1>6. ASSUME NEW q \in Runs, At(q, "create")' PROVE run'[q].version \notin Shown
    BY <1>2, <1>3, <1>6 DEF Calm, LateInv, ShownInv, At
<1>7. QED BY <1>1, <1>4, <1>5, <1>6, LateQuiet DEF ReliedInv

\* A reviewed change of main lists what is public, and drops the entry of nothing that is.
LEMMA LateLanding ==
    ASSUME Calm, Landing
    PROVE  LateInv'
<1>1. Landed
    BY CalmFacts, LandingLands
<1>2. UNCHANGED <<releases, tags, live, run, active, released>>
    BY <1>1 DEF Landed
<1>3. Kept /\ PublicKept
    BY <1>2 DEF Kept, PublicKept, Public, Existing
<1>4. ReliedInv'
    BY <1>2, <1>3, ReliedBeside DEF Calm, LateInv
<1>5. RegistriesKept
    BY <1>2 DEF RegistriesKept
<1>6. RetirementsKept
    <2>1. ASSUME NEW i \in Public PROVE PublicSums(releases[i].version) # {}
        BY DEF PublicSums, Calm, LateInv, FilledInv
    <2>2. QED BY <1>1, <2>1 DEF RetirementsKept, Landed
<1>7. NoneRedrafted
    BY <1>2, <1>3 DEF NoneRedrafted, Kept, Calm, LateInv, ShownInv, At
<1>8. \A v \in Listed(main'.registry) : v \in Shown
    BY <1>1, CalmFacts DEF Landed
<1>9. LateInv /\ \A i \in Public : releases[i].version \in Versions
    BY CalmFacts DEF Calm
<1>10. QED BY <1>2, <1>3, <1>4, <1>5, <1>6, <1>7, <1>8, <1>9, LateKept

\* People may delete a release, push a tag or edit, but they neither delete a tag nor publish
\* a draft.
LEMMA LateManual ==
    ASSUME Calm, Manual, ~tampered'
    PROVE  LateInv'
<1>1. /\ UNCHANGED <<main, live, run, active, released>> /\ Kept
      /\ \A v \in Versions : tags[v] # None => tags'[v] # None
    BY CalmFacts, ManualKeeps
<1>2. PublicKept
    BY <1>1 DEF Kept, PublicKept, Public
<1>3. ReliedInv'
    BY <1>1, ReliedBeside DEF Calm, LateInv
<1>4. RegistriesKept /\ RetirementsKept
    BY <1>1 DEF RegistriesKept, RetirementsKept
<1>5. NoneRedrafted
    BY <1>1 DEF NoneRedrafted, Kept, Calm, LateInv, ShownInv, At
<1>6. \A v \in Listed(main'.registry) : v \in Shown
    BY <1>1, CalmFacts
<1>7. LateInv /\ \A i \in Public : releases[i].version \in Versions
    BY CalmFacts DEF Calm
<1>8. QED BY <1>1, <1>2, <1>3, <1>4, <1>5, <1>6, <1>7, LateKept

\* Nobody takes tampering back.
LEMMA TamperedStays == IInv /\ [Next]_vars => (tampered => tampered')
<1> SUFFICES ASSUME IInv, [Next]_vars, tampered PROVE tampered'
    OBVIOUS
<1>1. ASSUME NEW r \in Runs, RunStep(r) PROVE tampered' = tampered
    BY <1>1 DEF history, RunStep, Publish, Pages, Classify, CheckRoom, Resnapshot, Uploaded,
       Readback, CheckDraft, StillServed, StillLive, CheckDeploy, Gate, TakeSnapshot,
       ComposeRoom, ReadState, CreateDraft, UpdateDraft, Upload, Undraft, ConfirmPublished,
       BuildPages, Deploy, VerifyLive
<1>2. ASSUME NEW r \in Runs,
             Dispatch(r) \/ Preflight(r) \/ Fail(r) \/ \E job \in 1 .. 4 : Rerun(r, job)
      PROVE  tampered' = tampered
    BY <1>2, StartKeeps
<1>3. CASE Landing
    BY <1>3, LandingLands DEF Landed, IInv
<1>4. CASE Manual
    BY <1>4, ManualKeeps DEF IInv
<1>5. QED BY <1>1, <1>2, <1>3, <1>4 DEF Next, vars

\* As long as tags are kept and drafts are left alone, all of it is kept.
LEMMA LateStep ==
    ASSUME IInv, IssueInv, GrowInv, ServedInv, tampered \/ LateInv, [Next]_vars
    PROVE  tampered' \/ LateInv'
<1>1. tampered => tampered'
    BY TamperedStays
<1>2. SUFFICES ASSUME Calm, ~tampered' PROVE LateInv'
    BY <1>1 DEF Calm
<1>3. ASSUME NEW r \in Runs, RunStep(r) PROVE LateInv'
    BY <1>2, <1>3, LateGate, LateStart, LateRoom, LateReadState, LateCheckDeploy, LateDeploy,
       LateCreate, LateUpdate, LateUpload, LateUndraft DEF RunStep, Publish, Pages
<1>4. ASSUME NEW r \in Runs,
             Dispatch(r) \/ Preflight(r) \/ Fail(r) \/ \E job \in 1 .. 4 : Rerun(r, job)
      PROVE  LateInv'
    BY <1>2, <1>4, LateDispatch, LateStart
<1>5. CASE Landing
    BY <1>2, <1>5, LateLanding
<1>6. CASE Manual
    BY <1>2, <1>6, LateManual
<1>7. CASE UNCHANGED vars
    <2>1. UNCHANGED <<main, releases, tags, live, run, active, released>>
        BY <1>7 DEF vars
    <2>2. Kept
        BY <2>1 DEF Kept, Existing
    <2>3. ReliedInv' /\ RegistriesKept
        BY <1>2, <2>1, <2>2, ReliedBeside DEF Calm, LateInv, RegistriesKept
    <2>4. \A q \in Runs : At(q, "create")' => run'[q].version \notin Shown
        BY <1>2, <2>1 DEF Calm, LateInv, ShownInv, At
    <2>5. QED BY <1>2, <2>1, <2>3, <2>4, LateQuiet
<1>8. QED BY <1>3, <1>4, <1>5, <1>6, <1>7 DEF Next

\* At first nothing is public, listed or live.
LEMMA InitForward == Init => ForwardInv
<1> SUFFICES ASSUME Init PROVE ForwardInv
    OBVIOUS
<1>1. Existing = {} /\ Public = {} /\ None \notin Runs
    BY PublicationConstants DEF Init, Existing, Public
<1>2. Listed(EmptyRegistry) = {} /\ Retired(EmptyRegistry) = {}
    BY DEF Listed, Retired, EmptyRegistry
<1>3. /\ main.version = 1 /\ main.registry = EmptyRegistry /\ active = None
      /\ \A r \in Runs : /\ run[r].version = 1 /\ run[r].registry = EmptyRegistry
                         /\ run[r].reached = 0
      /\ \A v \in Versions : live[v] = None
    BY DEF Init
<1>4. GrowInv /\ ServedInv
    BY <1>1, <1>2, <1>3 DEF GrowInv, ServedInv, Complete3
<1>5. LateInv
    <2>1. Shown = {}
        BY <1>1, <1>2, <1>3 DEF Shown
    <2>2. Behind = {}
        BY <1>1 DEF Behind, Servable
    <2>3. QED BY <1>1, <1>3, <2>1, <2>2
              DEF LateInv, ShownInv, RetiredInv, FilledInv, ReliedInv, OneBehind
<1>6. QED BY <1>4, <1>5 DEF ForwardInv

\* Together they are kept by each step.
LEMMA ForwardStep == IInv /\ IssueInv /\ ForwardInv /\ [Next]_vars => ForwardInv'
BY GrowStep, ServedStep, LateStep DEF ForwardInv

\* Every public release but one is live as long as tags are kept and drafts are left alone,
\* whichever runs are re-run and however jobs fail: a run makes its release public only where
\* check_live_sums has just found the others on the site, and nobody deploys in between.
THEOREM OneWaits == Spec => []AtMostOneBehind
<1>1. Init => IssueInv
    BY PublicationConstants DEF Init, IssueInv, OneEach, Spent, Existing, At
<1>2. ForwardInv => AtMostOneBehind
    <2> SUFFICES ASSUME OneBehind PROVE Cardinality(Behind) <= 1
        BY DEF ForwardInv, LateInv, AtMostOneBehind, Behind
    <2>1. CASE Behind = {}
        BY <2>1, FS_EmptySet
    <2>2. CASE Behind # {}
        <3>1. PICK i \in Behind : TRUE
            BY <2>2
        <3>2. Behind = {i}
            BY <3>1 DEF OneBehind
        <3>3. Cardinality({i}) = 1
            BY FS_Singleton
        <3>4. QED BY <3>2, <3>3
    <2>3. QED BY <2>1, <2>2
<1>3. IInv /\ [Next]_vars => IInv'
    BY StepInv
<1>4. QED BY <1>1, <1>2, <1>3, InitInv, InitForward, IssueStep, ForwardStep, PTL DEF Spec

\* No deployment undoes a newer release, and none drops a version that its registry does not
\* retire, whatever is deleted or re-run, as long as tags are kept and drafts are left alone:
\* check_recorded sees the tag of each released version, and the composition has all that is
\* listed.
THEOREM ForwardOnly == Spec => DeploysOnlyForward
<1> DEFINE Forward ==
        live' # live /\ ~tampered =>
            /\ \A p \in released : p[1] <= run[active].version
            /\ \A v \in Versions :
                 live[v] # None /\ live'[v] = None => v \in Retired(run[active].registry)
<1>1. Init => IssueInv
    BY PublicationConstants DEF Init, IssueInv, OneEach, Spent, Existing, At
<1>2. IInv /\ ForwardInv /\ [Next]_vars => [Forward]_vars
    <2> SUFFICES ASSUME IInv, ForwardInv, [Next]_vars, live' # live, ~tampered PROVE Forward
        OBVIOUS
    <2>1. PICK r \in Runs : Deploy(r)
        BY JobServes, StartKeeps, ManualKeeps, LandingLands DEF Next, vars, Landed, IInv
    <2>2. /\ active = r /\ run[r].pc = "deploy" /\ run[r].reached >= 3
          /\ live' = [v \in Versions |-> IF run[r].record[v] = None THEN None
                                         ELSE run[r].record[v].content]
        BY <2>1 DEF Deploy, At, IInv, RecordInv
    <2>3. DeployRelied(run[r])
        BY <2>2 DEF ForwardInv, LateInv, ReliedInv, Relied
    <2>4. \A p \in released : p[1] <= run[r].version
        <3>1. released \subseteq Versions \X Runs
            BY DEF IInv, TypeOK
        <3>2. ASSUME NEW p \in released PROVE p[1] <= run[r].version
            <4>1. p = <<p[1], p[2]>> /\ p[1] \in Versions /\ p[2] \in Runs
                BY <3>1
            <4>2. QED BY <2>2, <2>3, <4>1 DEF DeployRelied
        <3>3. QED BY <3>2
    <2>5. ASSUME NEW v \in Versions, live[v] # None, live'[v] = None
          PROVE  v \in Retired(run[r].registry)
        <3>1. /\ run[r].record \in Composition /\ run[r].version \in Serves(run[r].record)
              /\ Complete3(run[r])
            BY <2>2 DEF IInv, RecordInv, Recorded3, ForwardInv, ServedInv
        <3>2. run[r].record[v] = None
            BY <2>2, <2>5, <3>1, PublicationConstants DEF Composition, Composed
        <3>3. v # run[r].version
            BY <3>1, <3>2 DEF Serves
        <3>4. v \in Listed(run[r].registry)
            BY <2>2, <2>3, <2>5, <3>3 DEF DeployRelied
        <3>5. QED BY <2>2, <3>1, <3>2, <3>4 DEF Complete3
    <2>6. QED BY <2>2, <2>4, <2>5
<1>3. IInv /\ [Next]_vars => IInv'
    BY StepInv
<1>4. QED BY <1>1, <1>2, <1>3, InitInv, InitForward, IssueStep, ForwardStep, PTL
          DEF Spec, DeploysOnlyForward

-----------------------------------------------------------------------------
(* The bytes of a site are a fold over its versions, that is, the value of  *)
(* a function defined by recursion.  That it exists, and that it may take   *)
(* the versions in any order, is shown with smallest counterexamples among  *)
(* the parts of a finite set.                                               *)

SizeOf(S) == MapThenSumSet(LAMBDA v : Size[v], S)
OneOf(S) == CHOOSE x \in S : TRUE

\* The function the fold defines on the parts of S.
Adds(f, S) == f = [s \in SUBSET S |-> IF s = {} THEN 0 ELSE Size[OneOf(s)] + f[s \ {OneOf(s)}]]

\* There are finitely many versions, each with its size.
LEMMA SizesAre == IsFiniteSet(Versions) /\ Size \in [Versions -> Nat]
<1>1. IsFiniteSet(1 .. MaxVersion)
    BY PublicationConstants, FS_Interval
<1>2. QED BY <1>1, PublicationConstants DEF Versions

\* Among sets of parts of a finite set there is a smallest one: induction over finite sets.
LEMMA SmallestSet ==
    ASSUME NEW S, IsFiniteSet(S), NEW C \in SUBSET SUBSET S, C # {}
    PROVE  \E s \in C : \A t \in C : t \subseteq s => t = s
<1>1. FiniteSubsetsOf(S) = SUBSET S
    BY FS_FiniteSubsetsOfFinite
<1>2. IsWellFoundedOn(StrictSubsetOrdering(S), SUBSET S)
    BY <1>1, FS_StrictSubsetOrderingWellFounded
<1>3. PICK s \in C : \A t \in C : ~ (<<t, s>> \in StrictSubsetOrdering(S))
    BY <1>2, WFMin
<1>4. QED BY <1>3 DEF StrictSubsetOrdering

\* MapThenSumSet takes the value of such a function.
LEMMA SizeIsFold ==
    ASSUME NEW S PROVE SizeOf(S) = (CHOOSE f : Adds(f, S))[S]
BY DEF SizeOf, MapThenSumSet, MapThenFoldSet, Adds, OneOf

\* Two such functions agree where both are defined,
LEMMA AddsAgree ==
    ASSUME NEW S, NEW T \in SUBSET S, IsFiniteSet(S), NEW f, NEW g, Adds(f, S), Adds(g, T)
    PROVE  \A s \in SUBSET T : f[s] = g[s]
<1> DEFINE C == {s \in SUBSET T : f[s] # g[s]}
<1>1. SUFFICES ASSUME C # {} PROVE FALSE
    OBVIOUS
<1>2. PICK s \in C : \A t \in C : t \subseteq s => t = s
    <2>1. C \in SUBSET SUBSET S
        OBVIOUS
    <2> HIDE DEF C
    <2>2. QED BY <1>1, <2>1, SmallestSet
<1> DEFINE x == OneOf(s)
<1>3. CASE s = {}
    BY <1>2, <1>3 DEF Adds
<1>4. CASE s # {}
    <2>1. x \in s
        BY <1>4 DEF OneOf
    <2>2. f[s \ {x}] = g[s \ {x}]
        BY <1>2, <2>1
    <2>3. /\ f[s] = Size[x] + f[s \ {x}] /\ g[s] = Size[x] + g[s \ {x}]
        BY <1>2, <1>4 DEF Adds
    <2>4. QED BY <1>2, <2>2, <2>3
<1>5. QED BY <1>3, <1>4

\* and there is one: the smallest set without one could take it from the sets below.
LEMMA AddsExists ==
    ASSUME NEW S, IsFiniteSet(S)
    PROVE  \E f : Adds(f, S)
<1> DEFINE C == {s \in SUBSET S : ~ \E f : Adds(f, s)}
<1>1. SUFFICES ASSUME C # {} PROVE FALSE
    OBVIOUS
<1>2. PICK s \in C : \A t \in C : t \subseteq s => t = s
    <2>1. C \in SUBSET SUBSET S
        OBVIOUS
    <2> HIDE DEF C
    <2>2. QED BY <1>1, <2>1, SmallestSet
<1> DEFINE below == [t \in SUBSET s |-> (CHOOSE f : Adds(f, t))[t]]
           g == [t \in SUBSET s |-> IF t = {} THEN 0
                                     ELSE Size[OneOf(t)] + below[t \ {OneOf(t)}]]
<1>3. ASSUME NEW t \in SUBSET s, t # s
      PROVE  Adds(CHOOSE f : Adds(f, t), t)
    <2>1. \E f : Adds(f, t)
        BY <1>2, <1>3
    <2>2. QED BY <2>1
<1>4. ASSUME NEW t \in SUBSET s, t # s
      PROVE  below[t] = g[t]
    <2> DEFINE h == CHOOSE f : Adds(f, t)
               x == OneOf(t)
               u == t \ {x}
               k == CHOOSE f : Adds(f, u)
    <2>1. Adds(h, t)
        BY <1>3, <1>4
    <2>2. CASE t = {}
        BY <1>4, <2>1, <2>2 DEF Adds
    <2>3. CASE t # {}
        <3>1. x \in t /\ u \in SUBSET t /\ u # s
            BY <1>4, <2>3 DEF OneOf
        <3>2. Adds(k, u)
            BY <1>3, <3>1
        <3>3. IsFiniteSet(t)
            BY FS_Subset, <1>2
        <3>4. h[u] = k[u]
            <4> HIDE DEF h, k, u
            <4>1. QED BY <2>1, <3>1, <3>2, <3>3, AddsAgree
        <3>5. below[t] = h[t] /\ below[u] = k[u]
            BY <3>1
        <3>6. h[t] = Size[x] + h[u]
            BY <2>1, <2>3 DEF Adds
        <3>7. g[t] = Size[x] + below[u]
            BY <2>3
        <3>8. QED BY <3>4, <3>5, <3>6, <3>7
    <2>4. QED BY <2>2, <2>3
<1>5. Adds(g, s)
    <2>1. ASSUME NEW t \in SUBSET s, t # {}
          PROVE  below[t \ {OneOf(t)}] = g[t \ {OneOf(t)}]
        <3>1. OneOf(t) \in t
            BY <2>1 DEF OneOf
        <3> HIDE DEF below, g
        <3>2. QED BY <1>4, <3>1
    <2>2. \A t \in SUBSET s : g[t] = IF t = {} THEN 0 ELSE Size[OneOf(t)] + g[t \ {OneOf(t)}]
        <3>1. \A t \in SUBSET s : g[t] = IF t = {} THEN 0 ELSE Size[OneOf(t)] + below[t \ {OneOf(t)}]
            <4> HIDE DEF below
            <4>1. QED OBVIOUS
        <3> HIDE DEF below, g
        <3>2. QED BY <2>1, <3>1
    <2>3. g = [t \in SUBSET s |-> g[t]]
        OBVIOUS
    <2> HIDE DEF g
    <2>4. QED BY <2>2, <2>3 DEF Adds
<1>6. QED BY <1>2, <1>5

\* So the sum is that of the element taken first and of the others,
LEMMA SizeRule ==
    ASSUME NEW S, IsFiniteSet(S)
    PROVE  /\ S = {} => SizeOf(S) = 0
           /\ S # {} => OneOf(S) \in S /\ SizeOf(S) = Size[OneOf(S)] + SizeOf(S \ {OneOf(S)})
<1> DEFINE f == CHOOSE f : Adds(f, S)
           x == OneOf(S)
           g == CHOOSE g : Adds(g, S \ {x})
<1>1. Adds(f, S) /\ SizeOf(S) = f[S]
    BY AddsExists, SizeIsFold
<1>2. CASE S = {}
    <2> HIDE DEF f
    <2>1. QED BY <1>1, <1>2 DEF Adds
<1>3. CASE S # {}
    <2>1. x \in S
        BY <1>3 DEF OneOf
    <2>2. IsFiniteSet(S \ {x}) /\ Adds(g, S \ {x}) /\ SizeOf(S \ {x}) = g[S \ {x}]
        BY FS_RemoveElement, AddsExists, SizeIsFold
    <2> HIDE DEF f, g
    <2>3. f[S \ {x}] = g[S \ {x}]
        BY <1>1, <2>2, AddsAgree
    <2>4. f[S] = Size[x] + f[S \ {x}]
        BY <1>1, <1>3 DEF Adds
    <2>5. QED BY <1>1, <1>3, <2>1, <2>2, <2>3, <2>4
<1>4. QED BY <1>2, <1>3

\* is a number,
LEMMA SizeType ==
    ASSUME NEW S \in SUBSET Versions
    PROVE  IsFiniteSet(S) /\ SizeOf(S) \in Nat
<1>1. IsFiniteSet(Versions) /\ Size \in [Versions -> Nat]
    BY SizesAre
<1> DEFINE C == {s \in SUBSET Versions : SizeOf(s) \notin Nat}
<1>2. SUFFICES ASSUME C # {} PROVE FALSE
    BY <1>1, FS_Subset
<1>3. PICK s \in C : \A t \in C : t \subseteq s => t = s
    <2>1. C \in SUBSET SUBSET Versions
        OBVIOUS
    <2> HIDE DEF C
    <2>2. QED BY <1>1, <1>2, <2>1, SmallestSet
<1>4. IsFiniteSet(s)
    BY <1>1, FS_Subset
<1>5. s # {} /\ OneOf(s) \in s /\ SizeOf(s) = Size[OneOf(s)] + SizeOf(s \ {OneOf(s)})
    BY <1>4, SizeRule
<1>6. SizeOf(s \ {OneOf(s)}) \in Nat
    BY <1>3, <1>5
<1>7. QED BY <1>1, <1>5, <1>6

\* and that of any element and of the others.
LEMMA SizeWithout ==
    ASSUME NEW S \in SUBSET Versions, NEW y \in S
    PROVE  SizeOf(S) = Size[y] + SizeOf(S \ {y})
<1>1. IsFiniteSet(Versions) /\ Size \in [Versions -> Nat]
    BY SizesAre
<1> DEFINE C == {s \in SUBSET Versions : \E z \in s : SizeOf(s) # Size[z] + SizeOf(s \ {z})}
<1>2. SUFFICES ASSUME C # {} PROVE FALSE
    OBVIOUS
<1>3. PICK s \in C : \A t \in C : t \subseteq s => t = s
    <2>1. C \in SUBSET SUBSET Versions
        OBVIOUS
    <2> HIDE DEF C
    <2>2. QED BY <1>1, <1>2, <2>1, SmallestSet
<1>4. PICK z \in s : SizeOf(s) # Size[z] + SizeOf(s \ {z})
    OBVIOUS
<1> DEFINE x == OneOf(s)
           u == s \ {x}
           w == s \ {z}
<1>5. s # {} /\ x \in s /\ SizeOf(s) = Size[x] + SizeOf(u)
    BY SizeRule, SizeType
<1>6. x # z
    BY <1>4, <1>5
<1>7. z \in u /\ x \in w /\ u \ {z} = w \ {x} /\ u # s /\ w # s
    BY <1>4, <1>5, <1>6
<1>8. SizeOf(u) = Size[z] + SizeOf(u \ {z}) /\ SizeOf(w) = Size[x] + SizeOf(w \ {x})
    BY <1>3, <1>7
<1> DEFINE rest == u \ {z}
<1>9. SizeOf(rest) \in Nat /\ Size[x] \in Nat /\ Size[z] \in Nat
    BY <1>1, <1>5, SizeType
<1>10. SizeOf(s) = Size[x] + SizeOf(u) /\ SizeOf(u) = Size[z] + SizeOf(rest)
       /\ SizeOf(w) = Size[x] + SizeOf(rest) /\ SizeOf(s) # Size[z] + SizeOf(w)
    BY <1>4, <1>5, <1>7, <1>8
<1> HIDE DEF x, u, w, rest
<1>11. QED BY <1>9, <1>10

\* More versions need more room.
LEMMA SizeGrows ==
    ASSUME NEW S \in SUBSET Versions, NEW T \in SUBSET S
    PROVE  SizeOf(T) <= SizeOf(S)
<1>1. IsFiniteSet(Versions) /\ Size \in [Versions -> Nat]
    BY SizesAre
<1> DEFINE C == {s \in SUBSET S : ~ (T \subseteq s => SizeOf(T) <= SizeOf(s))}
<1>2. SUFFICES ASSUME C # {} PROVE FALSE
    OBVIOUS
<1>3. PICK s \in C : \A t \in C : t \subseteq s => t = s
    <2>1. C \in SUBSET SUBSET Versions
        OBVIOUS
    <2> HIDE DEF C
    <2>2. QED BY <1>1, <1>2, <2>1, SmallestSet
<1>4. SizeOf(s) \in Nat /\ SizeOf(T) \in Nat
    BY SizeType
<1>5. s # T
    BY <1>4
<1>6. PICK y \in s : y \notin T
    BY <1>5
<1>7. SizeOf(s) = Size[y] + SizeOf(s \ {y})
    BY SizeWithout
<1>8. s \ {y} \notin C /\ T \subseteq s \ {y}
    BY <1>3, <1>6
<1>9. QED BY <1>1, <1>4, <1>6, <1>7, <1>8, SizeType

\* One version more needs no more than its own size.
LEMMA SizeWith ==
    ASSUME NEW S \in SUBSET Versions, NEW v \in Versions
    PROVE  SizeOf(S \cup {v}) <= SizeOf(S) + Size[v]
<1>1. SizeOf(S) \in Nat /\ SizeOf(S \cup {v}) \in Nat /\ Size[v] \in Nat
    BY SizeType, SizesAre
<1>2. SizeOf(S \cup {v}) = Size[v] + SizeOf((S \cup {v}) \ {v})
    BY SizeWithout
<1>3. SizeOf((S \cup {v}) \ {v}) <= SizeOf(S) /\ SizeOf((S \cup {v}) \ {v}) \in Nat
    BY SizeGrows, SizeType
<1>4. QED BY <1>1, <1>2, <1>3

-----------------------------------------------------------------------------
\* The rooms check_pages_room accepts for a version, and the sets of versions Pages can hold.
Rooms == {x \in (Composition \cup {None}) \X Versions : Fits(x[1], Size[x[2]])}
Sites == {S \in SUBSET Versions : SizeOf(S) <= MaxSite}

\* From check_pages_room on, the room a run has composed is one its version fits into.
CountedSteps == RoomSteps \ {"room"}
RoomInv == \A r \in Runs : active = r /\ run[r].pc \in CountedSteps =>
               <<run[r].room, run[r].version>> \in Rooms

\* A run comes to such a step from another one with its room, or by the check itself.
LEMMA CountedFrom ==
    ASSUME TypeOK, NEW r \in Runs, RunStep(r), active' = r, run'[r].pc \in CountedSteps
    PROVE  /\ active = r /\ run'[r].room = run[r].room /\ run'[r].version = run[r].version
           /\ \/ run[r].pc \in CountedSteps
              \/ <<run[r].room, run[r].version>> \in Rooms
<1>1. /\ run \in [Runs -> Run] /\ run[r] \in Run /\ main' = main /\ None \notin Runs
      /\ run'[r].version = run[r].version
    BY JobMoves, PublicationConstants DEF TypeOK, Moves
<1>2. active = r
    BY DEF RunStep, Publish, Pages, Classify, CheckRoom, Resnapshot, Uploaded, Readback,
           CheckDraft, StillServed, StillLive, CheckDeploy, Gate, TakeSnapshot, ComposeRoom,
           ReadState, CreateDraft, UpdateDraft, Upload, Undraft, ConfirmPublished, BuildPages,
           Deploy, VerifyLive, At
<1>3. ~Refuse(r)
    BY <1>1 DEF Refuse, End
<1>4. ASSUME NEW next, Goto(r, next)
      PROVE  run'[r].room = run[r].room /\ run'[r].pc = next
    <2>1. run'[r].room = run[r].room
        BY <1>1, <1>2, <1>4, GoesOrEnds
    <2>2. run'[r] = [run[r] EXCEPT !.pc = next] /\ run[r] \in Run
        BY <1>1, <1>4 DEF Goto
    <2>3. QED BY <2>1, <2>2 DEF Run
<1>5. CASE Classify(r) \/ CheckDeploy(r)
    <2>1. Goto(r, "snapshot") \/ Goto(r, "deploy")
        BY <1>3, <1>5 DEF Classify, CheckDeploy, Gate
    <2>2. run'[r].pc \in {"snapshot", "deploy"}
        BY <1>4, <2>1
    <2>3. QED BY <2>2 DEF CountedSteps, RoomSteps, DraftSteps
<1>6. CASE CheckRoom(r)
    <2>1. Fits(run[r].room, Size[run[r].version])
        BY <1>3, <1>6 DEF CheckRoom, Gate
    <2>2. run[r].room \in Composition \cup {None} /\ run[r].version \in Versions
        BY <1>1 DEF Run
    <2>3. <<run[r].room, run[r].version>> \in Rooms
        BY <2>1, <2>2 DEF Rooms
    <2>4. run'[r].room = run[r].room
        BY <1>3, <1>4, <1>6 DEF CheckRoom, Gate
    <2>5. QED BY <1>1, <1>2, <2>3, <2>4
<1>7. CASE \/ Resnapshot(r) \/ Uploaded(r) \/ Readback(r) \/ CheckDraft(r) \/ StillServed(r)
           \/ StillLive(r)
    BY <1>1, <1>2, <1>3, <1>4, <1>7 DEF Resnapshot, Uploaded, Readback, CheckDraft, StillServed,
           StillLive, Gate, At, CountedSteps, RoomSteps, DraftSteps
<1>8. CASE ReadState(r)
    BY <1>1, <1>2, <1>8, ReadStateMoves DEF ReadState, At, CountedSteps, RoomSteps, DraftSteps
<1>9. CASE UpdateDraft(r) \/ Undraft(r)
    BY <1>1, <1>2, <1>3, <1>4, <1>9 DEF UpdateDraft, Undraft, Effective, At, CountedSteps,
           RoomSteps, DraftSteps
<1>10. CASE CreateDraft(r) \/ Upload(r)
    <2>1. run[r].pc \in CountedSteps
        BY <1>10 DEF CreateDraft, Upload, At, CountedSteps, RoomSteps, DraftSteps
    <2>2. CASE run' = [run EXCEPT ![r].pc = "update", ![r].release = nextId, ![r].todo = Assets]
        BY <1>1, <1>2, <2>1, <2>2 DEF Run
    <2>3. CASE \E a : run' = [run EXCEPT ![r].todo = @ \ {a}]
        BY <1>1, <1>2, <2>1, <2>3 DEF Run
    <2>4. QED BY <1>3, <1>10, <2>2, <2>3 DEF CreateDraft, Upload
<1>11. CASE TakeSnapshot(r) \/ ComposeRoom(r)
    <2>1. run'[r].pc \in {"compose", "room"}
        <3>1. CASE TakeSnapshot(r)
            BY <1>1, <3>1 DEF TakeSnapshot, Run
        <3>2. CASE ComposeRoom(r)
            BY <1>1, <1>3, <3>2 DEF ComposeRoom, Run
        <3>3. QED BY <1>11, <3>1, <3>2
    <2>2. QED BY <2>1 DEF CountedSteps, RoomSteps, DraftSteps
<1>12. CASE ConfirmPublished(r) \/ BuildPages(r) \/ Deploy(r)
    <2>1. run'[r].pc \in {"build", "check", "verify"}
        <3>1. CASE ConfirmPublished(r)
            <4> DEFINE next == [run[r] EXCEPT !.pc = "build", !.served = None, !.room = None,
                                              !.release = None, !.reached = Reach(r, 2)]
            <4>1. run' = [run EXCEPT ![r] = next]
                BY <1>3, <3>1 DEF ConfirmPublished
            <4>2. next.pc = "build"
                BY <1>1 DEF Run
            <4> HIDE DEF next
            <4>3. QED BY <1>1, <4>1, <4>2
        <3>2. CASE BuildPages(r)
            <4> DEFINE site == Compose(run[r].registry, None)
                       next == [run[r] EXCEPT !.pc = "check", !.record = site,
                                              !.reached = Reach(r, 3)]
            <4>1. run' = [run EXCEPT ![r] = next]
                BY <1>3, <3>2 DEF BuildPages
            <4>2. next.pc = "check"
                BY <1>1 DEF Run
            <4> HIDE DEF next
            <4>3. QED BY <1>1, <4>1, <4>2
        <3>3. CASE Deploy(r)
            <4> DEFINE next == [run[r] EXCEPT !.pc = "verify", !.reached = Reach(r, 4)]
            <4>1. run' = [run EXCEPT ![r] = next]
                BY <1>3, <3>3 DEF Deploy
            <4>2. next.pc = "verify"
                BY <1>1 DEF Run
            <4> HIDE DEF next
            <4>3. QED BY <1>1, <4>1, <4>2
        <3>4. QED BY <1>12, <3>1, <3>2, <3>3
    <2>2. QED BY <2>1 DEF CountedSteps, RoomSteps, DraftSteps
<1>13. CASE VerifyLive(r)
    BY <1>1, <1>3, <1>13 DEF VerifyLive, End
<1>14. QED BY <1>5, <1>6, <1>7, <1>8, <1>9, <1>10, <1>11, <1>12, <1>13 DEF RunStep, Publish, Pages

\* So the check still stands, whatever else is done meanwhile.
LEMMA RoomStep == TypeOK /\ RoomInv /\ [Next]_vars => RoomInv'
<1> SUFFICES ASSUME TypeOK, RoomInv, [Next]_vars PROVE RoomInv'
    OBVIOUS
<1>1. ASSUME NEW r \in Runs, RunStep(r) PROVE RoomInv'
    <2>1. ASSUME active' = r, run'[r].pc \in CountedSteps
          PROVE  <<run'[r].room, run'[r].version>> \in Rooms
        BY <1>1, <2>1, CountedFrom DEF RoomInv
    <2>2. active' \in {r, None} /\ None \notin Runs
        BY <1>1, JobMoves, PublicationConstants DEF Moves
    <2>3. QED BY <2>1, <2>2 DEF RoomInv
<1>2. ASSUME NEW r \in Runs, Preflight(r) \/ Fail(r) \/ \E job \in 1 .. 4 : Rerun(r, job)
      PROVE  RoomInv'
    <2>1. active' \in {r, None} /\ None \notin Runs /\ run \in [Runs -> Run] /\ run[r] \in Run
        BY <1>2, JobMoves, PublicationConstants DEF Moves
    <2>2. active' = r => run'[r].pc \notin CountedSteps
        <3>1. CASE Refuse(r)
            BY <2>1, <3>1 DEF Refuse, End
        <3>2. CASE run' = [run EXCEPT ![r].pc = "classify", ![r].reached = 1]
            <4>1. run'[r].pc = "classify"
                BY <2>1, <3>2 DEF Run
            <4>2. QED BY <4>1 DEF CountedSteps, RoomSteps, DraftSteps
        <3>3. CASE \E job \in 1 .. 4 : run' = [run EXCEPT ![r].pc = JobStart[job]]
            <4>1. PICK job \in 1 .. 4 : run' = [run EXCEPT ![r].pc = JobStart[job]]
                BY <3>3
            <4>2. run'[r].pc = JobStart[job] /\ JobStart[job] \in {"classify", "build", "check", "verify"}
                BY <2>1, <4>1 DEF Run, JobStart
            <4>3. QED BY <4>2 DEF CountedSteps, RoomSteps, DraftSteps
        <3>4. QED BY <1>2, <3>1, <3>2, <3>3 DEF Preflight, Fail, Rerun
    <2>3. QED BY <2>1, <2>2 DEF RoomInv
<1>3. ASSUME NEW r \in Runs, Dispatch(r) PROVE RoomInv'
    <2>1. /\ run \in [Runs -> Run] /\ run' = [run EXCEPT ![r] = run'[r]]
          /\ run'[r].pc = "queued" /\ active' = active
        BY <1>3, DispatchMoves
    <2>2. run'[r].pc \notin CountedSteps
        BY <2>1 DEF CountedSteps, RoomSteps, DraftSteps
    <2>3. \A q \in Runs \ {r} : run'[q] = run[q]
        BY <2>1
    <2>4. QED BY <2>1, <2>2, <2>3 DEF RoomInv
<1>4. CASE Landing \/ Manual \/ UNCHANGED vars
    <2>1. UNCHANGED <<run, active>>
        BY <1>4, LandingLands, ManualKeeps DEF Landed, vars
    <2>2. QED BY <2>1 DEF RoomInv
<1>5. QED BY <1>1, <1>2, <1>3, <1>4 DEF Next

\* Nothing but the irreversible step makes a release public.
LEMMA OnlyUndraftShows ==
    ASSUME Calm, NEW r \in Runs, RunStep(r), ~Undraft(r)
    PROVE  PublicKept
<1>1. /\ TypeOK /\ releases \in [ReleaseIds -> Release \cup {None}]
      /\ \A j \in Existing : j \in ReleaseIds /\ releases[j] \in Release
    BY CalmFacts
<1>2. CASE releases' = releases
    BY <1>2 DEF PublicKept, Public, Existing
<1>3. CASE CreateDraft(r)
    <2> DEFINE draft == [version |-> run[r].version, draft |-> TRUE, prerelease |-> FALSE,
                         immutable |-> FALSE, target |-> run[r].commit,
                         assets |-> [a \in Assets |-> None], notes |-> r]
    <2>1. releases' = [releases EXCEPT ![nextId] = draft] /\ draft.draft = TRUE
        BY <1>3 DEF CreateDraft
    <2> HIDE DEF draft
    <2>2. QED BY <1>1, <2>1 DEF PublicKept, Public, Existing
<1>4. CASE (UpdateDraft(r) \/ Upload(r)) /\ releases' # releases
    <2> DEFINE i == run[r].release
    <2>1. /\ i \in Existing /\ active = r /\ run[r].pc \in DraftSteps
          /\ \/ releases' = [releases EXCEPT ![i] = Renamed(r)]
             \/ \E a : releases' = [releases EXCEPT ![i].assets[a] = r]
        BY <1>4 DEF UpdateDraft, Upload, At, DraftSteps
    <2>2. releases[i].draft
        BY <2>1 DEF Calm, LateInv, ReliedInv, Relied, DraftRelied
    <2>3. \E x : releases' = [releases EXCEPT ![i] = x] /\ x.draft
        <3>1. CASE releases' = [releases EXCEPT ![i] = Renamed(r)]
            BY <1>1, <2>1, <2>2, <3>1, RenamedIs
        <3>2. CASE \E a : releases' = [releases EXCEPT ![i].assets[a] = r]
            <4>1. PICK a : releases' = [releases EXCEPT ![i].assets[a] = r]
                BY <3>2
            <4>2. [releases[i] EXCEPT !.assets[a] = r].draft
                BY <1>1, <2>1, <2>2 DEF Release
            <4>3. QED BY <4>1, <4>2
        <3>3. QED BY <2>1, <3>1, <3>2
    <2> HIDE DEF i
    <2>4. QED BY <1>1, <2>1, <2>3 DEF PublicKept, Public, Existing
<1>5. QED BY <1>2, <1>3, <1>4 DEF RunStep, Publish, Pages, Classify, CheckRoom,
          Resnapshot, Uploaded, Readback, CheckDraft, StillServed, StillLive, CheckDeploy, Gate,
          TakeSnapshot, ComposeRoom, ReadState, ConfirmPublished, BuildPages, Deploy, VerifyLive, github

\* The versions that are public and that main does not retire.
ServableVersions == {releases[i].version : i \in Servable}
FitInv == ServableVersions \in Sites

\* They become fewer unless a release becomes public.
LEMMA FitKept ==
    ASSUME Calm, FitInv, PublicKept, RetirementsKept
    PROVE  FitInv'
<1>1. ServableVersions \in SUBSET Versions
    BY CalmFacts DEF ServableVersions, Servable, Public
<1>2. ServableVersions' \in SUBSET ServableVersions
    <2>1. ASSUME NEW i \in Servable' PROVE releases'[i].version \in ServableVersions
        <3>1. i \in Public' /\ releases'[i].version \notin Retired(main'.registry)
            BY <2>1 DEF Servable, Retired
        <3>2. QED BY <3>1 DEF PublicKept, RetirementsKept, Servable, ServableVersions
    <2>2. QED BY <2>1 DEF ServableVersions
<1>3. SizeOf(ServableVersions') <= SizeOf(ServableVersions)
    BY <1>1, <1>2, SizeGrows
<1>4. /\ SizeOf(ServableVersions') \in Nat /\ SizeOf(ServableVersions) \in Nat /\ MaxSite \in Nat
    BY <1>1, <1>2, SizeType, PublicationConstants
<1>5. ServableVersions' \in SUBSET Versions
    BY <1>1, <1>2
<1>6. SizeOf(ServableVersions) <= MaxSite
    BY DEF FitInv, Sites
<1>7. SizeOf(ServableVersions') <= MaxSite
    BY <1>3, <1>4, <1>6
<1>8. QED BY <1>5, <1>7 DEF FitInv, Sites

\* The release that becomes public fits with the room its run composed, and every other
\* public release is in that room or retired.
LEMMA FitUndraft ==
    ASSUME Calm, FitInv, RoomInv, NEW r \in Runs, Undraft(r)
    PROVE  FitInv'
<1> DEFINE i == run[r].release
           v == run[r].version
           room == run[r].room
<1>1. /\ TypeOK /\ active = r /\ run[r].pc = "undraft" /\ v \in Versions /\ main' = main
      /\ releases \in [ReleaseIds -> Release \cup {None}]
    BY CalmFacts, JobMoves DEF RunStep, Publish, Undraft, At, Moves, Run
<1>2. Fits(room, Size[v]) /\ RoomRelied(run[r])
    BY <1>1 DEF RoomInv, Rooms, CountedSteps, RoomSteps, DraftSteps, Calm, LateInv, ReliedInv, Relied
<1>3. ASSUME NEW j \in Servable' PROVE releases'[j].version \in Serves(room) \cup {v}
    <2>1. j \in Public' /\ releases'[j].version \notin Retired(main.registry)
        BY <1>1, <1>3 DEF Servable, Retired
    <2>2. releases'[j].version = v \/ (j \in Public /\ releases'[j] = releases[j])
        <3>1. CASE releases' = releases
            BY <2>1, <3>1 DEF Public, Existing
        <3>2. CASE releases' # releases
            <4>1. PICK x : releases' = [releases EXCEPT ![i] = x] /\ x.version = v
                <5> DEFINE full == [Renamed(r) EXCEPT !.prerelease = FALSE]
                <5>1. /\ i \in Existing
                      /\ IF releases[i].draft THEN MakePublic(i, full)
                         ELSE releases' = [releases EXCEPT ![i] = full]
                    BY <3>2 DEF Undraft
                <5>2. full \in Release /\ full.version = v
                    <6>1. Renamed(r) \in Release /\ Renamed(r).version = v
                        BY <1>1, <5>1, RenamedIs
                    <6>2. QED BY <6>1 DEF Release
                <5> HIDE DEF full, v
                <5>3. [full EXCEPT !.draft = FALSE, !.immutable = immutableOn].version = v
                    BY <5>2 DEF Release
                <5>4. QED BY <5>1, <5>2, <5>3 DEF MakePublic
            <4> HIDE DEF i, v
            <4>2. QED BY <1>1, <2>1, <4>1 DEF Public, Existing
        <3>3. QED BY <3>1, <3>2
    <2>3. ASSUME j \in Public, releases'[j] = releases[j], releases[j].version # v
          PROVE  releases[j].version \in Serves(room)
        <3>1. releases[j].version \notin Retired(run[r].registry)
            BY <2>1, <2>3 DEF Calm, LateInv, RetiredInv
        <3>2. Has(room, j)
            BY <1>1, <1>2, <2>3, <3>1 DEF RoomRelied, RoomSteps, DraftSteps
        <3>3. QED BY <2>3, <3>2, CalmFacts DEF Has, Serves
    <2>4. QED BY <2>2, <2>3
<1>4. Serves(room) \in SUBSET Versions
    BY DEF Serves
<1>5. ServableVersions' \in SUBSET (Serves(room) \cup {v})
    BY <1>3 DEF ServableVersions
<1>6. SizeOf(Serves(room)) + Size[v] <= MaxSite
    BY <1>2 DEF Fits, Bytes, SizeOf
<1> HIDE DEF v, room
<1>7. /\ SizeOf(ServableVersions') <= SizeOf(Serves(room) \cup {v})
      /\ SizeOf(Serves(room) \cup {v}) <= SizeOf(Serves(room)) + Size[v]
    BY <1>1, <1>4, <1>5, SizeGrows, SizeWith
<1>8. /\ SizeOf(ServableVersions') \in Nat /\ SizeOf(Serves(room)) \in Nat /\ Size[v] \in Nat
      /\ SizeOf(Serves(room) \cup {v}) \in Nat /\ MaxSite \in Nat
    BY <1>1, <1>4, <1>5, SizeType, SizesAre, PublicationConstants
<1>9. ServableVersions' \in SUBSET Versions /\ SizeOf(ServableVersions') <= MaxSite
    BY <1>1, <1>4, <1>5, <1>6, <1>7, <1>8
<1>10. QED BY <1>9 DEF FitInv, Sites

\* As long as tags are kept and drafts are left alone, what is public goes on fitting.
LEMMA FitStep ==
    ASSUME IInv, IssueInv, ForwardInv, RoomInv, tampered \/ FitInv, [Next]_vars
    PROVE  tampered' \/ FitInv'
<1>1. tampered => tampered'
    BY TamperedStays
<1>2. SUFFICES ASSUME Calm, FitInv, ~tampered' PROVE FitInv'
    BY <1>1 DEF Calm, ForwardInv
<1>3. ASSUME PublicKept, RetirementsKept PROVE FitInv'
    BY <1>2, <1>3, FitKept
<1>4. ASSUME NEW r \in Runs, RunStep(r) PROVE FitInv'
    <2>1. CASE Undraft(r)
        BY <1>2, <2>1, FitUndraft
    <2>2. CASE ~Undraft(r)
        <3>1. PublicKept
            BY <1>2, <1>4, <2>2, OnlyUndraftShows
        <3>2. RetirementsKept
            BY <1>2, <1>4, CalmFacts, JobMoves DEF RetirementsKept, Moves
        <3>3. QED BY <1>3, <3>1, <3>2
    <2>3. QED BY <2>1, <2>2
<1>5. ASSUME NEW r \in Runs,
             Dispatch(r) \/ Preflight(r) \/ Fail(r) \/ \E job \in 1 .. 4 : Rerun(r, job)
      PROVE  FitInv'
    <2>1. UNCHANGED <<main, releases>>
        BY <1>5, StartKeeps
    <2>2. QED BY <1>3, <2>1 DEF PublicKept, RetirementsKept, Public, Existing
<1>6. CASE Landing
    <2>1. Landed
        BY <1>2, <1>6, CalmFacts, LandingLands
    <2>2. \A i \in Public : PublicSums(releases[i].version) # {}
        <3>1. FilledInv
            BY <1>2 DEF Calm, LateInv
        <3>2. QED BY <3>1 DEF PublicSums, FilledInv
    <2>3. RetirementsKept /\ PublicKept
        BY <2>1, <2>2 DEF RetirementsKept, PublicKept, Landed, Public, Existing
    <2>4. QED BY <1>3, <2>3
<1>7. CASE Manual
    <2>1. main' = main /\ Kept
        BY <1>2, <1>7, CalmFacts, ManualKeeps
    <2>2. QED BY <1>3, <2>1 DEF PublicKept, RetirementsKept, Kept, Public
<1>8. CASE UNCHANGED vars
    BY <1>3, <1>8 DEF vars, PublicKept, RetirementsKept, Public, Existing
<1>9. QED BY <1>4, <1>5, <1>6, <1>7, <1>8 DEF Next

\* Everything that is public can be served within the Pages budget, for any sizes, however
\* jobs fail and runs are re-run, as long as tags are kept and drafts are left alone:
\* check_pages_room has counted every other public release, and none is added before the
\* run's own.
THEOREM PublicFits == Spec => []PublicFitsPages
<1>1. Init => IssueInv
    BY PublicationConstants DEF Init, IssueInv, OneEach, Spent, Existing, At
<1>2. Init => RoomInv /\ (tampered \/ FitInv)
    <2> SUFFICES ASSUME Init PROVE RoomInv /\ FitInv
        OBVIOUS
    <2>1. active = None /\ None \notin Runs
        BY PublicationConstants DEF Init
    <2>2. Existing = {}
        BY DEF Init, Existing
    <2>3. ServableVersions = {}
        BY <2>2 DEF ServableVersions, Servable, Public
    <2>4. SizeOf({}) = 0 /\ MaxSite \in Nat
        BY SizeRule, FS_EmptySet, PublicationConstants
    <2>5. QED BY <2>1, <2>3, <2>4 DEF RoomInv, FitInv, Sites
<1>3. IInv /\ [Next]_vars => IInv'
    BY StepInv
<1>4. tampered \/ FitInv => PublicFitsPages
    BY DEF FitInv, Sites, PublicFitsPages, ServableVersions, SizeOf
<1>5. IInv => TypeOK
    BY DEF IInv
<1>6. IInv /\ IssueInv /\ ForwardInv /\ RoomInv /\ (tampered \/ FitInv) /\ [Next]_vars
          => (tampered \/ FitInv)'
    BY FitStep
<1>7. QED BY <1>1, <1>2, <1>3, <1>4, <1>5, <1>6, InitInv, InitForward, IssueStep, ForwardStep,
          RoomStep, PTL DEF Spec

-----------------------------------------------------------------------------
(* What is public gets live: the safety half of PublicBecomesLive.  While    *)
(* nobody changes releases, tags or the setting by hand, a run that made its *)
(* release public is refused by no gate, however often it is resumed.        *)

\* A run that made its release public, none newer being released.
Standing(r) ==
    /\ <<run[r].version, r>> \in released
    /\ \A v \in Versions, c \in Runs : <<v, c>> \in released => v <= run[r].version

\* A public release is all its run's; what was released is public.
Published(i, c) ==
    /\ releases[i].version = run[c].version
    /\ Settled(releases[i])
    /\ VerifiedAs(releases[i], c)
PublishedInv ==
    /\ \A i \in Public : \E c \in Runs : Published(i, c) /\ <<run[c].version, c>> \in released
    /\ \A v \in Versions, c \in Runs : <<v, c>> \in released =>
         run[c].version = v /\ run[c].reached >= 1 /\ \E i \in Public : Published(i, c)

\* Which jobs have succeeded at which step.
Staged(r) ==
    /\ active = r <=> run[r].pc \in Steps
    /\ run[r].reached >= 1 => run[r].pc \in Steps \cup {"stopped", "succeeded"}
    /\ run[r].pc \in Steps => run[r].reached >= 1
    /\ run[r].pc \in {"build", "check", "deploy", "verify"} => run[r].reached >= 2
    /\ run[r].pc \in {"check", "deploy", "verify"} => run[r].reached >= 3
    /\ run[r].pc \in {"verify", "succeeded"} => run[r].reached = 4
    /\ run[r].reached >= 2 => <<run[r].version, r>> \in released

\* compose_releases passes, with what check_pages_room asks besides.
Eligible(x) ==
    /\ x.version \notin Listed(x.registry)
    /\ \A i \in Public : releases[i].version # x.version =>
         /\ releases[i].version < x.version
         /\ releases[i].version \in Retired(x.registry) =>
              releases[i].assets[Sums] = x.registry.retired[releases[i].version]
    /\ \A v \in Listed(x.registry) : \E i \in Public :
         /\ releases[i].version = v
         /\ v \notin Retired(x.registry) => releases[i].assets[Sums] = x.registry.published[v]
Others(x) ==
    {v \in Versions \ (Retired(x.registry) \cup {x.version}) :
        \E i \in Public : releases[i].version = v}
Clear(x) ==
    /\ Eligible(x)
    /\ \A v \in Versions \ {x.version} : tags[v] # None => v \in Listed(x.registry)
    /\ \A i \in Public : releases[i].version \in Others(x) =>
         live[releases[i].version] = releases[i].assets[Sums]
    /\ SizeOf(Others(x)) + Size[x.version] <= MaxSite

\* A site of all candidates that the registry does not retire.
AsComposed(i) ==
    [content |-> releases[i].assets[Sums], id |-> i, commit |-> tags[releases[i].version]]
IsSite(site, registry, pending) ==
    /\ \A v \in Versions : site[v] # None =>
         v \notin Retired(registry) /\ \E i \in Candidates(pending) : releases[i].version = v
    /\ \A i \in Candidates(pending) :
         releases[i].version \notin Retired(registry) => site[releases[i].version] = AsComposed(i)

\* What the run in progress has seen, and the draft it works on.
Seen(x) ==
    /\ x.pc \in {"compose", "room", "resnapshot"} => x.served = ServedState(x.version)
    /\ x.pc \in RoomSteps => Eligible(x) /\ IsSite(x.room, x.registry, x.version)
    /\ x.pc \in CountedSteps => Clear(x)
Ready(r) ==
    /\ run[r].pc \in DraftSteps => run[r].release \in Existing
    /\ run[r].pc \in {"served", "sums", "undraft"} =>
         Carries(run[r].release, r) /\ tags[run[r].version] \in {None, run[r].commit}
    /\ run[r].pc = "final" => run[r].release \in Public /\ Published(run[r].release, r)
SeenInv == \A r \in Runs : active = r => Seen(run[r]) /\ Ready(r)

\* A standing run finds everything as it was.
Shows(site) == \A v \in Versions : live[v] = IF site[v] = None THEN None ELSE site[v].content
StandingInv ==
    \A r \in Runs : Standing(r) =>
        /\ Clear(run[r])
        /\ run[r].reached >= 3 => IsSite(run[r].record, run[r].registry, None)
        /\ run[r].reached = 4 => Shows(run[r].record)

\* All of it: what holds as long as nobody acts by hand.
StagedInv == \A r \in Runs : Staged(r)
FreshIds == \A i \in Existing : i < nextId
HandsOff == immutableOn /\ PublishedInv /\ StagedInv /\ FreshIds /\ SeenInv /\ StandingInv
Good == Calm /\ HandsOff

-----------------------------------------------------------------------------
\* Public releases, their tags and the site stay.
Same == /\ UNCHANGED <<tags, live, released>>
        /\ Public' = Public /\ \A i \in Public : releases'[i] = releases[i]

\* A run that got through preflight goes on with what it was dispatched with.
RunsGoOn ==
    \A c \in Runs : run[c].reached >= 1 =>
        /\ run'[c].version = run[c].version /\ run'[c].commit = run[c].commit
        /\ run'[c].registry = run[c].registry /\ run'[c].reached >= run[c].reached

\* Then what is public stays verified,
LEMMA PublishedKept ==
    ASSUME TypeOK, PublishedInv, Same, RunsGoOn, TypeOK'
    PROVE  PublishedInv'
<1>1. /\ released \subseteq Versions \X Runs
      /\ \A c \in Runs : /\ run[c].version \in Versions
                         /\ run[c].reached \in 0 .. 4 /\ run'[c].reached \in 0 .. 4
    BY DEF TypeOK, Run
<1>2. ASSUME NEW i \in Public, NEW c \in Runs, Published(i, c), <<run[c].version, c>> \in released
      PROVE  Published(i, c)' /\ <<run[c].version, c>>' \in released'
    <2>1. run[c].reached >= 1
        BY <1>1, <1>2 DEF PublishedInv
    <2>2. run'[c].version = run[c].version /\ run'[c].commit = run[c].commit
        BY <2>1 DEF RunsGoOn
    <2>3. releases'[i] = releases[i] /\ tags' = tags /\ released' = released
        BY DEF Same
    <2>4. QED BY <1>2, <2>2, <2>3 DEF Published, Settled, VerifiedAs
<1>3. \A i \in Public' : \E c \in Runs : Published(i, c)' /\ <<run[c].version, c>>' \in released'
    BY <1>2 DEF PublishedInv, Same
<1>4. ASSUME NEW v \in Versions, NEW c \in Runs, <<v, c>> \in released'
      PROVE  run'[c].version = v /\ run'[c].reached >= 1 /\ \E i \in Public' : Published(i, c)'
    <2>1. run[c].version = v /\ run[c].reached >= 1 /\ <<v, c>> \in released
        BY <1>4 DEF PublishedInv, Same
    <2>2. PICK i \in Public : Published(i, c)
        BY <2>1 DEF PublishedInv
    <2>3. run'[c].version = v /\ run'[c].reached >= 1
        BY <1>1, <2>1 DEF RunsGoOn
    <2>4. Published(i, c)'
        BY <1>2, <2>1, <2>2
    <2>5. QED BY <2>2, <2>3, <2>4 DEF Same
<1>5. QED BY <1>3, <1>4 DEF PublishedInv

\* and what a run sees stays as it was.
LEMMA ClearKept ==
    ASSUME Same, NEW r \in Runs,
           run'[r].version = run[r].version, run'[r].registry = run[r].registry
    PROVE  /\ Eligible(run[r]) => Eligible(run[r])'
           /\ Clear(run[r]) => Clear(run[r])'
<1>1. Eligible(run[r]) => Eligible(run[r])'
    BY DEF Same, Eligible, Listed, Retired
<1>2. Others(run[r])' = Others(run[r])
    BY DEF Same, Others, Retired
<1>3. QED BY <1>1, <1>2 DEF Same, Clear, Listed, Retired

\* nor does the room it composed change,
LEMMA SiteKept ==
    ASSUME Same, NEW r \in Runs, run'[r].room = run[r].room,
           run'[r].version = run[r].version, run'[r].registry = run[r].registry,
           IsSite(run[r].room, run[r].registry, run[r].version)
    PROVE  IsSite(run[r].room, run[r].registry, run[r].version)'
<1> DEFINE site == run[r].room
           registry == run[r].registry
           version == run[r].version
<1>1. Candidates(version)' = Candidates(version) /\ Candidates(version) \subseteq Public
    BY DEF Same, Candidates
<1>2. \A i \in Candidates(version) : releases'[i] = releases[i] /\ AsComposed(i)' = AsComposed(i)
    BY <1>1 DEF Same, AsComposed
<1>3. QED BY <1>1, <1>2 DEF IsSite, Retired

\* So a standing run stays clear while nothing becomes public and nothing is deployed.
LEMMA StandingKept ==
    ASSUME TypeOK, PublishedInv, StandingInv, Same, RunsGoOn,
           \A c \in Runs : Standing(c) =>
             /\ run'[c].reached >= 3 => IsSite(run'[c].record, run[c].registry, None)
             /\ run'[c].reached = 4 => Shows(run'[c].record)
    PROVE  StandingInv'
<1> SUFFICES ASSUME NEW c \in Runs, Standing(c)'
             PROVE  /\ Clear(run[c])'
                    /\ run'[c].reached >= 3 => IsSite(run[c].record, run[c].registry, None)'
                    /\ run'[c].reached = 4 => Shows(run[c].record)'
    BY DEF StandingInv
<1>1. run[c].reached >= 1 /\ <<run'[c].version, c>> \in released /\ run[c].version \in Versions
    <2>1. <<run'[c].version, c>> \in released /\ released \subseteq Versions \X Runs
        BY DEF Standing, Same, TypeOK
    <2>2. QED BY <2>1 DEF PublishedInv, TypeOK, Run
<1>2. run'[c].version = run[c].version /\ run'[c].registry = run[c].registry
    BY <1>1 DEF RunsGoOn
<1>3. Standing(c)
    BY <1>1, <1>2 DEF Standing, Same
<1>4. Clear(run[c])'
    BY <1>2, <1>3, ClearKept DEF StandingInv
<1>5. ASSUME run'[c].reached >= 3 PROVE IsSite(run[c].record, run[c].registry, None)'
    <2>1. IsSite(run'[c].record, run[c].registry, None)
        BY <1>3, <1>5
    <2> DEFINE site == run'[c].record
               registry == run[c].registry
    <2>2. IsSite(site, registry, None)
        BY <2>1
    <2>3. /\ \A v \in Versions : site[v] # None =>
               v \notin Retired(registry) /\ \E i \in Candidates(None) : releases[i].version = v
          /\ \A i \in Candidates(None) :
               releases[i].version \notin Retired(registry) => site[releases[i].version] = AsComposed(i)
        BY <2>2 DEF IsSite
    <2>4. Candidates(None)' = Candidates(None) /\ Candidates(None) \subseteq Public
        BY DEF Same, Candidates
    <2>5. \A i \in Candidates(None) : releases'[i] = releases[i] /\ AsComposed(i)' = AsComposed(i)
        BY <2>4 DEF Same, AsComposed
    <2>6. QED BY <1>2, <2>3, <2>4, <2>5 DEF IsSite, Retired
<1>6. ASSUME run'[c].reached = 4 PROVE Shows(run[c].record)'
    BY <1>3, <1>6 DEF Shows, Same
<1>7. QED BY <1>4, <1>5, <1>6

-----------------------------------------------------------------------------
(* What the gates find. *)

\* What releases are made of.
LEMMA GoodFacts ==
    ASSUME TypeOK, PublishedInv
    PROVE  /\ \A i \in Public : /\ i \in Existing /\ i \in ReleaseIds /\ releases[i] \in Release
                               /\ releases[i].version \in Versions /\ releases[i].assets[Sums] \in Runs
                               /\ Settled(releases[i]) /\ (\E c \in Runs : VerifiedAs(releases[i], c))
                               /\ AsComposed(i) \in Composed /\ AsComposed(i) # None
           /\ \A r \in Runs : run[r] \in Run /\ run[r].version \in Versions /\ run[r].version # None
<1>1. \A r \in Runs : run[r] \in Run /\ run[r].version \in Versions /\ run[r].commit \in Commits
    BY DEF TypeOK, Run
<1>2. ASSUME NEW i \in Public
      PROVE  /\ i \in Existing /\ i \in ReleaseIds /\ releases[i] \in Release
             /\ releases[i].version \in Versions /\ releases[i].assets[Sums] \in Runs
             /\ Settled(releases[i]) /\ (\E c \in Runs : VerifiedAs(releases[i], c))
             /\ AsComposed(i) \in Composed
    <2>1. PICK c \in Runs : Published(i, c)
        BY DEF PublishedInv
    <2>2. i \in Existing /\ i \in ReleaseIds /\ releases[i] \in Release
        BY DEF Public, Existing, TypeOK
    <2>3. releases[i].version \in Versions
        BY <2>2 DEF Release
    <2>4. releases[i].assets[Sums] = c /\ tags[releases[i].version] \in Commits
        BY <1>1, <2>1, PublicationConstants DEF Published, VerifiedAs
    <2>5. QED BY <2>1, <2>2, <2>3, <2>4 DEF Published, AsComposed, Composed
<1>3. None \notin Composed /\ None \notin Versions
    BY PublicationConstants DEF Composed
<1>4. QED BY <1>1, <1>2, <1>3

\* Compose returns the site of the candidates.
LEMMA SiteIs ==
    ASSUME TypeOK, PublishedInv, IssueInv, NEW registry, NEW pending
    PROVE  IsSite(Compose(registry, pending), registry, pending)
<1> DEFINE c == Compose(registry, pending)
           At1(v) == {i \in Candidates(pending) : releases[i].version = v}
<1>1. ASSUME NEW v \in Versions
      PROVE  c[v] = IF At1(v) = {} \/ v \in Retired(registry) THEN None
                    ELSE LET i == CHOOSE i \in At1(v) : TRUE
                         IN [content |-> releases[i].assets[Sums], id |-> i, commit |-> tags[v]]
    BY DEF Compose
<1>2. ASSUME NEW v \in Versions, c[v] # None
      PROVE  v \notin Retired(registry) /\ \E i \in Candidates(pending) : releases[i].version = v
    BY <1>1, <1>2
<1>3. ASSUME NEW i \in Candidates(pending), releases[i].version \notin Retired(registry)
      PROVE  c[releases[i].version] = AsComposed(i)
    <2> DEFINE v == releases[i].version
               j == CHOOSE j \in At1(v) : TRUE
    <2>1. i \in Public /\ v \in Versions /\ i \in At1(v)
        BY GoodFacts DEF Candidates
    <2>2. j \in At1(v)
        BY <2>1
    <2>3. j = i
        BY <2>1, <2>2 DEF IssueInv, OneEach, Candidates, Public
    <2>4. c[v] = [content |-> releases[j].assets[Sums], id |-> j, commit |-> tags[v]]
        BY <1>1, <1>3, <2>1
    <2> HIDE DEF j, c
    <2>5. QED BY <2>3, <2>4 DEF AsComposed
<1> HIDE DEF c
<1>4. IsSite(c, registry, pending)
    BY <1>2, <1>3 DEF IsSite
<1>5. QED BY <1>4 DEF c

\* A run is eligible when compose_releases passes for it.
LEMMA EligibleIs ==
    ASSUME TypeOK, PublishedInv, NEW r \in Runs
    PROVE  Eligible(run[r]) <=> /\ run[r].version \notin Listed(run[r].registry)
                                /\ ComposePasses(run[r].registry, run[r].version)
<1> DEFINE v == run[r].version
           registry == run[r].registry
<1>1. Candidates(v) = {i \in Public : releases[i].version # v} /\ v # None
    BY GoodFacts DEF Candidates
<1>2. ASSUME Eligible(run[r]) PROVE v \notin Listed(registry) /\ ComposePasses(registry, v)
    <2>1. \A w \in Listed(registry) : w # v
        BY <1>2 DEF Eligible
    <2> HIDE DEF v, registry
    <2>2. ASSUME NEW i \in Candidates(v)
          PROVE  /\ releases[i].version < v /\ Settled(releases[i])
                 /\ releases[i].version \in Retired(registry) =>
                        releases[i].assets[Sums] = registry.retired[releases[i].version]
                 /\ \E c \in Runs : VerifiedAs(releases[i], c)
        BY <1>1, <1>2, <2>2, GoodFacts DEF Eligible, v, registry
    <2>3. ASSUME NEW w \in Listed(registry)
          PROVE  \E i \in Candidates(v) :
                    /\ releases[i].version = w
                    /\ w \notin Retired(registry) => releases[i].assets[Sums] = registry.published[w]
        BY <1>1, <1>2, <2>1, <2>3 DEF Eligible, v, registry
    <2>4. v \notin Listed(registry)
        BY <1>2 DEF Eligible, v, registry
    <2>5. QED BY <2>2, <2>3, <2>4 DEF ComposePasses
<1>3. ASSUME v \notin Listed(registry), ComposePasses(registry, v) PROVE Eligible(run[r])
    BY <1>1, <1>3 DEF Eligible, ComposePasses
<1>4. QED BY <1>2, <1>3

\* With its own release public it passes for all of them.
LEMMA EligiblePasses ==
    ASSUME TypeOK, PublishedInv, NEW r \in Runs, Eligible(run[r])
    PROVE  ComposePasses(run[r].registry, None)
<1> DEFINE v == run[r].version
           registry == run[r].registry
<1>1. Candidates(None) = Public
    BY GoodFacts, PublicationConstants DEF Candidates
<1>2. v \notin Listed(registry) /\ Retired(registry) \subseteq Listed(registry)
    BY DEF Eligible, Listed
<1> HIDE DEF v, registry
<1>3. ASSUME NEW i \in Candidates(None)
      PROVE  /\ Settled(releases[i]) /\ \E c \in Runs : VerifiedAs(releases[i], c)
             /\ releases[i].version \in Retired(registry) =>
                    releases[i].assets[Sums] = registry.retired[releases[i].version]
    BY <1>1, <1>2, GoodFacts DEF Eligible, v, registry
<1>4. ASSUME NEW w \in Listed(registry)
      PROVE  \E i \in Candidates(None) :
                /\ releases[i].version = w
                /\ w \notin Retired(registry) => releases[i].assets[Sums] = registry.published[w]
    BY <1>1, <1>4 DEF Eligible, v, registry
<1>5. ComposePasses(registry, None)
    BY <1>3, <1>4 DEF ComposePasses
<1>6. QED BY <1>5 DEF registry

\* The site beside a run's own version.
LEMMA SiteServes ==
    ASSUME TypeOK, PublishedInv, NEW r \in Runs, NEW site,
           IsSite(site, run[r].registry, run[r].version)
    PROVE  /\ Serves(site) = Others(run[r])
           /\ \A i \in Public : releases[i].version \in Others(run[r]) =>
                site[releases[i].version].content = releases[i].assets[Sums]
<1> DEFINE v == run[r].version
           registry == run[r].registry
<1>1. Candidates(v) = {i \in Public : releases[i].version # v}
    BY DEF Candidates
<1>2. ASSUME NEW i \in Public, releases[i].version \in Others(run[r])
      PROVE  site[releases[i].version] = AsComposed(i) /\ AsComposed(i) # None
    <2>1. i \in Candidates(v) /\ releases[i].version \notin Retired(registry)
        BY <1>1, <1>2 DEF Others
    <2>2. QED BY <2>1, GoodFacts DEF IsSite
<1>3. ASSUME NEW w \in Others(run[r]) PROVE w \in Serves(site)
    <2>1. w \in Versions /\ \E i \in Public : releases[i].version = w
        BY DEF Others
    <2>2. QED BY <1>2, <2>1 DEF Serves
<1>4. ASSUME NEW w \in Serves(site) PROVE w \in Others(run[r])
    <2>1. w \in Versions /\ site[w] # None
        BY DEF Serves
    <2>2. w \notin Retired(registry) /\ \E i \in Candidates(v) : releases[i].version = w
        BY <2>1 DEF IsSite
    <2>3. QED BY <1>1, <2>1, <2>2 DEF Others
<1>5. Serves(site) = Others(run[r])
    BY <1>3, <1>4
<1>6. ASSUME NEW i \in Public, releases[i].version \in Others(run[r])
      PROVE  site[releases[i].version].content = releases[i].assets[Sums]
    <2>1. site[releases[i].version] = AsComposed(i)
        BY <1>2, <1>6
    <2>2. AsComposed(i).content = releases[i].assets[Sums]
        BY DEF AsComposed
    <2>3. QED BY <2>1, <2>2
<1>7. QED BY <1>5, <1>6

\* check_pages_room passes exactly for a run that is clear.
LEMMA ClearIs ==
    ASSUME TypeOK, PublishedInv, NEW r \in Runs, NEW site,
           Eligible(run[r]), IsSite(site, run[r].registry, run[r].version)
    PROVE  Clear(run[r]) <=> /\ Recorded(run[r].registry, run[r].version)
                             /\ LiveSums(site, None) /\ Fits(site, Size[run[r].version])
<1>1. /\ Serves(site) = Others(run[r])
      /\ \A i \in Public : releases[i].version \in Others(run[r]) =>
                site[releases[i].version].content = releases[i].assets[Sums]
      /\ \A w \in Others(run[r]) : w \in Versions /\ w # None /\ \E i \in Public : releases[i].version = w
    BY SiteServes, PublicationConstants DEF Others
<1>2. Bytes(site) = SizeOf(Others(run[r]))
    BY <1>1 DEF Bytes, SizeOf
<1>3. LiveSums(site, None) <=> \A i \in Public : releases[i].version \in Others(run[r]) =>
                                live[releases[i].version] = releases[i].assets[Sums]
    BY <1>1 DEF LiveSums
<1>4. QED BY <1>2, <1>3 DEF Clear, Recorded, Fits

\* So it passes for a clear run.
LEMMA RoomIs ==
    ASSUME TypeOK, PublishedInv, IssueInv, NEW r \in Runs, Clear(run[r])
    PROVE  PagesRoom(run[r].version, run[r].registry, Size[run[r].version])
<1>1. IsSite(Compose(run[r].registry, run[r].version), run[r].registry, run[r].version)
    BY SiteIs
<1>2. Eligible(run[r])
    BY DEF Clear
<1>3. QED BY <1>1, <1>2, EligibleIs, ClearIs DEF PagesRoom

-----------------------------------------------------------------------------
(* How a run goes on. *)

\* A run goes on to a step with all it has, or is over.
Bound(r) == Moves(r) /\ run'[r].commit = run[r].commit /\ active \in {r, None}
Gone(r, next) ==
    /\ Bound(r) /\ active = r /\ active' = r /\ run'[r].pc = next
    /\ run'[r].reached = run[r].reached /\ run'[r].record = run[r].record
    /\ run'[r].served = run[r].served /\ run'[r].room = run[r].room
    /\ run'[r].release = run[r].release
Over(r, how) ==
    /\ Bound(r) /\ active' = None /\ run'[r].pc = how
    /\ run'[r].reached = run[r].reached /\ run'[r].record = run[r].record

\* Goto is the one, End the other.
LEMMA Goes ==
    ASSUME TypeOK, main' = main, NEW r \in Runs, NEW next, active = r, Goto(r, next)
    PROVE  Gone(r, next)
<1>1. run \in [Runs -> Run] /\ run[r] \in Run
    BY DEF TypeOK
<1>2. /\ run' = [run EXCEPT ![r] = run'[r]] /\ active' = r
      /\ run'[r] = [run[r] EXCEPT !.pc = next]
    BY <1>1 DEF Goto
<1>3. QED BY <1>1, <1>2 DEF Run, Gone, Bound, Moves

\* The job ends and keeps the run's record.
LEMMA IsOver ==
    ASSUME TypeOK, main' = main, NEW r \in Runs, NEW how, active \in {r, None}, End(r, how)
    PROVE  Over(r, how)
<1>1. run \in [Runs -> Run] /\ run[r] \in Run
    BY DEF TypeOK
<1>2. /\ run' = [run EXCEPT ![r] = run'[r]] /\ active' = None
      /\ run'[r] = [run[r] EXCEPT !.pc = how, !.served = None, !.room = None,
                                  !.release = None, !.todo = {}]
    BY <1>1 DEF End
<1>3. QED BY <1>1, <1>2 DEF Run, Over, Bound, Moves

\* What a step leaves to be shown that makes nothing public and deploys nothing.
LEMMA HandsKept ==
    ASSUME Good, TypeOK', NEW r \in Runs, Bound(r), Same, immutableOn' = immutableOn, FreshIds',
           run'[r].reached >= run[r].reached, Staged(r)',
           active' = r => Seen(run[r])' /\ Ready(r)',
           Standing(r) =>
             /\ run'[r].reached >= 3 => IsSite(run'[r].record, run[r].registry, None)
             /\ run'[r].reached = 4 => Shows(run'[r].record)
    PROVE  HandsOff'
<1>1. /\ TypeOK /\ PublishedInv /\ StandingInv /\ StagedInv /\ immutableOn
      /\ None \notin Runs /\ \A c \in Runs \ {r} : run'[c] = run[c]
      /\ \A c \in Runs : run[c].reached \in Nat
    BY PublicationConstants DEF Good, HandsOff, Calm, IInv, Bound, Moves, TypeOK, Run
<1>2. RunsGoOn
    BY <1>1 DEF RunsGoOn, Bound, Moves
<1>3. PublishedInv'
    BY <1>1, <1>2, PublishedKept
<1>4. ASSUME NEW c \in Runs, Standing(c)
      PROVE  /\ run'[c].reached >= 3 => IsSite(run'[c].record, run[c].registry, None)
             /\ run'[c].reached = 4 => Shows(run'[c].record)
    BY <1>1, <1>4 DEF StandingInv
<1>5. StandingInv'
    BY <1>1, <1>2, <1>4, StandingKept
<1>6. SeenInv'
    BY <1>1 DEF SeenInv, Bound, Moves
<1>7. StagedInv'
    <2>1. ASSUME NEW c \in Runs, c # r PROVE Staged(c)'
        <3>1. run'[c] = run[c] /\ active # c /\ active' # c /\ released' = released
            BY <1>1, <2>1 DEF Bound, Moves, Same
        <3>2. QED BY <1>1, <3>1 DEF StagedInv, Staged
    <2>2. QED BY <2>1 DEF StagedInv
<1>8. QED BY <1>1, <1>3, <1>5, <1>6, <1>7 DEF HandsOff

\* A run that is over leaves nothing but its record.
LEMMA OverKept ==
    ASSUME Good, TypeOK', NEW r \in Runs, NEW how, Over(r, how), Same, immutableOn' = immutableOn,
           FreshIds', how = "stopped" \/ (how = "succeeded" /\ run[r].reached = 4)
    PROVE  HandsOff'
<1>1. StagedInv /\ StandingInv /\ None \notin Runs /\ run[r].reached \in Nat
    BY PublicationConstants DEF Good, HandsOff, Calm, IInv, TypeOK, Run
<1>2. Staged(r)'
    BY <1>1 DEF Over, Bound, Moves, StagedInv, Staged, Steps, Same
<1>3. active' # r /\ run'[r].reached >= run[r].reached /\ Bound(r)
    BY <1>1 DEF Over
<1>4. Standing(r) =>
        /\ run'[r].reached >= 3 => IsSite(run'[r].record, run[r].registry, None)
        /\ run'[r].reached = 4 => Shows(run'[r].record)
    BY <1>1 DEF Over, StandingInv
<1>5. QED BY <1>2, <1>3, <1>4, HandsKept

\* A run that goes on to another step of its job.
LEMMA GoneKept ==
    ASSUME Good, TypeOK', NEW r \in Runs, NEW next \in Steps, Gone(r, next), Same,
           immutableOn' = immutableOn, FreshIds', Seen(run[r])', Ready(r)',
           next \in {"build", "check", "deploy", "verify"} => next = "deploy" /\ run[r].pc = "check"
    PROVE  HandsOff'
<1>1. StagedInv /\ StandingInv /\ None \notin Runs /\ run[r].reached \in Nat
    BY PublicationConstants DEF Good, HandsOff, Calm, IInv, TypeOK, Run
<1>2. Staged(r)'
    BY <1>1 DEF Gone, Bound, Moves, StagedInv, Staged, Steps, Same
<1>3. run'[r].reached >= run[r].reached /\ Bound(r)
    BY <1>1 DEF Gone
<1>4. Standing(r) =>
        /\ run'[r].reached >= 3 => IsSite(run'[r].record, run[r].registry, None)
        /\ run'[r].reached = 4 => Shows(run'[r].record)
    BY <1>1 DEF Gone, StandingInv
<1>5. QED BY <1>2, <1>3, <1>4, HandsKept

\* It has seen what it saw.
LEMMA SeenKept ==
    ASSUME Same, NEW r \in Runs, Bound(r), run'[r].room = run[r].room,
           run'[r].pc \in {"compose", "room", "resnapshot"} =>
               /\ UNCHANGED releases
               /\ run'[r].served = run[r].served /\ run[r].served = ServedState(run[r].version),
           run'[r].pc \in RoomSteps =>
               Eligible(run[r]) /\ IsSite(run[r].room, run[r].registry, run[r].version),
           run'[r].pc \in CountedSteps => Clear(run[r])
    PROVE  Seen(run[r])'
<1>1. run'[r].version = run[r].version /\ run'[r].registry = run[r].registry
    BY DEF Bound, Moves
<1>2. run'[r].pc \in RoomSteps =>
          Eligible(run[r])' /\ IsSite(run[r].room, run[r].registry, run[r].version)'
    BY <1>1, ClearKept, SiteKept
<1>3. run'[r].pc \in CountedSteps => Clear(run[r])'
    BY <1>1, ClearKept
<1>4. run'[r].pc \in {"compose", "room", "resnapshot"} =>
          (run[r].served = ServedState(run[r].version))'
    BY <1>1 DEF Same, ServedState, Candidates
<1>5. QED BY <1>2, <1>3, <1>4 DEF Seen

-----------------------------------------------------------------------------
(* The steps, one by one. *)

\* A step that reads.
LEMMA Still ==
    ASSUME Good, UNCHANGED <<github, live, released, immutableOn>>
    PROVE  Same /\ FreshIds' /\ UNCHANGED <<releases, tags, immutableOn>>
<1>1. UNCHANGED <<releases, nextId, tags, live, released, immutableOn>> /\ FreshIds
    BY DEF github, Good, HandsOff
<1>2. Existing' = Existing /\ Public' = Public
    BY <1>1 DEF Existing, Public
<1>3. QED BY <1>1, <1>2 DEF Same, FreshIds

\* What every step below needs.
LEMMA GoodHas ==
    ASSUME Good
    PROVE  /\ TypeOK /\ IInv /\ IssueInv /\ PublishedInv /\ StagedInv /\ SeenInv /\ StandingInv /\ FreshIds
           /\ immutableOn /\ None \notin Runs /\ run \in [Runs -> Run]
           /\ \A r \in Runs : run[r] \in Run /\ run[r].reached \in 0 .. 4 /\ run[r].version # None
           /\ \A r \in Runs : active = r => Seen(run[r]) /\ Ready(r)
<1>1. TypeOK /\ PublishedInv
    BY DEF Good, Calm, IInv, HandsOff
<1>2. \A r \in Runs : run[r] \in Run /\ run[r].reached \in 0 .. 4 /\ run[r].version # None
    BY <1>1, GoodFacts DEF Run
<1>3. QED BY <1>1, <1>2, PublicationConstants DEF Good, Calm, HandsOff, SeenInv, TypeOK

\* A refusal and a failure.
LEMMA RefuseHands ==
    ASSUME Good, TypeOK', main' = main, NEW r \in Runs, active \in {r, None}, Refuse(r),
           Same, FreshIds', immutableOn' = immutableOn
    PROVE  HandsOff'
BY GoodHas, IsOver, OverKept DEF Refuse

\* A gate that passes.
LEMMA PassHands ==
    ASSUME Good, TypeOK', main' = main, NEW r \in Runs, NEW step, NEW next \in Steps,
           At(r, step), Goto(r, next), UNCHANGED <<github, live, released, immutableOn>>,
           \/ step = "classify" /\ next = "snapshot"
           \/ step = "room" /\ next = "resnapshot" /\ Clear(run[r])
           \/ step = "resnapshot" /\ next = "state"
           \/ step = "state" /\ next = "create"
           \/ step = "upload" /\ next = "readback"
           \/ step = "readback" /\ next = "draft"
           \/ /\ step = "draft" /\ next = "served"
              /\ Carries(run[r].release, r) /\ tags[run[r].version] \in {None, run[r].commit}
           \/ step = "served" /\ next = "sums"
           \/ step = "sums" /\ next = "undraft"
           \/ step = "check" /\ next = "deploy"
    PROVE  HandsOff'
<1>1. Same /\ FreshIds' /\ UNCHANGED <<releases, tags, immutableOn>>
    BY Still
<1>2. Gone(r, next) /\ run[r].pc = step /\ Seen(run[r]) /\ Ready(r)
    BY GoodHas, Goes DEF At
<1>3. Bound(r) /\ run'[r].room = run[r].room /\ run'[r].pc = next /\ run'[r].served = run[r].served
      /\ run'[r].version = run[r].version /\ run'[r].commit = run[r].commit
      /\ run'[r].release = run[r].release
    BY <1>2 DEF Gone, Bound, Moves
<1>4. Seen(run[r])'
    <2>1. next \in {"compose", "room", "resnapshot"} => run[r].served = ServedState(run[r].version)
        BY <1>2 DEF Seen
    <2>2. next \in RoomSteps =>
              Eligible(run[r]) /\ IsSite(run[r].room, run[r].registry, run[r].version)
        BY <1>2 DEF Seen, RoomSteps, DraftSteps
    <2>3. next \in CountedSteps => Clear(run[r])
        BY <1>2 DEF Seen, CountedSteps, RoomSteps, DraftSteps
    <2>4. QED BY <1>1, <1>3, <2>1, <2>2, <2>3, SeenKept
<1>5. Ready(r)'
    <2>1. Existing' = Existing /\ (Carries(run[r].release, r) => Carries(run[r].release, r)')
        BY <1>1, <1>3 DEF Existing, Carries
    <2>2. QED BY <1>1, <1>2, <1>3, <2>1 DEF Ready, DraftSteps
<1>6. QED BY <1>1, <1>2, <1>4, <1>5, GoneKept

\* The gates.
LEMMA GateHands ==
    ASSUME Good, TypeOK', NEW r \in Runs,
           \/ Classify(r) \/ CheckRoom(r) \/ Resnapshot(r) \/ Uploaded(r) \/ Readback(r)
           \/ CheckDraft(r) \/ StillServed(r) \/ StillLive(r) \/ CheckDeploy(r)
    PROVE  HandsOff'
<1> USE DEF Gate
<1>1. /\ main' = main /\ UNCHANGED <<github, live, released, immutableOn>> /\ active = r
    BY DEF Classify, CheckRoom, Resnapshot, Uploaded, Readback, CheckDraft, StillServed, StillLive,
           CheckDeploy, settings, history, At
<1>2. CASE Refuse(r)
    BY <1>1, <1>2, Still, RefuseHands
<1>3. CASE CheckRoom(r) /\ ~Refuse(r)
    <2>1. /\ At(r, "room") /\ Goto(r, "resnapshot") /\ Recorded(run[r].registry, run[r].version)
          /\ LiveSums(run[r].room, None) /\ Fits(run[r].room, Size[run[r].version])
        BY <1>3 DEF CheckRoom
    <2>2. Eligible(run[r]) /\ IsSite(run[r].room, run[r].registry, run[r].version)
        BY <1>1, <2>1, GoodHas DEF Seen, At, RoomSteps
    <2>3. Clear(run[r])
        BY <2>1, <2>2, GoodHas, ClearIs
    <2>4. QED BY <1>1, <2>1, <2>3, PassHands DEF Steps
<1>4. CASE CheckDraft(r) /\ ~Refuse(r)
    <2>1. /\ At(r, "draft") /\ Goto(r, "served") /\ Carries(run[r].release, r)
          /\ tags[run[r].version] \in {None, run[r].commit}
        BY <1>4 DEF CheckDraft
    <2>2. QED BY <1>1, <2>1, PassHands DEF Steps
<1>5. CASE Classify(r) /\ ~Refuse(r)
    BY <1>1, <1>5, PassHands DEF Classify, Steps
<1>6. CASE Resnapshot(r) /\ ~Refuse(r)
    BY <1>1, <1>6, PassHands DEF Resnapshot, Steps
<1>7. CASE Uploaded(r) /\ ~Refuse(r)
    BY <1>1, <1>7, PassHands DEF Uploaded, Steps
<1>8. CASE Readback(r) /\ ~Refuse(r)
    BY <1>1, <1>8, PassHands DEF Readback, Steps
<1>9. CASE StillServed(r) /\ ~Refuse(r)
    BY <1>1, <1>9, PassHands DEF StillServed, Steps
<1>10. CASE StillLive(r) /\ ~Refuse(r)
    BY <1>1, <1>10, PassHands DEF StillLive, Steps
<1>11. CASE CheckDeploy(r) /\ ~Refuse(r)
    BY <1>1, <1>11, PassHands DEF CheckDeploy, Steps
<1>12. QED BY <1>2, <1>3, <1>4, <1>5, <1>6, <1>7, <1>8, <1>9, <1>10, <1>11

\* What the run reads, it keeps as read.
LEMMA ReadHands ==
    ASSUME Good, TypeOK', NEW r \in Runs, TakeSnapshot(r) \/ ComposeRoom(r)
    PROVE  HandsOff'
<1>1. /\ main' = main /\ UNCHANGED <<github, live, released, immutableOn>> /\ active = r
    BY DEF TakeSnapshot, ComposeRoom, settings, history, At
<1>2. Same /\ FreshIds' /\ UNCHANGED <<releases, tags, immutableOn>>
    BY <1>1, Still
<1>3. CASE Refuse(r)
    BY <1>1, <1>2, <1>3, RefuseHands
<1>4. CASE TakeSnapshot(r)
    <2>1. run'[r] = [run[r] EXCEPT !.pc = "compose", !.served = ServedState(run[r].version)]
          /\ run' = [run EXCEPT ![r] = run'[r]] /\ active' = r /\ run[r].pc = "snapshot"
        BY <1>1, <1>4, GoodHas DEF TakeSnapshot, At
    <2>2. Bound(r) /\ run'[r].reached = run[r].reached /\ run'[r].record = run[r].record
          /\ run'[r].pc = "compose" /\ run'[r].served = ServedState(run[r].version)
        BY <1>1, <2>1, GoodHas DEF Bound, Moves, Run
    <2>3. Seen(run[r])'
        <3>1. (run[r].served = ServedState(run[r].version))'
            BY <1>2, <2>2 DEF ServedState, Candidates, Same, Bound, Moves
        <3>2. QED BY <2>2, <3>1 DEF Seen, CountedSteps, RoomSteps, DraftSteps
    <2>4. Ready(r)'
        BY <2>2 DEF Ready, DraftSteps
    <2>5. Staged(r)'
        BY <1>1, <1>2, <2>1, <2>2, GoodHas DEF StagedInv, Staged, Steps, Bound, Moves, Same
    <2>6. QED BY <1>2, <2>2, <2>3, <2>4, <2>5, GoodHas, HandsKept DEF StandingInv
<1>5. CASE ComposeRoom(r) /\ ~Refuse(r)
    <2> DEFINE site == Compose(run[r].registry, run[r].version)
    <2>1. run'[r] = [run[r] EXCEPT !.pc = "room", !.room = site]
          /\ run' = [run EXCEPT ![r] = run'[r]] /\ active' = r /\ run[r].pc = "compose"
          /\ run[r].version \notin Listed(run[r].registry)
          /\ ComposePasses(run[r].registry, run[r].version)
        BY <1>1, <1>5, GoodHas DEF ComposeRoom, At
    <2>2. IsSite(site, run[r].registry, run[r].version) /\ Eligible(run[r])
        BY <2>1, GoodHas, SiteIs, EligibleIs
    <2> HIDE DEF site
    <2>3. Bound(r) /\ run'[r].reached = run[r].reached /\ run'[r].record = run[r].record
          /\ run'[r].pc = "room" /\ run'[r].served = run[r].served /\ run'[r].room = site
          /\ run'[r].version = run[r].version /\ run'[r].registry = run[r].registry
        BY <1>1, <2>1, GoodHas DEF Bound, Moves, Run
    <2>4. Seen(run[r])'
        <3>1. (run[r].served = ServedState(run[r].version))'
            <4>1. run[r].served = ServedState(run[r].version)
                BY <1>1, <2>1, GoodHas DEF Seen
            <4>2. QED BY <1>2, <2>3, <4>1 DEF ServedState, Candidates, Same
        <3>2. Eligible(run[r])'
            BY <1>2, <2>2, <2>3, ClearKept
        <3>3. IsSite(run[r].room, run[r].registry, run[r].version)'
            BY <1>2, <2>2, <2>3 DEF IsSite, Same, Candidates, AsComposed, Retired
        <3>4. QED BY <2>3, <3>1, <3>2, <3>3 DEF Seen, CountedSteps
    <2>5. Ready(r)'
        BY <2>3 DEF Ready, DraftSteps
    <2>6. Staged(r)'
        BY <1>1, <1>2, <2>1, <2>3, GoodHas DEF StagedInv, Staged, Steps, Bound, Moves, Same
    <2>7. QED BY <1>2, <2>3, <2>4, <2>5, <2>6, GoodHas, HandsKept DEF StandingInv
<1>6. QED BY <1>3, <1>4, <1>5

\* publish_state: the run resumes with its draft or with its public release, which is all its own.
LEMMA ReadStateHands ==
    ASSUME Good, TypeOK', NEW r \in Runs, ReadState(r)
    PROVE  HandsOff'
<1>1. /\ main' = main /\ UNCHANGED <<github, live, released, immutableOn>> /\ active = r
      /\ At(r, "state")
    BY DEF ReadState, settings, history, At
<1>2. Same /\ FreshIds' /\ UNCHANGED <<releases, tags, immutableOn>>
    BY <1>1, Still
<1>3. CASE Refuse(r)
    BY <1>1, <1>2, <1>3, RefuseHands
<1>4. CASE Goto(r, "create")
    BY <1>1, <1>4, PassHands DEF Steps
<1>5. ASSUME NEW i \in Existing, NEW todo \in SUBSET Assets, NEW next \in {"update", "final"},
             active' = active,
             run' = [run EXCEPT ![r] = [run[r] EXCEPT !.pc = next, !.release = i, !.todo = todo]],
             next = "final" => PublishedResume(r, i)
      PROVE  HandsOff'
    <2>1. /\ run' = [run EXCEPT ![r] = run'[r]]
          /\ run'[r] = [run[r] EXCEPT !.pc = next, !.release = i, !.todo = todo]
        BY <1>5, GoodHas
    <2>2. /\ Bound(r) /\ run'[r].reached = run[r].reached /\ run'[r].record = run[r].record
          /\ run'[r].pc = next /\ run'[r].room = run[r].room /\ run'[r].release = i
          /\ run'[r].version = run[r].version /\ run'[r].commit = run[r].commit
          /\ active' = r /\ run[r].pc = "state"
        BY <1>1, <1>5, <2>1, GoodHas DEF Bound, Moves, Run, At
    <2>3. Seen(run[r])'
        <3>1. Clear(run[r]) /\ Eligible(run[r]) /\ IsSite(run[r].room, run[r].registry, run[r].version)
            BY <1>1, <2>2, GoodHas DEF Seen, CountedSteps, RoomSteps
        <3>2. QED BY <1>2, <2>2, <3>1, SeenKept
    <2>4. ASSUME next = "final" PROVE i \in Public /\ Published(i, r)
        <3>1. /\ releases[i].version = run[r].version /\ Settled(releases[i]) /\ Carries(i, r)
              /\ tags[run[r].version] = run[r].commit /\ i \in Public
            BY <1>5, <2>4 DEF PublishedResume, Tagged, Settled, Public
        <3>2. PICK c \in Runs : Published(i, c)
            BY <3>1, GoodHas DEF PublishedInv
        <3>3. c = r
            BY <3>1, <3>2, PublicationConstants DEF Published, VerifiedAs, Carries
        <3>4. QED BY <3>1, <3>2, <3>3
    <2>5. Ready(r)'
        <3>1. next = "final" => i \in Public' /\ Published(i, r)'
            BY <1>2, <2>2, <2>4 DEF Same, Published, Settled, VerifiedAs
        <3>2. i \in Existing'
            BY <1>2 DEF Existing
        <3>3. QED BY <1>5, <2>2, <3>1, <3>2 DEF Ready
    <2>6. Staged(r)'
        BY <1>1, <1>2, <1>5, <2>2, GoodHas DEF StagedInv, Staged, Steps, Bound, Moves, Same
    <2>7. QED BY <1>2, <2>2, <2>3, <2>5, <2>6, GoodHas, HandsKept DEF StandingInv
<1>6. ASSUME NEW i \in Existing, active' = active,
             run' = [run EXCEPT ![r].pc = "update", ![r].release = i,
                                ![r].todo = {a \in Assets : releases[i].assets[a] = None}]
      PROVE  HandsOff'
    <2> DEFINE todo == {a \in Assets : releases[i].assets[a] = None}
    <2>1. run' = [run EXCEPT ![r] = [run[r] EXCEPT !.pc = "update", !.release = i, !.todo = todo]]
        BY <1>6, GoodHas
    <2>2. todo \in SUBSET Assets
        OBVIOUS
    <2> HIDE DEF todo
    <2>3. QED BY <1>5, <1>6, <2>1, <2>2
<1>7. ASSUME NEW i \in Existing, active' = active, PublishedResume(r, i),
             run' = [run EXCEPT ![r].pc = "final", ![r].release = i]
      PROVE  HandsOff'
    <2>1. run' = [run EXCEPT ![r] = [run[r] EXCEPT !.pc = "final", !.release = i, !.todo = run[r].todo]]
          /\ run[r].todo \in SUBSET Assets
        BY <1>7, GoodHas DEF Run
    <2>2. QED BY <1>5, <1>7, <2>1
<1>8. QED BY <1>3, <1>4, <1>6, <1>7 DEF ReadState

\* A step that touches a release nobody sees.
LEMMA DraftSame ==
    ASSUME Good, UNCHANGED <<tags, live, released>>, NEW i \in ReleaseIds, NEW x,
           releases' = [releases EXCEPT ![i] = x], x # None, x.draft, i \notin Public
    PROVE  Same /\ Existing' = Existing \cup {i}
<1>1. releases \in [ReleaseIds -> Release \cup {None}]
    BY GoodHas DEF TypeOK
<1>2. releases'[i] = x /\ \A j \in ReleaseIds \ {i} : releases'[j] = releases[j]
    BY <1>1
<1>3. Existing' = Existing \cup {i}
    BY <1>2 DEF Existing
<1>4. Public' = Public
    BY <1>2, <1>3 DEF Public, Existing
<1>5. \A j \in Public : releases'[j] = releases[j]
    BY <1>2 DEF Public, Existing
<1>6. QED BY <1>3, <1>4, <1>5 DEF Same

\* Then the run that touches it goes on as before.
LEMMA DraftHands ==
    ASSUME Good, TypeOK', NEW r \in Runs, Same, FreshIds', immutableOn' = immutableOn, main' = main,
           active = r, run[r].pc \in {"create", "update", "upload"}, Bound(r), active' = r,
           run'[r].pc \in {"update", "upload"}, run'[r].release \in Existing',
           run'[r].room = run[r].room, run'[r].reached = run[r].reached,
           run'[r].record = run[r].record
    PROVE  HandsOff'
<1>1. Seen(run[r])'
    <2>1. Clear(run[r]) /\ Eligible(run[r]) /\ IsSite(run[r].room, run[r].registry, run[r].version)
        BY GoodHas DEF Seen, CountedSteps, RoomSteps, DraftSteps
    <2>2. QED BY <2>1, SeenKept
<1>2. Ready(r)'
    BY DEF Ready
<1>3. Staged(r)'
    BY GoodHas DEF StagedInv, Staged, Steps, Bound, Moves, Same
<1>4. QED BY <1>1, <1>2, <1>3, GoodHas, HandsKept DEF StandingInv

\* The draft is created under a new number.
LEMMA CreateHands ==
    ASSUME Good, TypeOK', NEW r \in Runs, CreateDraft(r)
    PROVE  HandsOff'
<1> DEFINE draft == [version |-> run[r].version, draft |-> TRUE, prerelease |-> FALSE,
                     immutable |-> FALSE, target |-> run[r].commit,
                     assets |-> [a \in Assets |-> None], notes |-> r]
<1>1. /\ UNCHANGED <<main, immutableOn, tags, live, released>> /\ active = r /\ run[r].pc = "create"
      /\ nextId \in ReleaseIds /\ nextId' = nextId + 1 /\ releases' = [releases EXCEPT ![nextId] = draft]
    BY DEF CreateDraft, At, settings, history
<1>2. draft \in Release /\ draft.draft
    <2>1. run[r].version \in Versions /\ run[r].commit \in Commits /\ r \in MaybeRun
        BY GoodHas DEF Run, MaybeRun
    <2>2. QED BY <2>1 DEF Release, MaybeRun
<1>3. draft # None
    BY <1>2, PublicationConstants
<1> HIDE DEF draft
<1>4. nextId \notin Public /\ nextId \in Nat
    BY <1>1, GoodHas DEF FreshIds, Public, ReleaseIds
<1>5. Same /\ Existing' = Existing \cup {nextId}
    BY <1>1, <1>2, <1>3, <1>4, DraftSame
<1>6. FreshIds'
    BY <1>1, <1>4, <1>5, GoodHas DEF FreshIds, Existing, ReleaseIds
<1>7. CASE Refuse(r)
    BY <1>1, <1>5, <1>6, <1>7, RefuseHands
<1>8. CASE /\ run' = [run EXCEPT ![r].pc = "update", ![r].release = nextId, ![r].todo = Assets]
           /\ UNCHANGED active
    <2>1. /\ run' = [run EXCEPT ![r] = run'[r]]
          /\ run'[r] = [run[r] EXCEPT !.pc = "update", !.release = nextId, !.todo = Assets]
        BY <1>8, GoodHas
    <2>2. /\ Bound(r) /\ run'[r].reached = run[r].reached /\ run'[r].record = run[r].record
          /\ run'[r].pc = "update" /\ run'[r].room = run[r].room /\ run'[r].release = nextId /\ active' = r
        BY <1>1, <1>8, <2>1, GoodHas DEF Bound, Moves, Run
    <2>3. QED BY <1>1, <1>5, <1>6, <2>2, DraftHands
<1>9. QED BY <1>7, <1>8 DEF CreateDraft

\* The draft a run works on is there, and is a draft of its version.
LEMMA DraftThere ==
    ASSUME Good, NEW r \in Runs, active = r, run[r].pc \in DraftSteps
    PROVE  /\ run[r].release \in Existing /\ run[r].release \in ReleaseIds
           /\ releases[run[r].release].version = run[r].version
           /\ releases[run[r].release].draft /\ run[r].release \notin Public
<1>1. run[r].release \in Existing
    BY GoodHas DEF Ready
<1>2. releases[run[r].release].version = run[r].version
    BY <1>1 DEF Good, Calm, IInv, DraftInv
<1>3. releases[run[r].release].draft
    BY <1>1 DEF Good, Calm, LateInv, ReliedInv, Relied, DraftRelied
<1>4. QED BY <1>1, <1>2, <1>3 DEF Existing, Public

\* It is named again, and filled.
LEMMA FillHands ==
    ASSUME Good, TypeOK', NEW r \in Runs, UpdateDraft(r) \/ Upload(r)
    PROVE  HandsOff'
<1> DEFINE i == run[r].release
<1>1. /\ UNCHANGED <<main, immutableOn, tags, live, released, nextId>> /\ active = r
      /\ run[r].pc \in {"update", "upload"}
    BY DEF UpdateDraft, Upload, At, settings, history
<1>2. /\ i \in Existing /\ i \in ReleaseIds /\ releases[i].draft /\ i \notin Public
      /\ releases[i] \in Release
    <2>1. run[r].pc \in DraftSteps
        BY <1>1 DEF DraftSteps
    <2>2. QED BY <1>1, <2>1, DraftThere, GoodHas DEF TypeOK, Existing
<1>3. releases' = releases \/ \E x : x # None /\ x.draft /\ releases' = [releases EXCEPT ![i] = x]
    <2>1. CASE releases' = [releases EXCEPT ![i] = Renamed(r)]
        <3>1. Renamed(r) \in Release /\ Renamed(r).draft
            BY <1>2, GoodHas, RenamedIs
        <3>2. QED BY <2>1, <3>1, PublicationConstants
    <2>2. ASSUME NEW a \in Assets, releases' = [releases EXCEPT ![i].assets[a] = r]
          PROVE  \E x : x # None /\ x.draft /\ releases' = [releases EXCEPT ![i] = x]
        <3> DEFINE x == [releases[i] EXCEPT !.assets[a] = r]
        <3>1. x.draft /\ x \in Release
            BY <1>2, <2>2 DEF Release, MaybeRun
        <3>2. releases' = [releases EXCEPT ![i] = x]
            BY <2>2
        <3> HIDE DEF x
        <3>3. QED BY <3>1, <3>2, PublicationConstants
    <2>3. CASE releases' = releases
        BY <2>3
    <2>4. run[r].todo \subseteq Assets
        BY GoodHas DEF Run
    <2>5. QED BY <2>1, <2>2, <2>3, <2>4 DEF UpdateDraft, Upload
<1>4. Same /\ Existing' = Existing
    <2>1. CASE releases' = releases
        BY <1>1, <2>1 DEF Same, Existing, Public
    <2>2. CASE \E x : x # None /\ x.draft /\ releases' = [releases EXCEPT ![i] = x]
        <3>1. PICK x : x # None /\ x.draft /\ releases' = [releases EXCEPT ![i] = x]
            BY <2>2
        <3> HIDE DEF i
        <3>2. Same /\ Existing' = Existing \cup {i}
            BY <1>1, <1>2, <3>1, DraftSame
        <3>3. QED BY <1>2, <3>2
    <2>3. QED BY <1>3, <2>1, <2>2
<1>5. FreshIds'
    BY <1>1, <1>4, GoodHas DEF FreshIds
<1>6. CASE Refuse(r)
    BY <1>1, <1>4, <1>5, <1>6, RefuseHands
<1>7. CASE Goto(r, "upload")
    <2>1. Gone(r, "upload")
        BY <1>1, <1>7, GoodHas, Goes
    <2>2. QED BY <1>1, <1>2, <1>4, <1>5, <2>1, DraftHands DEF Gone
<1>8. CASE \E a : run' = [run EXCEPT ![r].todo = @ \ {a}] /\ UNCHANGED active /\ run[r].pc = "upload"
    <2>1. PICK a : run' = [run EXCEPT ![r].todo = @ \ {a}]
        BY <1>8
    <2>2. /\ run' = [run EXCEPT ![r] = run'[r]]
          /\ run'[r] = [run[r] EXCEPT !.todo = @ \ {a}]
        BY <2>1, GoodHas
    <2>3. /\ Bound(r) /\ run'[r].reached = run[r].reached /\ run'[r].record = run[r].record
          /\ run'[r].pc = "upload" /\ run'[r].room = run[r].room /\ run'[r].release = i /\ active' = r
        BY <1>1, <1>8, <2>2, GoodHas DEF Bound, Moves, Run
    <2>4. QED BY <1>1, <1>2, <1>4, <1>5, <2>3, DraftHands
<1>9. QED BY <1>6, <1>7, <1>8 DEF UpdateDraft, Upload, Effective, At

\* Sites of the same releases are the same.
LEMMA SitesAgree ==
    ASSUME NEW registry, NEW site, NEW other, IsSite(site, registry, None), IsSite(other, registry, None)
    PROVE  \A v \in Versions : site[v] = other[v]
BY DEF IsSite

\* A run that goes on to another job.
LEMMA JobHands ==
    ASSUME Good, TypeOK', NEW r \in Runs, NEW next \in {"classify", "build", "check", "verify"},
           Bound(r), active' = r, run'[r].pc = next,
           UNCHANGED <<github, live, released, immutableOn>>,
           run'[r].reached >= run[r].reached, run'[r].reached >= 1,
           next \in {"build", "check", "verify"} => run'[r].reached >= 2,
           next \in {"check", "verify"} => run'[r].reached >= 3,
           next = "verify" => run'[r].reached = 4,
           run'[r].reached >= 2 => <<run[r].version, r>> \in released,
           run'[r].reached = 4 => run[r].reached = 4,
           run'[r].reached >= 3 => \/ run[r].reached >= 3 /\ run'[r].record = run[r].record
                                   \/ run'[r].record = Compose(run[r].registry, None)
    PROVE  HandsOff'
<1>1. Same /\ FreshIds' /\ UNCHANGED <<releases, tags, immutableOn, released>>
    BY Still DEF Same
<1>2. Seen(run[r])' /\ Ready(r)'
    BY DEF Seen, Ready, CountedSteps, RoomSteps, DraftSteps
<1>3. Staged(r)'
    BY <1>1, GoodHas DEF Staged, Steps, Bound, Moves
<1>4. ASSUME Standing(r)
      PROVE  /\ run'[r].reached >= 3 => IsSite(run'[r].record, run[r].registry, None)
             /\ run'[r].reached = 4 => Shows(run'[r].record)
    <2>1. IsSite(Compose(run[r].registry, None), run[r].registry, None)
        BY GoodHas, SiteIs
    <2>2. run'[r].reached >= 3 => IsSite(run'[r].record, run[r].registry, None)
        BY <1>4, <2>1, GoodHas DEF StandingInv
    <2>3. ASSUME run'[r].reached = 4 PROVE Shows(run'[r].record)
        <3>1. IsSite(run[r].record, run[r].registry, None) /\ Shows(run[r].record)
            BY <1>4, <2>3, GoodHas DEF StandingInv
        <3>2. \A v \in Versions : run'[r].record[v] = run[r].record[v]
            BY <2>2, <2>3, <3>1, SitesAgree
        <3>3. QED BY <3>1, <3>2 DEF Shows
    <2>4. QED BY <2>2, <2>3
<1>5. QED BY <1>1, <1>2, <1>3, <1>4, HandsKept

\* The last check of publish-release, and the composition that follows.
LEMMA BuildHands ==
    ASSUME Good, TypeOK', NEW r \in Runs, ConfirmPublished(r) \/ BuildPages(r)
    PROVE  HandsOff'
<1>1. main' = main /\ UNCHANGED <<github, live, released, immutableOn>> /\ active = r
    BY DEF ConfirmPublished, BuildPages, settings, history, At
<1> DEFINE Later(n, job) == /\ n \in Nat /\ n >= run[r].reached /\ n >= job
                            /\ n = run[r].reached \/ n = job
<1>6. Later(Reach(r, 2), 2) /\ Later(Reach(r, 3), 3)
    <2>1. run[r].reached \in 0 .. 4
        BY GoodHas
    <2>2. QED BY <2>1 DEF Reach
<1>7. run[r].reached \in 0 .. 4
    BY GoodHas
<1>2. CASE Refuse(r)
    BY <1>1, <1>2, Still, RefuseHands
<1>3. CASE ConfirmPublished(r) /\ ~Refuse(r)
    <2> DEFINE n == Reach(r, 2)
    <2>1. /\ run' = [run EXCEPT ![r] = run'[r]] /\ active' = r /\ run[r].pc = "final"
          /\ run'[r] = [run[r] EXCEPT !.pc = "build", !.served = None, !.room = None,
                                      !.release = None, !.reached = n]
        BY <1>1, <1>3, GoodHas DEF ConfirmPublished, At
    <2>2. n \in Nat /\ n >= run[r].reached /\ n >= 2 /\ (n = run[r].reached \/ n = 2)
        BY <1>6
    <2> HIDE DEF n
    <2>3. /\ Bound(r) /\ run'[r].reached = n /\ run'[r].record = run[r].record /\ run'[r].pc = "build"
        BY <1>1, <2>1, GoodHas DEF Bound, Moves, Run
    <2>4. <<run[r].version, r>> \in released
        <3>1. run[r].release \in Public /\ Published(run[r].release, r)
            BY <1>1, <2>1, GoodHas DEF Ready
        <3>2. releases[run[r].release].assets[Sums] = r
            BY <3>1, PublicationConstants DEF Published, VerifiedAs
        <3>3. QED BY <3>1, <3>2, GoodHas DEF IInv, ReleasedInv, Published, Settled
    <2>5. n >= 3 => n = run[r].reached
        BY <1>7, <2>2
    <2>6. /\ run'[r].reached >= run[r].reached /\ run'[r].reached >= 1 /\ run'[r].reached >= 2
          /\ run'[r].reached = 4 => run[r].reached = 4
          /\ run'[r].reached >= 3 => run[r].reached >= 3 /\ run'[r].record = run[r].record
        BY <1>7, <2>2, <2>3, <2>5
    <2>7. QED BY <1>1, <2>1, <2>3, <2>4, <2>6, JobHands
<1>4. CASE BuildPages(r) /\ ~Refuse(r)
    <2> DEFINE n == Reach(r, 3)
               site == Compose(run[r].registry, None)
    <2>1. /\ run' = [run EXCEPT ![r] = run'[r]] /\ active' = r /\ run[r].pc = "build"
          /\ run'[r] = [run[r] EXCEPT !.pc = "check", !.record = site, !.reached = n]
        BY <1>1, <1>4, GoodHas DEF BuildPages, At
    <2>2. n \in Nat /\ n >= run[r].reached /\ n >= 3 /\ (n = run[r].reached \/ n = 3)
        BY <1>6
    <2> HIDE DEF n, site
    <2>3. /\ Bound(r) /\ run'[r].reached = n /\ run'[r].record = site /\ run'[r].pc = "check"
        BY <1>1, <2>1, GoodHas DEF Bound, Moves, Run
    <2>4. <<run[r].version, r>> \in released
        BY <1>1, <2>1, GoodHas DEF StagedInv, Staged
    <2>5. /\ run'[r].reached >= run[r].reached /\ run'[r].reached >= 1 /\ run'[r].reached >= 2
          /\ run'[r].reached >= 3 /\ (run'[r].reached = 4 => run[r].reached = 4)
        BY <1>7, <2>2, <2>3
    <2>6. run'[r].record = Compose(run[r].registry, None)
        BY <2>3 DEF site
    <2>7. QED BY <1>1, <2>1, <2>3, <2>4, <2>5, <2>6, JobHands
<1>5. QED BY <1>2, <1>3, <1>4

\* The last check, which ends the run.
LEMMA VerifyHands ==
    ASSUME Good, TypeOK', NEW r \in Runs, VerifyLive(r)
    PROVE  HandsOff'
<1>1. /\ main' = main /\ UNCHANGED <<github, live, released, immutableOn>>
      /\ active = r /\ run[r].pc = "verify"
    BY DEF VerifyLive, settings, history, At
<1>2. Same /\ FreshIds' /\ UNCHANGED <<releases, tags, immutableOn>>
    BY <1>1, Still
<1>3. CASE Refuse(r)
    BY <1>1, <1>2, <1>3, RefuseHands
<1>4. CASE End(r, "succeeded")
    <2>1. Over(r, "succeeded")
        BY <1>1, <1>4, GoodHas, IsOver
    <2>2. run[r].reached = 4
        BY <1>1, GoodHas DEF StagedInv, Staged
    <2>3. QED BY <1>2, <2>1, <2>2, OverKept
<1>5. QED BY <1>3, <1>4 DEF VerifyLive

\* A run that has not got through preflight.
LEMMA NotYet ==
    ASSUME Good, NEW r \in Runs, run[r].pc \in {"undispatched", "queued"}
    PROVE  run[r].reached = 0 /\ active # r
<1>1. /\ run[r].reached \in 0 .. 4 /\ (active = r <=> run[r].pc \in Steps)
      /\ run[r].reached >= 1 => run[r].pc \in Steps \cup {"stopped", "succeeded"}
    BY GoodHas DEF StagedInv, Staged
<1>2. run[r].pc \notin Steps \cup {"stopped", "succeeded"}
    BY DEF Steps
<1>3. QED BY <1>1, <1>2

\* A run that dies, starts or starts again.
LEMMA StartHands ==
    ASSUME Good, TypeOK', NEW r \in Runs,
           Fail(r) \/ Preflight(r) \/ \E job \in 1 .. 4 : Rerun(r, job)
    PROVE  HandsOff'
<1>1. /\ main' = main /\ UNCHANGED <<github, live, released, immutableOn>> /\ active \in {r, None}
    BY DEF Fail, Preflight, Rerun, settings, history
<1>2. CASE Refuse(r)
    <2>1. Same /\ FreshIds' /\ UNCHANGED <<releases, tags, immutableOn>>
        BY <1>1, Still
    <2>2. QED BY <1>1, <1>2, <2>1, RefuseHands
<1>3. CASE Preflight(r) /\ ~Refuse(r)
    <2>1. /\ run' = [run EXCEPT ![r].pc = "classify", ![r].reached = 1] /\ active' = r
          /\ run[r].pc = "queued"
        BY <1>3 DEF Preflight
    <2>2. /\ run' = [run EXCEPT ![r] = run'[r]]
          /\ run'[r] = [run[r] EXCEPT !.pc = "classify", !.reached = 1]
        BY <2>1, GoodHas
    <2>3. run[r].reached = 0
        BY <2>1, GoodHas, NotYet
    <2>4. Bound(r) /\ run'[r].reached = 1 /\ run'[r].pc = "classify"
        BY <1>1, <2>1, <2>2, GoodHas DEF Bound, Moves, Run
    <2>5. /\ run'[r].reached >= run[r].reached /\ run'[r].reached >= 1
          /\ ~(run'[r].reached >= 2) /\ ~(run'[r].reached >= 3) /\ run'[r].reached # 4
        BY <2>3, <2>4
    <2>6. QED BY <1>1, <2>1, <2>4, <2>5, JobHands
<1>4. ASSUME NEW job \in 1 .. 4, Rerun(r, job) PROVE HandsOff'
    <2> DEFINE next == JobStart[job]
    <2>1. /\ run' = [run EXCEPT ![r].pc = next] /\ active' = r
          /\ run[r].pc \in {"stopped", "succeeded"} /\ job \in 1 .. run[r].reached
        BY <1>4 DEF Rerun
    <2>2. /\ next \in {"classify", "build", "check", "verify"}
          /\ next \in {"build", "check", "verify"} => job >= 2
          /\ next \in {"check", "verify"} => job >= 3
          /\ next = "verify" => job = 4
        BY DEF JobStart
    <2>3. run[r].reached \in 0 .. 4
        BY GoodHas
    <2> HIDE DEF next
    <2>4. run' = [run EXCEPT ![r] = run'[r]] /\ run'[r] = [run[r] EXCEPT !.pc = next]
        BY <2>1, GoodHas
    <2>5. Bound(r) /\ run'[r].reached = run[r].reached /\ run'[r].pc = next
          /\ run'[r].record = run[r].record
        BY <1>1, <2>1, <2>4, GoodHas DEF Bound, Moves, Run
    <2>6. run[r].reached >= 2 => <<run[r].version, r>> \in released
        BY GoodHas DEF StagedInv, Staged
    <2>7. /\ run[r].reached >= 1 /\ (job >= 2 => run[r].reached >= 2)
          /\ (job >= 3 => run[r].reached >= 3) /\ (job = 4 => run[r].reached = 4)
        BY <2>1, <2>3
    <2>8. QED BY <1>1, <2>1, <2>2, <2>3, <2>5, <2>6, <2>7, JobHands
<1>5. QED BY <1>2, <1>3, <1>4 DEF Fail

\* A dispatch, and changes that land on main.
LEMMA BesideHands ==
    ASSUME Good, TypeOK', UNCHANGED <<github, live, released, immutableOn, active>>,
           \/ run' = run
           \/ \E r \in Runs : Dispatch(r)
    PROVE  HandsOff'
<1>1. Same /\ FreshIds' /\ UNCHANGED <<releases, tags, immutableOn>>
    BY Still
<1>2. PICK q : /\ \A c \in Runs \ {q} : run'[c] = run[c]
               /\ q \in Runs => \/ run'[q] = run[q]
                                \/ run[q].pc = "undispatched" /\ run'[q].pc = "queued"
                                   /\ run'[q].reached = run[q].reached
    <2>1. CASE run' = run
        BY <2>1
    <2>2. ASSUME NEW r \in Runs, Dispatch(r)
          PROVE  /\ \A c \in Runs \ {r} : run'[c] = run[c]
                 /\ run[r].pc = "undispatched" /\ run'[r].pc = "queued"
                 /\ run'[r].reached = run[r].reached
        <3>1. /\ run' = [run EXCEPT ![r] = run'[r]] /\ run[r].pc = "undispatched"
              /\ run'[r] = [run[r] EXCEPT !.pc = "queued", !.version = main.version,
                                          !.commit = main.commit, !.registry = main.registry]
            BY <2>2, GoodHas DEF Dispatch
        <3>2. QED BY <3>1, GoodHas DEF Run
    <2>3. QED BY <2>1, <2>2
<1>3. ASSUME NEW c \in Runs, run[c].reached >= 1 PROVE run'[c] = run[c]
    BY <1>2, <1>3, GoodHas DEF StagedInv, Staged, Steps
<1>4. RunsGoOn
    BY <1>3, GoodHas DEF RunsGoOn
<1>5. PublishedInv'
    BY <1>1, <1>4, GoodHas, PublishedKept
<1>6. StandingInv'
    <2>1. ASSUME NEW c \in Runs, Standing(c)
          PROVE  /\ run'[c].reached >= 3 => IsSite(run'[c].record, run[c].registry, None)
                 /\ run'[c].reached = 4 => Shows(run'[c].record)
        <3>1. run'[c] = run[c]
            <4>1. <<run[c].version, c>> \in released /\ run[c].version \in Versions
                BY <2>1, GoodHas DEF Standing, Run
            <4>2. QED BY <1>3, <4>1, GoodHas DEF PublishedInv
        <3>2. QED BY <2>1, <3>1, GoodHas DEF StandingInv
    <2>2. QED BY <1>1, <1>4, <2>1, GoodHas, StandingKept
<1>7. StagedInv'
    <2>1. ASSUME NEW c \in Runs, run'[c] # run[c] PROVE Staged(c)'
        <3>1. /\ run[c].pc = "undispatched" /\ run'[c].pc = "queued"
              /\ run'[c].reached = run[c].reached
            BY <1>2, <2>1
        <3>2. run[c].reached = 0 /\ active # c
            BY <3>1, NotYet
        <3>3. QED BY <3>1, <3>2 DEF Staged, Steps
    <2>2. ASSUME NEW c \in Runs, run'[c] = run[c] PROVE Staged(c)'
        BY <2>2, GoodHas DEF StagedInv, Staged
    <2>3. QED BY <2>1, <2>2 DEF StagedInv
<1>8. SeenInv'
    <2>1. SUFFICES ASSUME NEW c \in Runs, active = c PROVE Seen(run[c])' /\ Ready(c)'
        BY DEF SeenInv
    <2>2. run'[c] = run[c] /\ Seen(run[c]) /\ Ready(c)
        BY <1>2, <2>1, GoodHas DEF StagedInv, Staged, Steps
    <2>3. Seen(run[c])'
        <3>1. (run[c].served = ServedState(run[c].version)) => (run[c].served = ServedState(run[c].version))'
            BY <1>1, <2>2 DEF ServedState, Same, Candidates
        <3>2. /\ Eligible(run[c]) => Eligible(run[c])'
              /\ Clear(run[c]) => Clear(run[c])'
            BY <1>1, <2>2, ClearKept
        <3>3. IsSite(run[c].room, run[c].registry, run[c].version)
                  => IsSite(run[c].room, run[c].registry, run[c].version)'
            BY <1>1, <2>2, SiteKept
        <3>4. QED BY <2>2, <3>1, <3>2, <3>3 DEF Seen
    <2>4. Ready(c)'
        BY <1>1, <2>2 DEF Ready, Existing, Public, Carries, Published, Settled, VerifiedAs
    <2>5. QED BY <2>3, <2>4
<1>9. QED BY <1>1, <1>5, <1>6, <1>7, <1>8, GoodHas DEF HandsOff

\* deploy-pages: only a standing run gets there while a run stands.
LEMMA DeployHands ==
    ASSUME Good, TypeOK', NEW r \in Runs, Deploy(r)
    PROVE  HandsOff'
<1>1. /\ UNCHANGED <<main, releases, nextId, tags, immutableOn, released>>
      /\ active = r /\ run[r].pc = "deploy"
      /\ live' = [v \in Versions |-> IF run[r].record[v] = None THEN None
                                     ELSE run[r].record[v].content]
    BY DEF Deploy, At, github, settings, history
<1>2. run[r].reached \in 3 .. 4 /\ <<run[r].version, r>> \in released
    <2>1. run[r].reached \in 0 .. 4 /\ run[r].reached >= 3 /\ <<run[r].version, r>> \in released
        BY <1>1, GoodHas DEF StagedInv, Staged
    <2>2. QED BY <2>1
<1>3. /\ \A c \in Runs \ {r} : run'[c] = run[c]
      /\ run'[r].version = run[r].version /\ run'[r].commit = run[r].commit
      /\ run'[r].registry = run[r].registry /\ run'[r].record = run[r].record
      /\ run'[r].reached >= run[r].reached /\ run'[r].reached >= 3
      /\ \/ active' = r /\ run'[r].pc = "verify" /\ run'[r].reached = 4
         \/ active' = None /\ run'[r].pc = "stopped"
    <2>1. CASE Refuse(r)
        <3>1. Over(r, "stopped")
            BY <1>1, <2>1, GoodHas, IsOver DEF Refuse
        <3>2. QED BY <1>2, <3>1 DEF Over, Bound, Moves
    <2>2. CASE ~Refuse(r)
        <3> DEFINE n == Reach(r, 4)
        <3>1. run' = [run EXCEPT ![r] = [run[r] EXCEPT !.pc = "verify", !.reached = n]] /\ active' = r
            BY <1>1, <2>2 DEF Deploy
        <3>2. n = 4
            BY <1>2 DEF Reach
        <3> HIDE DEF n
        <3>3. run'[r] = [run[r] EXCEPT !.pc = "verify", !.reached = n]
            BY <3>1, GoodHas
        <3>4. QED BY <1>2, <3>1, <3>2, <3>3, GoodHas DEF Run
    <2>3. QED BY <2>1, <2>2
<1>12. Existing' = Existing /\ Public' = Public /\ None \notin Runs
    BY <1>1, PublicationConstants DEF Existing, Public
<1>13. run[r].reached \in Nat /\ run'[r].reached >= 1
    <2>1. run'[r].reached \in 0 .. 4
        BY DEF TypeOK, Run
    <2>2. QED BY <1>2, <1>3, <2>1
<1>4. /\ Existing' = Existing /\ Public' = Public /\ None \notin Runs
      /\ \A c \in Runs : /\ run'[c].version = run[c].version /\ run'[c].commit = run[c].commit
                         /\ run'[c].registry = run[c].registry /\ run'[c].record = run[c].record
                         /\ run[c].reached >= 1 => run'[c].reached >= 1
    BY <1>3, <1>12, <1>13
<1>5. PublishedInv'
    <2>1. \A i \in Public, c \in Runs : Published(i, c) => Published(i, c)'
        BY <1>1, <1>4 DEF Published, Settled, VerifiedAs
    <2>2. QED BY <1>1, <1>4, <2>1, GoodHas DEF PublishedInv
<1>6. StagedInv'
    <2>1. Staged(r)'
        BY <1>1, <1>2, <1>3, <1>4 DEF Staged, Steps
    <2>2. ASSUME NEW c \in Runs, c # r PROVE Staged(c)'
        BY <1>1, <1>3, <1>4, <2>2, GoodHas DEF StagedInv, Staged
    <2>3. QED BY <2>1, <2>2 DEF StagedInv
<1>7. SeenInv'
    BY <1>3, <1>4 DEF SeenInv, Seen, Ready, CountedSteps, RoomSteps, DraftSteps
<1>8. ASSUME NEW c \in Runs, Standing(c)'
      PROVE  /\ Clear(run[c])' /\ IsSite(run[c].record, run[c].registry, None)'
             /\ Shows(run[c].record)'
    <2>1. Standing(c)
        BY <1>1, <1>4, <1>8 DEF Standing
    <2>2. c = r
        <3>1. /\ run[c].version \in Versions /\ run[r].version \in Versions /\ <<run[c].version, c>> \in released
              /\ \A v \in Versions, d \in Runs : <<v, d>> \in released => v <= run[c].version
            BY <2>1, GoodHas DEF Standing, Run
        <3>2. \A v \in Versions, d \in Runs : <<v, d>> \in released => v <= run[r].version
            BY <1>1 DEF Good, Calm, LateInv, ReliedInv, Relied, DeployRelied
        <3>3. run[c].version <= run[r].version /\ run[r].version <= run[c].version
            BY <1>2, <3>1, <3>2
        <3>4. run[c].version = run[r].version
            BY <3>1, <3>3, PublicationConstants DEF Versions
        <3>5. QED BY <1>2, <3>1, <3>4 DEF Good, Calm, IssueInv, Spent
    <2>3. IsSite(run[r].record, run[r].registry, None) /\ Clear(run[r])
        BY <1>2, <2>1, <2>2, GoodHas DEF StandingInv
    <2> DEFINE site == run[r].record
               registry == run[r].registry
    <2>4. IsSite(site, registry, None)'
        BY <1>1, <1>4, <2>3 DEF IsSite, Candidates, AsComposed, Retired
    <2>5. Shows(site)'
        BY <1>1, <1>4 DEF Shows
    <2>6. Others(run[r])' = Others(run[r])
        BY <1>1, <1>4 DEF Others, Retired
    <2>7. ASSUME NEW i \in Public, releases[i].version \in Others(run[r])
          PROVE  live'[releases[i].version] = releases[i].assets[Sums]
        <3>1. /\ i \in Candidates(None) /\ releases[i].version \notin Retired(registry)
              /\ releases[i].version \in Versions
            BY <2>7, GoodHas, GoodFacts, PublicationConstants DEF Candidates, Others
        <3>2. site[releases[i].version] = AsComposed(i) /\ AsComposed(i) # None
            BY <2>3, <3>1, GoodHas, GoodFacts DEF IsSite
        <3>3. live'[releases[i].version] = AsComposed(i).content
            BY <1>1, <3>1, <3>2
        <3>4. QED BY <3>3 DEF AsComposed
    <2>8. Clear(run[r])'
        <3>1. Eligible(run[r])'
            BY <1>1, <1>4, <2>3 DEF Clear, Eligible, Listed, Retired
        <3>2. \A v \in Versions \ {run'[r].version} : tags'[v] # None => v \in Listed(run'[r].registry)
            BY <1>1, <1>4, <2>3 DEF Clear
        <3>3. SizeOf(Others(run[r])') + Size[run'[r].version] <= MaxSite
            BY <1>4, <2>3, <2>6 DEF Clear
        <3>4. QED BY <1>1, <1>4, <2>6, <2>7, <3>1, <3>2, <3>3 DEF Clear, Listed, Retired
    <2>9. QED BY <1>4, <2>2, <2>4, <2>5, <2>8 DEF IsSite, Retired, Shows
<1>9. StandingInv'
    BY <1>8 DEF StandingInv
<1>10. FreshIds'
    BY <1>1, <1>4, GoodHas DEF FreshIds
<1>11. QED BY <1>1, <1>5, <1>6, <1>7, <1>9, <1>10, GoodHas DEF HandsOff

\* The irreversible request: nothing was released of its version, and it is the newest.
LEMMA UndraftHands ==
    ASSUME Good, TypeOK', NEW r \in Runs, Undraft(r)
    PROVE  HandsOff'
<1> DEFINE full == [Renamed(r) EXCEPT !.prerelease = FALSE]
           new == [full EXCEPT !.draft = FALSE, !.immutable = immutableOn]
<1>1. /\ UNCHANGED <<nextId, main, immutableOn, live>> /\ active = r /\ run[r].pc = "undraft"
    BY DEF Undraft, At, settings
<1>2. PICK i \in ReleaseIds, v \in Versions :
         /\ run[r].release = i /\ run[r].version = v /\ i \in Existing /\ releases[i].version = v
         /\ releases[i].draft /\ i \notin Public /\ run[r].commit \in Commits
    BY <1>1, DraftThere, GoodHas DEF DraftSteps, Run
<1>3. CASE TagTaken(i, v)
    <2>1. Refuse(r) /\ UNCHANGED <<github, live, released, immutableOn>>
        BY <1>1, <1>2, <1>3 DEF Undraft, github
    <2>2. QED BY <1>1, <2>1, Still, RefuseHands
<1>4. CASE ~TagTaken(i, v)
    <2>1. MakePublic(i, full) /\ (Gone(r, "final") \/ Over(r, "stopped"))
        <3>1. MakePublic(i, full) /\ Effective(r, "final")
            BY <1>2, <1>4 DEF Undraft
        <3>2. QED BY <1>1, <1>2, <3>1, GoodHas, Goes, IsOver DEF Effective, Refuse
    <2>2. /\ Carries(i, r) /\ tags[v] \in {None, run[r].commit}
          /\ Clear(run[r]) /\ Eligible(run[r]) /\ run[r].reached >= 1
        <3>1. Seen(run[r]) /\ Ready(r) /\ Staged(r)
            BY <1>1, GoodHas DEF StagedInv
        <3>2. Carries(i, r) /\ tags[v] \in {None, run[r].commit}
            BY <1>1, <1>2, <3>1 DEF Ready
        <3>3. Clear(run[r]) /\ run[r].reached >= 1
            BY <1>1, <3>1 DEF Seen, CountedSteps, RoomSteps, DraftSteps, Staged, Steps
        <3>4. QED BY <3>2, <3>3 DEF Clear
    <2>3. /\ full \in Release /\ full.version = v /\ full.target = run[r].commit /\ full.notes = r
          /\ full.assets = releases[i].assets /\ ~full.prerelease
        <3>1. /\ Renamed(r) \in Release /\ Renamed(r).version = v
              /\ Renamed(r).assets = releases[i].assets
            BY <1>2, GoodHas, RenamedIs
        <3>2. Renamed(r).target = run[r].commit /\ Renamed(r).notes = r
            <4>1. releases[i] \in Release
                BY <1>2, GoodHas DEF TypeOK, Existing
            <4>2. Renamed(r) = [releases[i] EXCEPT !.version = run[r].version,
                                                   !.target = run[r].commit, !.notes = r]
                BY <1>2 DEF Renamed
            <4>3. QED BY <4>1, <4>2 DEF Release
        <3>3. QED BY <1>2, <3>1, <3>2 DEF Release
    <2> HIDE DEF full
    <2>4. /\ new \in Release /\ new.version = v /\ ~new.draft /\ Settled(new) /\ new.notes = r
          /\ new.assets = releases[i].assets
        BY <1>2, <2>3, GoodHas DEF TypeOK, Release, Settled
    <2>5. /\ releases' = [releases EXCEPT ![i] = new]
          /\ tags' = [tags EXCEPT ![v] = IF @ = None THEN run[r].commit ELSE @]
          /\ released' = released \cup {<<v, r>>}
        <3>1. releases[i].assets[Sums] = r
            BY <1>2, <2>2, PublicationConstants DEF Carries
        <3>2. QED BY <1>2, <2>1, <2>3, <3>1, GoodHas DEF MakePublic
    <2> HIDE DEF new
    <2>6. /\ releases'[i] = new /\ \A j \in ReleaseIds \ {i} : releases'[j] = releases[j]
          /\ tags'[v] = run[r].commit /\ \A w \in Versions \ {v} : tags'[w] = tags[w]
        BY <1>2, <2>2, <2>5, GoodHas DEF TypeOK
    <2>7. new # None
        BY <1>2, <2>4, PublicationConstants
    <2>8. Existing' = Existing
        BY <1>2, <2>6, <2>7 DEF Existing
    <2>9. Public' = Public \cup {i} /\ \A j \in Public : j \in ReleaseIds \ {i} /\ releases'[j] = releases[j]
        BY <1>2, <2>4, <2>6, <2>8 DEF Public, Existing
    <2>10. \A j \in Public : releases[j].version \in Versions \ {v}
        BY <1>2, <1>4, GoodHas, GoodFacts DEF TagTaken
    <2>11. \A c \in Runs : <<v, c>> \notin released
        BY <1>2 DEF Good, Calm, IssueInv, Spent
    <2>12. \A c \in Runs : /\ run'[c].version = run[c].version /\ run'[c].registry = run[c].registry
                           /\ run'[c].commit = run[c].commit /\ run'[c].reached = run[c].reached
                           /\ c # r => run'[c] = run[c]
        BY <1>2, <2>1 DEF Gone, Over, Bound, Moves
    <2>13. Published(i, r)'
        BY <1>2, <2>2, <2>4, <2>6, <2>12 DEF Published, VerifiedAs, Carries
    <2>14. \A j \in Public, c \in Runs : Published(j, c) => Published(j, c)'
        BY <1>2, <2>6, <2>9, <2>10, <2>12 DEF Published, VerifiedAs, Settled
    <2>15. PublishedInv'
        <3>1. ASSUME NEW j \in Public'
              PROVE  \E c \in Runs : Published(j, c)' /\ <<run'[c].version, c>> \in released'
            <4>1. CASE j = i
                BY <1>2, <2>5, <2>12, <2>13, <4>1
            <4>2. CASE j \in Public
                BY <1>2, <2>5, <2>12, <2>14, <4>2, GoodHas DEF PublishedInv
            <4>3. QED BY <1>2, <2>9, <4>1, <4>2
        <3>2. ASSUME NEW w \in Versions, NEW c \in Runs, <<w, c>> \in released'
              PROVE  run'[c].version = w /\ run'[c].reached >= 1 /\ \E j \in Public' : Published(j, c)'
            <4>1. CASE <<w, c>> \in released
                BY <1>2, <2>9, <2>12, <2>14, <4>1, GoodHas DEF PublishedInv
            <4>2. CASE w = v /\ c = r
                BY <1>2, <2>2, <2>9, <2>12, <2>13, <4>2
            <4>3. QED BY <1>2, <2>5, <3>2, <4>1, <4>2
        <3>3. QED BY <1>2, <3>1, <3>2 DEF PublishedInv
    <2>16. StagedInv'
        <3>1. Staged(r)'
            BY <1>1, <1>2, <2>1, <2>2, <2>5, <2>12, GoodHas DEF StagedInv, Staged, Steps, Gone, Over
        <3>2. ASSUME NEW c \in Runs, c # r PROVE Staged(c)'
            <4>1. active' # c /\ active # c
                BY <1>1, <1>2, <2>1, <3>2, GoodHas DEF Gone, Over
            <4>2. QED BY <1>2, <2>5, <2>12, <3>2, <4>1, GoodHas DEF StagedInv, Staged
        <3>3. QED BY <1>2, <3>1, <3>2 DEF StagedInv
    <2>17. SeenInv'
        <3>1. SUFFICES ASSUME active' = r, Gone(r, "final") PROVE Seen(run[r])' /\ Ready(r)'
            BY <1>2, <2>1, GoodHas DEF SeenInv, Gone, Over
        <3>2. run'[r].pc = "final" /\ run'[r].release = i
            BY <1>2, <3>1 DEF Gone
        <3>3. Seen(run[r])'
            BY <1>2, <3>2 DEF Seen, CountedSteps, RoomSteps, DraftSteps
        <3>4. Ready(r)'
            BY <1>2, <2>9, <2>13, <3>2 DEF Ready, DraftSteps
        <3>5. QED BY <1>2, <3>3, <3>4
    <2>18. Clear(run[r])'
        <3>1. Others(run[r])' = Others(run[r])
            BY <1>2, <2>4, <2>6, <2>9, <2>12 DEF Others, Retired
        <3>2. Eligible(run[r])'
            <4>1. /\ Listed(run'[r].registry) = Listed(run[r].registry)
                  /\ Retired(run'[r].registry) = Retired(run[r].registry)
                  /\ run'[r].registry = run[r].registry /\ run'[r].version = v
                BY <1>2, <2>12
            <4>2. \A j \in Public' : releases'[j].version # v => j \in Public /\ releases'[j] = releases[j]
                BY <2>4, <2>6, <2>9
            <4>3. \A j \in Public : j \in Public' /\ releases'[j] = releases[j]
                BY <2>9
            <4>4. QED BY <1>2, <2>2, <4>1, <4>2, <4>3 DEF Eligible, Listed, Retired
        <3>3. \A w \in Versions \ {run'[r].version} : tags'[w] # None => w \in Listed(run'[r].registry)
            BY <1>2, <2>2, <2>6, <2>12 DEF Clear
        <3>4. \A j \in Public' : releases'[j].version \in Others(run[r])' =>
                 live'[releases'[j].version] = releases'[j].assets[Sums]
            BY <1>1, <1>2, <2>2, <2>4, <2>6, <2>9, <3>1 DEF Clear, Others
        <3>5. SizeOf(Others(run[r])') + Size[run'[r].version] <= MaxSite
            BY <1>2, <2>2, <2>12, <3>1 DEF Clear
        <3>6. QED BY <1>2, <3>2, <3>3, <3>4, <3>5 DEF Clear
    <2>19. ASSUME NEW c \in Runs, Standing(c)' PROVE c = r
        <3>1. SUFFICES ASSUME c # r PROVE FALSE
            OBVIOUS
        <3>2. <<run[c].version, c>> \in released /\ v <= run[c].version /\ run[c].version \in Versions
            BY <1>2, <2>5, <2>12, <2>19, <3>1, GoodHas DEF Standing, Run
        <3>3. PICK j \in Public : Published(j, c)
            BY <1>2, <3>2, GoodHas DEF PublishedInv
        <3>4. releases[j].version = run[c].version /\ releases[j].version # v
            BY <1>2, <2>10, <3>3 DEF Published
        <3>5. run[c].version < v
            BY <1>2, <2>2, <3>4 DEF Eligible
        <3>6. QED BY <1>2, <3>2, <3>5 DEF Versions
    <2>20. StandingInv'
        <3>1. ASSUME run[r].reached >= 2 PROVE FALSE
            BY <1>2, <2>11, <3>1, GoodHas DEF StagedInv, Staged
        <3>2. run'[r].reached \in 0 .. 4 /\ ~(run'[r].reached >= 3) /\ run'[r].reached # 4
            BY <1>2, <2>12, <3>1, GoodHas
        <3>3. QED BY <1>2, <2>18, <2>19, <3>2 DEF StandingInv
    <2>21. FreshIds'
        BY <1>1, <1>2, <2>8, GoodHas DEF FreshIds
    <2>22. QED BY <1>1, <1>2, <2>15, <2>16, <2>17, <2>20, <2>21, GoodHas DEF HandsOff
<1>5. QED BY <1>3, <1>4

\* Whatever a run or a change of main does, as long as nobody acts by hand.
LEMMA HandsStep ==
    ASSUME Good, TypeOK', [Next]_vars, ~Manual
    PROVE  HandsOff'
<1>1. ASSUME NEW r \in Runs, RunStep(r) PROVE HandsOff'
    BY <1>1, GateHands, ReadHands, ReadStateHands, CreateHands, FillHands, UndraftHands, BuildHands,
       DeployHands, VerifyHands DEF RunStep, Publish, Pages
<1>2. ASSUME NEW r \in Runs, Dispatch(r) PROVE HandsOff'
    <2>1. UNCHANGED <<github, live, released, immutableOn, active>>
        BY <1>2 DEF Dispatch, settings, history
    <2>2. QED BY <1>2, <2>1, BesideHands
<1>3. ASSUME NEW r \in Runs, Preflight(r) \/ Fail(r) \/ \E job \in 1 .. 4 : Rerun(r, job)
      PROVE  HandsOff'
    BY <1>3, StartHands
<1>4. CASE Landing \/ UNCHANGED vars
    <2>1. UNCHANGED <<github, live, released, immutableOn, active, run>>
        BY <1>4 DEF Landing, BumpVersion, RecordVersion, RetireVersion, RemoveEntry, Land, vars,
                    github, history
    <2>2. QED BY <2>1, BesideHands
<1>5. QED BY <1>1, <1>2, <1>3, <1>4 DEF Next

\* Nobody acts by hand without being counted.
LEMMA HandsCounted ==
    ASSUME TypeOK, [Next]_vars, manual' = 0
    PROVE  manual = 0 /\ ~Manual /\ tampered' = tampered
<1>1. manual \in Nat
    BY PublicationConstants DEF TypeOK
<1>2. ~Manual
    <2>1. Manual => manual' = manual + 1
        BY DEF Manual, ByHand, ToggleSetting, DeleteRelease, DeleteTag, PushTag, FlipPrerelease,
               EditNotes, PublishDraftByHand
    <2>2. QED BY <1>1, <2>1
<1>3. ASSUME NEW r \in Runs, RunStep(r) PROVE UNCHANGED <<manual, tampered>>
    <2>1. CASE Publish(r)
        BY <2>1 DEF Publish, Classify, TakeSnapshot, ComposeRoom, CheckRoom, Resnapshot, ReadState,
           CreateDraft, UpdateDraft, Upload, Uploaded, Readback, CheckDraft, StillServed, StillLive,
           Undraft, ConfirmPublished, Gate, budgets, history
    <2>2. CASE Pages(r)
        BY <2>2 DEF Pages, BuildPages, CheckDeploy, Deploy, VerifyLive, Gate, budgets, history
    <2>3. QED BY <1>3, <2>1, <2>2 DEF RunStep
<1>4. ASSUME NEW r \in Runs,
             Dispatch(r) \/ Preflight(r) \/ Fail(r) \/ \E job \in 1 .. 4 : Rerun(r, job)
      PROVE  UNCHANGED <<manual, tampered>>
    BY <1>4 DEF Dispatch, Preflight, Fail, Rerun, budgets, history
<1>5. CASE Landing \/ UNCHANGED vars
    <2>1. Landing => \E change : Land(change)
        BY DEF Landing, BumpVersion, RecordVersion, RetireVersion, RemoveEntry
    <2>2. ASSUME NEW change, Land(change) PROVE UNCHANGED <<manual, tampered>>
        BY <2>2 DEF Land, budgets, history
    <2>3. Landing => UNCHANGED <<manual, tampered>>
        BY <2>1, <2>2
    <2>4. UNCHANGED vars => UNCHANGED <<manual, tampered>>
        BY DEF vars
    <2>5. QED BY <1>2, <1>5, <2>3, <2>4
<1>6. QED BY <1>2, <1>3, <1>4, <1>5 DEF Next

\* As long as nobody has acted by hand.
Untouched == manual = 0 => ~tampered /\ HandsOff

\* Every step keeps it,
LEMMA UntouchedStep ==
    IInv /\ IssueInv /\ ForwardInv /\ Untouched /\ [Next]_vars /\ IInv' => Untouched'
<1> SUFFICES ASSUME IInv, IssueInv, ForwardInv, Untouched, [Next]_vars, IInv', manual' = 0
             PROVE  ~tampered' /\ HandsOff'
    BY DEF Untouched
<1>1. manual = 0 /\ ~Manual /\ tampered' = tampered /\ TypeOK /\ TypeOK'
    BY HandsCounted DEF IInv
<1>2. Good /\ ~tampered'
    BY <1>1 DEF Good, Calm, ForwardInv, Untouched
<1>3. QED BY <1>1, <1>2, HandsStep

\* and at first there is nothing to keep.
LEMMA InitUntouched == Init => Untouched
<1> SUFFICES ASSUME Init PROVE ~tampered /\ HandsOff
    BY DEF Untouched
<1>1. /\ Existing = {} /\ Public = {} /\ released = {} /\ immutableOn /\ active = None /\ ~tampered
      /\ None \notin Runs
    BY PublicationConstants DEF Init, Existing, Public
<1>2. ASSUME NEW r \in Runs PROVE Staged(r) /\ active # r
    <2>1. run[r].pc = "undispatched" /\ run[r].reached = 0
        BY DEF Init
    <2>2. QED BY <1>1, <2>1 DEF Staged, Steps
<1>3. QED BY <1>1, <1>2 DEF HandsOff, PublishedInv, StagedInv, FreshIds, SeenInv, StandingInv, Standing

-----------------------------------------------------------------------------
(* The way of a run that made its release public. *)

\* It finds its own release, public and the only one of its version,
LEMMA FindsItself ==
    ASSUME Good, NEW r \in Runs, Standing(r)
    PROVE  /\ Clear(run[r]) /\ run[r].reached >= 1 /\ ~At(r, "create")
           /\ ~(active = r /\ run[r].pc \in DraftSteps)
           /\ \E i \in Public : /\ Published(i, r) /\ PublishedResume(r, i)
                                /\ \A j \in Existing : ~DraftResume(r, j)
           /\ ~Fresh(r)
<1>1. <<run[r].version, r>> \in released /\ run[r].version \in Versions
    BY GoodHas DEF Standing, Run
<1>2. PICK i \in Public : Published(i, r)
    BY <1>1, GoodHas DEF PublishedInv
<1>3. i \in Existing /\ releases[i].version = run[r].version /\ ~releases[i].draft /\ Settled(releases[i])
    BY <1>2 DEF Public, Published
<1>4. \A j \in Existing : releases[j].version = run[r].version => j = i
    BY <1>3, GoodHas DEF IssueInv, OneEach
<1>5. Tagged(run[r].version) = {i}
    BY <1>3, <1>4 DEF Tagged
<1>6. PublishedResume(r, i)
    BY <1>2, <1>3, <1>5 DEF PublishedResume, Published, VerifiedAs, Carries
<1>7. \A j \in Existing : ~DraftResume(r, j)
    BY <1>3, <1>4, <1>5 DEF DraftResume
<1>8. ~Fresh(r)
    BY <1>5 DEF Fresh
<1>9. ~At(r, "create")
    BY <1>1 DEF Good, Calm, IssueInv, Spent
<1>10. ~(active = r /\ run[r].pc \in DraftSteps)
    BY <1>3, <1>4, DraftThere
<1>11. Clear(run[r]) /\ run[r].reached >= 1
    BY <1>1, GoodHas DEF StandingInv, PublishedInv
<1>12. QED BY <1>2, <1>6, <1>7, <1>8, <1>9, <1>10, <1>11

\* and a site that the checks before its deployment let pass.
LEMMA SitePasses ==
    ASSUME Good, NEW r \in Runs, Standing(r), NEW site, IsSite(site, run[r].registry, None)
    PROVE  /\ Newest(site, run[r].version) /\ LiveSums(site, run[r].version) /\ Fits(site, 0)
           /\ \A i \in Public : releases[i].version <= run[r].version
           /\ \E i \in Public : releases[i].version = run[r].version
           /\ {releases[i].version : i \in Public} \ Retired(run[r].registry) = Serves(site)
           /\ \A i \in Public : releases[i].version \notin Retired(run[r].registry) =>
                site[releases[i].version] = AsComposed(i)
<1> DEFINE registry == run[r].registry
<1>1. PICK v \in Versions : run[r].version = v
    BY GoodHas, GoodFacts
<1>2. /\ Clear(run[r]) /\ Eligible(run[r]) /\ \E i \in Public : releases[i].version = v
      /\ v \notin Listed(registry) /\ v \notin Retired(registry)
    BY <1>1, FindsItself DEF Published, Clear, Eligible, Listed
<1>3. Candidates(None) = Public
    BY GoodHas, GoodFacts, PublicationConstants DEF Candidates
<1>4. \A i \in Public : /\ releases[i].version \in Versions /\ AsComposed(i) # None
                        /\ releases[i].version # v => releases[i].version < v
                        /\ releases[i].version <= v
    <2>1. \A i \in Public : releases[i].version \in Versions /\ AsComposed(i) # None
        BY GoodHas, GoodFacts
    <2>2. \A i \in Public : releases[i].version # v => releases[i].version < v
        BY <1>1, <1>2 DEF Eligible
    <2>3. \A x \in Versions : x < v \/ x = v => x <= v
        BY <1>1, PublicationConstants DEF Versions
    <2>4. QED BY <2>1, <2>2, <2>3
<1>5. \A i \in Public : releases[i].version \notin Retired(registry) =>
          site[releases[i].version] = AsComposed(i)
    BY <1>3 DEF IsSite
<1>6. {releases[i].version : i \in Public} \ Retired(registry) = Serves(site)
    <2>1. ASSUME NEW w \in Serves(site)
          PROVE  w \notin Retired(registry) /\ \E i \in Public : releases[i].version = w
        BY <1>3, <2>1 DEF Serves, IsSite
    <2>2. ASSUME NEW i \in Public, releases[i].version \notin Retired(registry)
          PROVE  releases[i].version \in Serves(site)
        BY <1>4, <1>5, <2>2 DEF Serves
    <2> HIDE DEF registry
    <2>3. QED BY <2>1, <2>2
<1>7. Newest(site, v)
    BY <1>2, <1>4, <1>6 DEF Newest
<1>8. ASSUME NEW w \in Serves(site), w # v
      PROVE  w \in Others(run[r]) /\ live[w] = site[w].content
    <2>1. PICK i \in Public : releases[i].version = w
        BY <1>6
    <2>2. w \in Others(run[r]) /\ w \notin Retired(registry)
        BY <1>1, <1>4, <1>6, <1>8, <2>1 DEF Others
    <2>3. live[w] = releases[i].assets[Sums]
        BY <1>2, <2>1, <2>2 DEF Clear
    <2>4. site[w] = AsComposed(i)
        BY <1>5, <2>1, <2>2
    <2>5. QED BY <2>2, <2>3, <2>4 DEF AsComposed
<1>9. LiveSums(site, v)
    BY <1>8 DEF LiveSums
<1>10. Fits(site, 0)
    <2>1. /\ Serves(site) \in SUBSET (Others(run[r]) \cup {v}) /\ Others(run[r]) \in SUBSET Versions
        BY <1>8 DEF Others
    <2>2. Others(run[r]) \cup {v} \in SUBSET Versions
        BY <2>1
    <2>3. SizeOf(Others(run[r])) + Size[v] <= MaxSite
        BY <1>1, <1>2 DEF Clear
    <2>4. /\ SizeOf(Serves(site)) <= SizeOf(Others(run[r]) \cup {v})
          /\ SizeOf(Others(run[r]) \cup {v}) <= SizeOf(Others(run[r])) + Size[v]
        BY <2>1, <2>2, SizeGrows, SizeWith
    <2>5. /\ SizeOf(Serves(site)) \in Nat /\ SizeOf(Others(run[r])) \in Nat /\ Size[v] \in Nat
          /\ SizeOf(Others(run[r]) \cup {v}) \in Nat /\ MaxSite \in Nat
        BY <2>1, <2>2, SizeType, SizesAre, PublicationConstants
    <2>6. SizeOf(Serves(site)) + 0 <= MaxSite
        BY <2>3, <2>4, <2>5
    <2>7. QED BY <2>6 DEF Fits, Bytes, SizeOf
<1>11. QED BY <1>1, <1>2, <1>4, <1>5, <1>6, <1>7, <1>9, <1>10

\* What it deployed is what it verifies.
LEMMA ShownVerifies ==
    ASSUME Good, NEW r \in Runs, Standing(r),
           IsSite(run[r].record, run[r].registry, None), Shows(run[r].record)
    PROVE  LiveVerified(r)
<1> DEFINE v == run[r].version
           registry == run[r].registry
           site == run[r].record
<1>1. PICK i \in Public : Published(i, r)
    BY FindsItself
<1>2. /\ releases[i].version = v /\ releases[i].assets[Sums] = r /\ v \in Versions
      /\ v \notin Retired(registry)
    <2>1. v \notin Listed(registry)
        BY FindsItself DEF Clear, Eligible
    <2>2. QED BY <1>1, <2>1, GoodHas, GoodFacts, PublicationConstants DEF Published, VerifiedAs, Listed
<1>3. site[v] = AsComposed(i) /\ AsComposed(i) # None
    BY <1>2, SitePasses, GoodHas, GoodFacts
<1>4. live[v] = r
    BY <1>2, <1>3 DEF Shows, AsComposed
<1>5. \A w \in Retired(registry) : live[w] = None
    BY DEF Shows, IsSite, Retired
<1>6. LiveSums(site, v)
    BY DEF Shows, LiveSums, Serves
<1>7. QED BY <1>4, <1>5, <1>6 DEF LiveVerified

\* The way from a re-run of all its jobs to the end.
Way == <<"classify", "snapshot", "compose", "room", "resnapshot", "state", "final", "build", "check",
         "deploy", "verify", "succeeded">>
Onward(r) == \E k \in 1 .. 11 : run[r].pc = Way[k] /\ run'[r].pc = Way[k + 1]

\* One of its steps.
LEMMA GoneOnward ==
    ASSUME NEW r \in Runs, NEW k \in 1 .. 11, run[r].pc = Way[k], run'[r].pc = Way[k + 1]
    PROVE  Onward(r)
BY DEF Onward

\* The gates of publish-release let it pass,
LEMMA PublishOnward ==
    ASSUME Good, NEW r \in Runs, Standing(r), Publish(r)
    PROVE  Onward(r)
<1> DEFINE v == run[r].version
           registry == run[r].registry
<1>1. /\ Clear(run[r]) /\ ~At(r, "create") /\ ~(active = r /\ run[r].pc \in DraftSteps) /\ ~Fresh(r)
      /\ \E i \in Public : Published(i, r) /\ PublishedResume(r, i) /\ \A j \in Existing : ~DraftResume(r, j)
    BY FindsItself
<1>2. PublishStateKnown(r) /\ Public \subseteq Existing
    BY <1>1 DEF PublishStateKnown, Public
<1>3. run \in [Runs -> Run] /\ TypeOK
    BY GoodHas
<1>4. ASSUME NEW k \in 1 .. 11, run[r].pc = Way[k],
             \/ Goto(r, Way[k + 1])
             \/ run'[r].pc = Way[k + 1]
      PROVE  Onward(r)
    <2>1. run'[r].pc = Way[k + 1]
        BY <1>3, <1>4 DEF Goto, Run
    <2>2. QED BY <1>4, <2>1, GoneOnward
<1>5. CASE Classify(r)
    <2>1. PagesRoom(v, registry, Size[v])
        BY <1>1, GoodHas, RoomIs
    <2>2. run[r].pc = "classify" /\ Goto(r, "snapshot")
        BY <1>2, <1>5, <2>1 DEF Classify, Gate, At
    <2>3. QED BY <1>4, <2>2 DEF Way
<1>6. CASE TakeSnapshot(r)
    <2>1. run[r].pc = "snapshot" /\ run'[r].pc = "compose"
        BY <1>3, <1>6 DEF TakeSnapshot, At, Run
    <2>2. QED BY <1>4, <2>1 DEF Way
<1>7. CASE ComposeRoom(r)
    <2>1. v \notin Listed(registry) /\ ComposePasses(registry, v)
        BY <1>1, GoodHas, EligibleIs DEF Clear
    <2>2. run[r].pc = "compose" /\ run'[r].pc = "room"
        BY <1>3, <1>7, <2>1 DEF ComposeRoom, At, Run
    <2>3. QED BY <1>4, <2>2 DEF Way
<1>8. CASE CheckRoom(r)
    <2>1. run[r].pc = "room" /\ Seen(run[r])
        BY <1>8, GoodHas DEF CheckRoom, Gate, At
    <2>2. Eligible(run[r]) /\ IsSite(run[r].room, registry, v)
        BY <2>1 DEF Seen, RoomSteps
    <2>3. Recorded(registry, v) /\ LiveSums(run[r].room, None) /\ Fits(run[r].room, Size[v])
        BY <1>1, <2>2, GoodHas, ClearIs
    <2>4. Goto(r, "resnapshot")
        BY <1>8, <2>3 DEF CheckRoom, Gate
    <2>5. QED BY <1>4, <2>1, <2>4 DEF Way
<1>9. CASE Resnapshot(r)
    <2>1. run[r].pc = "resnapshot" /\ Seen(run[r])
        BY <1>9, GoodHas DEF Resnapshot, Gate, At
    <2>2. SameServed(r)
        BY <2>1 DEF Seen, SameServed
    <2>3. Goto(r, "state")
        BY <1>9, <2>2 DEF Resnapshot, Gate
    <2>4. QED BY <1>4, <2>1, <2>3 DEF Way
<1>10. CASE ReadState(r)
    <2>1. run[r].pc = "state"
        BY <1>10 DEF ReadState, At
    <2>2. PICK i \in Existing : run' = [run EXCEPT ![r].pc = "final", ![r].release = i]
        BY <1>1, <1>2, <1>10 DEF ReadState
    <2>3. run'[r].pc = "final"
        BY <1>3, <2>2 DEF Run
    <2>4. QED BY <1>4, <2>1, <2>3 DEF Way
<1>11. CASE ConfirmPublished(r)
    <2>1. run[r].pc = "final" /\ Ready(r)
        BY <1>11, GoodHas DEF ConfirmPublished, At
    <2>2. run[r].release \in Public /\ Published(run[r].release, r)
        BY <2>1 DEF Ready
    <2>3. run' = [run EXCEPT ![r] = [@ EXCEPT !.pc = "build", !.served = None, !.room = None,
                                             !.release = None, !.reached = Reach(r, 2)]]
        BY <1>2, <1>11, <2>2 DEF ConfirmPublished, Published, VerifiedAs, Carries
    <2>4. run'[r].pc = "build"
        BY <1>3, <2>3 DEF Run
    <2>5. QED BY <1>4, <2>1, <2>4 DEF Way
<1>12. CASE \/ CreateDraft(r) \/ UpdateDraft(r) \/ Upload(r) \/ Uploaded(r) \/ Readback(r)
            \/ CheckDraft(r) \/ StillServed(r) \/ StillLive(r) \/ Undraft(r)
    <2>1. At(r, "create") \/ (active = r /\ run[r].pc \in DraftSteps)
        BY <1>12 DEF CreateDraft, UpdateDraft, Upload, Uploaded, Readback, CheckDraft, StillServed,
               StillLive, Undraft, Gate, At, DraftSteps
    <2>2. QED BY <1>1, <2>1
<1>13. QED BY <1>5, <1>6, <1>7, <1>8, <1>9, <1>10, <1>11, <1>12 DEF Publish

\* and so do those of the Pages jobs; only a deployment's answer may be lost.
LEMMA PagesOnward ==
    ASSUME Good, NEW r \in Runs, Standing(r), Pages(r)
    PROVE  Onward(r) \/ failures' = failures + 1
<1> DEFINE v == run[r].version
           registry == run[r].registry
<1>1. /\ Clear(run[r]) /\ run \in [Runs -> Run] /\ TypeOK
      /\ \E i \in Public : Published(i, r)
    BY FindsItself, GoodHas
<1>2. Recorded(registry, v)
    BY <1>1 DEF Clear, Recorded
<1>3. ASSUME NEW k \in 1 .. 11, run[r].pc = Way[k],
             \/ Goto(r, Way[k + 1])
             \/ run'[r].pc = Way[k + 1]
      PROVE  Onward(r)
    <2>1. run'[r].pc = Way[k + 1]
        BY <1>1, <1>3 DEF Goto, Run
    <2>2. QED BY <1>3, <2>1, GoneOnward
<1>4. CASE BuildPages(r)
    <2> DEFINE site == Compose(registry, None)
    <2>1. IsSite(site, registry, None)
        BY GoodHas, SiteIs
    <2>2. ComposePasses(registry, None)
        BY <1>1, GoodHas, EligiblePasses DEF Clear
    <2>3. Newest(site, v) /\ LiveSums(site, v) /\ Fits(site, 0)
        BY <2>1, SitePasses
    <2> HIDE DEF site
    <2>4. /\ run[r].pc = "build"
          /\ run' = [run EXCEPT ![r] = [@ EXCEPT !.pc = "check", !.record = site,
                                                !.reached = Reach(r, 3)]]
        BY <1>2, <1>4, <2>2, <2>3 DEF BuildPages, At, site
    <2>5. run'[r].pc = "check"
        BY <1>1, <2>4 DEF Run
    <2>6. QED BY <1>3, <2>4, <2>5 DEF Way
<1>5. run[r].reached >= 3 => IsSite(run[r].record, registry, None)
    BY GoodHas DEF StandingInv
<1>6. CASE CheckDeploy(r)
    <2> DEFINE record == run[r].record
               public == {releases[i].version : i \in Public}
    <2>1. active = r /\ run[r].pc = "check"
        BY <1>6 DEF CheckDeploy, Gate, At
    <2>2. IsSite(record, registry, None)
        BY <1>5, <2>1, GoodHas DEF StagedInv, Staged
    <2>3. /\ LiveSums(record, v) /\ \A i \in Public : releases[i].version <= v
          /\ \E i \in Public : releases[i].version = v
          /\ public \ Retired(registry) = Serves(record)
          /\ \A i \in Public : releases[i].version \notin Retired(registry) =>
                record[releases[i].version] = AsComposed(i)
        BY <2>2, SitePasses
    <2>8. \A i : /\ AsComposed(i).content = releases[i].assets[Sums] /\ AsComposed(i).id = i
                 /\ AsComposed(i).commit = tags[releases[i].version]
        BY DEF AsComposed
    <2> HIDE DEF record, registry
    <2>4. \A i \in Public : releases[i].version \notin Retired(registry) =>
                /\ releases[i].assets[Sums] = record[releases[i].version].content
                /\ i = record[releases[i].version].id
                /\ tags[releases[i].version] = record[releases[i].version].commit
        BY <2>3, <2>8
    <2> USE DEF record, registry
    <2>5. v \in public /\ \A w \in public : w <= v
        BY <2>3
    <2>6. Goto(r, "deploy")
        BY <1>2, <1>6, <2>3, <2>4, <2>5 DEF CheckDeploy, Gate
    <2>7. QED BY <1>3, <2>1, <2>6 DEF Way
<1>7. CASE Deploy(r)
    <2>1. run[r].pc = "deploy"
        BY <1>7 DEF Deploy, At
    <2>2. CASE run' = [run EXCEPT ![r] = [@ EXCEPT !.pc = "verify", !.reached = Reach(r, 4)]]
        <3>1. run'[r].pc = "verify"
            BY <1>1, <2>2 DEF Run
        <3>2. QED BY <1>3, <2>1, <3>1 DEF Way
    <2>3. QED BY <1>7, <2>2 DEF Deploy
<1>8. CASE VerifyLive(r)
    <2>1. active = r /\ run[r].pc = "verify"
        BY <1>8 DEF VerifyLive, At
    <2>2. run[r].reached = 4 /\ IsSite(run[r].record, registry, None) /\ Shows(run[r].record)
        BY <1>5, <2>1, GoodHas DEF StagedInv, Staged, StandingInv
    <2>3. LiveVerified(r)
        BY <2>2, ShownVerifies
    <2>4. run'[r].pc = "succeeded"
        BY <1>1, <1>8, <2>3 DEF VerifyLive, End, Run
    <2>5. QED BY <1>3, <2>1, <2>4 DEF Way
<1>9. QED BY <1>4, <1>6, <1>7, <1>8 DEF Pages

\* A standing run is moved by its own steps only.
LEMMA MovesOnward ==
    ASSUME Good, [Next]_vars, NEW r \in Runs, Standing(r), run'[r].pc # run[r].pc
    PROVE  Onward(r) \/ failures' = failures + 1 \/ \E job \in 1 .. 4 : Rerun(r, job)
<1>1. run[r].pc \notin {"undispatched", "queued"}
    <2>1. run[r].reached >= 1 /\ run[r].reached \in 0 .. 4
        BY FindsItself, GoodHas
    <2>2. QED BY <2>1, NotYet
<1>2. ASSUME NEW q \in Runs, RunStep(q) \/ Preflight(q) \/ Fail(q) \/ \E job \in 1 .. 4 : Rerun(q, job)
      PROVE  q = r
    BY <1>2, GoodHas, JobMoves DEF Moves
<1>3. ASSUME NEW q \in Runs, Dispatch(q) PROVE FALSE
    <2>1. q = r
        BY <1>3, GoodHas, DispatchMoves
    <2>2. QED BY <1>1, <1>3, <2>1 DEF Dispatch
<1>4. ASSUME NEW q \in Runs, RunStep(q) PROVE Onward(r) \/ failures' = failures + 1
    BY <1>2, <1>4, PublishOnward, PagesOnward DEF RunStep
<1>5. ASSUME NEW q \in Runs, Preflight(q) PROVE FALSE
    BY <1>1, <1>2, <1>5 DEF Preflight
<1>6. ASSUME NEW q \in Runs, Fail(q) PROVE failures' = failures + 1
    BY <1>6 DEF Fail
<1>7. ASSUME NEW q \in Runs, NEW job \in 1 .. 4, Rerun(q, job) PROVE Rerun(r, job)
    BY <1>2, <1>7
<1>8. ~(Landing \/ Manual \/ UNCHANGED vars)
    BY GoodHas, LandingLands, ManualKeeps DEF Landed, vars
<1>9. QED BY <1>3, <1>4, <1>5, <1>6, <1>7, <1>8 DEF Next

\* Whenever it is not in progress it can be run again from the job that it reached, and once it
\* succeeded it is live; what else is public and not retired by its registry is live all along.
Resumable ==
    \A r \in Runs : Standing(r) =>
        /\ active # r => run[r].pc \in {"stopped", "succeeded"} /\ run[r].reached \in 1 .. 4
        /\ run[r].pc = "succeeded" => live[run[r].version] = r
        /\ \A i \in Public :
             \/ releases[i].version \in Retired(run[r].registry) \cup {run[r].version}
             \/ live[releases[i].version] = releases[i].assets[Sums]

\* No check refuses it: it takes the next step of the way, unless a request fails or its runner
\* dies, or is run again.
GoesOn ==
    \A r \in Runs : manual = 0 /\ Standing(r) /\ run'[r].pc # run[r].pc =>
        Onward(r) \/ failures' = failures + 1 \/ \E job \in 1 .. 4 : Rerun(r, job)

\* The invariant says so.
LEMMA IsResumable == Good => Resumable
<1> SUFFICES ASSUME Good, NEW r \in Runs, Standing(r)
             PROVE  /\ active # r => run[r].pc \in {"stopped", "succeeded"} /\ run[r].reached \in 1 .. 4
                    /\ run[r].pc = "succeeded" => live[run[r].version] = r
                    /\ \A i \in Public :
                         \/ releases[i].version \in Retired(run[r].registry) \cup {run[r].version}
                         \/ live[releases[i].version] = releases[i].assets[Sums]
    BY DEF Resumable
<1>1. Clear(run[r]) /\ run[r].reached >= 1 /\ run[r].reached \in 0 .. 4 /\ Staged(r)
    BY FindsItself, GoodHas DEF StagedInv
<1>2. active # r => run[r].pc \in {"stopped", "succeeded"} /\ run[r].reached \in 1 .. 4
    BY <1>1 DEF Staged
<1>3. ASSUME run[r].pc = "succeeded" PROVE live[run[r].version] = r
    <2>1. IsSite(run[r].record, run[r].registry, None) /\ Shows(run[r].record)
        BY <1>1, <1>3, GoodHas DEF Staged, StandingInv
    <2>2. QED BY <2>1, ShownVerifies DEF LiveVerified
<1>4. ASSUME NEW i \in Public,
             releases[i].version \notin Retired(run[r].registry) \cup {run[r].version}
      PROVE  live[releases[i].version] = releases[i].assets[Sums]
    <2>1. releases[i].version \in Others(run[r])
        BY <1>4, GoodHas, GoodFacts DEF Others
    <2>2. QED BY <1>1, <2>1 DEF Clear
<1>5. QED BY <1>2, <1>3, <1>4

\* What was made public gets live, whatever fails and however often it is run again, as long as
\* nobody changes releases, tags or the setting by hand: the newest public release's run is
\* refused by no check of publish-release, pages-build, pages-deploy and verify-live, all others
\* are live already, and from any stop it is at most eleven steps from success.
THEOREM PublicGoesOn == Spec => [](manual = 0 => Resumable) /\ [][GoesOn]_vars
<1>1. Init => IssueInv
    BY PublicationConstants DEF Init, IssueInv, OneEach, Spent, Existing, At
<1>2. IInv /\ IssueInv /\ ForwardInv /\ Untouched /\ manual = 0 => Good
    BY DEF Untouched, Good, Calm, ForwardInv
<1>3. IInv /\ IssueInv /\ ForwardInv /\ Untouched => (manual = 0 => Resumable)
    BY <1>2, IsResumable
<1>4. IInv /\ IssueInv /\ ForwardInv /\ Untouched /\ [Next]_vars => [GoesOn]_vars
    BY <1>2, MovesOnward DEF GoesOn
<1>5. IInv /\ [Next]_vars => IInv'
    BY StepInv
<1>6. QED BY <1>1, <1>3, <1>4, <1>5, InitInv, InitForward, InitUntouched, IssueStep, ForwardStep,
          UntouchedStep, PTL DEF Spec
=============================================================================
