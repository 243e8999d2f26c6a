---------------------------- MODULE SourcePinning ---------------------------
(***************************************************************************)
(* From an upstream release to a source bundle.                            *)
(*   .github/workflows/upstream-watch.yml, scripts/ci/check_upstream.py:   *)
(*     opens one issue per release newer than the pinned one.              *)
(*   .github/workflows/prepare-candidate.yml, prepare_candidate.py:        *)
(*     turns one issue into a re-pinned lock on a branch and a draft PR.   *)
(*   SourceBundle: archives the sources of main's or a branch's lock.      *)
(*                                                                         *)
(* Upstreams release, move and delete tags at any moment; jobs die between *)
(* any two steps; people close issues, merge, delete branches and edit the *)
(* lock by hand.  Each workflow has a concurrency group of its own, so one *)
(* run of each is in progress at most, and they interleave.                *)
(***************************************************************************)
EXTENDS SourceBundle

CONSTANTS
    MaxVersion,     \* bound: releases of one upstream
    Shapes,         \* Shapes[c]: what a release of c may change, [moved, left, added, annotated]
    CompanionTrees, \* CompanionTrees[s][n]: the gitlinks of the n-th commit of companion s
    HandErrors,     \* what a hand edit of the lock may get wrong
    CloneFlaws,     \* flaws of a clone the prepare job makes
    Apis,           \* how upstreams may answer for ever: Apis[c] is one of Answers
    MaxMishaps,     \* bound: dead jobs, flawed clones, moved tags, closed issues, hand edits, ...
    MaxDispatches   \* bound: runs of prepare-candidate

\* An upstream answers, or queries of it raise what scan catches, or what it does
\* not: both releases/latest and the tags answer 404.
Answers == {"answers", "fails", "absent"}

\* The job's own git writes archives as documented.  No declared path is the name
\* that the model gives to an added one.
ASSUME PinningConstants ==
    /\ MaxVersion \in Nat \ {0} /\ Apis \subseteq [Watched -> Answers]
    /\ MaxMishaps \in Nat /\ MaxDispatches \in Nat
    /\ HandErrors \subseteq {"links", "object", "draft"}
    /\ "tar" \notin CloneFlaws /\ None \notin {"config", "commit", "lfs", "tar"}
    /\ \A l \in Links : l.path # "added"

VARIABLES
    upstream,    \* [c][v]: None, or a release: its shape, moves of its tag, tag deleted
    api,         \* how each upstream's API answers
    main,        \* the lock on main
    qualified,   \* a production profile is qualified
    issues,      \* sequence: [comp, tag, commit, open], labelled upstream-update
    watch,       \* the watch run
    prepare,     \* the prepare run
    branches,    \* [<<comp, tag>> -> [base, lock]]
    prs,         \* branches with an open draft PR
    spent        \* mishaps and dispatches so far
pinVars == <<api, main, qualified, issues, watch, prepare, branches, prs, spent, upstream>>
vars == <<bundleVars, pinVars>>

Versions == 1..MaxVersion
First == [shape |-> [moved |-> {}, left |-> {}, added |-> FALSE, annotated |-> FALSE],
          moves |-> 0, gone |-> FALSE]

\* Where no release is, there is something else than a release.
ASSUME NoneIsNoRelease ==
    \A c \in Watched : None \notin [shape : Shapes[c] \cup {First.shape},
                                    moves : 0..MaxMishaps, gone : BOOLEAN]

\* releases/latest.
Latest(c) == CHOOSE v \in Versions :
    /\ upstream[c][v] # None
    /\ \A w \in Versions : upstream[c][w] # None => w <= v

\* What the tag of release v names after k moves, and what it names now.
RefAt(c, v, k) ==
    [commit |-> <<c, v, k>>,
     object |-> IF upstream[c][v].shape.annotated THEN <<"tag", c, v, k>> ELSE None]
Ref(c, v) == IF upstream[c][v].gone THEN None ELSE RefAt(c, v, upstream[c][v].moves)

\* The gitlinks of a commit's tree, a companion's own included.  Moving a tag
\* changes none of them.
Tree(commit) ==
    LET c == commit[1]
        v == commit[2]
        sh == upstream[c][v].shape
        rev(p) == 1 + Cardinality({w \in 1..v : upstream[c][w] # None
                                                /\ p \in upstream[c][w].shape.moved})
        kept == {l \in LinksOf(c) : l.path \notin sh.left}
    IN IF c \notin Watched THEN CompanionTrees[c][v]
       ELSE [p \in {l.path : l \in kept} \cup (IF sh.added THEN {"added"} ELSE {}) |->
               IF p = "added" THEN <<p, 1, 0>>
               ELSE LET l == CHOOSE x \in kept : x.path = p
                    IN <<IF l.source = None THEN p ELSE l.source, rev(p), 0>>]

\* The lock when the model starts: every source at its first release.
FirstLock ==
    [pin |-> [s \in Sources |-> Pin(IF s \in Watched THEN "git_tag" ELSE "git_commit",
                                    IF s \in Watched THEN 1 ELSE None, None,
                                    <<s, 1, 0>>, Digest(s, <<s, 1, 0>>))],
     link |-> [l \in Links |-> IF l.parent \in Watched
                               THEN <<IF l.source = None THEN l.path ELSE l.source, 1, 0>>
                               ELSE CompanionTrees[l.parent][1][l.path]],
     status |-> "sealed"]

NoWatch == [pc |-> "idle", pinned |-> <<>>, keys |-> {}, todo |-> {}, found |-> <<>>]
NoPrepare == [pc |-> "idle", issue |-> 0, base |-> None, qualified |-> FALSE,
              ref |-> None, out |-> None]

Init ==
    /\ BundleInit
    /\ upstream = [c \in Watched |-> [v \in Versions |-> IF v = 1 THEN First ELSE None]]
    /\ api \in Apis
    /\ main = FirstLock /\ qualified = FALSE
    /\ issues = <<>> /\ watch = NoWatch /\ prepare = NoPrepare
    /\ branches = <<>> /\ prs = {}
    /\ spent = [mishaps |-> 0, dispatches |-> 0]

Mishap == spent.mishaps < MaxMishaps /\ spent' = [spent EXCEPT !.mishaps = @ + 1]
-----------------------------------------------------------------------------
(* Upstreams *)

Release(c, v, sh) ==
    /\ upstream[c][v] = None /\ upstream[c][v - 1] # None
    /\ upstream' = [upstream EXCEPT ![c][v] = [First EXCEPT !.shape = sh]]
    /\ UNCHANGED <<bundleVars, api, main, qualified, issues, watch, prepare, branches, prs, spent>>

MoveTag(c, v) ==
    /\ upstream[c][v] # None /\ Mishap
    /\ \/ upstream' = [upstream EXCEPT ![c][v].moves = @ + 1, ![c][v].gone = FALSE]
       \/ upstream' = [upstream EXCEPT ![c][v].gone = ~@]
    /\ UNCHANGED <<bundleVars, api, main, qualified, issues, watch, prepare, branches, prs>>
-----------------------------------------------------------------------------
(* The watch run *)

watchUnchanged == <<bundleVars, upstream, api, main, qualified, prepare, branches, prs>>

\* A release whose tag cannot be resolved has a key like any other.
Key(issue) == <<issue.comp, issue.tag>>
ResolvedKeys == {Key(issues[i]) : i \in {j \in DOMAIN issues : issues[j].open /\ issues[j].commit # None}} \* mutant: unresolved ones are not counted as known
\* existing_keys of the open labelled issues.
OpenKeys == {Key(issues[i]) : i \in {j \in DOMAIN issues : issues[j].open}}

\* The run starts on the lock it checked out and lists the open issues.
WatchStart ==
    /\ watch.pc = "idle"
    /\ watch' = [NoWatch EXCEPT !.pc = "scan", !.keys = OpenKeys, !.todo = Watched,
                                !.pinned = [c \in Watched |-> main.pin[c].tag]]
    /\ UNCHANGED <<watchUnchanged, issues, spent>>

Finding(c, v) == [comp |-> c, tag |-> v,
                  commit |-> IF Ref(c, v) = None THEN None ELSE Ref(c, v).commit, open |-> TRUE]

\* Components are asked in the order of their names.
Asks(c) ==
    /\ watch.pc = "scan" /\ c \in watch.todo
    /\ \A i, j \in DOMAIN Order : Order[i] = c /\ Order[j] \in watch.todo => i <= j

\* One component of scan: a newer release without an open issue is a finding.
ScanAnswered(c) ==
    LET v == Latest(c) IN
    /\ Asks(c) /\ api[c] = "answers"
    /\ watch' = [watch EXCEPT !.todo = @ \ {c},
                              !.found = IF v > watch.pinned[c] /\ <<c, v>> \notin watch.keys
                                        THEN Append(@, Finding(c, v)) ELSE @]
    /\ UNCHANGED <<watchUnchanged, issues, spent>>

Uncaught(c) == NoWatch \* mutant: a failed query ends the scan
\* check-failed: the other components are still asked.
CheckFailed(c) == [watch EXCEPT !.todo = @ \ {c}]

\* The query raises what scan catches.
ScanFailed(c) ==
    /\ Asks(c)
    /\ IF api[c] = "fails" THEN UNCHANGED spent ELSE Mishap
    /\ watch' = CheckFailed(c)
    /\ UNCHANGED <<watchUnchanged, issues>>

\* The tags answer 404: _NotFound is not caught.  The run fails without
\* findings.json, whatever it has found of other components.
ScanAborted(c) ==
    /\ Asks(c)
    /\ IF api[c] = "absent" THEN UNCHANGED spent ELSE Mishap
    /\ watch' = NoWatch
    /\ UNCHANGED <<watchUnchanged, issues>>

\* Issues are created one by one; then the run ends.
OpenIssue ==
    /\ watch.pc = "scan" /\ watch.todo = {} /\ watch.found # <<>>
    /\ issues' = Append(issues, Head(watch.found))
    /\ watch' = [watch EXCEPT !.found = Tail(@)]
    /\ UNCHANGED <<watchUnchanged, spent>>
WatchEnd ==
    /\ watch.pc = "scan" /\ watch.todo = {} /\ watch.found = <<>>
    /\ watch' = NoWatch
    /\ UNCHANGED <<watchUnchanged, issues, spent>>

\* The job is lost or times out: issues not created yet are not created.
WatchDies == watch.pc # "idle" /\ Mishap /\ watch' = NoWatch /\ UNCHANGED <<watchUnchanged, issues>>
-----------------------------------------------------------------------------
(* The prepare run *)

prepareUnchanged == <<bundleVars, upstream, api, main, qualified, issues, watch>>
Failed == prepare' = NoPrepare

\* A maintainer dispatches it for an issue, which must be open.  The lock and the
\* profiles are those of this checkout.
Dispatch(i) ==
    /\ prepare.pc = "idle" /\ spent.dispatches < MaxDispatches
    /\ issues[i].open
    /\ prepare' = [NoPrepare EXCEPT !.pc = "resolve", !.issue = i, !.base = main,
                                    !.qualified = qualified]
    /\ spent' = [spent EXCEPT !.dispatches = @ + 1]
    /\ UNCHANGED <<prepareUnchanged, branches, prs>>

Selected == issues[prepare.issue]
Candidate == <<Selected.comp, Selected.tag>>

\* The tag is resolved anew; it must exist.
Resolve ==
    /\ prepare.pc = "resolve"
    /\ LET ref == Ref(Selected.comp, Selected.tag) IN
        IF ref = None THEN Failed
        ELSE prepare' = [prepare EXCEPT !.pc = "produce", !.ref = ref]
    /\ UNCHANGED <<prepareUnchanged, branches, prs, spent>>

KeepKind(lk, c, v, ref, digest) == \* mutant: kind and tag object are left as they were
    [lk EXCEPT !.pin[c] = [@ EXCEPT !.tag = v, !.commit = ref.commit, !.digest = digest]]
\* apply_pin: nothing changes when tag, commit and digest are already there.
ApplyPin(lk, c, v, ref, digest) ==
    LET pin == lk.pin[c] IN
    IF pin.tag = v /\ pin.commit = ref.commit /\ pin.digest = digest THEN lk
    ELSE [lk EXCEPT !.pin[c] = Pin(IF ref.object = None THEN "git_tag" ELSE "git_annotated_tag",
                                   v, ref.object, ref.commit, digest)]

MovedLinks(lk, c, tree) == {l \in LinksOf(c) : l.path \in DOMAIN tree /\ tree[l.path] # lk.link[l]}

\* apply_commit_pin and _source_url: there is such a record, without a tag.
Repinnable(lk, s) == s \in Sources /\ lk.pin[s].kind = "git_commit" /\ lk.pin[s].tag = None

\* The walk over the declared gitlinks stops at one that left the tree, or that
\* moved and is a system package, or whose companion has no digest or other record.
WalkRefuses(lk, c, tree, flaw) ==
    \E l \in LinksOf(c) :
        \/ l.path \notin DOMAIN tree
        \/ /\ l \in MovedLinks(lk, c, tree)
           /\ \/ l.disposition = "system"
              \/ /\ l.disposition = "bundled"
                 /\ \/ ~Repinnable(lk, l.source)
                    \/ HashCachedSource(l.source, tree[l.path], flaw) = None

\* update_gitlink_stanza for every moved gitlink, apply_commit_pin for its companion,
\* whose own gitlinks are not looked at.
WalkLinks(lk, c, tree, flaw) ==
    LET moved == MovedLinks(lk, c, tree)
        link(s) == CHOOSE l \in moved : l.source = s
        companions == {l.source : l \in {m \in moved : m.disposition = "bundled"
                                                        /\ Repinnable(lk, m.source)}}
    IN [lk EXCEPT !.link = [l \in Links |-> IF l \in moved THEN tree[l.path] ELSE @[l]],
                  !.pin = [s \in Sources |->
                     IF s \in companions /\ @[s].commit # tree[link(s).path]
                     THEN [@[s] EXCEPT !.commit = tree[link(s).path],
                                       !.digest = HashCachedSource(s, tree[link(s).path], flaw)]
                     ELSE @[s]]]

\* Exit 4: the tag names another commit than the watcher recorded.
StillObserved == prepare.ref.commit = Selected.commit

\* prepare_candidate.py and validate-source-lock, on a clone of the component
\* and clones of moved companions; `flaw' is in the one or in the others.
Produce(flaw, companionFlaw) ==
    LET c == Selected.comp
        v == Selected.tag
        digest == HashCachedSource(c, prepare.ref.commit, flaw)
        pinned == ApplyPin(prepare.base, c, v, prepare.ref, digest)
        tree == Tree(prepare.ref.commit)
        out == WalkLinks(pinned, c, tree, companionFlaw)
    IN
    /\ prepare.pc = "produce"
    /\ IF flaw = None /\ companionFlaw = None THEN UNCHANGED spent ELSE Mishap
    /\ IF \/ prepare.qualified \/ ~StillObserved
          \/ digest = None \/ WalkRefuses(pinned, c, tree, companionFlaw)
          \/ out = prepare.base \/ ~ValidLock(out)
       THEN Failed
       ELSE prepare' = [prepare EXCEPT !.pc = "push", !.out = out]
    /\ UNCHANGED <<prepareUnchanged, branches, prs>>

\* ls-remote and gh pr list: neither the branch nor an open PR exists.
BranchIsFree == Candidate \notin DOMAIN branches /\ Candidate \notin prs

Push ==
    /\ prepare.pc = "push"
    /\ IF BranchIsFree
       THEN /\ branches' = [b \in DOMAIN branches \cup {Candidate} |->
                              IF b = Candidate THEN [base |-> prepare.base, lock |-> prepare.out]
                              ELSE branches[b]]
            /\ prepare' = [prepare EXCEPT !.pc = "pr"]
       ELSE Failed /\ UNCHANGED branches
    /\ UNCHANGED <<prepareUnchanged, prs, spent>>

OpenPr ==
    /\ prepare.pc = "pr"
    /\ prs' = prs \cup ({Candidate} \cap DOMAIN branches)
    /\ Failed
    /\ UNCHANGED <<prepareUnchanged, branches, spent>>

\* The job is lost, or a clone, fetch, push or gh call fails.
PrepareDies ==
    /\ prepare.pc # "idle" /\ Mishap /\ Failed
    /\ UNCHANGED <<prepareUnchanged, branches, prs>>
-----------------------------------------------------------------------------
(* People *)

CloseIssue(i) ==
    /\ issues[i].open /\ Mishap
    /\ issues' = [issues EXCEPT ![i].open = FALSE]
    /\ UNCHANGED <<bundleVars, upstream, api, main, qualified, watch, prepare, branches, prs>>

\* A profile is qualified: whoever checks it out refuses every preparation (exit 3).
Qualify ==
    /\ ~qualified /\ Mishap /\ qualified' = TRUE
    /\ UNCHANGED <<bundleVars, upstream, api, main, issues, watch, prepare, branches, prs>>

\* Merging applies the records the branch changed, if main still has their base.
Changed(b) == {s \in Sources : b.lock.pin[s] # b.base.pin[s]}
ChangedLinks(b) == {l \in Links : b.lock.link[l] # b.base.link[l]}
Merge(k) ==
    LET b == branches[k] IN
    /\ k \in prs /\ k \in DOMAIN branches
    /\ \A s \in Changed(b) : main.pin[s] = b.base.pin[s]
    /\ \A l \in ChangedLinks(b) : main.link[l] = b.base.link[l]
    /\ main' = [main EXCEPT !.pin = [s \in Sources |-> IF s \in Changed(b) THEN b.lock.pin[s] ELSE @[s]],
                            !.link = [l \in Links |-> IF l \in ChangedLinks(b) THEN b.lock.link[l] ELSE @[l]]]
    /\ prs' = prs \ {k}
    /\ UNCHANGED <<bundleVars, upstream, api, qualified, issues, watch, prepare, branches, spent>>

\* Deleting a branch closes its PR.
DeleteBranch(k) ==
    /\ k \in DOMAIN branches /\ Mishap
    /\ branches' = [b \in DOMAIN branches \ {k} |-> branches[b]]
    /\ prs' = prs \ {k}
    /\ UNCHANGED <<bundleVars, upstream, api, main, qualified, issues, watch, prepare>>

\* The manual completion: c is pinned to release v on main, with one error.
HandPin(c, v, error) ==
    LET ref == Ref(c, v)
        tree == Tree(ref.commit)
        pinned == ApplyPin(main, c, v, ref, Digest(c, ref.commit))
    IN
    /\ upstream[c][v] # None /\ main.pin[c].tag < v /\ ref # None /\ Mishap
    /\ main' = CASE error = "links" -> pinned
                 [] error = "object" -> [WalkLinks(pinned, c, tree, None)
                                           EXCEPT !.pin[c].kind = "git_annotated_tag"]
                 [] error = "draft" -> [WalkLinks(pinned, c, tree, None) EXCEPT !.status = "draft"]
    /\ UNCHANGED <<bundleVars, upstream, api, qualified, issues, watch, prepare, branches, prs>>

\* A clone of each source: the tag as some fetch found it, the tree of the
\* locked commit, and one source with a flaw.
Clones(lk, k, flawed, flaw) ==
    [s \in Sources |->
        [ref |-> IF s \in Watched THEN RefAt(s, lk.pin[s].tag, k[s]) ELSE None,
         tree |-> Tree(lk.pin[s].commit),
         flaw |-> IF s = flawed THEN flaw ELSE None]]
Locks == {main} \cup {branches[k].lock : k \in DOMAIN branches}

\* A bundle of main or of a branch.  It runs on a maintainer's machine and
\* reads the lock and the clones once, so nothing is lost when the rest waits
\* from its start, with both workflows idle, until its output is taken away.
Bundle(lk, flawed, flaw) ==
    /\ watch.pc = "idle" /\ prepare.pc = "idle"
    /\ \E k \in [Watched -> 0..MaxMishaps] :
        /\ \A c \in Watched : k[c] <= upstream[c][lk.pin[c].tag].moves
        /\ BundleStart(lk, Clones(lk, k, flawed, flaw))
    /\ IF flaw = None THEN UNCHANGED spent ELSE Mishap
    /\ UNCHANGED <<upstream, api, main, qualified, issues, watch, prepare, branches, prs>>
-----------------------------------------------------------------------------
WatchStep ==
    \/ WatchStart \/ OpenIssue \/ WatchEnd
    \/ \E c \in Watched : ScanAnswered(c) \/ ScanFailed(c) \/ ScanAborted(c)
WatchRuns ==
    \/ WatchStart \/ OpenIssue \/ WatchEnd
    \/ \E c \in Watched : \/ ScanAnswered(c)
                         \/ (api[c] = "fails" /\ ScanFailed(c))
                         \/ (api[c] = "absent" /\ ScanAborted(c))
PrepareStep ==
    \/ Resolve \/ Push \/ OpenPr
    \/ \E f \in CloneFlaws : Produce(None, None) \/ Produce(f, None) \/ Produce(None, f)
PeopleStep ==
    \/ Qualify
    \/ \E i \in DOMAIN issues : Dispatch(i) \/ CloseIssue(i)
    \/ \E k \in DOMAIN branches : Merge(k) \/ DeleteBranch(k)
    \/ \E c \in Watched, v \in Versions, e \in HandErrors : HandPin(c, v, e)
UpstreamStep ==
    \E c \in Watched, v \in Versions :
        (v > 1 /\ \E sh \in Shapes[c] : Release(c, v, sh)) \/ MoveTag(c, v)
BundleRuns == BundleStep /\ UNCHANGED pinVars
BundleStops ==
    /\ BundleFails \/ BundleKilled
    /\ Mishap
    /\ UNCHANGED <<upstream, api, main, qualified, issues, watch, prepare, branches, prs>>

NoBundle == Idle /\ output = Empty
Next ==
    \/ NoBundle /\ (WatchStep \/ WatchDies \/ PrepareStep \/ PrepareDies \/ PeopleStep \/ UpstreamStep)
    \/ \E lk \in Locks, s \in Sources, f \in Flaws \cup {None} : Bundle(lk, s, f)
    \/ BundleRuns \/ BundleStops
    \/ ClearOutput /\ UNCHANGED pinVars

\* The schedule starts watch runs for ever and a started process goes on.  The
\* watch does not really wait for bundles: it is strongly fair, and outputs are
\* taken away, so that the model's waiting never stands for its starvation.
Fairness ==
    /\ SF_vars(NoBundle /\ WatchRuns)
    /\ WF_vars(BundleRuns) /\ WF_vars(ClearOutput /\ UNCHANGED pinVars)
Spec == Init /\ [][Next]_vars /\ Fairness
-----------------------------------------------------------------------------
PinType == [kind : {"git_tag", "git_annotated_tag", "git_commit"}, tag : Versions \cup {None},
            object : {None} \cup {<<"tag", c, v, k>> : c \in Watched, v \in Versions, k \in 0..MaxMishaps},
            commit : Sources \X Versions \X (0..MaxMishaps),
            digest : {Digest(s, <<s, v, k>>) : s \in Sources, v \in Versions, k \in 0..MaxMishaps}]
LockType(lk) ==
    /\ lk.pin \in [Sources -> PinType]
    /\ \A s \in Sources : lk.pin[s].digest = Digest(s, lk.pin[s].commit)
    /\ DOMAIN lk.link = Links
    /\ lk.status \in {"draft", "sealed"}

\* Every variable has its type, and a lock never records a digest that is not
\* that of the commit it records beside it.
TypeOK ==
    /\ LockType(main)
    /\ \A k \in DOMAIN branches : LockType(branches[k].base) /\ LockType(branches[k].lock)
    /\ prs \subseteq DOMAIN branches /\ DOMAIN branches \subseteq Watched \X Versions
    /\ watch.pc \in {"idle", "scan"} /\ watch.todo \subseteq Watched
    /\ watch.pc = "idle" => watch = NoWatch
    /\ prepare.pc \in {"idle", "resolve", "produce", "push", "pr"}
    /\ prepare.pc # "idle" => prepare.issue \in DOMAIN issues
    /\ \A i \in DOMAIN issues : issues[i].comp \in Watched /\ issues[i].tag \in Versions
    /\ bundle.pc \in {"idle", "sources", "archives", "cleanup"}
    /\ output.staging = None \/ output.staging \subseteq Sources \ External

\* No two open issues are about one release, though a run creates its issues
\* long after it listed the open ones, may die in between, and is followed by
\* another that lists them again.
NoDuplicateIssue ==
    \A i, j \in DOMAIN issues :
        issues[i].open /\ issues[j].open /\ Key(issues[i]) = Key(issues[j]) => i = j

\* Every source of a lock passes bundle_sources, from clones in which each
\* pinned tag is what it was when it named the pinned commit.
Buildable(lk) ==
    /\ ValidLock(lk)
    /\ \A s \in Sources :
          LET commit == lk.pin[s].commit IN
          Accepted(lk, s, [ref |-> IF s \in Watched THEN RefAt(s, commit[2], commit[3]) ELSE None,
                           tree |-> Tree(commit), flaw |-> None])

\* The release behind a branch asked for no more than prepare_update does: it
\* added no gitlink, and each source it re-pinned belongs to one gitlink at most,
\* which moved with it, and has the same gitlinks of its own as before.
WithinTheWalk(k) ==
    LET b == branches[k] IN
    /\ ~upstream[k[1]][k[2]].shape.added
    /\ \A s \in Changed(b) : \A l, m \in Links :
          l.source = s /\ m.source = s => l = m /\ l \in ChangedLinks(b)
    /\ \A s \in Sources \ Watched : Tree(b.lock.pin[s].commit) = Tree(b.base.pin[s].commit)

\* A lock prepared from one that bundles also bundles, as long as the release is
\* within the walk: prepare_candidate.py and source_bundle.rs, which share no
\* code, agree on kinds, tag objects, gitlinks, companions and digests.
PreparedBundles ==
    \A k \in DOMAIN branches :
        Buildable(branches[k].base) /\ WithinTheWalk(k) => Buildable(branches[k].lock)

\* "One complete, buildable pin update", structural gitlink changes "refuse
\* [...] instead of producing a non-buildable lock" (prepare_candidate.py:285-291).
PreparedIsBuildable ==
    \A k \in DOMAIN branches : Buildable(branches[k].base) => Buildable(branches[k].lock)

\* A finished bundle holds the whole source: every gitlink of every tree was
\* declared, and each bundled one is there as an archive of exactly the commit the
\* tree names, whatever hand edits and preparations made the lock.  Only one whose
\* source may not be passed on is left out; no check asks for that.
BundleIsClosed ==
    output.sums # None =>
        \A s \in Sources :
            LET tree == Tree(bundle.lock.pin[s].commit) IN
            /\ DOMAIN tree = {l.path : l \in LinksOf(s)}
            /\ \A l \in LinksOf(s) :
                  l.disposition = "bundled" /\ l.source \notin External =>
                      output.files[l.source] = Digest(l.source, tree[l.path])

Tracked(c, v) == \E i \in DOMAIN issues : issues[i].open /\ Key(issues[i]) = <<c, v>>
\* A release newer than the pinned one gets an open issue in the end, though the
\* queries of another upstream always fail, runs die half-way and people close
\* issues, unless it is pinned or superseded first.  An upstream that is gone ends
\* every scan for all of them.  The first releases are pinned already.
NewerIsTracked ==
    \A c \in Watched, v \in Versions \ {1} :
        /\ Latest(c) = v /\ main.pin[c].tag < v
        /\ api[c] = "answers" /\ \A d \in Watched : api[d] # "absent"
        ~> Tracked(c, v) \/ main.pin[c].tag >= v \/ Latest(c) > v
=============================================================================
