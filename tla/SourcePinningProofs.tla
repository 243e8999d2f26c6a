-------------------------- MODULE SourcePinningProofs --------------------------
(***************************************************************************)
(* The upstream watch opens no issue twice, and a bundle is whole wherever *)
(* bundle_sources fails or is killed, and closed under gitlinks: for every *)
(* lock, every set of gitlinks and releases, whatever clones, issues and   *)
(* hand edits there are, for any number of calls and runs.  IssuesInv      *)
(* relates what a watch run has found and has yet to ask to the issues     *)
(* that are open now, not to those it listed when it started.  IInv says   *)
(* how far the output has come at each place of the process, OwnInv that   *)
(* locks record digests of their own commits, ClosedInv what the           *)
(* comparison has shown.  TypedInv says which locks there can be, given    *)
(* what the upstreams have, PreparedInv that preparations keep them        *)
(* bundling.                                                               *)
(***************************************************************************)
EXTENDS SourcePinning, TLAPS, SequenceTheorems, FiniteSetTheorems

-----------------------------------------------------------------------------
(* The watch. *)

IsSequence(s) == s \in Seq(Range(s))
IsIssue(x) == x = [comp |-> x.comp, tag |-> x.tag, commit |-> x.commit, open |-> x.open]

IssuesShape ==
    /\ IsSequence(issues) /\ \A i \in DOMAIN issues : IsIssue(issues[i])
    /\ IsSequence(watch.found) /\ \A x \in DOMAIN watch.found : IsIssue(watch.found[x])
    /\ watch = [pc |-> watch.pc, pinned |-> watch.pinned, keys |-> watch.keys,
                todo |-> watch.todo, found |-> watch.found]

\* No finding is open already, or found twice.
FoundIsNew(is, found) ==
    /\ \A i \in DOMAIN is, x \in DOMAIN found : is[i].open => Key(is[i]) # Key(found[x])
    /\ \A x, y \in DOMAIN found : Key(found[x]) = Key(found[y]) => x = y
    /\ \A x \in DOMAIN found : found[x].open

\* Findings are of components asked before; of one yet to ask, every open issue is
\* among the keys listed at the start.
AskedOnce(is, todo, keys, found) ==
    /\ \A x \in DOMAIN found : found[x].comp \notin todo
    /\ \A i \in DOMAIN is : is[i].open /\ is[i].comp \in todo => Key(is[i]) \in keys

IssuesInv ==
    /\ IssuesShape
    /\ NoDuplicateIssue
    /\ FoundIsNew(issues, watch.found)
    /\ AskedOnce(issues, watch.todo, watch.keys, watch.found)

-----------------------------------------------------------------------------
(* Sequences. *)

\* A sequence with one element more: what is where.
LEMMA Appended ==
    ASSUME NEW s, IsSequence(s), NEW e
    PROVE  /\ IsSequence(Append(s, e))
           /\ Len(s) \in Nat /\ DOMAIN s = 1 .. Len(s)
           /\ DOMAIN Append(s, e) = 1 .. Len(s) + 1
           /\ Append(s, e)[Len(s) + 1] = e
           /\ \A i \in DOMAIN s : Append(s, e)[i] = s[i]
<1> DEFINE R == Range(s) \cup {e}
<1>1. Range(s) \subseteq R /\ e \in R
    OBVIOUS
<1> HIDE DEF R
<1>2. s \in Seq(R)
    BY <1>1, SeqMonotonic DEF IsSequence
<1>3. Append(s, e) \in Seq(R)
    BY <1>1, <1>2, AppendProperties
<1>4. IsSequence(Append(s, e))
    BY <1>3, SeqOfRange DEF IsSequence
<1>5. Len(s) \in Nat /\ DOMAIN s = 1 .. Len(s)
    BY <1>2, LenProperties
<1>6. /\ Len(Append(s, e)) = Len(s) + 1
      /\ Append(s, e)[Len(s) + 1] = e
      /\ \A i \in 1 .. Len(s) : Append(s, e)[i] = s[i]
    BY <1>1, <1>2, AppendProperties
<1>7. DOMAIN Append(s, e) = 1 .. Len(s) + 1
    BY <1>3, <1>6, LenProperties
<1>8. QED BY <1>4, <1>5, <1>6, <1>7

\* A sequence without its first element: what is where.
LEMMA Taken ==
    ASSUME NEW s, IsSequence(s), s # <<>>
    PROVE  /\ IsSequence(Tail(s)) /\ Head(s) = s[1]
           /\ 1 \in DOMAIN s
           /\ \A i \in DOMAIN Tail(s) : i \in Nat /\ i + 1 \in DOMAIN s /\ Tail(s)[i] = s[i + 1]
                                        /\ i + 1 # 1
<1> DEFINE R == Range(s)
<1>1. s \in Seq(R)
    BY DEF IsSequence
<1> HIDE DEF R
<1>2. Tail(s) \in Seq(R) /\ Len(Tail(s)) = Len(s) - 1
    BY <1>1, HeadTailProperties
<1>3. Len(s) \in Nat /\ Len(s) > 0 /\ DOMAIN s = 1 .. Len(s) /\ DOMAIN Tail(s) = 1 .. Len(s) - 1
    BY <1>1, <1>2, LenProperties, EmptySeq
<1>4. \A i \in 1 .. Len(s) - 1 : Tail(s)[i] = s[i + 1]
    BY <1>1, <1>3, HeadTailProperties
<1>5. Head(s) = s[1]
    BY <1>1, HeadTailProperties
<1>6. IsSequence(Tail(s))
    BY <1>2, SeqOfRange DEF IsSequence
<1>7. 1 \in DOMAIN s
    BY <1>3
<1>8. ASSUME NEW i \in DOMAIN Tail(s)
      PROVE  i \in Nat /\ i + 1 \in DOMAIN s /\ Tail(s)[i] = s[i + 1] /\ i + 1 # 1
    BY <1>3, <1>4
<1>9. QED BY <1>5, <1>6, <1>7, <1>8

-----------------------------------------------------------------------------
(* The run.  It found nothing before it starts, and nothing is left of it when it ends. *)

\* The findings of a run that has none.
LEMMA Nothing ==
    /\ IsSequence(<<>>)
    /\ DOMAIN <<>> = {}
<1>1. IsSequence(<<>>)
    BY EmptySeq DEF IsSequence
<1>2. QED BY <1>1

\* A run starts with all issues listed and nothing found, or leaves nothing behind.
LEMMA RunBegins ==
    ASSUME IssuesInv, WatchStart \/ (watch' = NoWatch /\ issues' = issues)
    PROVE  IssuesInv'
<1> USE DEF IssuesInv
<1>1. issues' = issues
    BY DEF WatchStart
<1>2. \/ watch' = NoWatch
      \/ watch' = [NoWatch EXCEPT !.pc = "scan", !.keys = OpenKeys, !.todo = Watched,
                                  !.pinned = [c \in Watched |-> main.pin[c].tag]]
    BY DEF WatchStart
<1>3. /\ watch'.found = <<>>
      /\ watch'.todo = {} \/ watch'.keys = OpenKeys
      /\ watch' = [pc |-> watch'.pc, pinned |-> watch'.pinned, keys |-> watch'.keys,
                   todo |-> watch'.todo, found |-> watch'.found]
    <2>1. CASE watch' = NoWatch
        BY <2>1 DEF NoWatch
    <2> DEFINE pinned == [c \in Watched |-> main.pin[c].tag]
    <2>2. CASE watch' = [NoWatch EXCEPT !.pc = "scan", !.keys = OpenKeys, !.todo = Watched,
                                       !.pinned = pinned]
        <3> HIDE DEF pinned
        <3>1. watch' = [pc |-> "scan", pinned |-> pinned, keys |-> OpenKeys,
                        todo |-> Watched, found |-> <<>>]
            BY <2>2 DEF NoWatch
        <3>2. QED BY <3>1
    <2>3. QED BY <1>2, <2>1, <2>2
<1>4. IssuesShape'
    BY <1>1, <1>3, Nothing DEF IssuesShape
<1>5. \A i \in DOMAIN issues : issues[i].open => Key(issues[i]) \in OpenKeys
    BY DEF OpenKeys
<1>6. AskedOnce(issues, watch.todo, watch.keys, watch.found)'
    BY <1>1, <1>3, <1>5, Nothing DEF AskedOnce
<1>7. FoundIsNew(issues, watch.found)'
    BY <1>1, <1>3, Nothing DEF FoundIsNew
<1>8. NoDuplicateIssue'
    BY <1>1 DEF NoDuplicateIssue, Key
<1>9. QED BY <1>4, <1>6, <1>7, <1>8

\* A query that gave nothing leaves one component less to ask.
LEMMA NothingFound ==
    ASSUME IssuesInv, NEW c, watch' = [watch EXCEPT !.todo = @ \ {c}], issues' = issues
    PROVE  IssuesInv'
<1>1. /\ watch' = [pc |-> watch.pc, pinned |-> watch.pinned, keys |-> watch.keys,
                   todo |-> watch.todo \ {c}, found |-> watch.found]
    BY DEF IssuesInv, IssuesShape
<1>2. watch'.found = watch.found /\ watch'.keys = watch.keys /\ watch'.todo = watch.todo \ {c}
    BY <1>1
<1>3. IssuesShape'
    BY <1>1, <1>2 DEF IssuesInv, IssuesShape
<1>4. NoDuplicateIssue' /\ FoundIsNew(issues, watch.found)'
    BY <1>2 DEF IssuesInv, NoDuplicateIssue, FoundIsNew, Key
<1>5. AskedOnce(issues, watch.todo, watch.keys, watch.found)'
    BY <1>2 DEF IssuesInv, AskedOnce, Key
<1>6. QED BY <1>3, <1>4, <1>5 DEF IssuesInv

\* A finding is of a component that was yet to ask: no earlier finding is, and an open
\* issue of it would be among the keys.
LEMMA Found ==
    ASSUME IssuesInv, NEW c \in watch.todo, NEW v, <<c, v>> \notin watch.keys,
           NEW grown, grown = Append(watch.found, Finding(c, v)),
           watch' = [watch EXCEPT !.todo = @ \ {c}, !.found = grown],
           issues' = issues
    PROVE  IssuesInv'
<1> DEFINE new == Finding(c, v)
           n == Len(watch.found)
<1>1. watch' = [pc |-> watch.pc, pinned |-> watch.pinned, keys |-> watch.keys,
                todo |-> watch.todo \ {c}, found |-> grown]
    BY DEF IssuesInv, IssuesShape
<1>2. new.comp = c /\ new.tag = v /\ new.open /\ IsIssue(new) /\ Key(new) = <<c, v>>
    BY DEF Finding, IsIssue, Key
<1> HIDE DEF new
<1>3. /\ IsSequence(watch'.found)
      /\ n \in Nat /\ DOMAIN watch.found = 1 .. n /\ DOMAIN watch'.found = 1 .. n + 1
      /\ watch'.found[n + 1] = new
      /\ \A x \in DOMAIN watch.found : watch'.found[x] = watch.found[x]
    <2>1. watch'.found = grown /\ grown = Append(watch.found, new)
        BY <1>1 DEF new
    <2>2. IsSequence(watch.found)
        BY Zenon DEF IssuesInv, IssuesShape
    <2>3. QED BY <2>1, <2>2, Appended
<1> HIDE DEF n
<1>4. \A x \in DOMAIN watch'.found : x = n + 1 \/ x \in DOMAIN watch.found
    BY <1>3
<1>5. IssuesShape'
    BY <1>1, <1>2, <1>3, <1>4 DEF IssuesInv, IssuesShape
<1>6. \A x \in DOMAIN watch.found : Key(watch.found[x]) # Key(new)
    BY <1>2 DEF IssuesInv, AskedOnce, Key
<1>7. \A i \in DOMAIN issues : issues[i].open => Key(issues[i]) # Key(new)
    BY <1>2 DEF IssuesInv, AskedOnce, Key
<1>8. FoundIsNew(issues, watch.found)'
    <2>1. \A i \in DOMAIN issues', x \in DOMAIN watch'.found :
             issues'[i].open => Key(issues'[i]) # Key(watch'.found[x])
        BY <1>3, <1>4, <1>7 DEF IssuesInv, FoundIsNew
    <2>2. \A x, y \in DOMAIN watch'.found :
             Key(watch'.found[x]) = Key(watch'.found[y]) => x = y
        BY <1>3, <1>4, <1>6 DEF IssuesInv, FoundIsNew
    <2>3. \A x \in DOMAIN watch'.found : watch'.found[x].open
        BY <1>2, <1>3, <1>4 DEF IssuesInv, FoundIsNew
    <2>4. QED BY <2>1, <2>2, <2>3 DEF FoundIsNew, Key
<1>9. AskedOnce(issues, watch.todo, watch.keys, watch.found)'
    BY <1>1, <1>2, <1>3, <1>4 DEF IssuesInv, AskedOnce, Key
<1>10. QED BY <1>5, <1>8, <1>9 DEF IssuesInv, NoDuplicateIssue, Key

\* What is opened was a finding, hence not open, and is none any more.
LEMMA Opened == IssuesInv /\ OpenIssue => IssuesInv'
<1> SUFFICES ASSUME IssuesInv, OpenIssue PROVE IssuesInv'
    OBVIOUS
<1> DEFINE n == Len(issues)
<1>1. /\ watch.todo = {} /\ watch.found # <<>>
      /\ issues' = Append(issues, Head(watch.found))
      /\ watch' = [pc |-> watch.pc, pinned |-> watch.pinned, keys |-> watch.keys,
                   todo |-> {}, found |-> Tail(watch.found)]
    BY DEF OpenIssue, IssuesInv, IssuesShape
<1>2. /\ IsSequence(watch'.found) /\ Head(watch.found) = watch.found[1]
      /\ 1 \in DOMAIN watch.found
      /\ \A x \in DOMAIN watch'.found :
            /\ x \in Nat /\ x + 1 \in DOMAIN watch.found /\ x + 1 # 1
            /\ watch'.found[x] = watch.found[x + 1]
    BY <1>1, Taken DEF IssuesInv, IssuesShape
<1>3. /\ IsSequence(issues')
      /\ n \in Nat /\ DOMAIN issues = 1 .. n /\ DOMAIN issues' = 1 .. n + 1
      /\ issues'[n + 1] = watch.found[1]
      /\ \A i \in DOMAIN issues : issues'[i] = issues[i]
    BY <1>1, <1>2, Appended DEF IssuesInv, IssuesShape
<1> HIDE DEF n
<1>4. \A i \in DOMAIN issues' : i = n + 1 \/ i \in DOMAIN issues
    BY <1>3
<1>5. IssuesShape'
    BY <1>1, <1>2, <1>3, <1>4 DEF IssuesInv, IssuesShape
<1>6. NoDuplicateIssue'
    <2> SUFFICES ASSUME NEW i \in DOMAIN issues', NEW j \in DOMAIN issues',
                        issues'[i].open, issues'[j].open, Key(issues'[i]) = Key(issues'[j])
                 PROVE  i = j
        BY DEF NoDuplicateIssue, Key
    <2>1. CASE i \in DOMAIN issues /\ j \in DOMAIN issues
        BY <1>3, <2>1 DEF IssuesInv, NoDuplicateIssue
    <2>2. CASE i = n + 1 /\ j \in DOMAIN issues
        BY <1>2, <1>3, <2>2 DEF IssuesInv, FoundIsNew
    <2>3. CASE j = n + 1 /\ i \in DOMAIN issues
        BY <1>2, <1>3, <2>3 DEF IssuesInv, FoundIsNew
    <2>4. QED BY <1>4, <2>1, <2>2, <2>3
<1>7. FoundIsNew(issues, watch.found)'
    <2>1. \A i \in DOMAIN issues', x \in DOMAIN watch'.found :
             issues'[i].open => Key(issues'[i]) # Key(watch'.found[x])
        BY <1>2, <1>3, <1>4 DEF IssuesInv, FoundIsNew
    <2>2. ASSUME NEW x \in DOMAIN watch'.found, NEW y \in DOMAIN watch'.found,
                 Key(watch'.found[x]) = Key(watch'.found[y])
          PROVE  x = y
        <3>1. x + 1 = y + 1
            BY <1>2, <2>2 DEF IssuesInv, FoundIsNew
        <3>2. QED BY <1>2, <3>1
    <2>3. \A x \in DOMAIN watch'.found : watch'.found[x].open
        BY <1>2 DEF IssuesInv, FoundIsNew
    <2>4. QED BY <2>1, <2>2, <2>3 DEF FoundIsNew, Key
<1>8. AskedOnce(issues, watch.todo, watch.keys, watch.found)'
    BY <1>1 DEF AskedOnce
<1>9. QED BY <1>5, <1>6, <1>7, <1>8 DEF IssuesInv

\* Closing an issue closes no way for the others.
LEMMA Closed ==
    ASSUME IssuesInv, NEW i \in DOMAIN issues, CloseIssue(i)
    PROVE  IssuesInv'
<1> USE DEF IssuesInv
<1>1. issues' = [issues EXCEPT ![i].open = FALSE] /\ watch' = watch
    BY DEF CloseIssue
<1>2. /\ DOMAIN issues' = DOMAIN issues
      /\ \A j \in DOMAIN issues :
            /\ IsIssue(issues'[j]) /\ Key(issues'[j]) = Key(issues[j])
            /\ issues'[j].comp = issues[j].comp
            /\ issues'[j].open => issues[j].open
    <2>1. DOMAIN issues' = DOMAIN issues /\ \A j \in DOMAIN issues : IsIssue(issues[j])
        BY <1>1 DEF IssuesShape
    <2>2. \A j \in DOMAIN issues : j # i => issues'[j] = issues[j]
        BY <1>1
    <2>3. issues'[i] = [issues[i] EXCEPT !.open = FALSE]
        BY <1>1
    <2>4. issues'[i] = [comp |-> issues[i].comp, tag |-> issues[i].tag,
                        commit |-> issues[i].commit, open |-> FALSE]
        BY <2>1, <2>3 DEF IsIssue
    <2>5. QED BY <2>1, <2>2, <2>4 DEF IsIssue, Key
<1>3. IsSequence(issues')
    <2> DEFINE R == Range(issues) \cup {issues'[i]}
    <2>1. issues \in Seq(R)
        BY SeqMonotonic DEF IssuesShape, IsSequence
    <2>2. issues'[i] \in R /\ issues' = [issues EXCEPT ![i] = issues'[i]]
        BY <1>1
    <2> HIDE DEF R
    <2>3. issues' \in Seq(R)
        BY <2>1, <2>2
    <2>4. QED BY <2>3, SeqOfRange DEF IsSequence
<1>4. IssuesShape'
    BY <1>1, <1>2, <1>3 DEF IssuesShape, IsIssue
<1>5. NoDuplicateIssue'
    BY <1>2 DEF NoDuplicateIssue
<1>6. FoundIsNew(issues, watch.found)'
    BY <1>1, <1>2 DEF FoundIsNew, Key
<1>7. AskedOnce(issues, watch.todo, watch.keys, watch.found)'
    BY <1>1, <1>2 DEF AskedOnce, Key
<1>8. QED BY <1>4, <1>5, <1>6, <1>7

\* What neither run nor people do to the issues changes nothing here.
LEMMA Untouched ==
    ASSUME IssuesInv, issues' = issues, watch' = watch
    PROVE  IssuesInv'
BY DEF IssuesInv, IssuesShape, NoDuplicateIssue, FoundIsNew, AskedOnce, IsIssue, IsSequence, Key

-----------------------------------------------------------------------------
\* At first there are no issues and no run.
LEMMA IssuesInit == Init => IssuesInv
<1> SUFFICES ASSUME Init PROVE IssuesInv
    OBVIOUS
<1>1. issues = <<>> /\ watch = NoWatch /\ watch.found = <<>> /\ watch.todo = {}
    BY DEF Init, NoWatch
<1>2. IssuesShape
    BY <1>1, Nothing DEF IssuesShape, NoWatch
<1>3. QED BY <1>1, <1>2, Nothing DEF IssuesInv, NoDuplicateIssue, FoundIsNew, AskedOnce

\* The steps of the watch and of the people who close issues; the rest leaves both.
LEMMA IssuesStep == IssuesInv /\ [Next]_vars => IssuesInv'
<1> SUFFICES ASSUME IssuesInv, [Next]_vars PROVE IssuesInv'
    OBVIOUS
<1>1. CASE WatchStep
    <2>1. CASE WatchStart \/ WatchEnd
        BY <2>1, RunBegins DEF WatchEnd
    <2>2. ASSUME NEW c \in Watched, ScanAnswered(c) PROVE IssuesInv'
        <3> DEFINE v == Latest(c)
        <3>1. c \in watch.todo /\ issues' = issues
            BY <2>2 DEF ScanAnswered, Asks
        <3> DEFINE grown == Append(watch.found, Finding(c, v))
        <3>2. CASE v > watch.pinned[c] /\ <<c, v>> \notin watch.keys
            <4>1. watch' = [watch EXCEPT !.todo = @ \ {c}, !.found = grown]
                BY <2>2, <3>2 DEF ScanAnswered
            <4>2. QED BY <3>1, <3>2, <4>1, Found
        <3>3. CASE ~ (v > watch.pinned[c] /\ <<c, v>> \notin watch.keys)
            <4>1. watch' = [watch EXCEPT !.todo = @ \ {c}, !.found = @]
                BY <2>2, <3>3 DEF ScanAnswered
            <4>2. watch' = [watch EXCEPT !.todo = @ \ {c}]
                BY <4>1 DEF IssuesInv, IssuesShape
            <4>3. QED BY <3>1, <4>2, NothingFound
        <3>4. QED BY <3>2, <3>3
    <2>3. ASSUME NEW c \in Watched, ScanFailed(c) PROVE IssuesInv'
        BY <2>3, NothingFound DEF ScanFailed, CheckFailed
    <2>4. ASSUME NEW c \in Watched, ScanAborted(c) PROVE IssuesInv'
        BY <2>4, RunBegins DEF ScanAborted
    <2>5. QED BY <1>1, <2>1, <2>2, <2>3, <2>4, Opened DEF WatchStep
<1>2. CASE WatchDies
    BY <1>2, RunBegins DEF WatchDies
<1>3. CASE PrepareStep \/ PrepareDies
    BY <1>3, Untouched DEF PrepareStep, Resolve, Produce, Push, OpenPr, PrepareDies, prepareUnchanged
<1>4. CASE PeopleStep
    <2>1. ASSUME NEW i \in DOMAIN issues, CloseIssue(i) PROVE IssuesInv'
        BY <2>1, Closed
    <2>2. ASSUME NEW i \in DOMAIN issues, Dispatch(i) PROVE IssuesInv'
        BY <2>2, Untouched DEF Dispatch, prepareUnchanged
    <2>3. CASE Qualify
        BY <2>3, Untouched DEF Qualify, prepareUnchanged
    <2>4. ASSUME NEW k \in DOMAIN branches, Merge(k) \/ DeleteBranch(k) PROVE IssuesInv'
        BY <2>4, Untouched DEF Merge, DeleteBranch, prepareUnchanged
    <2>5. ASSUME NEW c \in Watched, NEW v \in Versions, NEW e \in HandErrors, HandPin(c, v, e)
          PROVE  IssuesInv'
        BY <2>5, Untouched DEF HandPin, prepareUnchanged
    <2>6. QED BY <1>4, <2>1, <2>2, <2>3, <2>4, <2>5 DEF PeopleStep
<1>5. CASE UpstreamStep
    BY <1>5, Untouched DEF UpstreamStep, Release, MoveTag
<1>6. ASSUME NEW lk \in Locks, NEW s \in Sources, NEW f \in Flaws \cup {None}, Bundle(lk, s, f)
      PROVE  IssuesInv'
    BY <1>6, Untouched DEF Bundle
<1>7. CASE BundleRuns \/ BundleStops \/ (ClearOutput /\ UNCHANGED pinVars)
    BY <1>7, Untouched DEF BundleRuns, BundleStops, pinVars
<1>8. CASE UNCHANGED vars
    BY <1>8, Untouched DEF vars, pinVars
<1>9. QED BY <1>1, <1>2, <1>3, <1>4, <1>5, <1>6, <1>7, <1>8 DEF Next

\* The watch never opens a second issue for a release that has an open one, though
\* runs die between two issues and people close issues meanwhile: for any sources,
\* releases and bounds.
THEOREM NoIssueTwice == Spec => []NoDuplicateIssue
<1>1. IssuesInv => NoDuplicateIssue
    BY DEF IssuesInv
<1>2. QED BY IssuesInit, IssuesStep, <1>1, PTL DEF Spec
-----------------------------------------------------------------------------
(* Bundles. *)

\* What may be passed on of a bundle.
Published == Sources \ External

\* The steps of the process and of whoever takes its output away.
BundleNext ==
    \/ \E lk, cache : BundleStart(lk, cache)
    \/ BundleSources \/ PublishArchive \/ PublishSums \/ Cleanup
    \/ BundleFails \/ BundleKilled \/ ClearOutput

\* The archives that are in the output are those the lock seals.
Sealed(files) == \A s \in DOMAIN files : files[s] = bundle.lock.pin[s].digest

\* Before the staging directory is full nothing is in the output.
SourcesInv == bundle.pc = "sources" => output = [Empty EXCEPT !.staging = {}]

\* Then each archive is either staged or in the output, and all of them are what the
\* lock seals; SHA256SUMS waits.
ArchivesInv ==
    bundle.pc = "archives" =>
        /\ output.sums = None
        /\ output.staging \cup DOMAIN output.files = Published
        /\ \A s \in output.staging : Staged(s) = bundle.lock.pin[s].digest
        /\ Sealed(output.files)

ShapeInv ==
    /\ bundle = [pc |-> bundle.pc, lock |-> bundle.lock, cache |-> bundle.cache]
    /\ bundle.pc \in {"idle", "sources", "archives", "cleanup"}
    /\ output = [staging |-> output.staging, files |-> output.files, sums |-> output.sums]

IInv == ShapeInv /\ SourcesInv /\ ArchivesInv /\ BundleIsWhole

-----------------------------------------------------------------------------
\* There is no bundle yet.
LEMMA InitInv == BundleInit => IInv
BY DEF BundleInit, Empty, IInv, ShapeInv, SourcesInv, ArchivesInv, BundleIsWhole

\* Staging is filled only when every source passed, with the archive its digest seals.
LEMMA SourcesStep == IInv /\ BundleSources => IInv'
<1> SUFFICES ASSUME IInv, BundleSources PROVE IInv'
    OBVIOUS
<1> USE DEF IInv, ShapeInv, SourcesInv, BundleSources, Goto, Empty
<1>1. CASE \A s \in Sources : Accepted(bundle.lock, s, bundle.cache[s])
    <2>1. /\ output' = [output EXCEPT !.staging = Published]
          /\ bundle' = [bundle EXCEPT !.pc = "archives"]
        BY <1>1 DEF Published
    <2>2. output'.files = <<>> /\ output'.sums = None /\ output'.staging = Published
        BY <2>1
    <2>3. \A s \in Published : Staged(s)' = bundle'.lock.pin[s].digest
        BY <1>1, <2>1 DEF Published, Accepted, Staged
    <2>4. ArchivesInv'
        BY <2>1, <2>2, <2>3 DEF ArchivesInv, Sealed
    <2>5. QED BY <2>1, <2>2, <2>4 DEF BundleIsWhole
<1>2. CASE ~ \A s \in Sources : Accepted(bundle.lock, s, bundle.cache[s])
    BY <1>2 DEF ArchivesInv, BundleIsWhole
<1>3. QED BY <1>1, <1>2

\* A rename moves one archive, which is the one its digest seals.
LEMMA ArchiveStep == IInv /\ PublishArchive => IInv'
<1> SUFFICES ASSUME IInv, PublishArchive PROVE IInv'
    OBVIOUS
<1>1. PICK s \in output.staging :
        output' = [staging |-> output.staging \ {s},
                   files |-> [f \in DOMAIN output.files \cup {s} |->
                                IF f = s THEN Staged(s) ELSE output.files[f]],
                   sums |-> output.sums]
    BY DEF PublishArchive
<1>2. bundle' = bundle /\ bundle.pc = "archives" /\ output.sums = None
    BY DEF PublishArchive, IInv, ArchivesInv
<1>3. ShapeInv' /\ SourcesInv' /\ BundleIsWhole'
    BY <1>1, <1>2 DEF IInv, ShapeInv, SourcesInv, BundleIsWhole
<1>4. output'.staging \cup DOMAIN output'.files = Published
    BY <1>1, <1>2 DEF IInv, ArchivesInv
<1>5. \A x \in output'.staging : Staged(x)' = bundle'.lock.pin[x].digest
    BY <1>1, <1>2 DEF IInv, ArchivesInv, Staged
<1>6. Sealed(output.files)'
    <2> SUFFICES ASSUME NEW x \in DOMAIN output'.files
                 PROVE output'.files[x] = bundle'.lock.pin[x].digest
        BY DEF Sealed
    <2>1. CASE x = s
        BY <1>1, <1>2, <2>1 DEF IInv, ArchivesInv
    <2>2. CASE x # s
        BY <1>1, <1>2, <2>2 DEF IInv, ArchivesInv, Sealed
    <2>3. QED BY <2>1, <2>2
<1>7. ArchivesInv'
    BY <1>1, <1>2, <1>4, <1>5, <1>6 DEF ArchivesInv
<1>8. QED BY <1>3, <1>7 DEF IInv

\* SHA256SUMS comes when nothing is left in staging.
LEMMA SumsStep == IInv /\ PublishSums => IInv'
<1> SUFFICES ASSUME IInv, PublishSums PROVE IInv'
    OBVIOUS
<1>1. /\ bundle.pc = "archives" /\ output.staging = {}
      /\ output' = [output EXCEPT !.sums = [s \in Published |-> bundle.lock.pin[s].digest]]
      /\ bundle' = [bundle EXCEPT !.pc = "cleanup"]
    BY DEF PublishSums, ArchivesPublished, Goto, Published
<1>2. DOMAIN output.files = Published /\ Sealed(output.files)
    BY <1>1 DEF IInv, ArchivesInv
<1>3. /\ output'.files = output.files /\ bundle'.lock = bundle.lock
      /\ output'.sums = [s \in Published |-> bundle.lock.pin[s].digest]
    BY <1>1 DEF IInv, ShapeInv
<1>4. BundleIsWhole'
    BY <1>2, <1>3 DEF BundleIsWhole, Sealed, Published
<1>5. QED BY <1>1, <1>4 DEF IInv, ShapeInv, SourcesInv, ArchivesInv

\* Starting, stopping at any point and clearing leave what is published, or nothing.
LEMMA OtherSteps ==
    ASSUME IInv, \/ \E lk, cache : BundleStart(lk, cache)
                 \/ Cleanup \/ BundleFails \/ BundleKilled \/ ClearOutput
    PROVE  IInv'
<1> USE DEF IInv, ShapeInv, SourcesInv, ArchivesInv, BundleIsWhole
<1>1. ASSUME NEW lk, NEW cache, BundleStart(lk, cache) PROVE IInv'
    BY <1>1 DEF BundleStart, OutputEmpty, Empty
<1>2. CASE Cleanup
    BY <1>2 DEF Cleanup
<1>3. CASE BundleFails
    BY <1>3 DEF BundleFails, Goto
<1>4. CASE BundleKilled
    BY <1>4 DEF BundleKilled, Idle
<1>5. CASE ClearOutput
    BY <1>5 DEF ClearOutput, Idle, Empty
<1>6. QED BY <1>1, <1>2, <1>3, <1>4, <1>5

\* The steps of the process, of its kills and of the output together.
LEMMA StepInv == IInv /\ [BundleNext]_bundleVars => IInv'
<1> SUFFICES ASSUME IInv, [BundleNext]_bundleVars PROVE IInv'
    OBVIOUS
<1>1. CASE BundleNext
    BY <1>1, SourcesStep, ArchiveStep, SumsStep, OtherSteps DEF BundleNext
<1>2. CASE UNCHANGED bundleVars
    BY <1>2 DEF bundleVars, IInv, ShapeInv, SourcesInv, ArchivesInv, BundleIsWhole, Sealed, Staged
<1>3. QED BY <1>1, <1>2

\* The two workflows, people and upstreams never touch a bundle.
LEMMA ElsewhereNothing ==
    ASSUME WatchStep \/ WatchDies \/ PrepareStep \/ PrepareDies \/ PeopleStep \/ UpstreamStep
    PROVE  UNCHANGED bundleVars
<1>1. CASE WatchStep \/ WatchDies
    BY <1>1 DEF WatchStep, WatchStart, ScanAnswered, ScanFailed, ScanAborted, OpenIssue, WatchEnd, WatchDies,
               watchUnchanged
<1>2. CASE PrepareStep \/ PrepareDies
    BY <1>2 DEF PrepareStep, Resolve, Produce, Push, OpenPr, PrepareDies, prepareUnchanged
<1>3. CASE PeopleStep
    <2>1. CASE Qualify
        BY <2>1 DEF Qualify, prepareUnchanged
    <2>2. ASSUME NEW i \in DOMAIN issues, Dispatch(i) \/ CloseIssue(i) PROVE UNCHANGED bundleVars
        BY <2>2 DEF Dispatch, CloseIssue, prepareUnchanged
    <2>3. ASSUME NEW k \in DOMAIN branches, Merge(k) \/ DeleteBranch(k) PROVE UNCHANGED bundleVars
        BY <2>3 DEF Merge, DeleteBranch, prepareUnchanged
    <2>4. ASSUME NEW c \in Watched, NEW v \in Versions, NEW e \in HandErrors, HandPin(c, v, e)
          PROVE  UNCHANGED bundleVars
        BY <2>4 DEF HandPin, prepareUnchanged
    <2>5. QED BY <1>3, <2>1, <2>2, <2>3, <2>4 DEF PeopleStep
<1>4. CASE UpstreamStep
    BY <1>4 DEF UpstreamStep, Release, MoveTag
<1>5. QED BY <1>1, <1>2, <1>3, <1>4

\* Whatever else happens to the lock and its branches, to the bundle it is one of the
\* process's steps or nothing.
LEMMA BundleMoves == [Next]_vars => [BundleNext]_bundleVars
<1> SUFFICES ASSUME Next PROVE [BundleNext]_bundleVars
    BY DEF vars
<1>1. CASE WatchStep \/ WatchDies \/ PrepareStep \/ PrepareDies \/ PeopleStep \/ UpstreamStep
    BY <1>1, ElsewhereNothing
<1>2. ASSUME NEW lk \in Locks, NEW s \in Sources, NEW f \in Flaws \cup {None}, Bundle(lk, s, f)
      PROVE  BundleNext
    BY <1>2 DEF Bundle, BundleNext
<1>3. CASE BundleRuns \/ BundleStops \/ (ClearOutput /\ UNCHANGED pinVars)
    BY <1>3 DEF BundleRuns, BundleStep, BundleStops, BundleNext
<1>4. QED BY <1>1, <1>2, <1>3 DEF Next

-----------------------------------------------------------------------------
\* An output with SHA256SUMS is a whole bundle of one lock, wherever bundle_sources
\* failed or was killed before: for any sources, gitlinks, flaws and bounds.
THEOREM BundlesAreWhole == Spec => []BundleIsWhole
<1>1. Init => IInv
    BY InitInv DEF Init
<1>2. IInv /\ [Next]_vars => IInv'
    BY BundleMoves, StepInv
<1>3. IInv => BundleIsWhole
    BY DEF IInv
<1>4. QED BY <1>1, <1>2, <1>3, PTL DEF Spec

-----------------------------------------------------------------------------
\* The pin of a source: the digest is that of the commit recorded beside it.
OwnPin(pin, s) ==
    /\ {"commit", "digest"} \subseteq DOMAIN pin
    /\ pin.digest = Digest(s, pin.commit)
\* A lock none of whose digests is of another commit than its own.
Own(lk) ==
    /\ lk = [pin |-> lk.pin, link |-> lk.link, status |-> lk.status]
    /\ lk.pin = [s \in Sources |-> lk.pin[s]]
    /\ \A s \in Sources : OwnPin(lk.pin[s], s)

\* Every lock there is: main's, a branch's and those the preparation works on.
OwnInv ==
    /\ Own(main)
    /\ \A k \in DOMAIN branches : Own(branches[k].base) /\ Own(branches[k].lock)
    /\ prepare = [pc |-> prepare.pc, issue |-> prepare.issue, base |-> prepare.base,
                  qualified |-> prepare.qualified, ref |-> prepare.ref, out |-> prepare.out]
    /\ prepare.pc # "idle" => Own(prepare.base)
    /\ prepare.pc = "push" => Own(prepare.out)

\* Every gitlink of every tree that lock `lk' pins is the declared one.
Complete(lk) == \A s \in Sources : GitlinksHold(lk, s, Tree(lk.pin[s].commit))

\* The clones stand on the lock's commits; once every source passed, every gitlink holds.
ClosedInv ==
    /\ bundle.pc \in {"sources", "archives"} => Own(bundle.lock)
    /\ bundle.pc = "sources" =>
           \A s \in Sources : bundle.cache[s].tree = Tree(bundle.lock.pin[s].commit)
    /\ bundle.pc = "archives" => Complete(bundle.lock)
    /\ output.sums # None => Own(bundle.lock) /\ Complete(bundle.lock)

-----------------------------------------------------------------------------
\* A digest of what an honest git archives is the digest of that commit.
LEMMA HashIsOwn ==
    ASSUME NEW s, NEW commit, NEW f \in CloneFlaws \cup {None}, f \notin Reported
    PROVE  HashCachedSource(s, commit, f) = Digest(s, commit)
BY PinningConstants DEF HashCachedSource, Archive

\* A clone that git or the LFS store finds wrong is not archived at all.
LEMMA BrokenIsNotHashed ==
    ASSUME NEW s, NEW commit, NEW f \in Reported
    PROVE  HashCachedSource(s, commit, f) = None
BY DEF HashCachedSource, Archive, Reported

\* apply_pin records the digest it was given with the commit it belongs to.
LEMMA ApplyPinOwn ==
    ASSUME NEW lk, Own(lk), NEW c, NEW v, NEW ref
    PROVE  Own(ApplyPin(lk, c, v, ref, Digest(c, ref.commit)))
<1> DEFINE pin == Pin(IF ref.object = None THEN "git_tag" ELSE "git_annotated_tag",
                      v, ref.object, ref.commit, Digest(c, ref.commit))
           out == [lk EXCEPT !.pin = [lk.pin EXCEPT ![c] = pin]]
<1>1. OwnPin(pin, c)
    BY DEF OwnPin, Pin
<1> HIDE DEF pin
<1>2. Own(out)
    <2>1. /\ out = [pin |-> [lk.pin EXCEPT ![c] = pin], link |-> lk.link, status |-> lk.status]
          /\ lk.pin = [s \in Sources |-> lk.pin[s]]
        BY DEF Own
    <2>2. \A s \in Sources : out.pin[s] = IF s = c THEN pin ELSE lk.pin[s]
        BY <2>1
    <2>3. \A s \in Sources : OwnPin(out.pin[s], s)
        BY <1>1, <2>2 DEF Own
    <2>4. out.pin = [s \in Sources |-> out.pin[s]]
        BY <2>1
    <2>5. QED BY <2>1, <2>3, <2>4 DEF Own
<1>3. ApplyPin(lk, c, v, ref, Digest(c, ref.commit)) \in {lk, out}
    BY DEF ApplyPin, pin
<1>4. QED BY <1>2, <1>3

\* The walk over the gitlinks re-pins companions, each with the digest of its new commit.
LEMMA WalkOwn ==
    ASSUME NEW lk, Own(lk), NEW c, NEW tree, NEW f \in CloneFlaws \cup {None},
           f \in Reported => \A l \in MovedLinks(lk, c, tree) : l.disposition # "bundled"
    PROVE  Own(WalkLinks(lk, c, tree, f))
<1> DEFINE moved == MovedLinks(lk, c, tree)
           link(s) == CHOOSE l \in moved : l.source = s
           companions == {l.source : l \in {m \in moved : m.disposition = "bundled"
                                                        /\ Repinnable(lk, m.source)}}
           pins == [s \in Sources |->
                      IF s \in companions /\ lk.pin[s].commit # tree[link(s).path]
                      THEN [lk.pin[s] EXCEPT !.commit = tree[link(s).path],
                                             !.digest = HashCachedSource(s, tree[link(s).path], f)]
                      ELSE lk.pin[s]]
           links == [l \in Links |-> IF l \in moved THEN tree[l.path] ELSE lk.link[l]]
<1>1. ASSUME NEW s \in Sources, s \in companions
      PROVE  OwnPin([lk.pin[s] EXCEPT !.commit = tree[link(s).path],
                                      !.digest = HashCachedSource(s, tree[link(s).path], f)], s)
    <2>1. f \notin Reported
        BY <1>1
    <2>2. HashCachedSource(s, tree[link(s).path], f) = Digest(s, tree[link(s).path])
        BY <2>1, HashIsOwn
    <2>3. OwnPin(lk.pin[s], s)
        BY DEF Own
    <2>4. ASSUME NEW p, OwnPin(p, s), NEW x, NEW y, y = Digest(s, x)
          PROVE  OwnPin([p EXCEPT !.commit = x, !.digest = y], s)
        BY <2>4 DEF OwnPin
    <2>5. QED BY <2>2, <2>3, <2>4
<1>2. \A s \in Sources : OwnPin(pins[s], s)
    BY <1>1 DEF Own
<1>3. WalkLinks(lk, c, tree, f) = [lk EXCEPT !.link = links, !.pin = pins]
    BY Zenon DEF WalkLinks
<1> HIDE DEF pins, links
<1>4. pins = [s \in Sources |-> pins[s]]
    BY Zenon DEF pins
<1>5. WalkLinks(lk, c, tree, f) = [pin |-> pins, link |-> links, status |-> lk.status]
    BY <1>3 DEF Own
<1>6. QED BY <1>2, <1>4, <1>5 DEF Own

\* The lock when the model starts, and merged pins of two such locks, are such locks.
LEMMA FirstOwn == Own(FirstLock)
BY DEF Own, FirstLock, OwnPin, Pin

\* apply_pin with a digest that some honest git made.
LEMMA HashedPinOwn ==
    ASSUME NEW lk, Own(lk), NEW c, NEW v, NEW ref, NEW f \in CloneFlaws \cup {None},
           HashCachedSource(c, ref.commit, f) # None
    PROVE  Own(ApplyPin(lk, c, v, ref, HashCachedSource(c, ref.commit, f)))
<1>1. f \notin Reported
    BY BrokenIsNotHashed
<1>2. QED BY <1>1, HashIsOwn, ApplyPinOwn

\* A walk that refuses nothing moved no companion, or its clone is sound.
LEMMA WalkAccepts ==
    ASSUME NEW lk, NEW c, NEW tree, NEW f \in CloneFlaws \cup {None},
           ~ WalkRefuses(lk, c, tree, f)
    PROVE  f \in Reported => \A l \in MovedLinks(lk, c, tree) : l.disposition # "bundled"
BY BrokenIsNotHashed DEF WalkRefuses, MovedLinks

\* prepare_candidate.py puts such a lock on its branch, or none.
LEMMA ProduceOwn ==
    ASSUME OwnInv, NEW f \in CloneFlaws \cup {None}, NEW g \in CloneFlaws \cup {None},
           Produce(f, g)
    PROVE  OwnInv'
<1> DEFINE c == Selected.comp
           digest == HashCachedSource(c, prepare.ref.commit, f)
           pinned == ApplyPin(prepare.base, c, Selected.tag, prepare.ref, digest)
           tree == Tree(prepare.ref.commit)
           out == WalkLinks(pinned, c, tree, g)
<1>1. UNCHANGED <<main, branches>> /\ prepare.pc = "produce"
    BY DEF Produce, prepareUnchanged
<1>2. \/ prepare' = NoPrepare
      \/ /\ digest # None /\ ~ WalkRefuses(pinned, c, tree, g)
         /\ prepare' = [prepare EXCEPT !.pc = "push", !.out = out]
    BY Zenon DEF Produce, Failed
<1>3. CASE prepare' = NoPrepare
    BY <1>1, <1>3 DEF OwnInv, NoPrepare
<1>4. ASSUME digest # None, ~ WalkRefuses(pinned, c, tree, g),
             prepare' = [prepare EXCEPT !.pc = "push", !.out = out]
      PROVE  OwnInv'
    <2>1. Own(prepare.base)
        BY <1>1 DEF OwnInv
    <2>2. Own(pinned)
        BY <1>4, <2>1, HashedPinOwn
    <2> HIDE DEF pinned, tree, c
    <2>3. Own(out)
        BY <1>4, <2>2, WalkOwn, WalkAccepts
    <2> HIDE DEF out
    <2>4. prepare' = [pc |-> "push", issue |-> prepare.issue, base |-> prepare.base,
                      qualified |-> prepare.qualified, ref |-> prepare.ref, out |-> out]
        BY <1>4 DEF OwnInv
    <2>5. QED BY <1>1, <2>1, <2>3, <2>4 DEF OwnInv
<1>5. QED BY <1>2, <1>3, <1>4

\* Merged pins are the branch's or main's own.
LEMMA MergeOwn == ASSUME OwnInv, NEW k \in DOMAIN branches, Merge(k) PROVE OwnInv'
<1> DEFINE b == branches[k]
           pins == [s \in Sources |-> IF s \in Changed(b) THEN b.lock.pin[s] ELSE main.pin[s]]
           links == [l \in Links |-> IF l \in ChangedLinks(b) THEN b.lock.link[l]
                                                             ELSE main.link[l]]
<1>1. main' = [main EXCEPT !.pin = pins, !.link = links] /\ UNCHANGED <<branches, prepare>>
    BY Zenon DEF Merge
<1>2. Own(main) /\ Own(b.lock)
    BY DEF OwnInv
<1>3. \A s \in Sources : OwnPin(pins[s], s)
    BY <1>2 DEF Own
<1>4. pins = [s \in Sources |-> pins[s]]
    OBVIOUS
<1> HIDE DEF pins, links
<1>5. main' = [pin |-> pins, link |-> links, status |-> main.status]
    BY <1>1, <1>2 DEF Own
<1>6. Own(main)'
    BY <1>3, <1>4, <1>5 DEF Own
<1>7. QED BY <1>1, <1>6 DEF OwnInv

\* A manual completion forgets links or gets one fact wrong, never a digest.
LEMMA HandPinOwn ==
    ASSUME OwnInv, NEW c, NEW v, NEW e \in HandErrors, HandPin(c, v, e)
    PROVE  OwnInv'
<1> DEFINE ref == Ref(c, v)
           pinned == ApplyPin(main, c, v, ref, Digest(c, ref.commit))
           out == WalkLinks(pinned, c, Tree(ref.commit), None)
<1>1. Own(pinned)
    BY ApplyPinOwn DEF OwnInv
<1>2. /\ UNCHANGED <<branches, prepare>>
      /\ \/ main' = pinned
         \/ main' = [out EXCEPT !.pin[c].kind = "git_annotated_tag"]
         \/ main' = [out EXCEPT !.status = "draft"]
    BY PinningConstants DEF HandPin
<1> HIDE DEF pinned, ref
<1>3. Own(out)
    BY <1>1, WalkOwn, PinningConstants DEF Reported
<1> HIDE DEF out
<1>4. Own([out EXCEPT !.status = "draft"])
    BY <1>3 DEF Own
<1>5. Own([out EXCEPT !.pin[c].kind = "git_annotated_tag"])
    <2> DEFINE pins == [out.pin EXCEPT ![c].kind = "git_annotated_tag"]
    <2>1. [out EXCEPT !.pin[c].kind = "git_annotated_tag"]
              = [pin |-> pins, link |-> out.link, status |-> out.status]
        BY <1>3 DEF Own
    <2>2. pins = [s \in Sources |-> pins[s]]
        BY <1>3 DEF Own
    <2>3. ASSUME NEW s \in Sources PROVE OwnPin(pins[s], s)
        <3>1. OwnPin(out.pin[s], s)
            BY <1>3 DEF Own
        <3>2. pins[s] \in {out.pin[s], [out.pin[s] EXCEPT !.kind = "git_annotated_tag"]}
            BY <1>3 DEF Own
        <3>3. QED BY <3>1, <3>2 DEF OwnPin, Pin
    <2> HIDE DEF pins
    <2>4. QED BY <2>1, <2>2, <2>3 DEF Own
<1>6. Own(main')
    BY <1>1, <1>2, <1>3, <1>4, <1>5
<1>7. QED BY <1>2, <1>6 DEF OwnInv, Own

\* What people do, one by one.
LEMMA PeopleAre ==
    ASSUME PeopleStep
    PROVE  \/ Qualify
           \/ \E i \in DOMAIN issues : CloseIssue(i)
           \/ \E i \in DOMAIN issues : Dispatch(i)
           \/ \E k \in DOMAIN branches : Merge(k)
           \/ \E k \in DOMAIN branches : DeleteBranch(k)
           \/ \E c \in Watched, v \in Versions, e \in HandErrors : HandPin(c, v, e)
BY Zenon DEF PeopleStep

\* Everything else starts from main, keeps a lock as it is or drops it.
LEMMA OwnStep == OwnInv /\ [Next]_vars => OwnInv'
<1> SUFFICES ASSUME OwnInv, [Next]_vars PROVE OwnInv'
    OBVIOUS
<1>1. CASE UNCHANGED <<main, branches, prepare>>
    BY <1>1 DEF OwnInv
<1>2. ASSUME NEW i, Dispatch(i) PROVE OwnInv'
    BY <1>2 DEF Dispatch, NoPrepare, OwnInv, prepareUnchanged
<1>3. CASE Resolve
    <2>1. /\ UNCHANGED <<main, branches>> /\ prepare.pc = "resolve"
          /\ \/ prepare' = NoPrepare
             \/ \E ref : prepare' = [prepare EXCEPT !.pc = "produce", !.ref = ref]
        BY <1>3 DEF Resolve, Failed, prepareUnchanged
    <2>2. CASE prepare' = NoPrepare
        BY <2>1, <2>2 DEF NoPrepare, OwnInv
    <2>3. ASSUME NEW ref, prepare' = [prepare EXCEPT !.pc = "produce", !.ref = ref] PROVE OwnInv'
        BY <2>1, <2>3 DEF OwnInv
    <2>4. QED BY <2>1, <2>2, <2>3
<1>4. CASE Push
    BY <1>4 DEF Push, Failed, NoPrepare, OwnInv, prepareUnchanged
<1>5. CASE OpenPr \/ PrepareDies
    BY <1>5 DEF OpenPr, PrepareDies, Failed, NoPrepare, OwnInv, prepareUnchanged
<1>6. ASSUME NEW k, DeleteBranch(k) PROVE OwnInv'
    BY <1>6 DEF DeleteBranch, OwnInv
<1>7. ASSUME PrepareStep PROVE OwnInv'
    BY <1>3, <1>4, <1>5, <1>7, ProduceOwn DEF PrepareStep
<1>8. ASSUME PeopleStep PROVE OwnInv'
    <2>1. CASE Qualify \/ \E i \in DOMAIN issues : CloseIssue(i)
        BY <1>1, <2>1 DEF Qualify, CloseIssue
    <2>2. ASSUME NEW k \in DOMAIN branches, Merge(k) PROVE OwnInv'
        BY <2>2, MergeOwn
    <2>3. ASSUME NEW c, NEW v, NEW e \in HandErrors, HandPin(c, v, e) PROVE OwnInv'
        BY <2>3, HandPinOwn
    <2>4. QED BY <1>2, <1>6, <1>8, <2>1, <2>2, <2>3, PeopleAre
<1>9. CASE WatchStep \/ WatchDies \/ UpstreamStep
    <2>1. CASE WatchStep \/ WatchDies
        BY <1>1, <2>1 DEF WatchStep, WatchStart, ScanAnswered, ScanFailed, ScanAborted, OpenIssue, WatchEnd,
                          WatchDies, watchUnchanged
    <2>2. CASE UpstreamStep
        BY <1>1, <2>2 DEF UpstreamStep, Release, MoveTag
    <2>3. QED BY <1>9, <2>1, <2>2
<1>10. CASE \/ \E lk \in Locks, s \in Sources, f \in Flaws \cup {None} : Bundle(lk, s, f)
            \/ BundleRuns \/ BundleStops
            \/ ClearOutput /\ UNCHANGED pinVars
            \/ UNCHANGED vars
    BY <1>1, <1>10 DEF Bundle, BundleRuns, BundleStops, pinVars, vars
<1>11. QED BY <1>5, <1>7, <1>8, <1>9, <1>10 DEF Next

\* While a bundle is made or lies in the output, nothing is released and no tag moves.
LEMMA StillTrees ==
    ASSUME [Next]_vars, ~ NoBundle \/ UNCHANGED upstream
    PROVE  \A commit : Tree(commit)' = Tree(commit)
<1>1. upstream' = upstream
    BY DEF Next, Bundle, BundleRuns, BundleStops, pinVars, vars
<1>2. QED BY <1>1 DEF Tree

\* A bundle of main or a branch: every lock it reads is such a lock.
LEMMA StartClosed ==
    ASSUME OwnInv, [Next]_vars, NEW lk \in Locks, NEW s, NEW f, Bundle(lk, s, f)
    PROVE  ClosedInv'
<1>1. PICK k : BundleStart(lk, Clones(lk, k, s, f))
    BY DEF Bundle
<1>2. Own(lk)
    BY DEF Locks, OwnInv
<1>3. /\ bundle' = [pc |-> "sources", lock |-> lk, cache |-> Clones(lk, k, s, f)]
      /\ output'.sums = None
    BY <1>1 DEF BundleStart, OutputEmpty, Empty
<1>4. \A t \in Sources : bundle'.cache[t].tree = Tree(lk.pin[t].commit)
    BY <1>3 DEF Clones
<1>5. \A commit : Tree(commit)' = Tree(commit)
    BY StillTrees DEF Bundle
<1>6. QED BY <1>2, <1>3, <1>4, <1>5 DEF ClosedInv, Own

\* When every source passed, every gitlink of every tree was compared with the lock.
LEMMA SourcesClosed ==
    ASSUME IInv, ClosedInv, [Next]_vars, UNCHANGED upstream, BundleSources
    PROVE  ClosedInv'
<1>1. bundle.pc = "sources" /\ output.sums = None
    BY DEF BundleSources, IInv, SourcesInv, Empty
<1>2. bundle'.lock = bundle.lock /\ output'.sums = None
    BY <1>1 DEF BundleSources, Goto, IInv, ShapeInv
<1>3. \A commit : Tree(commit)' = Tree(commit)
    BY StillTrees
<1>4. CASE \A s \in Sources : Accepted(bundle.lock, s, bundle.cache[s])
    <2>1. Complete(bundle.lock)
        BY <1>1, <1>4 DEF ClosedInv, Accepted, Complete
    <2>2. Complete(bundle.lock)'
        BY <1>2, <1>3, <2>1 DEF Complete, GitlinksHold
    <2>3. bundle'.pc = "archives"
        BY <1>4 DEF BundleSources, Goto, IInv, ShapeInv
    <2>4. QED BY <1>1, <1>2, <2>2, <2>3 DEF ClosedInv, Own
<1>5. CASE ~ \A s \in Sources : Accepted(bundle.lock, s, bundle.cache[s])
    <2>1. bundle'.pc = "cleanup"
        BY <1>5 DEF BundleSources, Goto, IInv, ShapeInv
    <2>2. QED BY <1>2, <2>1 DEF ClosedInv
<1>6. QED BY <1>4, <1>5

\* Archives and checksums come from what has been compared; lock and trees stay.
LEMMA RestClosed ==
    ASSUME IInv, ClosedInv, [Next]_vars, UNCHANGED upstream,
           \/ PublishArchive \/ PublishSums \/ Cleanup
           \/ BundleFails \/ BundleKilled \/ UNCHANGED bundleVars
    PROVE  ClosedInv'
<1>1. \A commit : Tree(commit)' = Tree(commit)
    BY StillTrees
<1>2. /\ bundle'.lock = bundle.lock
      /\ bundle'.pc \in {"sources", "archives"} => bundle'.pc = bundle.pc /\ bundle'.cache = bundle.cache
      /\ output'.sums # None => output.sums # None \/ bundle.pc = "archives"
    BY DEF PublishArchive, PublishSums, Cleanup, BundleFails, BundleKilled, ArchivesPublished,
           bundleVars, Goto, Idle, IInv, ShapeInv
<1>3. Own(bundle.lock) => Own(bundle.lock)'
    BY <1>2 DEF Own
<1>4. Complete(bundle.lock) => Complete(bundle.lock)'
    BY <1>1, <1>2 DEF Complete, GitlinksHold
<1>5. QED BY <1>1, <1>2, <1>3, <1>4 DEF ClosedInv

\* What is taken away, or was never there, leaves nothing to be closed.
LEMMA NoneClosed ==
    ASSUME IInv', bundle'.pc = "idle", output' = Empty
    PROVE  ClosedInv'
BY DEF ClosedInv, Empty

\* Nothing but the process moves the bundle, and trees move only without one.
LEMMA ClosedStep == IInv /\ OwnInv /\ ClosedInv /\ [Next]_vars => ClosedInv'
<1> SUFFICES ASSUME IInv, OwnInv, ClosedInv, [Next]_vars PROVE ClosedInv'
    OBVIOUS
<1>1. IInv'
    BY BundleMoves, StepInv
<1>2. CASE NoBundle /\ UNCHANGED bundleVars
    BY <1>1, <1>2, NoneClosed DEF NoBundle, Idle, bundleVars
<1>3. CASE ~ NoBundle /\ UNCHANGED bundleVars
    BY <1>3, RestClosed, StillTrees DEF Next, Bundle, BundleRuns, BundleStops, pinVars, vars
<1>4. CASE \E lk \in Locks, s \in Sources, f \in Flaws \cup {None} : Bundle(lk, s, f)
    BY <1>4, StartClosed
<1>5. CASE BundleRuns \/ BundleStops
    BY <1>5, SourcesClosed, RestClosed DEF BundleRuns, BundleStep, BundleStops, pinVars
<1>6. CASE ClearOutput
    BY <1>1, <1>6, NoneClosed DEF ClearOutput, Idle, IInv, ShapeInv
<1>7. CASE UNCHANGED vars
    BY <1>2, <1>3, <1>7 DEF vars
<1>8. QED BY <1>2, <1>4, <1>5, <1>6, <1>7, ElsewhereNothing DEF Next
-----------------------------------------------------------------------------
\* A finished bundle holds the whole source, each bundled gitlink as the archive of
\* exactly the commit that the tree names, unless its source may not be passed on: for
\* all sources, gitlinks of components and of companions, releases and moves of tags,
\* whatever preparations, merges and hand edits made the lock.
THEOREM BundlesAreClosed == Spec => []BundleIsClosed
<1>1. Init => IInv /\ OwnInv /\ ClosedInv
    <2> SUFFICES ASSUME Init PROVE IInv /\ OwnInv /\ ClosedInv
        OBVIOUS
    <2>1. IInv
        BY InitInv DEF Init
    <2>2. OwnInv
        BY FirstOwn DEF Init, OwnInv, NoPrepare
    <2>3. ClosedInv
        BY DEF Init, BundleInit, Empty, ClosedInv
    <2>4. QED BY <2>1, <2>2, <2>3
<1>2. IInv /\ OwnInv /\ ClosedInv /\ [Next]_vars => (IInv /\ OwnInv /\ ClosedInv)'
    BY BundleMoves, StepInv, OwnStep, ClosedStep
<1>3. IInv /\ ClosedInv => BundleIsClosed
    <2> SUFFICES ASSUME IInv, ClosedInv, output.sums # None, NEW s \in Sources
                 PROVE  /\ DOMAIN Tree(bundle.lock.pin[s].commit) = {l.path : l \in LinksOf(s)}
                        /\ \A l \in LinksOf(s) :
                               l.disposition = "bundled" /\ l.source \notin External =>
                               output.files[l.source]
                                   = Digest(l.source, Tree(bundle.lock.pin[s].commit)[l.path])
        BY Zenon DEF BundleIsClosed
    <2>1. GitlinksHold(bundle.lock, s, Tree(bundle.lock.pin[s].commit))
        BY DEF ClosedInv, Complete
    <2>2. ASSUME NEW l \in LinksOf(s), l.disposition = "bundled", l.source \notin External
          PROVE  output.files[l.source] = Digest(l.source, Tree(bundle.lock.pin[s].commit)[l.path])
        <3>1. /\ l.source \in Sources \ External
              /\ bundle.lock.pin[l.source].commit = Tree(bundle.lock.pin[s].commit)[l.path]
            BY <2>1, <2>2 DEF GitlinksHold
        <3>2. OwnPin(bundle.lock.pin[l.source], l.source)
            BY <3>1 DEF ClosedInv, Own
        <3>3. output.files[l.source] = bundle.lock.pin[l.source].digest
            BY <3>1 DEF IInv, BundleIsWhole
        <3>4. QED BY <3>1, <3>2, <3>3 DEF OwnPin
    <2>3. QED BY <2>1, <2>2 DEF GitlinksHold
<1>4. QED BY <1>1, <1>2, <1>3, PTL DEF Spec
-----------------------------------------------------------------------------
(* Types.  Releases come one after the other and keep their shape, so that *)
(* what a lock, an issue or a preparation names stays released.            *)

\* Release `v' of `c' is out, where `up' is what the upstreams have.
Released(up, c, v) == c \in Watched /\ v \in Versions /\ up[c][v] # None

\* No release is withdrawn, and none changes its shape.
Grows(up, up2) ==
    \A c \in Watched, v \in Versions :
        up[c][v] # None => up2[c][v] # None /\ up2[c][v].shape = up[c][v].shape

SpentInv ==
    /\ spent = [mishaps |-> spent.mishaps, dispatches |-> spent.dispatches]
    /\ spent.mishaps \in 0 .. MaxMishaps

UpstreamInv ==
    /\ upstream = [c \in Watched |-> [v \in Versions |-> upstream[c][v]]]
    /\ \A c \in Watched : \E n \in Versions : \A v \in Versions : v <= n <=> upstream[c][v] # None
    /\ \A c \in Watched, v \in Versions :
          upstream[c][v] # None =>
              upstream[c][v] \in [shape : Shapes[c] \cup {First.shape},
                                  moves : 0 .. spent.mishaps, gone : BOOLEAN]
    /\ \A c \in Watched : upstream[c][1].shape = First.shape

\* Mishaps are counted, and counted up to their bound.
LEMMA SpentStep == SpentInv /\ [Next]_vars => SpentInv' /\ spent'.mishaps >= spent.mishaps
<1> SUFFICES ASSUME SpentInv, [Next]_vars PROVE SpentInv' /\ spent'.mishaps >= spent.mishaps
    OBVIOUS
<1>1. CASE UNCHANGED spent
    BY <1>1, PinningConstants DEF SpentInv
<1>2. CASE Mishap
    <2>1. spent' = [mishaps |-> spent.mishaps + 1, dispatches |-> spent.dispatches]
        BY <1>2 DEF Mishap, SpentInv
    <2>2. QED BY <1>2, <2>1, PinningConstants DEF Mishap, SpentInv
<1>3. ASSUME NEW i, Dispatch(i) PROVE SpentInv' /\ spent'.mishaps >= spent.mishaps
    <2>1. spent' = [mishaps |-> spent.mishaps, dispatches |-> spent.dispatches + 1]
        BY <1>3 DEF Dispatch, SpentInv
    <2>2. QED BY <2>1, PinningConstants DEF SpentInv
<1>4. CASE WatchStep \/ WatchDies
    BY <1>1, <1>2, <1>4 DEF WatchStep, WatchStart, ScanAnswered, ScanFailed, ScanAborted, OpenIssue, WatchEnd,
                            WatchDies
<1>5. CASE PrepareStep \/ PrepareDies
    BY <1>1, <1>2, <1>5 DEF PrepareStep, Resolve, Produce, Push, OpenPr, PrepareDies
<1>6. CASE PeopleStep
    <2>1. Qualify \/ (\E i \in DOMAIN issues : CloseIssue(i)) => Mishap \/ UNCHANGED spent
        BY DEF Qualify, CloseIssue
    <2>2. (\E k \in DOMAIN branches : Merge(k) \/ DeleteBranch(k)) => Mishap \/ UNCHANGED spent
        BY DEF Merge, DeleteBranch
    <2>3. ASSUME NEW c, NEW v, NEW e, HandPin(c, v, e) PROVE Mishap \/ UNCHANGED spent
        BY <2>3 DEF HandPin
    <2>4. QED BY <1>1, <1>2, <1>3, <1>6, <2>1, <2>2, <2>3, PeopleAre
<1>7. CASE UpstreamStep
    BY <1>1, <1>2, <1>7 DEF UpstreamStep, Release, MoveTag
<1>8. CASE \E lk \in Locks, s \in Sources, f \in Flaws \cup {None} : Bundle(lk, s, f)
    BY <1>1, <1>2, <1>8 DEF Bundle
<1>9. CASE BundleRuns \/ BundleStops \/ (ClearOutput /\ UNCHANGED pinVars) \/ UNCHANGED vars
    BY <1>1, <1>2, <1>9 DEF BundleRuns, BundleStops, pinVars, vars
<1>10. QED BY <1>4, <1>5, <1>6, <1>7, <1>8, <1>9 DEF Next

\* Only upstreams release and move tags.
LEMMA UpstreamMoves ==
    ASSUME [Next]_vars
    PROVE  \/ upstream' = upstream
           \/ \E c \in Watched, v \in Versions :
                 (v > 1 /\ \E sh \in Shapes[c] : Release(c, v, sh)) \/ MoveTag(c, v)
<1>1. CASE UpstreamStep
    BY <1>1 DEF UpstreamStep
<1>2. CASE WatchStep \/ WatchDies
    BY <1>2 DEF WatchStep, WatchStart, ScanAnswered, ScanFailed, ScanAborted, OpenIssue, WatchEnd, WatchDies,
               watchUnchanged
<1>3. CASE PrepareStep \/ PrepareDies
    BY <1>3 DEF PrepareStep, Resolve, Produce, Push, OpenPr, PrepareDies, prepareUnchanged
<1>4. CASE PeopleStep
    <2>1. CASE Qualify \/ \E i \in DOMAIN issues : CloseIssue(i) \/ Dispatch(i)
        BY <2>1 DEF Qualify, CloseIssue, Dispatch, prepareUnchanged
    <2>2. CASE \E k \in DOMAIN branches : Merge(k) \/ DeleteBranch(k)
        BY <2>2 DEF Merge, DeleteBranch, prepareUnchanged
    <2>3. ASSUME NEW c, NEW v, NEW e, HandPin(c, v, e) PROVE upstream' = upstream
        BY <2>3 DEF HandPin, prepareUnchanged
    <2>4. QED BY <1>4, <2>1, <2>2, <2>3, PeopleAre
<1>5. CASE \/ \E lk \in Locks, s \in Sources, f \in Flaws \cup {None} : Bundle(lk, s, f)
           \/ BundleRuns \/ BundleStops \/ (ClearOutput /\ UNCHANGED pinVars) \/ UNCHANGED vars
    BY <1>5 DEF Bundle, BundleRuns, BundleStops, pinVars, vars
<1>6. QED BY <1>1, <1>2, <1>3, <1>4, <1>5 DEF Next

\* A new release follows the newest one; a tag that moves or goes keeps the shape.
LEMMA UpstreamStepInv ==
    ASSUME SpentInv, UpstreamInv, [Next]_vars
    PROVE  UpstreamInv' /\ Grows(upstream, upstream')
<1>1. spent'.mishaps \in Nat /\ spent.mishaps \in Nat /\ spent'.mishaps >= spent.mishaps
      /\ spent'.mishaps <= MaxMishaps /\ MaxMishaps \in Nat /\ MaxVersion \in Nat /\ 1 \in Versions
    BY SpentStep, PinningConstants DEF SpentInv, Versions
<1>2. CASE upstream' = upstream
    BY <1>1, <1>2 DEF UpstreamInv, Grows
<1>3. ASSUME NEW c \in Watched, NEW v \in Versions, NEW r,
             upstream' = [upstream EXCEPT ![c][v] = r],
             r \in [shape : Shapes[c] \cup {First.shape}, moves : 0 .. spent'.mishaps, gone : BOOLEAN],
             \/ upstream[c][v] = None /\ v > 1 /\ upstream[c][v - 1] # None
             \/ upstream[c][v] # None /\ r.shape = upstream[c][v].shape
      PROVE  UpstreamInv' /\ Grows(upstream, upstream')
    <2>1. r # None
        BY <1>1, <1>3, NoneIsNoRelease
    <2>2. /\ upstream' = [d \in Watched |-> [w \in Versions |-> upstream'[d][w]]]
          /\ upstream'[c][v] = r
          /\ \A d \in Watched, w \in Versions : d # c \/ w # v => upstream'[d][w] = upstream[d][w]
        BY <1>3 DEF UpstreamInv
    <2>3. Grows(upstream, upstream')
        BY <1>3, <2>1, <2>2 DEF Grows
    <2>4. ASSUME NEW d \in Watched
          PROVE  \E n \in Versions : \A w \in Versions : w <= n <=> upstream'[d][w] # None
        <3>1. PICK n \in Versions : \A w \in Versions : w <= n <=> upstream[d][w] # None
            BY DEF UpstreamInv
        <3>2. CASE d # c \/ upstream[c][v] # None
            BY <2>1, <2>2, <3>1, <3>2
        <3>3. CASE d = c /\ upstream[c][v] = None
            <4>1. v > 1 /\ upstream[c][v - 1] # None
                BY <1>3, <3>3
            <4>2. v - 1 \in Versions /\ v \in Nat /\ n \in Nat
                BY <1>1, <4>1 DEF Versions
            <4>3. n = v - 1
                BY <3>1, <3>3, <4>1, <4>2
            <4>4. \A w \in Versions : w <= v <=> w <= n \/ w = v
                BY <4>2, <4>3 DEF Versions
            <4>5. \A w \in Versions : w <= v <=> upstream'[d][w] # None
                BY <2>1, <2>2, <3>1, <3>3, <4>4
            <4>6. QED BY <4>5
        <3>4. QED BY <3>2, <3>3
    <2>5. ASSUME NEW d \in Watched, NEW w \in Versions, upstream'[d][w] # None
          PROVE  upstream'[d][w] \in [shape : Shapes[d] \cup {First.shape},
                                      moves : 0 .. spent'.mishaps, gone : BOOLEAN]
        <3>1. CASE d = c /\ w = v
            BY <1>3, <2>2, <3>1
        <3>2. CASE d # c \/ w # v
            <4>1. upstream[d][w] \in [shape : Shapes[d] \cup {First.shape},
                                      moves : 0 .. spent.mishaps, gone : BOOLEAN]
                BY <2>2, <2>5, <3>2 DEF UpstreamInv
            <4>2. 0 .. spent.mishaps \subseteq 0 .. spent'.mishaps
                BY <1>1
            <4>3. QED BY <2>2, <3>2, <4>1, <4>2
        <3>3. QED BY <3>1, <3>2
    <2>6. ASSUME NEW d \in Watched PROVE upstream'[d][1].shape = First.shape
        <3>1. upstream[d][1] # None
            BY <1>1 DEF UpstreamInv, Versions
        <3>2. QED BY <1>1, <2>3, <3>1 DEF UpstreamInv, Grows
    <2>7. QED BY <2>2, <2>3, <2>4, <2>5, <2>6 DEF UpstreamInv
<1>4. ASSUME NEW c \in Watched, NEW v \in Versions, v > 1, NEW sh \in Shapes[c], Release(c, v, sh)
      PROVE  UpstreamInv' /\ Grows(upstream, upstream')
    <2>1. ASSUME NEW x, NEW y, NEW z
          PROVE  [[shape |-> x, moves |-> y, gone |-> z] EXCEPT !.shape = sh]
                     = [shape |-> sh, moves |-> y, gone |-> z]
        OBVIOUS
    <2>2. [First EXCEPT !.shape = sh] \in [shape : Shapes[c] \cup {First.shape},
                                           moves : 0 .. spent'.mishaps, gone : BOOLEAN]
        <3>1. [First EXCEPT !.shape = sh] = [shape |-> sh, moves |-> 0, gone |-> FALSE]
            BY <2>1, Zenon DEF First
        <3>2. sh \in Shapes[c] \cup {First.shape} /\ 0 \in 0 .. spent'.mishaps
            BY <1>1
        <3>3. QED BY <3>1, <3>2, Zenon
    <2>3. QED BY <1>3, <1>4, <2>2 DEF Release
<1>5. ASSUME NEW c \in Watched, NEW v \in Versions, MoveTag(c, v)
      PROVE  UpstreamInv' /\ Grows(upstream, upstream')
    <2> DEFINE r == upstream[c][v]
    <2>1. /\ r # None
          /\ r \in [shape : Shapes[c] \cup {First.shape}, moves : 0 .. spent.mishaps, gone : BOOLEAN]
        BY <1>5 DEF MoveTag, UpstreamInv
    <2>2. spent'.mishaps = spent.mishaps + 1
        BY <1>5 DEF MoveTag, Mishap, SpentInv
    <2>3. r.moves + 1 \in 0 .. spent'.mishaps /\ r.moves \in 0 .. spent'.mishaps
        BY <1>1, <2>1, <2>2
    <2>4. PICK x : /\ upstream' = [upstream EXCEPT ![c][v] = x]
                   /\ \/ x = [r EXCEPT !.moves = @ + 1, !.gone = FALSE]
                      \/ x = [r EXCEPT !.gone = ~@]
        <3>1. \/ upstream' = [upstream EXCEPT ![c][v] = [r EXCEPT !.moves = @ + 1, !.gone = FALSE]]
              \/ upstream' = [upstream EXCEPT ![c][v] = [r EXCEPT !.gone = ~@]]
            BY <1>5 DEF MoveTag, UpstreamInv
        <3>2. QED BY <3>1
    <2>5. /\ x \in [shape : Shapes[c] \cup {First.shape}, moves : 0 .. spent'.mishaps, gone : BOOLEAN]
          /\ x.shape = r.shape
        BY <2>1, <2>3, <2>4
    <2>6. QED BY <1>3, <2>1, <2>4, <2>5
<1>6. QED BY <1>2, <1>4, <1>5, UpstreamMoves
-----------------------------------------------------------------------------
(* Trees. *)

\* The gitlinks of release `v' of `c', where `up' is what the upstreams have.
Kept(up, c, v) == {l \in LinksOf(c) : l.path \notin up[c][v].shape.left}
Moves(up, c, v, p) == {w \in 1 .. v : up[c][w] # None /\ p \in up[c][w].shape.moved}
TreeOf(up, c, v) ==
    [p \in {l.path : l \in Kept(up, c, v)} \cup (IF up[c][v].shape.added THEN {"added"} ELSE {}) |->
        IF p = "added" THEN <<p, 1, 0>>
        ELSE LET l == CHOOSE x \in Kept(up, c, v) : x.path = p
             IN <<IF l.source = None THEN p ELSE l.source, 1 + Cardinality(Moves(up, c, v, p)), 0>>]

\* The trees that the upstreams serve, before and after a step.
LEMMA TreeIs ==
    /\ \A commit : Tree(commit) = IF commit[1] \notin Watched
                                  THEN CompanionTrees[commit[1]][commit[2]]
                                  ELSE TreeOf(upstream, commit[1], commit[2])
    /\ \A commit : Tree(commit)' = IF commit[1] \notin Watched
                                   THEN CompanionTrees[commit[1]][commit[2]]
                                   ELSE TreeOf(upstream', commit[1], commit[2])
<1>1. \A commit : Tree(commit) = IF commit[1] \notin Watched
                                 THEN CompanionTrees[commit[1]][commit[2]]
                                 ELSE TreeOf(upstream, commit[1], commit[2])
    BY Zenon DEF Tree, TreeOf, Kept, Moves
<1>2. \A commit : Tree(commit)' = IF commit[1] \notin Watched
                                  THEN CompanionTrees[commit[1]][commit[2]]
                                  ELSE TreeOf(upstream', commit[1], commit[2])
    BY Zenon DEF Tree, TreeOf, Kept, Moves
<1>3. QED BY <1>1, <1>2

\* Every release before one that is out is out.
LEMMA Earlier ==
    ASSUME UpstreamInv, NEW c, NEW v, Released(upstream, c, v), NEW w \in 1 .. v
    PROVE  Released(upstream, c, w) /\ w \in Nat /\ v \in Nat
<1>1. PICK n \in Versions : \A x \in Versions : x <= n <=> upstream[c][x] # None
    BY DEF UpstreamInv, Released
<1>2. w \in Versions /\ w <= v /\ v <= n /\ v \in Nat /\ n \in Nat
    BY <1>1, PinningConstants DEF Released, Versions
<1>3. QED BY <1>1, <1>2 DEF Released, Versions

\* The tree of a release that is out never changes.
LEMMA TreeStays ==
    ASSUME UpstreamInv, NEW up2, Grows(upstream, up2), NEW c, NEW v, Released(upstream, c, v)
    PROVE  TreeOf(up2, c, v) = TreeOf(upstream, c, v)
<1>1. \A w \in 1 .. v : upstream[c][w] # None /\ up2[c][w] # None
                        /\ up2[c][w].shape = upstream[c][w].shape
    BY Earlier DEF Grows, Released
<1>2. up2[c][v].shape = upstream[c][v].shape
    BY DEF Grows, Released
<1>3. Kept(up2, c, v) = Kept(upstream, c, v)
    BY <1>2 DEF Kept
<1>4. \A p : Moves(up2, c, v, p) = Moves(upstream, c, v, p)
    BY <1>1 DEF Moves
<1> DEFINE T1 == TreeOf(upstream, c, v)
           T2 == TreeOf(up2, c, v)
<1>5. DOMAIN T2 = DOMAIN T1
    BY <1>2, <1>3 DEF TreeOf
<1>6. ASSUME NEW p \in DOMAIN T1 PROVE T2[p] = T1[p]
    <2>1. p \in DOMAIN T2
        BY <1>5
    <2>2. CASE p = "added"
        BY <2>1, <2>2 DEF TreeOf
    <2>3. CASE p # "added"
        BY <1>3, <1>4, <2>1, <2>3 DEF TreeOf
    <2>4. QED BY <2>2, <2>3
<1>7. T1 = [p \in DOMAIN T1 |-> T1[p]] /\ T2 = [p \in DOMAIN T2 |-> T2[p]]
    BY DEF TreeOf
<1> HIDE DEF T1, T2
<1>8. T2 = T1
    BY <1>5, <1>6, <1>7
<1>9. QED BY <1>8 DEF T1, T2

\* A gitlink moves in some releases after the first.
LEMMA MovesAre ==
    ASSUME UpstreamInv, NEW c, NEW v, Released(upstream, c, v), NEW p
    PROVE  1 + Cardinality(Moves(upstream, c, v, p)) \in Versions
<1> DEFINE M == Moves(upstream, c, v, p)
<1>1. v \in Nat /\ v >= 1 /\ v <= MaxVersion /\ MaxVersion \in Nat
    BY PinningConstants DEF Released, Versions
<1>2. First.shape.moved = {}
    BY DEF First
<1>3. M \subseteq 2 .. v
    BY <1>1, <1>2 DEF Moves, UpstreamInv, Released
<1>4. IsFiniteSet(2 .. v) /\ Cardinality(2 .. v) = v - 1
    BY <1>1, FS_Interval
<1>5. IsFiniteSet(M) /\ Cardinality(M) \in Nat /\ Cardinality(M) <= v - 1
    BY <1>3, <1>4, FS_Subset, FS_CardinalityType
<1>6. QED BY <1>1, <1>5 DEF Versions

\* A gitlink that a source supplies names one of the commits of that source.
LEMMA TreeNames ==
    ASSUME UpstreamInv, NEW c, NEW v, Released(upstream, c, v),
           NEW l \in LinksOf(c), l.path \in DOMAIN TreeOf(upstream, c, v), l.source # None
    PROVE  \E r \in Versions : TreeOf(upstream, c, v)[l.path] = <<l.source, r, 0>>
<1> DEFINE n == 1 + Cardinality(Moves(upstream, c, v, l.path))
<1>1. l \in Links /\ l.path # "added"
    BY PinningConstants DEF LinksOf
<1>2. \E m \in Kept(upstream, c, v) : m.path = l.path
    BY <1>1 DEF TreeOf
<1>3. (CHOOSE x \in Kept(upstream, c, v) : x.path = l.path) = l
    BY <1>2, LockConstants DEF Kept, LinksOf
<1>4. TreeOf(upstream, c, v)[l.path] = <<l.source, n, 0>>
    BY <1>1, <1>3 DEF TreeOf
<1>5. n \in Versions
    BY MovesAre
<1>6. QED BY <1>4, <1>5
-----------------------------------------------------------------------------
(* Locks. *)

\* The commits that a source can be pinned to, and the tag objects.
Commits(s) == {<<s, v, k>> : v \in Versions, k \in 0 .. MaxMishaps}
Objects == {None} \cup {<<"tag", c, v, k>> : c \in Watched, v \in Versions, k \in 0 .. MaxMishaps}

\* A pin of a source: a watched one names a release that is out, a companion a commit only.
PinOk(up, pin, s) ==
    /\ pin = Pin(pin.kind, pin.tag, pin.object, pin.commit, Digest(s, pin.commit))
    /\ pin.kind \in {"git_tag", "git_annotated_tag", "git_commit"}
    /\ pin.tag \in Versions \cup {None}
    /\ pin.object \in Objects
    /\ pin.commit \in Commits(s)
    /\ s \in Watched => up[s][pin.commit[2]] # None
    /\ s \in Watched <=> pin.kind # "git_commit"
LockOk(up, lk) ==
    /\ lk = [pin |-> lk.pin, link |-> lk.link, status |-> lk.status]
    /\ lk.pin = [s \in Sources |-> lk.pin[s]]
    /\ \A s \in Sources : PinOk(up, lk.pin[s], s)
    /\ DOMAIN lk.link = Links
    /\ lk.status \in {"draft", "sealed"}

\* What the tag of a release that is out names, or named once.
RefIn(up, c, v, k) ==
    [commit |-> <<c, v, k>>, object |-> IF up[c][v].shape.annotated THEN <<"tag", c, v, k>> ELSE None]
RefOk(up, ref, c, v) == \E k \in 0 .. MaxMishaps : ref = RefIn(up, c, v, k)

\* Such a lock has the type of locks.
LEMMA LockTyped ==
    ASSUME NEW up, NEW lk, LockOk(up, lk)
    PROVE  LockType(lk)
<1> DEFINE C == Sources \X Versions \X (0 .. MaxMishaps)
           D == {Digest(s, <<s, v, k>>) : s \in Sources, v \in Versions, k \in 0 .. MaxMishaps}
<1>1. PinType = [kind : {"git_tag", "git_annotated_tag", "git_commit"},
                 tag : Versions \cup {None}, object : Objects, commit : C, digest : D]
    BY DEF PinType, Objects
<1>2. ASSUME NEW s \in Sources
      PROVE  lk.pin[s] \in PinType /\ lk.pin[s].digest = Digest(s, lk.pin[s].commit)
    <2> DEFINE p == lk.pin[s]
    <2>1. PinOk(up, p, s)
        BY DEF LockOk
    <2> HIDE DEF p
    <2>2. PICK v \in Versions, k \in 0 .. MaxMishaps : p.commit = <<s, v, k>>
        BY <2>1 DEF PinOk, Commits
    <2>3. /\ p.kind \in {"git_tag", "git_annotated_tag", "git_commit"}
          /\ p.tag \in Versions \cup {None} /\ p.object \in Objects
          /\ p = [kind |-> p.kind, tag |-> p.tag, object |-> p.object, commit |-> p.commit,
                  digest |-> Digest(s, p.commit)]
        BY <2>1 DEF PinOk, Pin
    <2>4. p.commit \in C /\ Digest(s, p.commit) \in D
        BY <2>2
    <2> HIDE DEF C, D
    <2>5. p \in PinType
        BY <1>1, <2>3, <2>4
    <2>6. QED BY <2>3, <2>5 DEF p
<1>3. QED BY <1>2 DEF LockOk, LockType

\* Upstreams that go on take nothing from it.
LEMMA LockStays ==
    ASSUME NEW up, NEW up2, Grows(up, up2), NEW lk, LockOk(up, lk)
    PROVE  LockOk(up2, lk)
<1>1. ASSUME NEW s \in Sources PROVE PinOk(up2, lk.pin[s], s)
    <2>1. PinOk(up, lk.pin[s], s)
        BY DEF LockOk
    <2>2. lk.pin[s].commit[2] \in Versions
        BY <2>1 DEF PinOk, Commits
    <2>3. QED BY <2>1, <2>2 DEF PinOk, Grows
<1>2. QED BY <1>1 DEF LockOk

\* What a tag named is still what it named.
LEMMA RefStays ==
    ASSUME NEW up, NEW up2, Grows(up, up2), NEW c, NEW v, Released(up, c, v), NEW ref,
           RefOk(up, ref, c, v)
    PROVE  RefOk(up2, ref, c, v) /\ Released(up2, c, v)
BY DEF RefOk, RefIn, Grows, Released

\* The lock when the model starts.
LEMMA FirstLockOk ==
    ASSUME \A c \in Watched : upstream[c][1] # None
    PROVE  LockOk(upstream, FirstLock)
<1>1. 1 \in Versions /\ 0 \in 0 .. MaxMishaps
    BY PinningConstants DEF Versions
<1>2. ASSUME NEW s \in Sources PROVE PinOk(upstream, FirstLock.pin[s], s)
    <2> DEFINE p == FirstLock.pin[s]
    <2>1. p = Pin(IF s \in Watched THEN "git_tag" ELSE "git_commit",
                  IF s \in Watched THEN 1 ELSE None, None, <<s, 1, 0>>, Digest(s, <<s, 1, 0>>))
        BY DEF FirstLock
    <2> HIDE DEF p
    <2>2. /\ p.kind = IF s \in Watched THEN "git_tag" ELSE "git_commit"
          /\ p.tag = IF s \in Watched THEN 1 ELSE None
          /\ p.object = None /\ p.commit = <<s, 1, 0>> /\ p.commit[2] = 1
        BY <2>1 DEF Pin
    <2>3. p.commit \in Commits(s)
        BY <1>1, <2>2 DEF Commits
    <2>4. PinOk(upstream, p, s)
        BY <1>1, <2>1, <2>2, <2>3 DEF PinOk, Objects
    <2>5. QED BY <2>4 DEF p
<1>3. QED BY <1>2 DEF LockOk, FirstLock

\* apply_pin, with what the tag of a release names.
LEMMA ApplyPinOk ==
    ASSUME NEW up, NEW lk, LockOk(up, lk), NEW c, NEW v, Released(up, c, v),
           NEW ref, RefOk(up, ref, c, v)
    PROVE  LockOk(up, ApplyPin(lk, c, v, ref, Digest(c, ref.commit)))
<1> DEFINE pin == Pin(IF ref.object = None THEN "git_tag" ELSE "git_annotated_tag",
                      v, ref.object, ref.commit, Digest(c, ref.commit))
           out == [lk EXCEPT !.pin = [lk.pin EXCEPT ![c] = pin]]
<1>1. PinOk(up, pin, c)
    <2>1. PICK k \in 0 .. MaxMishaps : ref = RefIn(up, c, v, k)
        BY DEF RefOk
    <2>2. ref.commit = <<c, v, k>> /\ ref.object \in Objects
        BY <2>1 DEF RefIn, Objects, Released
    <2>3. ref.commit \in Commits(c) /\ ref.commit[2] = v
        BY <2>2 DEF Commits, Released
    <2>4. QED BY <2>2, <2>3 DEF PinOk, Pin, Released
<1> HIDE DEF pin
<1>2. LockOk(up, out)
    <2>1. /\ out = [pin |-> [lk.pin EXCEPT ![c] = pin], link |-> lk.link, status |-> lk.status]
          /\ lk.pin = [s \in Sources |-> lk.pin[s]]
        BY DEF LockOk
    <2>2. \A s \in Sources : out.pin[s] = IF s = c THEN pin ELSE lk.pin[s]
        BY <2>1
    <2>3. \A s \in Sources : PinOk(up, out.pin[s], s)
        BY <1>1, <2>2 DEF LockOk
    <2>4. out.pin = [s \in Sources |-> out.pin[s]]
        BY <2>1
    <2>5. QED BY <2>1, <2>3, <2>4 DEF LockOk
<1>3. ApplyPin(lk, c, v, ref, Digest(c, ref.commit)) \in {lk, out}
    BY DEF ApplyPin, pin
<1>4. QED BY <1>2, <1>3

\* What a walk over the gitlinks of `tree' makes of lock `lk': moved links are as in the
\* tree, and a companion that one of them is supplied by is pinned to what one of them names.
RePinned(lk, moved, tree, s, pin) ==
    /\ Repinnable(lk, s)
    /\ \E l, m \in moved :
          /\ l.source = s /\ m.source = s /\ m.disposition = "bundled"
          /\ pin = [lk.pin[s] EXCEPT !.commit = tree[l.path], !.digest = Digest(s, tree[l.path])]
Unmoved(lk, moved, tree, s, pin) ==
    /\ pin = lk.pin[s]
    /\ \A l \in moved : l.source = s /\ l.disposition = "bundled" /\ Repinnable(lk, s) =>
          \E m \in moved : m.source = s /\ pin.commit = tree[m.path]
Walked(lk, moved, tree, out) ==
    /\ out = [pin |-> out.pin, link |-> out.link, status |-> lk.status]
    /\ out.pin = [s \in Sources |-> out.pin[s]]
    /\ out.link = [l \in Links |-> IF l \in moved THEN tree[l.path] ELSE lk.link[l]]
    /\ \A s \in Sources : Unmoved(lk, moved, tree, s, out.pin[s])
                           \/ RePinned(lk, moved, tree, s, out.pin[s])

\* With an honest git the walk does that.
LEMMA WalkIs ==
    ASSUME NEW lk, lk = [pin |-> lk.pin, link |-> lk.link, status |-> lk.status],
           NEW c, NEW tree, NEW f \in CloneFlaws \cup {None},
           f \in Reported => \A l \in MovedLinks(lk, c, tree) : l.disposition # "bundled"
    PROVE  Walked(lk, MovedLinks(lk, c, tree), tree, WalkLinks(lk, c, tree, f))
<1> DEFINE moved == MovedLinks(lk, c, tree)
           link(s) == CHOOSE l \in moved : l.source = s
           companions == {l.source : l \in {m \in moved : m.disposition = "bundled"
                                                        /\ Repinnable(lk, m.source)}}
           pins == [s \in Sources |->
                      IF s \in companions /\ lk.pin[s].commit # tree[link(s).path]
                      THEN [lk.pin[s] EXCEPT !.commit = tree[link(s).path],
                                             !.digest = HashCachedSource(s, tree[link(s).path], f)]
                      ELSE lk.pin[s]]
           links == [l \in Links |-> IF l \in moved THEN tree[l.path] ELSE lk.link[l]]
           out == WalkLinks(lk, c, tree, f)
<1>1. out = [lk EXCEPT !.link = links, !.pin = pins]
    BY Zenon DEF WalkLinks
<1> HIDE DEF moved, out
<1>2. ASSUME NEW s \in Sources
      PROVE  Unmoved(lk, moved, tree, s, pins[s]) \/ RePinned(lk, moved, tree, s, pins[s])
    <2>1. \A m \in moved : m.source = s => link(s) \in moved /\ link(s).source = s
        OBVIOUS
    <2>2. s \in companions => /\ Repinnable(lk, s)
                              /\ \E m \in moved : m.source = s /\ m.disposition = "bundled"
        OBVIOUS
    <2>3. \A m \in moved : m.source = s /\ m.disposition = "bundled" /\ Repinnable(lk, s)
                                => s \in companions
        OBVIOUS
    <2> DEFINE t == tree[link(s).path]
    <2>4. pins[s] = IF s \in companions /\ lk.pin[s].commit # t
                    THEN [lk.pin[s] EXCEPT !.commit = t, !.digest = HashCachedSource(s, t, f)]
                    ELSE lk.pin[s]
        BY Zenon
    <2> HIDE DEF companions, pins
    <2>5. CASE s \in companions /\ lk.pin[s].commit # t
        <3>1. Repinnable(lk, s) /\ \E m \in moved : m.source = s /\ m.disposition = "bundled"
            BY <2>2, <2>5
        <3>2. f \notin Reported
            BY <3>1 DEF moved
        <3>3. HashCachedSource(s, t, f) = Digest(s, t)
            BY <3>2, HashIsOwn
        <3>4. link(s) \in moved /\ link(s).source = s
            BY <2>1, <3>1
        <3> HIDE DEF link
        <3>5. pins[s] = [lk.pin[s] EXCEPT !.commit = t, !.digest = Digest(s, t)]
            BY <2>4, <2>5, <3>3, Zenon
        <3>6. QED BY <3>1, <3>4, <3>5, Zenon DEF RePinned
    <2>6. CASE ~ (s \in companions /\ lk.pin[s].commit # t)
        <3> HIDE DEF link
        <3>1. pins[s] = lk.pin[s]
            BY <2>4, <2>6
        <3>2. \A l \in moved : l.source = s /\ l.disposition = "bundled" /\ Repinnable(lk, s) =>
                  link(s) \in moved /\ link(s).source = s /\ pins[s].commit = tree[link(s).path]
            BY <2>1, <2>3, <2>6, <3>1
        <3>3. QED BY <3>1, <3>2 DEF Unmoved
    <2>7. QED BY <2>5, <2>6
<1>3. pins = [s \in Sources |-> pins[s]]
    BY Zenon
<1> HIDE DEF pins, links, link, companions
<1>4. out.pin = pins /\ out.link = links /\ out = [pin |-> pins, link |-> links, status |-> lk.status]
    BY <1>1
<1>5. links = [l \in Links |-> IF l \in moved THEN tree[l.path] ELSE lk.link[l]]
    BY Zenon DEF links
<1>6. Walked(lk, moved, tree, out)
    BY <1>2, <1>3, <1>4, <1>5, Zenon DEF Walked
<1>7. QED BY <1>6 DEF out, moved

\* The walk re-pins companions to commits of theirs, and no watched source.
LEMMA WalkOk ==
    ASSUME UpstreamInv, NEW lk, LockOk(upstream, lk), NEW c, NEW v, Released(upstream, c, v),
           NEW tree, tree = TreeOf(upstream, c, v), NEW f \in CloneFlaws \cup {None},
           f \in Reported => \A l \in MovedLinks(lk, c, tree) : l.disposition # "bundled"
    PROVE  LockOk(upstream, WalkLinks(lk, c, tree, f))
<1> DEFINE out == WalkLinks(lk, c, tree, f)
           moved == MovedLinks(lk, c, tree)
<1>1. Walked(lk, moved, tree, out)
    BY WalkIs DEF LockOk
<1> HIDE DEF out, moved
<1>2. ASSUME NEW s \in Sources, NEW l \in moved, NEW m \in moved,
             l.source = s, m.source = s, m.disposition = "bundled", Repinnable(lk, s),
             out.pin[s] = [lk.pin[s] EXCEPT !.commit = tree[l.path], !.digest = Digest(s, tree[l.path])]
      PROVE  PinOk(upstream, out.pin[s], s)
    <2>1. s # None /\ s \notin Watched
        BY <1>2, LockConstants DEF Sources, LockOk, PinOk, Repinnable
    <2>2. PICK r \in Versions : tree[l.path] = <<s, r, 0>>
        BY <1>2, <2>1, TreeNames DEF MovedLinks, moved
    <2>3. tree[l.path] \in Commits(s)
        BY <2>2, PinningConstants DEF Commits
    <2>4. PinOk(upstream, lk.pin[s], s)
        BY DEF LockOk
    <2>5. QED BY <1>2, <2>1, <2>3, <2>4 DEF PinOk, Pin
<1>3. ASSUME NEW s \in Sources PROVE PinOk(upstream, out.pin[s], s)
    <2>1. CASE Unmoved(lk, moved, tree, s, out.pin[s])
        BY <2>1 DEF Unmoved, LockOk
    <2>2. CASE RePinned(lk, moved, tree, s, out.pin[s])
        BY <1>2, <2>2, Zenon DEF RePinned
    <2>3. QED BY <1>1, <2>1, <2>2, Zenon DEF Walked
<1>4. DOMAIN out.link = Links
    BY <1>1 DEF Walked
<1>5. QED BY <1>1, <1>3, <1>4 DEF LockOk, out, Walked
-----------------------------------------------------------------------------
(* Issues, and the run that opens them. *)

\* What an issue or a finding is about is out.
AllReleased(up, s) == \A i \in DOMAIN s : Released(up, s[i].comp, s[i].tag)

WatchTyped ==
    /\ watch.pc \in {"idle", "scan"} /\ watch.todo \subseteq Watched
    /\ watch.pc = "idle" => watch = NoWatch
    /\ AllReleased(upstream, issues) /\ AllReleased(upstream, watch.found)

\* An issue stays where it is and what it is about.
IssuesKept ==
    \A i \in DOMAIN issues : i \in DOMAIN issues' /\ issues'[i].comp = issues[i].comp
                                                  /\ issues'[i].tag = issues[i].tag

\* releases/latest answers with a release that is out.
LEMMA LatestIsOut ==
    ASSUME UpstreamInv, NEW c \in Watched
    PROVE  Released(upstream, c, Latest(c))
<1>1. PICK n \in Versions : \A v \in Versions : v <= n <=> upstream[c][v] # None
    BY DEF UpstreamInv
<1>2. upstream[c][n] # None
    BY <1>1, PinningConstants DEF Versions
<1>3. Latest(c) \in Versions /\ upstream[c][Latest(c)] # None
    BY <1>1, <1>2 DEF Latest
<1>4. QED BY <1>3 DEF Released

\* What is out stays out.
LEMMA ReleasedStays ==
    ASSUME NEW up, NEW up2, Grows(up, up2), NEW s, AllReleased(up, s)
    PROVE  AllReleased(up2, s)
BY DEF AllReleased, Released, Grows

\* One more finding or issue.
LEMMA AppendReleased ==
    ASSUME NEW s, IsSequence(s), NEW e, NEW up, AllReleased(up, s), Released(up, e.comp, e.tag)
    PROVE  AllReleased(up, Append(s, e))
<1> DEFINE t == Append(s, e)
<1>1. /\ Len(s) \in Nat /\ DOMAIN s = 1 .. Len(s) /\ DOMAIN t = 1 .. Len(s) + 1
      /\ t[Len(s) + 1] = e /\ \A i \in DOMAIN s : t[i] = s[i]
    BY Appended
<1> HIDE DEF t
<1>2. \A i \in DOMAIN t : i = Len(s) + 1 \/ i \in DOMAIN s
    BY <1>1
<1>3. AllReleased(up, t)
    BY <1>1, <1>2 DEF AllReleased
<1>4. QED BY <1>3 DEF t

\* One finding less, and that one.
LEMMA TailReleased ==
    ASSUME NEW s, IsSequence(s), s # <<>>, NEW up, AllReleased(up, s)
    PROVE  AllReleased(up, Tail(s)) /\ Released(up, Head(s).comp, Head(s).tag)
BY Taken DEF AllReleased

\* The steps of the watch.
LEMMA WatchTypedStep ==
    ASSUME IssuesInv, UpstreamInv, WatchTyped, WatchStep \/ WatchDies
    PROVE  WatchTyped' /\ IssuesKept
<1>1. upstream' = upstream
    BY DEF WatchStep, WatchStart, ScanAnswered, ScanFailed, ScanAborted, OpenIssue, WatchEnd, WatchDies,
           watchUnchanged
<1>2. /\ IsSequence(issues) /\ IsSequence(watch.found)
      /\ watch = [pc |-> watch.pc, pinned |-> watch.pinned, keys |-> watch.keys,
                  todo |-> watch.todo, found |-> watch.found]
    BY DEF IssuesInv, IssuesShape
<1>3. AllReleased(upstream, <<>>)
    BY DEF AllReleased
<1>4. CASE watch' = NoWatch /\ issues' = issues
    <2>1. watch'.pc = "idle" /\ watch'.todo = {} /\ watch'.found = <<>>
        BY <1>4 DEF NoWatch
    <2>2. QED BY <1>1, <1>3, <1>4, <2>1 DEF WatchTyped, IssuesKept, NoWatch
<1>5. CASE WatchStart
    <2>1. /\ issues' = issues
          /\ watch'.pc = "scan" /\ watch'.todo = Watched /\ watch'.found = <<>>
        BY <1>5 DEF WatchStart, NoWatch
    <2>2. QED BY <1>1, <1>3, <2>1 DEF WatchTyped, IssuesKept
<1>6. ASSUME NEW c \in Watched, ScanAnswered(c) PROVE WatchTyped' /\ IssuesKept
    <2> DEFINE v == Latest(c)
               new == Finding(c, v)
    <2>1. new.comp = c /\ new.tag = v
        BY DEF Finding
    <2>2. Released(upstream, new.comp, new.tag)
        BY <2>1, LatestIsOut
    <2> HIDE DEF new
    <2>3. issues' = issues /\ watch.pc = "scan"
        BY <1>6 DEF ScanAnswered, Asks
    <2>4. PICK g \in {watch.found, Append(watch.found, new)} :
            watch' = [watch EXCEPT !.todo = @ \ {c}, !.found = g]
        BY <1>2, <1>6 DEF ScanAnswered, new
    <2>5. AllReleased(upstream, g)
        BY <1>2, <2>2, <2>4, AppendReleased DEF WatchTyped
    <2>6. watch' = [pc |-> watch.pc, pinned |-> watch.pinned, keys |-> watch.keys,
                    todo |-> watch.todo \ {c}, found |-> g]
        BY <1>2, <2>4
    <2>7. QED BY <1>1, <2>3, <2>5, <2>6 DEF WatchTyped, IssuesKept
<1>7. ASSUME NEW c \in Watched, ScanFailed(c) PROVE WatchTyped' /\ IssuesKept
    <2>1. watch.pc = "scan" /\ issues' = issues /\ watch' = [watch EXCEPT !.todo = @ \ {c}]
        BY <1>7 DEF ScanFailed, CheckFailed, Asks
    <2>2. watch' = [pc |-> watch.pc, pinned |-> watch.pinned, keys |-> watch.keys,
                    todo |-> watch.todo \ {c}, found |-> watch.found]
        BY <1>2, <2>1
    <2>3. QED BY <1>1, <2>1, <2>2 DEF WatchTyped, IssuesKept
<1>8. CASE OpenIssue
    <2> DEFINE e == Head(watch.found)
    <2>1. /\ watch.found # <<>> /\ watch.pc = "scan"
          /\ issues' = Append(issues, e)
          /\ watch' = [watch EXCEPT !.found = Tail(@)]
        BY <1>8 DEF OpenIssue
    <2>2. watch' = [pc |-> watch.pc, pinned |-> watch.pinned, keys |-> watch.keys,
                    todo |-> watch.todo, found |-> Tail(watch.found)]
        BY <1>2, <2>1
    <2>3. AllReleased(upstream, Tail(watch.found)) /\ Released(upstream, e.comp, e.tag)
        BY <1>2, <2>1, TailReleased DEF WatchTyped
    <2> HIDE DEF e
    <2>4. AllReleased(upstream, issues')
        BY <1>2, <2>1, <2>3, AppendReleased DEF WatchTyped
    <2>5. IssuesKept
        BY <1>2, <2>1, Appended DEF IssuesKept
    <2>6. QED BY <1>1, <2>1, <2>2, <2>3, <2>4, <2>5 DEF WatchTyped
<1>9. ASSUME NEW c \in Watched, ScanAborted(c) PROVE watch' = NoWatch /\ issues' = issues
    BY <1>9 DEF ScanAborted
<1>10. QED BY <1>4, <1>5, <1>6, <1>7, <1>8, <1>9 DEF WatchStep, WatchEnd, WatchDies, watchUnchanged

\* The steps of everybody else.
LEMMA WatchTypedRest ==
    ASSUME IssuesInv, UpstreamInv, SpentInv, WatchTyped, [Next]_vars
    PROVE  WatchTyped' /\ IssuesKept
<1>1. Grows(upstream, upstream')
    BY UpstreamStepInv
<1>2. CASE UNCHANGED <<issues, watch>>
    BY <1>1, <1>2, ReleasedStays DEF WatchTyped, IssuesKept
<1>3. ASSUME NEW i \in DOMAIN issues, CloseIssue(i) PROVE WatchTyped' /\ IssuesKept
    <2>1. issues' = [issues EXCEPT ![i].open = FALSE] /\ watch' = watch /\ upstream' = upstream
        BY <1>3 DEF CloseIssue
    <2>2. DOMAIN issues' = DOMAIN issues /\ \A j \in DOMAIN issues : IsIssue(issues[j])
        BY <2>1 DEF IssuesInv, IssuesShape
    <2>3. \A j \in DOMAIN issues : j # i => issues'[j] = issues[j]
        BY <2>1
    <2>4. issues'[i] = [issues[i] EXCEPT !.open = FALSE]
        BY <2>1
    <2>5. issues'[i] = [comp |-> issues[i].comp, tag |-> issues[i].tag,
                        commit |-> issues[i].commit, open |-> FALSE]
        BY <2>2, <2>4 DEF IsIssue
    <2>6. IssuesKept
        BY <2>2, <2>3, <2>5 DEF IssuesKept
    <2>7. QED BY <2>1, <2>2, <2>6 DEF WatchTyped, AllReleased, IssuesKept
<1>4. CASE WatchStep \/ WatchDies
    BY <1>4, WatchTypedStep
<1>5. CASE PrepareStep \/ PrepareDies
    BY <1>2, <1>5 DEF PrepareStep, Resolve, Produce, Push, OpenPr, PrepareDies, prepareUnchanged
<1>6. CASE PeopleStep
    <2>1. ASSUME NEW i, Dispatch(i) PROVE UNCHANGED <<issues, watch>>
        BY <2>1 DEF Dispatch, prepareUnchanged
    <2>2. ASSUME NEW k, Merge(k) \/ DeleteBranch(k) PROVE UNCHANGED <<issues, watch>>
        BY <2>2 DEF Merge, DeleteBranch
    <2>3. ASSUME NEW c, NEW v, NEW e, HandPin(c, v, e) PROVE UNCHANGED <<issues, watch>>
        BY <2>3 DEF HandPin
    <2>4. Qualify => UNCHANGED <<issues, watch>>
        BY DEF Qualify
    <2>5. QED BY <1>2, <1>3, <1>6, <2>1, <2>2, <2>3, <2>4, PeopleAre
<1>7. CASE UpstreamStep
    BY <1>2, <1>7 DEF UpstreamStep, Release, MoveTag
<1>8. CASE \/ \E lk \in Locks, s \in Sources, f \in Flaws \cup {None} : Bundle(lk, s, f)
           \/ BundleRuns \/ BundleStops \/ (ClearOutput /\ UNCHANGED pinVars) \/ UNCHANGED vars
    BY <1>2, <1>8 DEF Bundle, BundleRuns, BundleStops, pinVars, vars
<1>9. QED BY <1>4, <1>5, <1>6, <1>7, <1>8 DEF Next
-----------------------------------------------------------------------------
(* The preparation, its branches and main. *)

\* A preparation works on a lock of main's and on what the tag of its issue named.
PrepareOk(up, is, p) ==
    /\ p = [pc |-> p.pc, issue |-> p.issue, base |-> p.base, qualified |-> p.qualified,
            ref |-> p.ref, out |-> p.out]
    /\ p.pc \in {"idle", "resolve", "produce", "push", "pr"}
    /\ p.pc # "idle" => p.issue \in DOMAIN is /\ LockOk(up, p.base)
    /\ p.pc \in {"produce", "push", "pr"} => RefOk(up, p.ref, is[p.issue].comp, is[p.issue].tag)
    /\ p.pc = "push" => LockOk(up, p.out)
BranchesOk(up, bs) ==
    /\ DOMAIN bs \subseteq Watched \X Versions
    /\ \A k \in DOMAIN bs : LockOk(up, bs[k].base) /\ LockOk(up, bs[k].lock)

LocksTyped ==
    /\ LockOk(upstream, main)
    /\ BranchesOk(upstream, branches) /\ prs \subseteq DOMAIN branches
    /\ PrepareOk(upstream, issues, prepare)

\* Upstreams and issues that go on take nothing from a preparation.
LEMMA PrepareStays ==
    ASSUME NEW up, NEW up2, Grows(up, up2), NEW is, NEW is2, AllReleased(up, is),
           \A i \in DOMAIN is : i \in DOMAIN is2 /\ is2[i].comp = is[i].comp /\ is2[i].tag = is[i].tag,
           NEW p, PrepareOk(up, is, p)
    PROVE  PrepareOk(up2, is2, p)
BY LockStays, RefStays DEF PrepareOk, AllReleased

\* Nor do branches.
LEMMA BranchesStay ==
    ASSUME NEW up, NEW up2, Grows(up, up2), NEW bs, BranchesOk(up, bs)
    PROVE  BranchesOk(up2, bs)
BY LockStays DEF BranchesOk

\* Without a preparation there is nothing to say.
LEMMA NoPrepareOk == ASSUME NEW up, NEW is PROVE PrepareOk(up, is, NoPrepare)
BY DEF PrepareOk, NoPrepare

\* The tag of a release that is out names what such a tag names.
LEMMA RefIsOk ==
    ASSUME SpentInv, UpstreamInv, NEW c, NEW v, Released(upstream, c, v), Ref(c, v) # None
    PROVE  RefOk(upstream, Ref(c, v), c, v)
<1> DEFINE k == upstream[c][v].moves
<1>1. Ref(c, v) = RefAt(c, v, k)
    BY DEF Ref
<1>2. k \in 0 .. spent.mishaps
    BY DEF UpstreamInv, Released
<1>3. k \in 0 .. MaxMishaps
    BY <1>2, PinningConstants DEF SpentInv
<1>4. RefAt(c, v, k) = RefIn(upstream, c, v, k)
    BY DEF RefAt, RefIn
<1>5. QED BY <1>1, <1>3, <1>4 DEF RefOk

\* Its tree.
LEMMA RefTree ==
    ASSUME NEW c, NEW v, Released(upstream, c, v), NEW ref, RefOk(upstream, ref, c, v)
    PROVE  Tree(ref.commit) = TreeOf(upstream, c, v)
<1>1. ref.commit[1] = c /\ ref.commit[2] = v
    BY DEF RefOk, RefIn
<1>2. c \in Watched
    BY DEF Released
<1>3. QED BY <1>1, <1>2, TreeIs

\* prepare_candidate.py: what it leaves is the walk over the pinned lock.
LEMMA ProduceIs ==
    ASSUME UpstreamInv, WatchTyped, LocksTyped,
           NEW f \in CloneFlaws \cup {None}, NEW g \in CloneFlaws \cup {None}, Produce(f, g)
    PROVE  LET c == Selected.comp
               v == Selected.tag
               ref == prepare.ref
               pinned == ApplyPin(prepare.base, c, v, ref, Digest(c, ref.commit))
               tree == TreeOf(upstream, c, v)
               out == WalkLinks(pinned, c, tree, g)
           IN  /\ UNCHANGED <<upstream, main, issues, branches, prs>> /\ prepare.pc = "produce"
               /\ Released(upstream, c, v) /\ RefOk(upstream, ref, c, v) /\ LockOk(upstream, prepare.base)
               /\ LockOk(upstream, pinned)
               /\ \/ prepare' = NoPrepare
                  \/ /\ ~ WalkRefuses(pinned, c, tree, g) /\ ValidLock(out) /\ LockOk(upstream, out)
                     /\ g \in Reported => \A l \in MovedLinks(pinned, c, tree) : l.disposition # "bundled"
                     /\ prepare' = [prepare EXCEPT !.pc = "push", !.out = out]
<1> DEFINE c == Selected.comp
           v == Selected.tag
           ref == prepare.ref
           pinned == ApplyPin(prepare.base, c, v, ref, Digest(c, ref.commit))
           tree == TreeOf(upstream, c, v)
           out == WalkLinks(pinned, c, tree, g)
<1>1. UNCHANGED <<upstream, main, issues, branches, prs>> /\ prepare.pc = "produce"
    BY DEF Produce, prepareUnchanged
<1>2. /\ Released(upstream, c, v) /\ RefOk(upstream, ref, c, v) /\ LockOk(upstream, prepare.base)
    BY <1>1 DEF LocksTyped, PrepareOk, WatchTyped, AllReleased, Selected
<1> DEFINE digest == HashCachedSource(c, prepare.ref.commit, f)
           pinned0 == ApplyPin(prepare.base, c, Selected.tag, prepare.ref, digest)
           tree0 == Tree(prepare.ref.commit)
           out0 == WalkLinks(pinned0, c, tree0, g)
<1>3. \/ prepare' = NoPrepare
      \/ /\ digest # None /\ ~ WalkRefuses(pinned0, c, tree0, g) /\ ValidLock(out0)
         /\ prepare' = [prepare EXCEPT !.pc = "push", !.out = out0]
    BY Zenon DEF Produce, Failed
<1>4. tree0 = tree
    BY <1>2, RefTree
<1>5. digest # None => digest = Digest(c, ref.commit)
    BY BrokenIsNotHashed, HashIsOwn
<1>6. digest # None => pinned0 = pinned /\ out0 = out
    BY <1>4, <1>5
<1>7. LockOk(upstream, pinned)
    BY <1>2, ApplyPinOk
<1> HIDE DEF pinned, tree, c, v, digest, tree0, pinned0, out0, ref
<1>8. ASSUME ~ WalkRefuses(pinned, c, tree, g)
      PROVE  /\ g \in Reported => \A l \in MovedLinks(pinned, c, tree) : l.disposition # "bundled"
             /\ LockOk(upstream, out)
    <2>1. g \in Reported => \A l \in MovedLinks(pinned, c, tree) : l.disposition # "bundled"
        BY <1>8, WalkAccepts
    <2>2. tree = TreeOf(upstream, c, v)
        BY DEF tree
    <2>3. LockOk(upstream, out)
        BY <1>2, <1>7, <2>1, <2>2, WalkOk
    <2>4. QED BY <2>1, <2>3
<1> HIDE DEF out
<1>9. \/ prepare' = NoPrepare
      \/ /\ ~ WalkRefuses(pinned, c, tree, g) /\ ValidLock(out) /\ LockOk(upstream, out)
         /\ g \in Reported => \A l \in MovedLinks(pinned, c, tree) : l.disposition # "bundled"
         /\ prepare' = [prepare EXCEPT !.pc = "push", !.out = out]
    BY <1>3, <1>4, <1>6, <1>8
<1>10. QED BY <1>1, <1>2, <1>7, <1>9, Zenon DEF pinned, tree, out, c, v, ref

\* A preparation that produced a lock carries a well-formed one.
LEMMA ProduceTyped ==
    ASSUME UpstreamInv, WatchTyped, LocksTyped,
           NEW f \in CloneFlaws \cup {None}, NEW g \in CloneFlaws \cup {None}, Produce(f, g)
    PROVE  LocksTyped'
<1>1. /\ UNCHANGED <<upstream, main, issues, branches, prs>> /\ prepare.pc = "produce"
      /\ \/ prepare' = NoPrepare
         \/ \E out : LockOk(upstream, out) /\ prepare' = [prepare EXCEPT !.pc = "push", !.out = out]
    BY ProduceIs, Zenon
<1>2. CASE prepare' = NoPrepare
    BY <1>1, <1>2, NoPrepareOk DEF LocksTyped
<1>3. ASSUME NEW out, LockOk(upstream, out), prepare' = [prepare EXCEPT !.pc = "push", !.out = out]
      PROVE  LocksTyped'
    <2>1. prepare' = [pc |-> "push", issue |-> prepare.issue, base |-> prepare.base,
                      qualified |-> prepare.qualified, ref |-> prepare.ref, out |-> out]
        BY <1>3 DEF LocksTyped, PrepareOk
    <2>2. PrepareOk(upstream, issues, prepare)'
        BY <1>1, <1>3, <2>1 DEF LocksTyped, PrepareOk
    <2>3. QED BY <1>1, <2>2 DEF LocksTyped
<1>4. QED BY <1>1, <1>2, <1>3

\* A tag that resolves names what a tag of its release may name.
LEMMA ResolveTyped ==
    ASSUME SpentInv, UpstreamInv, WatchTyped, LocksTyped, Resolve
    PROVE  LocksTyped'
<1> DEFINE ref == Ref(Selected.comp, Selected.tag)
<1>1. /\ UNCHANGED <<upstream, main, issues, branches, prs>> /\ prepare.pc = "resolve"
      /\ \/ prepare' = NoPrepare
         \/ ref # None /\ prepare' = [prepare EXCEPT !.pc = "produce", !.ref = ref]
    BY DEF Resolve, Failed, prepareUnchanged
<1>2. ref # None => RefOk(upstream, ref, Selected.comp, Selected.tag)
    BY <1>1, RefIsOk DEF LocksTyped, PrepareOk, WatchTyped, AllReleased, Selected
<1> HIDE DEF ref
<1>3. CASE prepare' = NoPrepare
    BY <1>1, <1>3, NoPrepareOk DEF LocksTyped
<1>4. CASE ref # None /\ prepare' = [prepare EXCEPT !.pc = "produce", !.ref = ref]
    <2>1. prepare' = [pc |-> "produce", issue |-> prepare.issue, base |-> prepare.base,
                      qualified |-> prepare.qualified, ref |-> ref, out |-> prepare.out]
        BY <1>4 DEF LocksTyped, PrepareOk
    <2>2. PrepareOk(upstream, issues, prepare)'
        BY <1>1, <1>2, <1>4, <2>1 DEF LocksTyped, PrepareOk, Selected
    <2>3. QED BY <1>1, <2>2 DEF LocksTyped
<1>5. QED BY <1>1, <1>3, <1>4

\* The branch of a preparation carries its lock; the PR is the branch's.
LEMMA PushTyped ==
    ASSUME WatchTyped, LocksTyped, Push \/ OpenPr \/ PrepareDies
    PROVE  LocksTyped'
<1>1. CASE Push
    <2>1. /\ UNCHANGED <<upstream, main, issues, prs>> /\ prepare.pc = "push"
          /\ \/ /\ branches' = [b \in DOMAIN branches \cup {Candidate} |->
                              IF b = Candidate THEN [base |-> prepare.base, lock |-> prepare.out]
                              ELSE branches[b]]
                /\ prepare' = [prepare EXCEPT !.pc = "pr"]
             \/ branches' = branches /\ prepare' = NoPrepare
        BY <1>1 DEF Push, Failed, prepareUnchanged
    <2>2. CASE branches' = branches /\ prepare' = NoPrepare
        BY <2>1, <2>2, NoPrepareOk DEF LocksTyped
    <2>3. CASE /\ branches' = [b \in DOMAIN branches \cup {Candidate} |->
                              IF b = Candidate THEN [base |-> prepare.base, lock |-> prepare.out]
                              ELSE branches[b]]
               /\ prepare' = [prepare EXCEPT !.pc = "pr"]
        <3>1. Candidate \in Watched \X Versions
            BY <2>1 DEF LocksTyped, PrepareOk, WatchTyped, AllReleased, Released, Candidate, Selected
        <3>2. BranchesOk(upstream, branches)'
            BY <2>1, <2>3, <3>1 DEF LocksTyped, PrepareOk, BranchesOk
        <3>3. prepare' = [pc |-> "pr", issue |-> prepare.issue, base |-> prepare.base,
                          qualified |-> prepare.qualified, ref |-> prepare.ref, out |-> prepare.out]
            BY <2>3 DEF LocksTyped, PrepareOk
        <3>4. PrepareOk(upstream, issues, prepare)'
            BY <2>1, <3>3 DEF LocksTyped, PrepareOk
        <3>5. QED BY <2>1, <2>3, <3>2, <3>4 DEF LocksTyped
    <2>4. QED BY <2>1, <2>2, <2>3
<1>2. CASE OpenPr \/ PrepareDies
    <2>1. /\ UNCHANGED <<upstream, main, issues, branches>> /\ prepare' = NoPrepare
          /\ prs' \subseteq prs \cup DOMAIN branches
        BY <1>2 DEF OpenPr, PrepareDies, Failed, prepareUnchanged
    <2>2. QED BY <2>1, NoPrepareOk DEF LocksTyped
<1>3. QED BY <1>1, <1>2

\* A dispatch starts from main, on an issue there is.
LEMMA DispatchTyped ==
    ASSUME LocksTyped, NEW i \in DOMAIN issues, Dispatch(i)
    PROVE  LocksTyped'
<1>1. /\ UNCHANGED <<upstream, main, issues, branches, prs>>
      /\ prepare' = [pc |-> "resolve", issue |-> i, base |-> main, qualified |-> qualified,
                  ref |-> None, out |-> None]
    BY DEF Dispatch, NoPrepare, prepareUnchanged
<1>2. PrepareOk(upstream, issues, prepare)'
    BY <1>1 DEF LocksTyped, PrepareOk
<1>3. QED BY <1>1, <1>2 DEF LocksTyped

\* Merged records are the branch's or main's own.
LEMMA MergeTyped ==
    ASSUME LocksTyped, NEW k \in DOMAIN branches, Merge(k) \/ DeleteBranch(k)
    PROVE  LocksTyped'
<1>1. CASE DeleteBranch(k)
    BY <1>1 DEF DeleteBranch, LocksTyped, BranchesOk
<1>2. CASE Merge(k)
    <2> DEFINE b == branches[k]
               pins == [s \in Sources |-> IF s \in Changed(b) THEN b.lock.pin[s] ELSE main.pin[s]]
               links == [l \in Links |-> IF l \in ChangedLinks(b) THEN b.lock.link[l]
                                                                 ELSE main.link[l]]
    <2>1. /\ main' = [main EXCEPT !.pin = pins, !.link = links]
          /\ UNCHANGED <<upstream, branches, prepare, issues>> /\ prs' = prs \ {k}
        BY <1>2, Zenon DEF Merge
    <2>2. LockOk(upstream, main) /\ LockOk(upstream, b.lock)
        BY DEF LocksTyped, BranchesOk
    <2>3. \A s \in Sources : PinOk(upstream, pins[s], s)
        BY <2>2 DEF LockOk
    <2>4. pins = [s \in Sources |-> pins[s]] /\ DOMAIN links = Links
        OBVIOUS
    <2> HIDE DEF pins, links
    <2>5. main' = [pin |-> pins, link |-> links, status |-> main.status]
        BY <2>1, <2>2 DEF LockOk
    <2>6. LockOk(upstream, main)'
        BY <2>1, <2>2, <2>3, <2>4, <2>5 DEF LockOk
    <2>7. QED BY <2>1, <2>6 DEF LocksTyped
<1>3. QED BY <1>1, <1>2

\* A manual completion with one error is still a lock of the same kind.
LEMMA HandPinTyped ==
    ASSUME SpentInv, UpstreamInv, LocksTyped, NEW c \in Watched, NEW v \in Versions,
           NEW e \in HandErrors, HandPin(c, v, e)
    PROVE  LocksTyped'
<1> DEFINE ref == Ref(c, v)
           pinned == ApplyPin(main, c, v, ref, Digest(c, ref.commit))
           out == WalkLinks(pinned, c, Tree(ref.commit), None)
<1>1. Released(upstream, c, v) /\ RefOk(upstream, ref, c, v)
    BY RefIsOk DEF HandPin, Released
<1>2. /\ UNCHANGED <<upstream, branches, prepare, issues, prs>>
      /\ \/ main' = pinned
         \/ main' = [out EXCEPT !.pin[c].kind = "git_annotated_tag"]
         \/ main' = [out EXCEPT !.status = "draft"]
    BY PinningConstants DEF HandPin
<1>3. LockOk(upstream, pinned)
    BY <1>1, ApplyPinOk DEF LocksTyped
<1>4. Tree(ref.commit) = TreeOf(upstream, c, v)
    BY <1>1, RefTree
<1> HIDE DEF pinned, ref
<1>5. LockOk(upstream, out)
    BY <1>1, <1>3, <1>4, WalkOk, PinningConstants DEF Reported
<1> HIDE DEF out
<1>6. LockOk(upstream, [out EXCEPT !.status = "draft"])
    BY <1>5 DEF LockOk
<1>7. LockOk(upstream, [out EXCEPT !.pin[c].kind = "git_annotated_tag"])
    <2> DEFINE pins == [out.pin EXCEPT ![c].kind = "git_annotated_tag"]
    <2>1. [out EXCEPT !.pin[c].kind = "git_annotated_tag"]
              = [pin |-> pins, link |-> out.link, status |-> out.status]
        BY <1>5 DEF LockOk
    <2>2. pins = [s \in Sources |-> pins[s]]
        BY <1>5 DEF LockOk
    <2>3. ASSUME NEW s \in Sources PROVE PinOk(upstream, pins[s], s)
        <3>1. PinOk(upstream, out.pin[s], s)
            BY <1>5 DEF LockOk
        <3>2. CASE s = c
            <4>1. pins[s] = [out.pin[s] EXCEPT !.kind = "git_annotated_tag"]
                BY <1>5, <3>2 DEF LockOk
            <4>2. QED BY <3>1, <3>2, <4>1 DEF PinOk, Pin
        <3>3. CASE s # c
            BY <1>5, <3>1, <3>3 DEF LockOk
        <3>4. QED BY <3>2, <3>3
    <2> HIDE DEF pins
    <2>4. QED BY <1>5, <2>1, <2>2, <2>3 DEF LockOk
<1>8. LockOk(upstream, main')
    BY <1>2, <1>3, <1>6, <1>7
<1>9. QED BY <1>2, <1>8 DEF LocksTyped

\* All steps together.
LEMMA LocksTypedStep ==
    ASSUME IssuesInv, SpentInv, UpstreamInv, WatchTyped, LocksTyped, [Next]_vars
    PROVE  LocksTyped'
<1>1. Grows(upstream, upstream') /\ IssuesKept /\ AllReleased(upstream, issues)
    BY UpstreamStepInv, WatchTypedRest DEF WatchTyped
<1>2. CASE UNCHANGED <<main, branches, prs, prepare>>
    <2>1. PrepareOk(upstream', issues', prepare)
        BY <1>1, PrepareStays DEF LocksTyped, IssuesKept
    <2>2. BranchesOk(upstream', branches) /\ LockOk(upstream', main)
        BY <1>1, BranchesStay, LockStays DEF LocksTyped
    <2>3. QED BY <1>2, <2>1, <2>2 DEF LocksTyped
<1>3. CASE PrepareStep \/ PrepareDies
    BY <1>3, ProduceTyped, ResolveTyped, PushTyped DEF PrepareStep
<1>4. CASE PeopleStep
    <2>1. CASE Qualify \/ \E i \in DOMAIN issues : CloseIssue(i)
        BY <1>2, <2>1 DEF Qualify, CloseIssue
    <2>2. ASSUME NEW i \in DOMAIN issues, Dispatch(i) PROVE LocksTyped'
        BY <2>2, DispatchTyped
    <2>3. ASSUME NEW k \in DOMAIN branches, Merge(k) \/ DeleteBranch(k) PROVE LocksTyped'
        BY <2>3, MergeTyped
    <2>4. ASSUME NEW c \in Watched, NEW v \in Versions, NEW e \in HandErrors, HandPin(c, v, e)
          PROVE  LocksTyped'
        BY <2>4, HandPinTyped
    <2>5. QED BY <1>4, <2>1, <2>2, <2>3, <2>4, PeopleAre
<1>5. CASE WatchStep \/ WatchDies \/ UpstreamStep
    <2>1. CASE WatchStep \/ WatchDies
        BY <1>2, <2>1 DEF WatchStep, WatchStart, ScanAnswered, ScanFailed, ScanAborted, OpenIssue, WatchEnd,
                          WatchDies, watchUnchanged
    <2>2. CASE UpstreamStep
        BY <1>2, <2>2 DEF UpstreamStep, Release, MoveTag
    <2>3. QED BY <1>5, <2>1, <2>2
<1>6. CASE \/ \E lk \in Locks, s \in Sources, f \in Flaws \cup {None} : Bundle(lk, s, f)
           \/ BundleRuns \/ BundleStops \/ (ClearOutput /\ UNCHANGED pinVars) \/ UNCHANGED vars
    BY <1>2, <1>6 DEF Bundle, BundleRuns, BundleStops, pinVars, vars
<1>7. QED BY <1>3, <1>4, <1>5, <1>6 DEF Next
-----------------------------------------------------------------------------
\* All of it.
TypedInv == IssuesInv /\ SpentInv /\ UpstreamInv /\ WatchTyped /\ LocksTyped
StagingInv == output.staging = None \/ output.staging \subseteq Published

\* The first releases are releases.
LEMMA FirstIs ==
    ASSUME NEW n \in Nat
    PROVE  \A c \in Watched :
              First \in [shape : Shapes[c] \cup {First.shape}, moves : 0 .. n, gone : BOOLEAN]
<1> DEFINE sh == First.shape
<1>1. First = [shape |-> sh, moves |-> 0, gone |-> FALSE]
    BY Zenon DEF First
<1> HIDE DEF sh
<1>2. \A c \in Watched : First \in [shape : Shapes[c] \cup {sh}, moves : 0 .. n, gone : BOOLEAN]
    BY <1>1
<1>3. QED BY <1>2 DEF sh

\* When the model starts.
LEMMA TypedInit == Init => TypedInv
<1> SUFFICES ASSUME Init PROVE TypedInv
    OBVIOUS
<1>1. SpentInv
    BY PinningConstants DEF Init, SpentInv
<1>2. /\ MaxVersion \in Nat /\ MaxVersion >= 1 /\ 1 \in Versions /\ 0 \in 0 .. MaxMishaps
      /\ \A v \in Versions : v \in Nat /\ v >= 1
    BY PinningConstants DEF Versions
<1>3. \A c \in Watched : First # None
    BY FirstIs, NoneIsNoRelease, PinningConstants
<1>4. \A c \in Watched, v \in Versions : upstream[c][v] = IF v = 1 THEN First ELSE None
    BY DEF Init
<1>5. UpstreamInv
    <2>1. upstream = [c \in Watched |-> [v \in Versions |-> upstream[c][v]]]
        BY DEF Init
    <2>2. \A c \in Watched : \E n \in Versions : \A v \in Versions : v <= n <=> upstream[c][v] # None
        BY <1>2, <1>3, <1>4
    <2>3. \A c \in Watched : upstream[c][1].shape = First.shape
        BY <1>2, <1>4
    <2>4. \A c \in Watched :
             First \in [shape : Shapes[c] \cup {First.shape}, moves : 0 .. spent.mishaps, gone : BOOLEAN]
        BY <1>1, FirstIs, PinningConstants DEF SpentInv
    <2>5. QED BY <1>4, <2>1, <2>2, <2>3, <2>4, Zenon DEF UpstreamInv
<1>6. WatchTyped
    BY DEF Init, WatchTyped, AllReleased, NoWatch
<1>7. LocksTyped
    <2>1. LockOk(upstream, main)
        BY <1>2, <1>3, <1>4, FirstLockOk DEF Init
    <2>2. QED BY <2>1, NoPrepareOk DEF Init, LocksTyped, BranchesOk
<1>8. QED BY <1>1, <1>5, <1>6, <1>7, IssuesInit DEF TypedInv

\* And at every step.
LEMMA TypedStep == TypedInv /\ [Next]_vars => TypedInv'
BY IssuesStep, SpentStep, UpstreamStepInv, WatchTypedRest, LocksTypedStep DEF TypedInv

\* Only archives of sources that may be passed on are staged.
LEMMA StagingStep == IInv /\ StagingInv /\ [Next]_vars => StagingInv'
<1> SUFFICES ASSUME IInv, StagingInv, [BundleNext]_bundleVars PROVE StagingInv'
    BY BundleMoves
<1>1. output = [staging |-> output.staging, files |-> output.files, sums |-> output.sums]
    BY DEF IInv, ShapeInv
<1>2. ASSUME NEW lk, NEW cache, BundleStart(lk, cache) PROVE StagingInv'
    BY <1>1, <1>2 DEF BundleStart, StagingInv
<1>3. CASE BundleSources
    BY <1>1, <1>3 DEF BundleSources, StagingInv, Published
<1>4. CASE PublishArchive
    <2>1. bundle.pc = "archives" /\ \E s : output'.staging = output.staging \ {s}
        BY <1>4 DEF PublishArchive
    <2>2. output.staging \subseteq Published
        BY <2>1 DEF IInv, ArchivesInv
    <2>3. QED BY <2>1, <2>2 DEF StagingInv
<1>5. CASE PublishSums \/ Cleanup
    BY <1>1, <1>5 DEF PublishSums, Cleanup, StagingInv
<1>6. CASE BundleFails \/ BundleKilled \/ ClearOutput \/ UNCHANGED bundleVars
    BY <1>6 DEF BundleFails, BundleKilled, ClearOutput, bundleVars, StagingInv, Empty
<1>7. QED BY <1>2, <1>3, <1>4, <1>5, <1>6 DEF BundleNext

\* Every lock on main and on a branch is well-formed, and no digest in it is that of
\* another commit than the one recorded beside it, whatever the upstreams, the watch,
\* the preparation and people with their hand edits did before: for any sources,
\* gitlinks, shapes of releases and bounds.
THEOREM PinningTyped == Spec => []TypeOK
<1>1. Init => IInv /\ StagingInv
    BY InitInv DEF Init, BundleInit, Empty, StagingInv
<1>2. IInv /\ [Next]_vars => IInv'
    BY BundleMoves, StepInv
<1>3. TypedInv /\ IInv /\ StagingInv => TypeOK
    <2> SUFFICES ASSUME TypedInv, IInv, StagingInv PROVE TypeOK
        OBVIOUS
    <2>1. LockType(main) /\ \A k \in DOMAIN branches : LockType(branches[k].base)
                                                     /\ LockType(branches[k].lock)
        BY LockTyped DEF TypedInv, LocksTyped, BranchesOk
    <2>2. /\ prs \subseteq DOMAIN branches /\ DOMAIN branches \subseteq Watched \X Versions
          /\ prepare.pc \in {"idle", "resolve", "produce", "push", "pr"}
          /\ prepare.pc # "idle" => prepare.issue \in DOMAIN issues
        BY DEF TypedInv, LocksTyped, BranchesOk, PrepareOk
    <2>3. /\ watch.pc \in {"idle", "scan"} /\ watch.todo \subseteq Watched
          /\ watch.pc = "idle" => watch = NoWatch
          /\ \A i \in DOMAIN issues : issues[i].comp \in Watched /\ issues[i].tag \in Versions
        BY DEF TypedInv, WatchTyped, AllReleased, Released
    <2>4. /\ bundle.pc \in {"idle", "sources", "archives", "cleanup"}
          /\ output.staging = None \/ output.staging \subseteq Sources \ External
        BY DEF IInv, ShapeInv, StagingInv, Published
    <2>5. QED BY <2>1, <2>2, <2>3, <2>4, Zenon DEF TypeOK
<1>4. QED BY <1>1, <1>2, <1>3, TypedInit, TypedStep, StagingStep, PTL DEF Spec
-----------------------------------------------------------------------------
(* What is prepared bundles. *)

\* Buildable, of what the upstreams `up' have.
TreeAt(up, commit) ==
    IF commit[1] \notin Watched THEN CompanionTrees[commit[1]][commit[2]]
    ELSE TreeOf(up, commit[1], commit[2])
Fits(up, lk, s) ==
    LET commit == lk.pin[s].commit IN
    /\ None # "origin"
    /\ IdentityHolds(lk.pin[s], IF s \in Watched THEN RefIn(up, s, commit[2], commit[3]) ELSE None)
    /\ GitlinksHold(lk, s, TreeAt(up, commit))
BuildIn(up, lk) == ValidLock(lk) /\ \A s \in Sources : Fits(up, lk, s)

\* WithinTheWalk, of any two locks.
Within(up, base, lk, c, v) ==
    /\ ~ up[c][v].shape.added
    /\ \A s \in Sources : lk.pin[s] # base.pin[s] => \A l, m \in Links :
          l.source = s /\ m.source = s => l = m /\ lk.link[l] # base.link[l]
    /\ \A s \in Sources \ Watched : TreeAt(up, lk.pin[s].commit) = TreeAt(up, base.pin[s].commit)
Keeps(up, base, lk, c, v) == BuildIn(up, base) /\ Within(up, base, lk, c, v) => BuildIn(up, lk)

\* Every branch and the lock about to be pushed.
PreparedInv ==
    /\ \A k \in DOMAIN branches :
          /\ Released(upstream, k[1], k[2])
          /\ Keeps(upstream, branches[k].base, branches[k].lock, k[1], k[2])
    /\ prepare.pc = "push" =>
          Keeps(upstream, prepare.base, prepare.out,
                issues[prepare.issue].comp, issues[prepare.issue].tag)

\* For a well-formed lock the two are the same: its digests are of its commits.
LEMMA BuildableIs ==
    ASSUME NEW lk, LockOk(upstream, lk)
    PROVE  Buildable(lk) <=> BuildIn(upstream, lk)
<1>1. ASSUME NEW s \in Sources
      PROVE  Accepted(lk, s, [ref |-> IF s \in Watched
                                      THEN RefAt(s, lk.pin[s].commit[2], lk.pin[s].commit[3]) ELSE None,
                              tree |-> Tree(lk.pin[s].commit), flaw |-> None])
             <=> Fits(upstream, lk, s)
    <2> DEFINE commit == lk.pin[s].commit
    <2>1. Archive(s, commit, None) = lk.pin[s].digest
        <3>1. PinOk(upstream, lk.pin[s], s)
            BY DEF LockOk
        <3>2. lk.pin[s].digest = Digest(s, commit)
            BY <3>1 DEF PinOk, Pin
        <3>3. Archive(s, commit, None) = Digest(s, commit)
            BY PinningConstants DEF Archive, Reported
        <3>4. QED BY <3>2, <3>3
    <2>2. Tree(commit) = TreeAt(upstream, commit)
        BY TreeIs DEF TreeAt
    <2>3. RefAt(s, commit[2], commit[3]) = RefIn(upstream, s, commit[2], commit[3])
        BY DEF RefAt, RefIn
    <2>4. None # "config"
        BY PinningConstants
    <2> DEFINE ref == IF s \in Watched THEN RefIn(upstream, s, commit[2], commit[3]) ELSE None
               tree == TreeAt(upstream, commit)
    <2>5. Fits(upstream, lk, s) <=> None # "origin" /\ IdentityHolds(lk.pin[s], ref) /\ GitlinksHold(lk, s, tree)
        BY Zenon DEF Fits
    <2> HIDE DEF ref, tree
    <2>6. Accepted(lk, s, [ref |-> ref, tree |-> tree, flaw |-> None])
          <=> None # "origin" /\ IdentityHolds(lk.pin[s], ref) /\ GitlinksHold(lk, s, tree)
        BY <2>1, <2>4 DEF Accepted
    <2>7. QED BY <2>2, <2>3, <2>5, <2>6, Zenon DEF ref, tree
<1>2. QED BY <1>1, Zenon DEF Buildable, BuildIn

\* Whether a lock bundles does not change when upstreams go on.
LEMMA BuildStays ==
    ASSUME UpstreamInv, NEW up2, Grows(upstream, up2), NEW lk, LockOk(upstream, lk)
    PROVE  BuildIn(up2, lk) <=> BuildIn(upstream, lk)
<1>1. ASSUME NEW s \in Sources PROVE Fits(up2, lk, s) <=> Fits(upstream, lk, s)
    <2> DEFINE commit == lk.pin[s].commit
    <2>1. PinOk(upstream, lk.pin[s], s)
        BY DEF LockOk
    <2>2. commit[1] = s /\ commit[2] \in Versions
        BY <2>1 DEF PinOk, Commits
    <2>3. CASE s \in Watched
        <3>1. Released(upstream, s, commit[2])
            BY <2>1, <2>2, <2>3 DEF PinOk, Released
        <3>2. TreeAt(up2, commit) = TreeAt(upstream, commit)
            BY <2>2, <2>3, <3>1, TreeStays DEF TreeAt
        <3>3. RefIn(up2, s, commit[2], commit[3]) = RefIn(upstream, s, commit[2], commit[3])
            BY <3>1 DEF RefIn, Grows, Released
        <3>4. QED BY <2>3, <3>2, <3>3, Zenon DEF Fits
    <2>4. CASE s \notin Watched
        BY <2>2, <2>4 DEF Fits, TreeAt
    <2>5. QED BY <2>3, <2>4
<1>2. QED BY <1>1, Zenon DEF BuildIn

\* Nor does whether a release is within the walk: a companion's trees are what they are.
LEMMA WithinStays ==
    ASSUME NEW up2, Grows(upstream, up2), NEW base, LockOk(upstream, base),
           NEW lk, LockOk(upstream, lk), NEW c, NEW v, Released(upstream, c, v)
    PROVE  Within(up2, base, lk, c, v) <=> Within(upstream, base, lk, c, v)
<1>1. up2[c][v].shape = upstream[c][v].shape
    BY DEF Grows, Released
<1>2. ASSUME NEW s \in Sources \ Watched
      PROVE  lk.pin[s].commit[1] = s /\ base.pin[s].commit[1] = s
    <2>1. PinOk(upstream, lk.pin[s], s) /\ PinOk(upstream, base.pin[s], s)
        BY DEF LockOk
    <2>2. QED BY <2>1 DEF PinOk, Commits
<1>3. \A s \in Sources \ Watched :
         /\ TreeAt(up2, lk.pin[s].commit) = TreeAt(upstream, lk.pin[s].commit)
         /\ TreeAt(up2, base.pin[s].commit) = TreeAt(upstream, base.pin[s].commit)
    BY <1>2 DEF TreeAt
<1>4. QED BY <1>1, <1>3, Zenon DEF Within

\* For a branch it is WithinTheWalk.
LEMMA WithinIs ==
    ASSUME NEW k
    PROVE  WithinTheWalk(k)
           <=> Within(upstream, branches[k].base, branches[k].lock, k[1], k[2])
<1>1. \A commit : Tree(commit) = TreeAt(upstream, commit)
    BY TreeIs DEF TreeAt
<1>2. QED BY <1>1 DEF WithinTheWalk, Within, Changed, ChangedLinks

\* Nor does what a preparation keeps.
LEMMA KeepsStays ==
    ASSUME UpstreamInv, NEW up2, Grows(upstream, up2), NEW base, LockOk(upstream, base),
           NEW lk, LockOk(upstream, lk), NEW c, NEW v, Released(upstream, c, v),
           Keeps(upstream, base, lk, c, v)
    PROVE  Keeps(up2, base, lk, c, v)
BY BuildStays, WithinStays DEF Keeps

\* The tree of a release that adds no gitlink and that the walk did not refuse has
\* the declared ones.
LEMMA TreeIsDeclared ==
    ASSUME NEW c, NEW v, ~ upstream[c][v].shape.added,
           \A l \in LinksOf(c) : l.path \in DOMAIN TreeOf(upstream, c, v)
    PROVE  DOMAIN TreeOf(upstream, c, v) = {l.path : l \in LinksOf(c)}
<1>1. DOMAIN TreeOf(upstream, c, v) = {l.path : l \in Kept(upstream, c, v)}
    BY DEF TreeOf
<1>2. QED BY <1>1 DEF Kept

\* apply_pin leaves a pin that its own tag confirms.
LEMMA PinnedFits ==
    ASSUME NEW lk, LockOk(upstream, lk), BuildIn(upstream, lk),
           NEW c, NEW v, Released(upstream, c, v), NEW ref, RefOk(upstream, ref, c, v)
    PROVE  LET out == ApplyPin(lk, c, v, ref, Digest(c, ref.commit))
               commit == out.pin[c].commit
           IN  /\ out.link = lk.link
               /\ \A s \in Sources : s # c => out.pin[s] = lk.pin[s]
               /\ commit = ref.commit /\ commit[1] = c /\ commit[2] = v
               /\ IdentityHolds(out.pin[c], RefIn(upstream, c, commit[2], commit[3]))
<1> DEFINE out == ApplyPin(lk, c, v, ref, Digest(c, ref.commit))
           pin == Pin(IF ref.object = None THEN "git_tag" ELSE "git_annotated_tag",
                      v, ref.object, ref.commit, Digest(c, ref.commit))
<1>1. PICK k \in 0 .. MaxMishaps : ref = RefIn(upstream, c, v, k)
    BY DEF RefOk
<1>2. /\ ref.commit = <<c, v, k>> /\ ref.commit[1] = c /\ ref.commit[2] = v /\ ref.commit[3] = k
      /\ ref = [commit |-> ref.commit, object |-> ref.object]
    BY <1>1 DEF RefIn
<1>3. c \in Watched /\ c \in Sources
    BY LockConstants DEF Released, Sources
<1>4. \/ out = lk /\ lk.pin[c].commit = ref.commit
      \/ out = [lk EXCEPT !.pin = [lk.pin EXCEPT ![c] = pin]]
    BY DEF ApplyPin
<1> HIDE DEF out, pin
<1>5. CASE out = lk /\ lk.pin[c].commit = ref.commit
    <2>1. Fits(upstream, lk, c)
        BY <1>3 DEF BuildIn
    <2>2. IdentityHolds(out.pin[c], RefIn(upstream, c, out.pin[c].commit[2], out.pin[c].commit[3]))
        BY <1>3, <1>5, <2>1 DEF Fits
    <2>3. QED BY <1>2, <1>5, <2>2, Zenon DEF out
<1>6. CASE out = [lk EXCEPT !.pin = [lk.pin EXCEPT ![c] = pin]]
    <2>1. /\ lk.pin = [s \in Sources |-> lk.pin[s]]
          /\ lk = [pin |-> lk.pin, link |-> lk.link, status |-> lk.status]
        BY DEF LockOk
    <2>2. /\ out.link = lk.link /\ out.pin = [lk.pin EXCEPT ![c] = pin]
        BY <1>6, <2>1
    <2>3. out.pin[c] = pin /\ \A s \in Sources : s # c => out.pin[s] = lk.pin[s]
        BY <1>3, <2>1, <2>2
    <2>4. /\ pin.commit = ref.commit /\ pin.object = ref.object
          /\ pin.kind = IF ref.object = None THEN "git_tag" ELSE "git_annotated_tag"
        BY DEF pin, Pin
    <2>5. IdentityHolds(pin, RefIn(upstream, c, v, k))
        BY <1>1, <1>2, <2>4 DEF IdentityHolds
    <2>6. QED BY <1>2, <2>2, <2>3, <2>4, <2>5, Zenon DEF out
<1>7. QED BY <1>4, <1>5, <1>6

\* prepare_candidate.py and source_bundle.rs agree: kinds, tag objects, gitlinks,
\* companions and digests.
LEMMA ProduceBuilds ==
    ASSUME UpstreamInv, NEW base, LockOk(upstream, base), BuildIn(upstream, base),
           NEW c, NEW v, Released(upstream, c, v),
           NEW ref, RefOk(upstream, ref, c, v), NEW f \in CloneFlaws \cup {None},
           NEW pinned, pinned = ApplyPin(base, c, v, ref, Digest(c, ref.commit)),
           LockOk(upstream, pinned),
           NEW tree, tree = TreeOf(upstream, c, v), ~ WalkRefuses(pinned, c, tree, f),
           f \in Reported => \A l \in MovedLinks(pinned, c, tree) : l.disposition # "bundled",
           NEW out, out = WalkLinks(pinned, c, tree, f), LockOk(upstream, out), ValidLock(out),
           Within(upstream, base, out, c, v)
    PROVE  BuildIn(upstream, out)
<1> DEFINE moved == MovedLinks(pinned, c, tree)
<1>1. Walked(pinned, moved, tree, out)
    BY WalkIs DEF LockOk
<1>2. /\ pinned.link = base.link
      /\ \A s \in Sources : s # c => pinned.pin[s] = base.pin[s]
      /\ pinned.pin[c].commit = ref.commit /\ ref.commit[1] = c /\ ref.commit[2] = v
      /\ IdentityHolds(pinned.pin[c], RefIn(upstream, c, ref.commit[2], ref.commit[3]))
    BY PinnedFits
<1>3. c \in Watched /\ Watched \subseteq Sources
    BY LockConstants DEF Released, Sources
<1>4. ASSUME NEW l \in LinksOf(c) PROVE l.path \in DOMAIN tree /\ out.link[l] = tree[l.path]
    <2>1. l.path \in DOMAIN tree /\ l \in Links
        BY DEF WalkRefuses, LinksOf
    <2>2. out.link[l] = IF l \in moved THEN tree[l.path] ELSE pinned.link[l]
        BY <1>1, <2>1 DEF Walked
    <2>3. QED BY <2>1, <2>2 DEF MovedLinks
<1>5. ASSUME NEW l \in Links, l \notin LinksOf(c) PROVE out.link[l] = base.link[l]
    <2>1. l \notin moved
        BY <1>5 DEF MovedLinks
    <2>2. QED BY <1>1, <1>2, <2>1 DEF Walked
<1>6. /\ \A l \in Links : l.disposition = "bundled" <=> l.source # None
      /\ moved \subseteq Links /\ None \notin Sources
    BY LockConstants, Zenon DEF ValidLock, ValidDisposition, MovedLinks, LinksOf, Sources
<1>7. ASSUME NEW s \in Sources, Repinnable(pinned, s) PROVE s \notin Watched /\ s # c
    <2>1. PinOk(upstream, pinned.pin[s], s)
        BY DEF LockOk
    <2>2. QED BY <1>3, <1>7, <2>1 DEF PinOk, Repinnable
<1>8. ASSUME NEW s \in Watched PROVE out.pin[s] = pinned.pin[s]
    <2>1. ~ RePinned(pinned, moved, tree, s, out.pin[s])
        BY <1>3, <1>7 DEF RePinned
    <2>2. QED BY <1>1, <1>3, <2>1, Zenon DEF Walked, Unmoved
\* What supplies a gitlink of the new lock is pinned to what that gitlink names.
<1>9. ASSUME NEW l \in Links, l.disposition = "bundled"
      PROVE  l.source \in Sources /\ out.pin[l.source].commit = out.link[l]
    <2> DEFINE s == l.source
    <2>1. l.parent \in Sources /\ l \in LinksOf(l.parent)
        BY LockConstants DEF LinksOf, Sources
    <2>2. \E t : GitlinksHold(base, l.parent, t)
        BY <2>1, Zenon DEF BuildIn, Fits
    <2>3. s \in Sources /\ base.pin[s].commit = base.link[l] /\ s # None
        BY <1>6, <1>9, <2>1, <2>2 DEF GitlinksHold
    <2>4. out.link[l] = IF l \in moved THEN tree[l.path] ELSE base.link[l]
        BY <1>1, <1>2 DEF Walked
    <2>5. \A m \in moved : tree[m.path] # base.link[m]
        BY <1>2 DEF MovedLinks
    <2>6. l \in moved => Repinnable(pinned, s)
        BY <1>9 DEF WalkRefuses, MovedLinks
    <2>7. ASSUME NEW m \in Links, m.source = s PROVE base.pin[s].commit = base.link[m]
        <3>1. m.parent \in Sources /\ m \in LinksOf(m.parent) /\ m.disposition = "bundled"
            BY <1>6, <2>3, <2>7, LockConstants DEF LinksOf, Sources
        <3>2. \E t : GitlinksHold(base, m.parent, t)
            BY <3>1, Zenon DEF BuildIn, Fits
        <3>3. QED BY <2>7, <3>1, <3>2 DEF GitlinksHold
    <2> HIDE DEF moved
    <2>8. (\E m \in moved : m.source = s /\ out.pin[s].commit = tree[m.path])
              => out.pin[s].commit = out.link[l]
        <3> SUFFICES ASSUME NEW m \in moved, m.source = s, out.pin[s].commit = tree[m.path]
                     PROVE  out.pin[s].commit = out.link[l]
            OBVIOUS
        <3>1. out.pin[s] # base.pin[s]
            BY <1>6, <2>5, <2>7
        <3>2. l = m
            BY <1>6, <2>3, <3>1 DEF Within
        <3>3. QED BY <2>4, <3>2
    <2>9. CASE Unmoved(pinned, moved, tree, s, out.pin[s])
        <3>1. CASE l \in moved
            BY <1>9, <2>3, <2>6, <2>8, <2>9, <3>1 DEF Unmoved
        <3>2. CASE l \notin moved
            <4>1. CASE out.pin[s] = base.pin[s]
                BY <2>3, <2>4, <3>2, <4>1
            <4>2. CASE out.pin[s] # base.pin[s]
                <5>1. out.link[l] # base.link[l]
                    BY <2>3, <4>2 DEF Within
                <5>2. QED BY <2>4, <3>2, <5>1
            <4>3. QED BY <4>1, <4>2
        <3>3. QED BY <3>1, <3>2
    <2>10. CASE RePinned(pinned, moved, tree, s, out.pin[s])
        <3>1. PICK m \in moved : /\ m.source = s
                                 /\ out.pin[s] = [pinned.pin[s] EXCEPT !.commit = tree[m.path],
                                                                       !.digest = Digest(s, tree[m.path])]
            BY <2>10, Zenon DEF RePinned
        <3>2. PinOk(upstream, pinned.pin[s], s)
            BY <2>3 DEF LockOk
        <3>3. out.pin[s].commit = tree[m.path]
            BY <3>1, <3>2 DEF PinOk, Pin
        <3>4. QED BY <2>3, <2>8, <3>1, <3>3
    <2>11. QED BY <1>1, <2>3, <2>9, <2>10, Zenon DEF Walked
<1> HIDE DEF moved
<1>10. ASSUME NEW s \in Sources PROVE Fits(upstream, out, s)
    <2> DEFINE commit == out.pin[s].commit
    <2>1. Fits(upstream, base, s)
        BY DEF BuildIn
    <2>2. None # "origin"
        BY <2>1, Zenon DEF Fits
    <2>3. PinOk(upstream, out.pin[s], s)
        BY DEF LockOk
    <2>4. commit[1] = s
        BY <2>3 DEF PinOk, Commits
    <2>5. CASE s = c
        <3>1. out.pin[s] = pinned.pin[c] /\ commit = ref.commit
            BY <1>2, <1>3, <1>8, <2>5
        <3>2. TreeAt(upstream, commit) = tree
            BY <1>2, <1>3, <3>1 DEF TreeAt
        <3>3. DOMAIN tree = {l.path : l \in LinksOf(c)}
            BY <1>4, TreeIsDeclared DEF Within
        <3>4. GitlinksHold(out, s, tree)
            BY <1>4, <1>9, <2>5, <3>3 DEF GitlinksHold, LinksOf
        <3>5. IdentityHolds(out.pin[s], RefIn(upstream, s, commit[2], commit[3]))
            BY <1>2, <2>5, <3>1
        <3>6. QED BY <1>3, <2>2, <2>5, <3>2, <3>4, <3>5, Zenon DEF Fits
    <2>6. CASE s \in Watched /\ s # c
        <3>1. out.pin[s] = base.pin[s]
            BY <1>2, <1>3, <1>8, <2>6
        <3> DEFINE tr == TreeAt(upstream, commit)
        <3>2. GitlinksHold(base, s, tr)
              /\ IdentityHolds(out.pin[s], RefIn(upstream, s, commit[2], commit[3]))
            BY <2>1, <2>6, <3>1, Zenon DEF Fits
        <3> HIDE DEF tr
        <3>3. \A l \in LinksOf(s) : l \in Links /\ l \notin LinksOf(c)
            BY <2>6 DEF LinksOf
        <3>4. GitlinksHold(out, s, tr)
            BY <1>5, <1>9, <3>2, <3>3 DEF GitlinksHold
        <3>5. QED BY <2>2, <2>6, <3>2, <3>4, Zenon DEF Fits, tr
    <2>7. CASE s \notin Watched
        <3> DEFINE tr == TreeAt(upstream, commit)
        <3>1. tr = TreeAt(upstream, base.pin[s].commit)
            BY <2>7 DEF Within
        <3>2. GitlinksHold(base, s, tr)
            BY <2>1, <3>1, Zenon DEF Fits
        <3> HIDE DEF tr
        <3>3. \A l \in LinksOf(s) : l \in Links /\ l \notin LinksOf(c)
            BY <1>3, <2>7 DEF LinksOf
        <3>4. GitlinksHold(out, s, tr)
            BY <1>5, <1>9, <3>2, <3>3 DEF GitlinksHold
        <3>5. IdentityHolds(out.pin[s], None)
            BY <2>3, <2>7 DEF PinOk, IdentityHolds
        <3>6. QED BY <2>2, <2>7, <3>4, <3>5, Zenon DEF Fits, tr
    <2>8. QED BY <2>5, <2>6, <2>7
<1>11. QED BY <1>10 DEF BuildIn

\* The preparation's steps; its lock then goes to the branch as it is.
LEMMA PreparedStep ==
    ASSUME TypedInv, TypedInv', PreparedInv, [Next]_vars
    PROVE  PreparedInv'
<1>1. /\ Grows(upstream, upstream') /\ IssuesKept /\ UpstreamInv
      /\ AllReleased(upstream, issues) /\ BranchesOk(upstream, branches)
      /\ PrepareOk(upstream, issues, prepare)
    BY UpstreamStepInv, WatchTypedRest DEF TypedInv, WatchTyped, LocksTyped
<1>2. ASSUME prepare' = prepare \/ prepare'.pc # "push",
             \A k \in DOMAIN branches' : k \in DOMAIN branches /\ branches'[k] = branches[k]
      PROVE  PreparedInv'
    <2>1. ASSUME NEW k \in DOMAIN branches
          PROVE  /\ Released(upstream', k[1], k[2])
                 /\ Keeps(upstream', branches[k].base, branches[k].lock, k[1], k[2])
        <3>1. /\ Released(upstream, k[1], k[2])
              /\ Keeps(upstream, branches[k].base, branches[k].lock, k[1], k[2])
              /\ LockOk(upstream, branches[k].base) /\ LockOk(upstream, branches[k].lock)
            BY <1>1 DEF PreparedInv, BranchesOk
        <3>2. QED BY <1>1, <3>1, KeepsStays DEF Released, Grows
    <2>2. ASSUME prepare.pc = "push"
          PROVE  Keeps(upstream', prepare.base, prepare.out,
                       issues'[prepare.issue].comp, issues'[prepare.issue].tag)
        <3> DEFINE i == prepare.issue
        <3>1. /\ i \in DOMAIN issues /\ LockOk(upstream, prepare.base) /\ LockOk(upstream, prepare.out)
              /\ Released(upstream, issues[i].comp, issues[i].tag)
              /\ Keeps(upstream, prepare.base, prepare.out, issues[i].comp, issues[i].tag)
            BY <1>1, <2>2 DEF PreparedInv, PrepareOk, AllReleased
        <3>2. Keeps(upstream', prepare.base, prepare.out, issues[i].comp, issues[i].tag)
            BY <1>1, <3>1, KeepsStays
        <3>3. QED BY <1>1, <3>1, <3>2 DEF IssuesKept
    <2>3. QED BY <1>2, <2>1, <2>2 DEF PreparedInv
<1>3. ASSUME NEW f \in CloneFlaws \cup {None}, NEW g \in CloneFlaws \cup {None}, Produce(f, g)
      PROVE  PreparedInv'
    <2> DEFINE c == Selected.comp
               v == Selected.tag
               ref == prepare.ref
               pinned == ApplyPin(prepare.base, c, v, ref, Digest(c, ref.commit))
               tree == TreeOf(upstream, c, v)
               out == WalkLinks(pinned, c, tree, g)
    <2>1. /\ UNCHANGED <<upstream, main, issues, branches, prs>> /\ prepare.pc = "produce"
          /\ Released(upstream, c, v) /\ RefOk(upstream, ref, c, v) /\ LockOk(upstream, prepare.base)
          /\ LockOk(upstream, pinned)
          /\ \/ prepare' = NoPrepare
             \/ /\ ~ WalkRefuses(pinned, c, tree, g) /\ ValidLock(out) /\ LockOk(upstream, out)
                /\ g \in Reported => \A l \in MovedLinks(pinned, c, tree) : l.disposition # "bundled"
                /\ prepare' = [prepare EXCEPT !.pc = "push", !.out = out]
        BY <1>3, ProduceIs, Zenon DEF TypedInv
    <2>2. CASE prepare' = NoPrepare
        BY <1>2, <2>1, <2>2 DEF NoPrepare
    <2>3. CASE /\ ~ WalkRefuses(pinned, c, tree, g) /\ ValidLock(out) /\ LockOk(upstream, out)
               /\ g \in Reported => \A l \in MovedLinks(pinned, c, tree) : l.disposition # "bundled"
               /\ prepare' = [prepare EXCEPT !.pc = "push", !.out = out]
        <3>1. pinned = ApplyPin(prepare.base, c, v, ref, Digest(c, ref.commit))
              /\ tree = TreeOf(upstream, c, v) /\ out = WalkLinks(pinned, c, tree, g)
            OBVIOUS
        <3>2. c = issues[prepare.issue].comp /\ v = issues[prepare.issue].tag
            BY DEF Selected
        <3> HIDE DEF c, v, ref, pinned, tree, out
        <3>3. Keeps(upstream, prepare.base, out, c, v)
            BY <1>1, <2>1, <2>3, <3>1, ProduceBuilds DEF Keeps
        <3>4. prepare' = [pc |-> "push", issue |-> prepare.issue, base |-> prepare.base,
                          qualified |-> prepare.qualified, ref |-> prepare.ref, out |-> out]
            BY <1>1, <2>3 DEF PrepareOk
        <3>5. QED BY <2>1, <3>2, <3>3, <3>4 DEF PreparedInv
    <2>4. QED BY <2>1, <2>2, <2>3, Zenon
<1>4. CASE Push
    <2>1. /\ UNCHANGED <<upstream, issues>> /\ prepare.pc = "push"
          /\ \/ /\ branches' = [b \in DOMAIN branches \cup {Candidate} |->
                              IF b = Candidate THEN [base |-> prepare.base, lock |-> prepare.out]
                              ELSE branches[b]]
                /\ prepare' = [prepare EXCEPT !.pc = "pr"]
             \/ branches' = branches /\ prepare' = NoPrepare
        BY <1>4 DEF Push, Failed, prepareUnchanged
    <2>2. CASE branches' = branches /\ prepare' = NoPrepare
        BY <1>2, <2>2 DEF NoPrepare
    <2>3. CASE /\ branches' = [b \in DOMAIN branches \cup {Candidate} |->
                              IF b = Candidate THEN [base |-> prepare.base, lock |-> prepare.out]
                              ELSE branches[b]]
               /\ prepare' = [prepare EXCEPT !.pc = "pr"]
        <3>1. prepare'.pc = "pr"
            BY <1>1, <2>3 DEF PrepareOk
        <3>2. /\ Released(upstream, Candidate[1], Candidate[2])
              /\ Keeps(upstream, prepare.base, prepare.out, Candidate[1], Candidate[2])
            BY <1>1, <2>1 DEF PreparedInv, PrepareOk, AllReleased, Candidate, Selected
        <3> DEFINE new == Candidate
        <3> HIDE DEF new
        <3>3. /\ DOMAIN branches' = DOMAIN branches \cup {new}
              /\ branches'[new].base = prepare.base /\ branches'[new].lock = prepare.out
              /\ \A k \in DOMAIN branches : k # new => branches'[k] = branches[k]
            BY <2>3 DEF new
        <3>4. QED BY <2>1, <3>1, <3>2, <3>3 DEF PreparedInv, new
    <2>4. QED BY <2>1, <2>2, <2>3
<1>5. CASE Resolve \/ OpenPr \/ PrepareDies
    <2>1. /\ branches' = branches
          /\ prepare' = NoPrepare \/ \E ref : prepare' = [prepare EXCEPT !.pc = "produce", !.ref = ref]
        BY <1>5 DEF Resolve, OpenPr, PrepareDies, Failed, prepareUnchanged
    <2>2. prepare'.pc # "push"
        <3>1. CASE prepare' = NoPrepare
            BY <3>1 DEF NoPrepare
        <3>2. ASSUME NEW ref, prepare' = [prepare EXCEPT !.pc = "produce", !.ref = ref]
              PROVE  prepare'.pc = "produce"
            BY <1>1, <3>2 DEF PrepareOk
        <3>3. QED BY <2>1, <3>1, <3>2
    <2>3. QED BY <1>2, <2>1, <2>2
<1>6. CASE PeopleStep
    <2>1. ASSUME NEW i, Dispatch(i) PROVE PreparedInv'
        BY <1>2, <2>1 DEF Dispatch, NoPrepare, prepareUnchanged
    <2>2. ASSUME NEW k, DeleteBranch(k) PROVE PreparedInv'
        BY <1>2, <2>2 DEF DeleteBranch
    <2>3. ASSUME NEW k, Merge(k) PROVE PreparedInv'
        BY <1>2, <2>3 DEF Merge
    <2>4. ASSUME NEW c, NEW v, NEW e, HandPin(c, v, e) PROVE PreparedInv'
        BY <1>2, <2>4 DEF HandPin
    <2>5. CASE Qualify \/ \E i \in DOMAIN issues : CloseIssue(i)
        BY <1>2, <2>5 DEF Qualify, CloseIssue
    <2>6. QED BY <1>6, <2>1, <2>2, <2>3, <2>4, <2>5, PeopleAre
<1>7. CASE WatchStep \/ WatchDies \/ UpstreamStep
    <2>1. CASE WatchStep \/ WatchDies
        BY <1>2, <2>1 DEF WatchStep, WatchStart, ScanAnswered, ScanFailed, ScanAborted, OpenIssue, WatchEnd,
                          WatchDies, watchUnchanged
    <2>2. CASE UpstreamStep
        BY <1>2, <2>2 DEF UpstreamStep, Release, MoveTag
    <2>3. QED BY <1>7, <2>1, <2>2
<1>8. CASE \/ \E lk \in Locks, s \in Sources, f \in Flaws \cup {None} : Bundle(lk, s, f)
           \/ BundleRuns \/ BundleStops \/ (ClearOutput /\ UNCHANGED pinVars) \/ UNCHANGED vars
    BY <1>2, <1>8 DEF Bundle, BundleRuns, BundleStops, pinVars, vars
<1>9. QED BY <1>3, <1>4, <1>5, <1>6, <1>7, <1>8 DEF Next, PrepareStep

\* A lock prepared from one that bundles also bundles, though upstreams release and
\* move tags meanwhile and people edit the lock, unless the release is not within the
\* walk: for any sources, any gitlinks of components and of companions, and any releases.
THEOREM PreparedBundle == Spec => []PreparedBundles
<1>1. Init => PreparedInv
    BY DEF Init, PreparedInv, NoPrepare
<1>2. TypedInv /\ TypedInv' /\ PreparedInv /\ [Next]_vars => PreparedInv'
    BY PreparedStep
<1>3. TypedInv /\ PreparedInv => PreparedBundles
    BY BuildableIs, WithinIs DEF TypedInv, LocksTyped, BranchesOk, PreparedInv, Keeps, PreparedBundles
<1>4. QED BY <1>1, <1>2, <1>3, TypedInit, TypedStep, PTL DEF Spec
=============================================================================
