----------------------- MODULE RuntimeInspectionProofs -----------------------
(***************************************************************************)
(* Exit 0 was earned, whatever the helpers do, whichever call fails and    *)
(* whatever changes before the session looks, as long as one thing at most *)
(* changes while it does; and a healthy system that keeps still gets it.   *)
(*                                                                         *)
(* The session never sees the system whole.  What makes its verdict one    *)
(* about a single moment is that two systems which differ in one place and *)
(* are both not as wanted have a place that is wrong in both (CommonPlace):*)
(* it stays wrong, so it is seen wrong or not yet seen.                    *)
(***************************************************************************)
EXTENDS RuntimeInspection, TLAPS

RebootNames == {Package[c] : c \in Reboot}

\* What a version, an install time and an owner should be; strictly, no reboot is pending.
NameFits(version, recent, n, strict) ==
    /\ version = IF n \in Conflicts THEN "none" ELSE "expected"
    /\ strict /\ n \in RebootNames => ~recent
OwnerFits(o, f) == \A c \in Components : f \in Files[c] => o = Package[c]
PlacesFit(s, strict) ==
    /\ \A n \in Names : NameFits(s.version[n], s.recent[n], n, strict)
    /\ \A f \in Paths : s.content[f] = "expected" /\ OwnerFits(s.owner[f], f)
NodeFits(s) == IF root THEN command = "status" /\ s.node \in {"denied", "open"} ELSE s.node = "open"

\* The packages are being inspected; observed values are in the caches.
Looking == pc \in {"query", "files", "activation"}
AllPassed ==
    Len(provider) = Len(Capabilities) /\ \A i \in DOMAIN provider : provider[i] = "pass"
SeenNode ==
    IF root THEN command = "status" /\ checks["device.node"] = "pass"
    ELSE checks["device.access"] = "pass"

DevicesSeen == {"levelZero", "levelZeroRuns", "before", "openvino", "openvinoRuns", "after"}

\* How far the session has come, and what it has by then.
StageInv ==
    /\ pc = "select" =>
        /\ inputs \in Requests
        /\ query = [n \in Names |-> Unasked] /\ checks = [i \in Ids |-> "none"]
        /\ early = 0 /\ late = 0
        /\ phase = IF Collecting THEN "preflight" ELSE "inspect"
    /\ pc \in {"select", "query"} =>
        /\ provider = <<>> /\ hash = [f \in Paths |-> "unread"] /\ owned = [f \in Paths |-> "unasked"]
    /\ pc = "files" => Len(provider) < Len(Capabilities)
    /\ pc \in {"activation", "devices", "open"} \cup DevicesSeen => Len(provider) = Len(Capabilities)
    /\ phase = "preflight" => Collecting /\ pc \notin {"devices", "open"} \cup DevicesSeen
    /\ phase = "inspect" => command # "preflight"
    /\ verdict # "none" => pc = "done"
    /\ pc \in {"query", "files", "activation", "devices"} =>
        checks["device.node"] = "none" /\ checks["device.access"] = "none"
    /\ pc = "open" => ~root
    /\ root => checks["device.access"] # "pass"

\* A provider passes on answers that are still there.
JudgeInv ==
    pc \in {"files", "activation"} =>
        /\ \A n \in Names : query[n] # Unasked
        /\ \A i \in DOMAIN provider : provider[i] = "pass" => ProviderPasses(Capabilities[i])

\* As long as nothing changes, what was seen is what there is.
AgreeInv ==
    late = 0 =>
        /\ wasHealthy = HealthyIn(system) /\ wasReady = ReadyIn(system)
        /\ Looking =>
            /\ \A n \in Names : query[n].answer \in Versions =>
                    query[n].answer = system.version[n] /\ query[n].recent = system.recent[n]
            /\ \A f \in Paths : /\ hash[f] \in Contents => hash[f] = system.content[f]
                                /\ owned[f] \in Names => owned[f] = system.owner[f]
        /\ ~Looking /\ AllPassed => PlacesFit(system, FALSE)
        /\ SeenNode => NodeFits(system)

\* Something is not as it should be and was not seen to be.
StuckName(strict) ==
    \E n \in Names : /\ ~NameFits(system.version[n], system.recent[n], n, strict)
                     /\ ~NameFits(query[n].answer, query[n].recent, n, strict)
StuckFile ==
    \E f \in Paths : \/ system.content[f] # "expected" /\ hash[f] # "expected"
                     \/ ~OwnerFits(system.owner[f], f) /\ ~OwnerFits(owned[f], f)
StuckNode == ~NodeFits(system) /\ ~SeenNode

\* After one change nothing was ever right only if something is wrong for good.
StuckInv ==
    /\ phase = "inspect" /\ late = 1 /\ ~wasHealthy =>
        \/ IF Looking THEN StuckName(FALSE) \/ StuckFile ELSE ~AllPassed
        \/ StuckNode
    /\ phase = "preflight" /\ late = 1 /\ ~wasReady /\ Looking => StuckName(TRUE) \/ StuckFile
    /\ phase = "inspect" /\ command = "probe" /\ late <= 1 => wasReady

\* What a helper has done by the stage it is at, and what its report then says.
HelperInv ==
    \A m \in Helpers :
        /\ native[m].stage = "idle" => native[m] = Idle
        /\ native[m].stage = "started" => native[m] = [Idle EXCEPT !.stage = "started"]
        /\ native[m].stage \in {"discovered", "placed"} =>
            Infers(m) /\ native[m].said = "nothing" /\ ~native[m].odd
        /\ native[m].stage = "placed" => native[m].npuOnly
        /\ native[m].stage = "reported" => ~native[m].odd
        /\ native[m].said = "pass" =>
            /\ ~native[m].odd
            /\ Infers(m) => native[m].npuOnly /\ native[m].runs = Iterations
        /\ native[m].said = "later" => Infers(m)

\* A helper is started once, and nothing more is heard of it after its conclusion.
LaunchInv ==
    /\ pc \in {"select", "query", "files", "activation", "devices", "open", "levelZero"} =>
        native["levelZero"].stage = "idle"
    /\ pc \in {"select", "query", "files", "activation", "devices", "open", "levelZero",
               "levelZeroRuns", "before", "openvino"} => native["openvino"].stage = "idle"
    /\ pc = "levelZeroRuns" => native["levelZero"].stage \notin {"idle", "gone"}
    /\ pc = "openvinoRuns" => native["openvino"].stage \notin {"idle", "gone"}
    /\ checks["runtime.level_zero"] = "pass" =>
        native["levelZero"].stage = "gone" /\ native["levelZero"].said = "pass"
        /\ native["levelZero"].device = "match"
    /\ checks["runtime.openvino"] = "pass" =>
        native["openvino"].stage = "gone"
        /\ native["openvino"].said \in (IF command = "status" THEN {"pass"} ELSE {"pass", "later"})
    /\ checks["runtime.inference"] = "pass" =>
        native["openvino"].stage = "gone" /\ native["openvino"].said = "pass"

NodeChecked ==
    /\ checks["device.node"] \in {"pass", "fail"}
    /\ checks["device.access"] \in {"pass", "fail", "blocked"}
LevelZeroChecked == checks["runtime.level_zero"] \in {"pass", "fail"}
OpenVinoChecked ==
    /\ checks["runtime.openvino"] \in {"pass", "fail"}
    /\ command # "status" => checks["runtime.inference"] \in {"pass", "fail"}

\* Every check is made before the next is.
CheckInv ==
    /\ pc \in {"open"} \cup DevicesSeen => NodeChecked
    /\ pc \in {"before", "openvino", "openvinoRuns", "after"} => LevelZeroChecked
    /\ pc = "after" => OpenVinoChecked
    /\ pc = "report" \/ ExitsZero =>
        \/ checks["platform.profile"] = "fail"
        \/ checks["qualification.probes"] = "blocked"
        \/ /\ phase = "inspect" /\ Len(provider) = Len(Capabilities)
           /\ NodeChecked /\ LevelZeroChecked /\ OpenVinoChecked
    /\ ExitsZero =>
        /\ \A i \in Ids : Required(i) => checks[i] \notin {"fail", "blocked"}
        /\ \A i \in DOMAIN provider : provider[i] # "fail"

IInv == TypeOK /\ StageInv /\ JudgeInv /\ AgreeInv /\ StuckInv /\ HelperInv /\ LaunchInv /\ CheckInv

-----------------------------------------------------------------------------
(* Places.                                                                 *)

\* Every name is a conflict's or a component's, and every file a component's.
LEMMA Parts ==
    /\ Len(Capabilities) \in Nat \ {0} /\ DOMAIN Capabilities = 1 .. Len(Capabilities)
    /\ \A i \in 1 .. Len(Capabilities) : Capabilities[i] \in Components
    /\ \A c \in Components : Package[c] \in Names \ Conflicts
    /\ \A n \in Names : n \in Conflicts
                        \/ \E i \in 1 .. Len(Capabilities) : n = Package[Capabilities[i]]
    /\ \A f \in Paths : \E i \in 1 .. Len(Capabilities) : f \in Files[Capabilities[i]]
    /\ \A c \in Components : Files[c] \subseteq Paths
    /\ \A n \in Names : n # "unasked" /\ n # "failed"
<1>1. Capabilities \in Seq(Components) /\ Capabilities # <<>>
    BY InspectionConstants
<1>2. /\ Len(Capabilities) \in Nat \ {0} /\ DOMAIN Capabilities = 1 .. Len(Capabilities)
      /\ \A i \in 1 .. Len(Capabilities) : Capabilities[i] \in Components
    BY <1>1
<1>3. \A c \in Components : \E i \in 1 .. Len(Capabilities) : c = Capabilities[i]
    BY <1>2 DEF Components
<1>4. Conflicts \cap {Package[c] : c \in Components} = {} /\ Names \cap {"unasked", "failed"} = {}
    BY InspectionConstants
<1>5. /\ \A c \in Components : Package[c] \in Names \ Conflicts
      /\ \A n \in Names : n # "unasked" /\ n # "failed"
    BY <1>4 DEF Names
<1>6. \A n \in Names : n \in Conflicts \/ \E i \in 1 .. Len(Capabilities) : n = Package[Capabilities[i]]
    BY <1>3 DEF Names
<1>7. /\ \A f \in Paths : \E i \in 1 .. Len(Capabilities) : f \in Files[Capabilities[i]]
      /\ \A c \in Components : Files[c] \subseteq Paths
    BY <1>3 DEF Paths
<1>8. QED BY <1>2, <1>5, <1>6, <1>7

\* A system is as the profile wants it if each place of it is.
LEMMA HealthyByPlace ==
    ASSUME NEW s
    PROVE  /\ PackagesHealthyIn(s) <=> PlacesFit(s, FALSE)
           /\ ReadyIn(s) <=> PlacesFit(s, TRUE)
           /\ HealthyIn(s) <=> PlacesFit(s, FALSE) /\ NodeFits(s)
<1>1. PackagesHealthyIn(s) <=> PlacesFit(s, FALSE)
    BY Parts DEF PackagesHealthyIn, PlacesFit, NameFits, OwnerFits, Names, Paths
<1>2. ReadyIn(s) <=> PlacesFit(s, TRUE)
    <2>1. ASSUME PlacesFit(s, FALSE)
          PROVE  ~RebootPendingIn(s) <=> \A n \in RebootNames : ~s.recent[n]
        <3>1. Reboot \subseteq Components
            BY InspectionConstants
        <3>2. \A c \in Reboot : s.version[Package[c]] = "expected"
            BY <2>1, <3>1, Parts DEF PlacesFit, NameFits
        <3>3. QED BY <3>2 DEF RebootPendingIn, RebootNames
    <2>2. RebootNames \subseteq Names
        BY Parts, InspectionConstants DEF RebootNames
    <2>3. PlacesFit(s, TRUE) <=> PlacesFit(s, FALSE) /\ \A n \in RebootNames : ~s.recent[n]
        BY <2>2 DEF PlacesFit, NameFits
    <2>4. QED BY <1>1, <2>1, <2>3 DEF ReadyIn
<1>3. QED BY <1>1, <1>2 DEF HealthyIn, NodeFits

\* The healthy system is one.
LEMMA HealthySystemFits == PlacesFit(HealthySystem, FALSE) /\ PlacesFit(HealthySystem, TRUE)
<1>1. ASSUME NEW f \in Paths PROVE OwnerFits(HealthySystem.owner[f], f)
    <2>1. HealthySystem.owner[f] = Package[CHOOSE c \in Components : f \in Files[c]]
        BY DEF HealthySystem
    <2>2. \E c \in Components : f \in Files[c]
        BY Parts
    <2>3. (CHOOSE c \in Components : f \in Files[c]) \in Components
          /\ f \in Files[CHOOSE c \in Components : f \in Files[c]]
        BY <2>2
    <2>4. QED BY <2>1, <2>3, InspectionConstants DEF OwnerFits
<1>2. QED BY <1>1 DEF PlacesFit, NameFits, HealthySystem

\* Two systems that differ in one place at most.
SameNames(s, t, n) == \A m \in Names \ {n} : t.version[m] = s.version[m] /\ t.recent[m] = s.recent[m]
SameContent(s, t, f) == \A g \in Paths \ {f} : t.content[g] = s.content[g]
SameOwner(s, t, f) == \A g \in Paths \ {f} : t.owner[g] = s.owner[g]
OneDifference(s, t) ==
    \/ \E n \in Names : SameNames(s, t, n) /\ t.content = s.content /\ t.owner = s.owner
                        /\ t.node = s.node
    \/ /\ t.version = s.version /\ t.recent = s.recent
       /\ \/ \E f \in Paths : SameContent(s, t, f) /\ t.owner = s.owner /\ t.node = s.node
          \/ \E f \in Paths : SameOwner(s, t, f) /\ t.content = s.content /\ t.node = s.node
          \/ t.content = s.content /\ t.owner = s.owner

\* What is wrong at a place of both.
WrongInBoth(s, t, strict) ==
    \/ \E n \in Names : /\ ~NameFits(s.version[n], s.recent[n], n, strict)
                        /\ ~NameFits(t.version[n], t.recent[n], n, strict)
    \/ \E f \in Paths : \/ s.content[f] # "expected" /\ t.content[f] # "expected"
                        \/ ~OwnerFits(s.owner[f], f) /\ ~OwnerFits(t.owner[f], f)

\* If neither of two such systems is as wanted, a place is wrong in both.
LEMMA CommonPlace ==
    ASSUME NEW s, NEW t, NEW strict \in BOOLEAN, OneDifference(s, t)
    PROVE  /\ ~PlacesFit(s, strict) /\ ~PlacesFit(t, strict) => WrongInBoth(s, t, strict)
           /\ ~(PlacesFit(s, strict) /\ NodeFits(s)) /\ ~(PlacesFit(t, strict) /\ NodeFits(t))
              => WrongInBoth(s, t, strict) \/ (~NodeFits(s) /\ ~NodeFits(t))
<1>1. ASSUME NEW n \in Names, SameNames(s, t, n), t.content = s.content, t.owner = s.owner
      PROVE  ~PlacesFit(s, strict) /\ ~PlacesFit(t, strict) => WrongInBoth(s, t, strict)
    BY <1>1 DEF SameNames, PlacesFit, WrongInBoth
<1>2. ASSUME NEW f \in Paths, t.version = s.version, t.recent = s.recent,
             \/ SameContent(s, t, f) /\ t.owner = s.owner
             \/ SameOwner(s, t, f) /\ t.content = s.content
      PROVE  ~PlacesFit(s, strict) /\ ~PlacesFit(t, strict) => WrongInBoth(s, t, strict)
    BY <1>2 DEF SameContent, SameOwner, PlacesFit, WrongInBoth
<1>3. ASSUME t.version = s.version, t.recent = s.recent, t.content = s.content, t.owner = s.owner
      PROVE  /\ PlacesFit(s, strict) <=> PlacesFit(t, strict)
             /\ ~PlacesFit(s, strict) => WrongInBoth(s, t, strict)
    BY <1>3 DEF PlacesFit, WrongInBoth
<1>4. t.node = s.node => (NodeFits(s) <=> NodeFits(t))
    BY DEF NodeFits
<1>5. QED BY <1>1, <1>2, <1>3, <1>4 DEF OneDifference

\* A change of the rest of the system is one difference, and the system stays one.
LEMMA ChangesAreSmall ==
    ASSUME TypeOK, NEW t \in Changes(system)
    PROVE  OneDifference(system, t) /\ t \in Systems
<1>1. system \in Systems
    BY DEF TypeOK
<1>2. ASSUME NEW n \in Names, t \in ChangePackage(system, n)
      PROVE  OneDifference(system, t) /\ t \in Systems
    <2>1. PICK v \in Versions, r \in BOOLEAN :
            t = [system EXCEPT !.version[n] = v, !.recent[n] = r]
        BY <1>2 DEF ChangePackage
    <2>2. QED BY <1>1, <2>1 DEF Systems, OneDifference, SameNames
<1>3. ASSUME NEW f \in Paths, NEW k \in Contents, t = [system EXCEPT !.content[f] = k]
      PROVE  OneDifference(system, t) /\ t \in Systems
    BY <1>1, <1>3 DEF Systems, OneDifference, SameContent
<1>4. ASSUME NEW f \in Paths, NEW c \in Components, t = [system EXCEPT !.owner[f] = Package[c]]
      PROVE  OneDifference(system, t) /\ t \in Systems
    <2>1. Package[c] \in Names
        BY Parts
    <2>2. QED BY <1>1, <1>4, <2>1 DEF Systems, OneDifference, SameOwner
<1>5. ASSUME NEW n \in Nodes, t = [system EXCEPT !.node = n]
      PROVE  OneDifference(system, t) /\ t \in Systems
    BY <1>1, <1>5 DEF Systems, OneDifference
<1>6. ASSUME t \in OtherClient(system)
      PROVE  OneDifference(system, t) /\ t \in Systems
    <2>1. \/ t = [system EXCEPT !.busy = 0]
          \/ t = [system EXCEPT !.shown = ~@]
          \/ system.busy < MaxBusy /\ t = [system EXCEPT !.busy = @ + 1]
        BY <1>6 DEF OtherClient
    <2>2. MaxBusy \in Nat
        BY InspectionConstants
    <2>3. CASE t = [system EXCEPT !.busy = 0]
        BY <1>1, <2>2, <2>3 DEF Systems, OneDifference
    <2>4. CASE t = [system EXCEPT !.shown = ~@]
        BY <1>1, <2>4 DEF Systems, OneDifference
    <2>5. CASE system.busy < MaxBusy /\ t = [system EXCEPT !.busy = @ + 1]
        <3>1. system.busy + 1 \in 0 .. MaxBusy
            BY <1>1, <2>2, <2>5 DEF Systems
        <3>2. QED BY <1>1, <2>5, <3>1 DEF Systems, OneDifference
    <2>6. QED BY <2>1, <2>3, <2>4, <2>5
<1>7. \/ \E n \in Names : t \in ChangePackage(system, n)
      \/ \E f \in Paths, k \in Contents : t = [system EXCEPT !.content[f] = k]
      \/ \E f \in Paths, c \in Components : t = [system EXCEPT !.owner[f] = Package[c]]
      \/ \E n \in Nodes : t = [system EXCEPT !.node = n]
      \/ t \in OtherClient(system)
    <2>1. \/ t \in PackageChanges(system) \/ t \in ContentChanges(system)
          \/ t \in OwnerChanges(system) \/ t \in NodeChanges(system)
          \/ t \in OtherClient(system)
        BY DEF Changes
    <2>6. t \in PackageChanges(system) => \E n \in Names : t \in ChangePackage(system, n)
        BY Zenon DEF PackageChanges
    <2>2. t \in ContentChanges(system) =>
            \E f \in Paths, k \in Contents : t = [system EXCEPT !.content[f] = k]
        BY DEF ContentChanges
    <2>3. t \in OwnerChanges(system) =>
            \E f \in Paths, c \in Components : t = [system EXCEPT !.owner[f] = Package[c]]
        BY DEF OwnerChanges
    <2>4. t \in NodeChanges(system) => \E n \in Nodes : t = [system EXCEPT !.node = n]
        BY Zenon DEF NodeChanges
    <2>5. QED BY <2>1, <2>2, <2>3, <2>4, <2>6, Zenon
<1>8. QED BY <1>2, <1>3, <1>4, <1>5, <1>6, <1>7

-----------------------------------------------------------------------------
(* Reports.                                                                *)

\* Every list that is not sound fails the check of lists.
LEMMA BadListsFail ==
    /\ \A v \in R!BadLists, only \in BOOLEAN : ~R!ValidList(R!Lists[v], only)
    /\ \A v \in {"cpu", "sound"} : ~R!ValidList(R!Lists[v], TRUE)
    /\ ~(\E i \in DOMAIN R!Lists["cpu"] : R!Lists["cpu"][i] \in R!NPUs)
<1>1. \A only \in BOOLEAN : ~R!ValidList(R!Lists["none"], only)
    BY DEF R!ValidList, R!Lists
<1>2. \A only \in BOOLEAN : ~R!ValidList(R!Lists["malformed"], only)
    BY DEF R!ValidList, R!Lists
<1>3. \A only \in BOOLEAN : ~R!ValidList(R!Lists["unsorted"], only)
    BY DEF R!ValidList, R!Lists
<1>4. \A only \in BOOLEAN : ~R!ValidList(R!Lists["repeated"], only)
    BY DEF R!ValidList, R!Lists
<1>5. \A only \in BOOLEAN : ~R!ValidList(R!Lists["excessive"], only)
    BY DEF R!ValidList, R!Lists, R!MaxObservations
<1>6. /\ \A v \in {"cpu", "sound"} : ~R!ValidList(R!Lists[v], TRUE)
      /\ ~(\E i \in DOMAIN R!Lists["cpu"] : R!Lists["cpu"][i] \in R!NPUs)
    BY DEF R!ValidList, R!Lists, R!NPUs
<1>7. QED BY <1>1, <1>2, <1>3, <1>4, <1>5, <1>6 DEF R!BadLists

\* No report of a pass is taken with a field off.
LEMMA PassIsNotOff ==
    ASSUME NEW m \in Helpers, NEW mode \in {"enumerate", "infer"}, NEW odd \in BOOLEAN,
           SomePrinted(<<m, mode, "pass">>, odd, TRUE)
    PROVE  ~odd
<1> DEFINE r == SaidReport(m, mode, "pass")
<1>1. PICK off \in Printable(r) :
        odd = (off # R!NoDeviation) /\ R!Parses(R!ReportWith(r, off), m, mode)
    BY DEF SomePrinted
<1>2. SUFFICES ASSUME off # R!NoDeviation PROVE FALSE
    BY <1>1
<1>3. off \in R!Deviations /\ R!IsOff(r, off)
    BY <1>2 DEF Printable
<1>4. PICK f \in DOMAIN R!Values : \E v \in R!Values[f] : off = <<f, v>>
    BY <1>3 DEF R!Deviations
<1>5. PICK v \in R!Values[f] : off = <<f, v>>
    BY <1>4
<1> DEFINE t == [r EXCEPT ![f] = v]
<1>6. R!Parses(t, m, mode)
    BY <1>1, <1>2, <1>5 DEF R!ReportWith
<1>7. /\ r[f] # v
      /\ f \in {"vpu_devices", "available_devices", "execution_devices", "runtime_version",
                "constants"} => f \in R!Carries[r.observations]
    BY <1>3, <1>5 DEF R!IsOff
<1>8. r = [text |-> "json", schema_version |-> "one", probe |-> m, mode |-> mode,
           outcome |-> "pass", error_code |-> "none",
           observations |-> IF m = "levelZero" THEN m ELSE mode,
           vpu_devices |-> "sound", available_devices |-> "sound", execution_devices |-> "npu",
           runtime_version |-> "plain", constants |-> "ours"]
    BY DEF SaidReport, R!SoundReport, R!Observations
<1> HIDE DEF r
<1>9. f \in {"text", "schema_version", "probe", "mode", "outcome", "error_code", "observations",
             "vpu_devices", "available_devices", "execution_devices", "runtime_version",
             "constants"}
    BY DEF R!Values
<1>10. CASE f = "text"
    <2>1. t.text # "json"
        BY <1>8, <1>10 DEF R!Values
    <2>2. QED BY <2>1, <1>6 DEF R!Parses, R!StrictObject
<1>11. CASE f \in {"schema_version", "probe", "mode"}
    BY <1>6, <1>7, <1>8, <1>11 DEF R!Values, R!Parses
<1>12. CASE f \in {"outcome", "error_code"}
    BY <1>6, <1>7, <1>8, <1>12 DEF R!Values, R!Parses, R!ValidOutcome, Helpers
<1>13. CASE f = "observations"
    <2>1. R!ValidObservations(t)
        BY <1>6, <1>8, <1>13 DEF R!Parses, R!ValidOutcome
    <2>2. t.observations = v /\ t.probe = m /\ t.mode = mode
        BY <1>8, <1>13
    <2>3. t.observations = IF m = "levelZero" THEN m ELSE mode
        BY <2>1, <2>2 DEF R!ValidObservations, R!Observations
    <2>4. QED BY <2>2, <2>3, <1>7, <1>8, <1>13
<1>14. CASE f \in {"vpu_devices", "available_devices", "execution_devices", "runtime_version",
                   "constants"}
    <2>1. R!ValidObservations(t)
        BY <1>6, <1>8, <1>14 DEF R!Parses, R!ValidOutcome
    <2>2. f \in R!Carries[r.observations] /\ t.observations = r.observations /\ t[f] = v
        BY <1>7, <1>8, <1>14
    <2>3. r.observations \in {"levelZero", "enumerate", "infer"}
        BY <1>8 DEF Helpers
    <2>4. CASE r.observations = "levelZero"
        <3>1. f = "vpu_devices"
            BY <2>2, <2>4 DEF R!Carries
        <3>2. R!ValidList(R!Lists[v], FALSE) /\ v \in R!BadLists
            BY <2>1, <2>2, <2>4, <3>1 DEF R!ValidObservations, R!ValidLevelZero, R!Values
        <3>3. QED BY <3>2, BadListsFail
    <2>5. CASE r.observations \in {"enumerate", "infer"} /\ f = "available_devices"
        <3>1. /\ R!ValidList(R!Lists[v], FALSE) /\ v \in R!BadLists \cup {"cpu"}
              /\ \E i \in DOMAIN R!Lists[v] : R!Lists[v][i] \in R!NPUs
            BY <2>1, <2>2, <2>5
               DEF R!ValidObservations, R!ValidEnumerate, R!ValidInfer, R!Values
        <3>2. QED BY <3>1, BadListsFail
    <2>6. CASE r.observations = "infer" /\ f = "execution_devices"
        <3>1. R!ValidList(R!Lists[v], TRUE) /\ v \in R!BadLists \cup {"cpu", "sound"}
            BY <2>1, <2>2, <2>6 DEF R!ValidObservations, R!ValidInfer, R!Values
        <3>2. QED BY <3>1, BadListsFail
    <2>7. CASE r.observations \in {"enumerate", "infer"} /\ f = "runtime_version"
        BY <2>1, <2>2, <2>7 DEF R!ValidObservations, R!ValidEnumerate, R!ValidInfer, R!Values
    <2>8. CASE r.observations = "infer" /\ f = "constants"
        BY <2>1, <2>2, <2>8 DEF R!ValidObservations, R!ValidInfer, R!Values
    <2>9. f \in {"available_devices", "execution_devices", "runtime_version", "constants"}
          \/ r.observations = "levelZero"
        BY <2>2, <2>3, <1>14 DEF R!Carries
    <2>10. r.observations = "enumerate" => f \in {"available_devices", "runtime_version"}
        BY <2>2 DEF R!Carries
    <2>11. QED BY <2>3, <2>4, <2>5, <2>6, <2>7, <2>8, <2>9, <2>10
<1>15. QED BY <1>9, <1>10, <1>11, <1>12, <1>13, <1>14

-----------------------------------------------------------------------------
(* Selecting the profile.                                                  *)

\* The provider checks stay as they are, and so does what the system was seen to be.
Settled == /\ UNCHANGED <<system, command, root, phase, query, hash, owned, provider>>
           /\ UNCHANGED <<late, wasHealthy, wasReady>>
           /\ pc \in {"query", "files", "activation"} <=> pc' \in {"query", "files", "activation"}

\* What was seen stays true as long as no more of the device is seen.
LEMMA SettledAgrees ==
    ASSUME IInv, Settled, SeenNode' => SeenNode \/ NodeFits(system)
    PROVE  AgreeInv' /\ StuckInv'
<1>1. /\ AllPassed' <=> AllPassed
      /\ Looking' <=> Looking
      /\ NodeFits(system)' <=> NodeFits(system)
      /\ PlacesFit(system, FALSE)' <=> PlacesFit(system, FALSE)
      /\ HealthyIn(system)' = HealthyIn(system)
      /\ ReadyIn(system)' = ReadyIn(system)
    BY DEF Settled, AllPassed, Looking, NodeFits, PlacesFit, NameFits, OwnerFits, HealthyIn,
           ReadyIn, PackagesHealthyIn, RebootPendingIn
<1>2. AgreeInv'
    BY <1>1 DEF IInv, AgreeInv, Settled
<1>3. /\ StuckName(FALSE)' <=> StuckName(FALSE)
      /\ StuckName(TRUE)' <=> StuckName(TRUE)
      /\ StuckFile' <=> StuckFile
      /\ StuckNode => StuckNode'
    BY <1>1 DEF Settled, StuckName, StuckFile, StuckNode, NameFits, OwnerFits
<1>4. StuckInv'
    BY <1>1, <1>3 DEF IInv, StuckInv, Settled
<1>5. QED BY <1>2, <1>4

\* Selection, refused or not.
LEMMA SelectionStep ==
    ASSUME IInv, Refuse \/ SelectProfile \/ CollectCandidate
    PROVE  IInv'
<1>1. /\ pc = "select" /\ faulted' \in BOOLEAN
      /\ \/ SelectionDone("done", "none", "refused")
         \/ SelectionDone("query", "pass", "none")
         \/ ~Collecting /\ SelectionDone("report", "fail", "none")
    BY DEF Refuse, SelectProfile, CollectCandidate, Faulty, IInv, TypeOK
<1>2. PICK next \in {"done", "query", "report"}, status \in {"none", "pass", "fail"},
           overall \in {"none", "refused"} :
        /\ SelectionDone(next, status, overall)
        /\ next = "done" <=> overall = "refused"
        /\ next = "report" <=> status = "fail"
        /\ next = "report" => ~Collecting
    BY <1>1
<1>3. TypeOK'
    BY <1>1, <1>2 DEF IInv, TypeOK, SelectionDone, caches, Ids
<1>4. /\ checks["platform.profile"] = "none"
      /\ \A i \in Ids : checks[i] = "none"
      /\ \A i \in Ids \ {"platform.profile"} : checks'[i] = "none"
      /\ checks'["platform.profile"] = status
    BY <1>1, <1>2 DEF IInv, TypeOK, StageInv, SelectionDone, Ids
<1>5. StageInv'
    BY <1>1, <1>2, <1>4, Parts DEF IInv, StageInv, SelectionDone, caches, DevicesSeen, Collecting, Ids
<1>6. JudgeInv' /\ HelperInv' /\ LaunchInv'
    <2>1. JudgeInv'
        BY <1>2 DEF JudgeInv, SelectionDone
    <2>2. HelperInv'
        BY <1>2 DEF IInv, HelperInv, SelectionDone, Infers
    <2>3. LaunchInv'
        BY <1>1, <1>2, <1>4 DEF IInv, LaunchInv, SelectionDone, Ids
    <2>4. QED BY <2>1, <2>2, <2>3
<1>7. ~SeenNode /\ ~SeenNode' /\ ~AllPassed /\ provider' = provider
    BY <1>1, <1>2, <1>4, Parts DEF SeenNode, Ids, AllPassed, IInv, StageInv, SelectionDone
<1>8. AgreeInv' /\ StuckInv'
    <2>1. UNCHANGED <<system, command, root, phase, query, hash, owned, provider>>
          /\ UNCHANGED <<late, wasHealthy, wasReady>>
        BY <1>2 DEF SelectionDone, caches
    <2>2. late = 0 /\ query = [n \in Names |-> Unasked] /\ hash = [f \in Paths |-> "unread"]
          /\ owned = [f \in Paths |-> "unasked"]
        BY <1>1 DEF IInv, StageInv
    <2>3. AgreeInv'
        <3>1. (wasHealthy = HealthyIn(system) /\ wasReady = ReadyIn(system))'
            BY <2>1, <2>2 DEF IInv, AgreeInv, HealthyIn, ReadyIn, PackagesHealthyIn, RebootPendingIn
        <3>2. /\ \A n \in Names : query'[n].answer \notin Versions
              /\ \A f \in Paths : hash'[f] \notin Contents /\ owned'[f] \notin Names
            BY <2>1, <2>2, Parts DEF Unasked, Versions, Contents
        <3>3. ~AllPassed'
            BY <1>7 DEF AllPassed
        <3>4. QED BY <3>1, <3>2, <3>3, <1>7 DEF AgreeInv
    <2>4. StuckInv'
        BY <2>1, <2>2, <1>1 DEF IInv, StuckInv, StageInv, Collecting
    <2>5. QED BY <2>3, <2>4
<1>9. CheckInv'
    <2>1. provider' = provider /\ verdict' = overall /\ pc' = next /\ phase' = phase
        BY <1>2 DEF SelectionDone
    <2>2. ~ExitsZero'
        BY <2>1 DEF ExitsZero
    <2>3. QED BY <2>1, <2>2, <1>2, <1>4 DEF CheckInv, DevicesSeen
<1>10. QED BY <1>3, <1>5, <1>6, <1>8, <1>9 DEF IInv

-----------------------------------------------------------------------------
(* Inspecting the packages.                                                *)

\* A query of a package.
LEMMA QueryStep ==
    ASSUME IInv, NEW n \in Names, QueryPackage(n)
    PROVE  IInv'
<1>1. PICK a \in Versions \cup {"failed"}, r \in BOOLEAN :
        /\ query' = [query EXCEPT ![n] = [answer |-> a, recent |-> r]]
        /\ a \in Versions => a = system.version[n] /\ r = system.recent[n]
    <2>1. system.version[n] \in Versions /\ system.recent[n] \in BOOLEAN
        BY DEF IInv, TypeOK, Systems
    <2>2. CASE query' = [query EXCEPT ![n] = [answer |-> system.version[n],
                                              recent |-> system.recent[n]]]
        BY <2>1, <2>2
    <2>3. CASE query' = [query EXCEPT ![n] = [answer |-> "failed", recent |-> FALSE]]
        <3>1. "failed" \notin Versions
            BY DEF Versions
        <3>2. QED BY <2>3, <3>1
    <2>4. QED BY <2>2, <2>3 DEF QueryPackage
<1>2. /\ pc = "query" /\ query[n] = Unasked /\ pc' \in {"query", "files"}
      /\ pc' = "files" => \A m \in Names \ {n} : query[m] # Unasked
      /\ UNCHANGED <<system, inputs, command, root, phase, hash, owned, provider, checks, reboot>>
      /\ UNCHANGED <<before, native, unsafe, verdict, early, late, wasHealthy, wasReady>>
    BY DEF QueryPackage
<1>3. /\ query' \in [Names -> [answer : Versions \cup {"unasked", "failed"}, recent : BOOLEAN]]
      /\ \A m \in Names \ {n} : query'[m] = query[m]
      /\ query'[n] = [answer |-> a, recent |-> r]
      /\ query'[n].answer = a /\ query'[n].recent = r
    <2> DEFINE x == [answer |-> a, recent |-> r]
    <2>1. x \in [answer : Versions \cup {"unasked", "failed"}, recent : BOOLEAN]
          /\ x.answer = a /\ x.recent = r
        OBVIOUS
    <2>2. query' = [query EXCEPT ![n] = x]
        BY <1>1
    <2> HIDE DEF x
    <2>3. /\ query' \in [Names -> [answer : Versions \cup {"unasked", "failed"}, recent : BOOLEAN]]
          /\ \A m \in Names \ {n} : query'[m] = query[m]
          /\ query'[n] = x
        BY <2>1, <2>2 DEF IInv, TypeOK
    <2>4. QED BY <2>1, <2>3 DEF x
<1>4. TypeOK'
    <2>1. faulted' \in BOOLEAN
        BY DEF IInv, TypeOK, QueryPackage, Faulty
    <2>2. QED BY <1>2, <1>3, <2>1 DEF IInv, TypeOK
<1>5. StageInv'
    BY <1>2, Parts DEF IInv, StageInv, DevicesSeen, Collecting
<1>6. JudgeInv'
    <2>1. query'[n] # Unasked
        <3>1. query'[n].answer = a /\ a # "unasked" /\ Unasked.answer = "unasked"
            BY <1>3 DEF Unasked, Versions
        <3>2. QED BY <3>1
    <2>2. provider' = <<>>
        BY <1>2 DEF IInv, StageInv
    <2>3. QED BY <1>2, <1>3, <2>1, <2>2 DEF JudgeInv
<1>7. HelperInv' /\ LaunchInv' /\ CheckInv'
    BY <1>2 DEF IInv, HelperInv, LaunchInv, CheckInv, Infers, ExitsZero, DevicesSeen, NodeChecked,
                LevelZeroChecked, OpenVinoChecked, Required
<1>8. /\ Looking /\ Looking' /\ (SeenNode' <=> SeenNode)
      /\ NodeFits(system)' <=> NodeFits(system)
    BY <1>2 DEF Looking, SeenNode, NodeFits
<1>9. HealthyIn(system)' = HealthyIn(system) /\ ReadyIn(system)' = ReadyIn(system)
    BY <1>2 DEF HealthyIn, ReadyIn, PackagesHealthyIn, RebootPendingIn
<1>10. AgreeInv'
    BY <1>1, <1>2, <1>3, <1>8, <1>9 DEF IInv, AgreeInv
<1>11. ASSUME NEW strict \in BOOLEAN PROVE StuckName(strict) => StuckName(strict)'
    <2>1. ASSUME ~NameFits(system.version[n], system.recent[n], n, strict)
          PROVE  ~NameFits(a, r, n, strict)
        BY <1>1, <2>1 DEF NameFits, Versions
    <2>2. ASSUME NEW m \in Names, ~NameFits(system.version[m], system.recent[m], m, strict),
                 ~NameFits(query[m].answer, query[m].recent, m, strict)
          PROVE  ~NameFits(query'[m].answer, query'[m].recent, m, strict)
        <3>2. m # n => query'[m] = query[m]
            BY <1>3
        <3>3. QED BY <1>3, <2>1, <2>2, <3>2
    <2>3. QED BY <1>2, <2>2 DEF StuckName
<1>12. StuckInv'
    BY <1>2, <1>8, <1>11 DEF IInv, StuckInv, StuckFile, StuckNode, OwnerFits
<1>13. QED BY <1>4, <1>5, <1>6, <1>7, <1>10, <1>12 DEF IInv

\* A look at a file, or at its owner.
LEMMA FileStep ==
    ASSUME IInv, NEW f \in Paths, HashFile(f) \/ QueryOwner(f)
    PROVE  IInv'
<1> DEFINE Unmoved == /\ UNCHANGED <<system, inputs, command, root, pc, phase, query, provider, checks>>
                      /\ UNCHANGED <<reboot, before, native, unsafe, verdict, early, late>>
                      /\ UNCHANGED <<wasHealthy, wasReady>>
<1>1. system.content[f] \in Contents /\ system.owner[f] \in Names
    BY DEF IInv, TypeOK, Systems
<1>2. PICK k \in Contents \cup {"unread", "failed"}, o \in Names \cup {"unasked", "failed"} :
        /\ hash' = [hash EXCEPT ![f] = k] /\ owned' = [owned EXCEPT ![f] = o]
        /\ k \in Contents => k = hash[f] \/ k = system.content[f]
        /\ o \in Names => o = owned[f] \/ o = system.owner[f]
        /\ k = hash[f] \/ hash[f] = "unread"
        /\ o = owned[f] \/ owned[f] = "unasked"
    <2>1. hash \in [Paths -> Contents \cup {"unread", "failed"}]
          /\ owned \in [Paths -> Names \cup {"unasked", "failed"}]
        BY DEF IInv, TypeOK
    <2>2. CASE HashFile(f)
        <3>1. PICK k \in {system.content[f], "failed"} : hash' = [hash EXCEPT ![f] = k]
            BY <2>2 DEF HashFile
        <3>2. owned' = [owned EXCEPT ![f] = owned[f]] /\ hash[f] = "unread"
              /\ owned[f] \in Names \cup {"unasked", "failed"}
            BY <2>1, <2>2 DEF HashFile
        <3>3. k \in Contents => k = system.content[f]
            BY <3>1 DEF Contents
        <3>4. QED BY <1>1, <3>1, <3>2, <3>3
    <2>3. CASE QueryOwner(f)
        <3>1. PICK o \in {system.owner[f], "failed"} : owned' = [owned EXCEPT ![f] = o]
            BY <2>3 DEF QueryOwner
        <3>2. hash' = [hash EXCEPT ![f] = hash[f]] /\ owned[f] = "unasked"
              /\ hash[f] \in Contents \cup {"unread", "failed"}
            BY <2>1, <2>3 DEF QueryOwner
        <3>3. o \in Names => o = system.owner[f]
            BY <3>1, Parts
        <3>4. QED BY <1>1, <3>1, <3>2, <3>3
    <2>4. QED BY <2>2, <2>3
<1>3. Unmoved /\ pc = "files" /\ faulted' \in BOOLEAN
    BY DEF HashFile, QueryOwner, Examining, Faulty, IInv, TypeOK
<1> HIDE DEF Unmoved
<1>4. /\ hash' \in [Paths -> Contents \cup {"unread", "failed"}]
      /\ owned' \in [Paths -> Names \cup {"unasked", "failed"}]
      /\ \A g \in Paths \ {f} : hash'[g] = hash[g] /\ owned'[g] = owned[g]
      /\ hash'[f] = k /\ owned'[f] = o
    BY <1>2 DEF IInv, TypeOK
<1>5. TypeOK'
    BY <1>3, <1>4 DEF IInv, TypeOK, Unmoved
<1>6. StageInv'
    BY <1>3 DEF IInv, StageInv, DevicesSeen, Collecting, Unmoved
<1>7. JudgeInv'
    <2>1. ASSUME NEW c \in Components, NEW g \in Files[c], Good(g, c) PROVE Good(g, c)'
        <3>1. g \in Paths
            BY Parts
        <3>2. Package[c] # "unasked"
            BY Parts
        <3>3. QED BY <1>2, <1>4, <2>1, <3>1, <3>2 DEF Good
    <2>2. ASSUME NEW c \in Components, ProviderPasses(c) PROVE ProviderPasses(c)'
        BY <1>3, <2>1, <2>2 DEF ProviderPasses, ConflictFailure, Unmoved
    <2>3. \A i \in DOMAIN provider : Capabilities[i] \in Components
        BY Parts DEF IInv, TypeOK
    <2>4. QED BY <1>3, <2>2, <2>3 DEF IInv, JudgeInv, Unmoved
<1>8. HelperInv' /\ LaunchInv' /\ CheckInv'
    BY <1>3 DEF IInv, HelperInv, LaunchInv, CheckInv, Infers, ExitsZero, DevicesSeen, NodeChecked,
                LevelZeroChecked, OpenVinoChecked, Required, Unmoved
<1>9. /\ Looking /\ Looking' /\ (SeenNode' <=> SeenNode)
      /\ NodeFits(system)' <=> NodeFits(system)
    BY <1>3 DEF Looking, SeenNode, NodeFits, Unmoved
<1>10. HealthyIn(system)' = HealthyIn(system) /\ ReadyIn(system)' = ReadyIn(system)
    BY <1>3 DEF HealthyIn, ReadyIn, PackagesHealthyIn, RebootPendingIn, Unmoved
<1>11. AgreeInv'
    BY <1>2, <1>3, <1>4, <1>9, <1>10 DEF IInv, AgreeInv, Unmoved
<1>12. StuckFile => StuckFile'
    <2>1. system.content[f] # "expected" /\ hash[f] # "expected" => k # "expected"
        BY <1>2 DEF Contents
    <2>2. ~OwnerFits(system.owner[f], f) /\ ~OwnerFits(owned[f], f) => ~OwnerFits(o, f)
        <3>1. ASSUME o \notin Names PROVE ~OwnerFits(o, f)
            BY <3>1, Parts DEF OwnerFits
        <3>2. QED BY <1>2, <3>1
    <2>3. QED BY <1>3, <1>4, <2>1, <2>2 DEF StuckFile, OwnerFits, Unmoved
<1>13. StuckInv'
    BY <1>3, <1>9, <1>12 DEF IInv, StuckInv, StuckName, NameFits, StuckNode, Unmoved
<1>14. QED BY <1>5, <1>6, <1>7, <1>8, <1>11, <1>13 DEF IInv

\* The judgement of a provider.
LEMMA JudgeStep ==
    ASSUME IInv, JudgeProvider
    PROVE  IInv'
<1>1. PICK status \in {"pass", "fail"} :
        /\ provider' = Append(provider, status)
        /\ status = "pass" => ProviderPasses(Current)
    BY DEF JudgeProvider
<1>2. /\ pc = "files" /\ pc' \in {"files", "activation"}
      /\ pc' = "activation" <=> Len(provider') = Len(Capabilities)
      /\ UNCHANGED <<system, inputs, command, root, phase, query, hash, owned, checks, reboot>>
      /\ UNCHANGED <<before, native, unsafe, verdict, early, late, faulted, wasHealthy, wasReady>>
    BY DEF JudgeProvider, caches, history
<1>3. Len(provider) < Len(Capabilities) /\ provider \in Seq({"pass", "fail"})
    BY <1>2 DEF IInv, TypeOK, StageInv
<1>4. /\ provider' \in Seq({"pass", "fail"}) /\ Len(provider') = Len(provider) + 1
      /\ DOMAIN provider' = 1 .. Len(provider) + 1
      /\ \A i \in DOMAIN provider : provider'[i] = provider[i]
      /\ provider'[Len(provider) + 1] = status
    BY <1>1, <1>3
<1>14. Len(provider') <= Len(Capabilities) /\ (pc' = "files" => Len(provider') < Len(Capabilities))
    <2>1. Len(provider) \in Nat /\ Len(Capabilities) \in Nat
        BY <1>3, Parts
    <2>2. Len(provider') = Len(provider) + 1 /\ Len(provider) < Len(Capabilities)
        BY <1>3, <1>4
    <2>3. pc' = "files" => Len(provider') # Len(Capabilities)
        BY <1>2
    <2>4. QED BY <2>1, <2>2, <2>3
<1>5. TypeOK'
    BY <1>2, <1>4, <1>14 DEF IInv, TypeOK
<1>6. StageInv'
    BY <1>2, <1>14 DEF IInv, StageInv, DevicesSeen, Collecting
<1>7. JudgeInv'
    <2>1. ASSUME NEW i \in DOMAIN provider', provider'[i] = "pass"
          PROVE  ProviderPasses(Capabilities[i])
        <3>1. CASE i = Len(provider) + 1
            BY <1>1, <1>4, <2>1, <3>1 DEF Current
        <3>2. CASE i \in DOMAIN provider
            BY <1>2, <1>4, <2>1, <3>2 DEF IInv, JudgeInv
        <3>3. QED BY <1>3, <1>4, <3>1, <3>2
    <2>2. \A c : ProviderPasses(c) => ProviderPasses(c)'
        BY <1>2 DEF ProviderPasses, ConflictFailure, Good
    <2>3. QED BY <1>2, <2>1, <2>2 DEF IInv, JudgeInv
<1>8. HelperInv' /\ LaunchInv' /\ CheckInv'
    <2>1. ~ExitsZero /\ ~ExitsZero'
        BY <1>2 DEF IInv, StageInv, ExitsZero
    <2>2. QED BY <1>2, <2>1 DEF IInv, HelperInv, LaunchInv, CheckInv, Infers, DevicesSeen
<1>9. /\ Looking /\ Looking' /\ (SeenNode' <=> SeenNode)
      /\ NodeFits(system)' <=> NodeFits(system)
    BY <1>2 DEF Looking, SeenNode, NodeFits
<1>10. HealthyIn(system)' = HealthyIn(system) /\ ReadyIn(system)' = ReadyIn(system)
    BY <1>2 DEF HealthyIn, ReadyIn, PackagesHealthyIn, RebootPendingIn
<1>11. AgreeInv'
    BY <1>2, <1>9, <1>10 DEF IInv, AgreeInv
<1>12. StuckInv'
    BY <1>2, <1>9 DEF IInv, StuckInv, StuckName, StuckFile, NameFits, OwnerFits, StuckNode
<1>13. QED BY <1>5, <1>6, <1>7, <1>8, <1>11, <1>12 DEF IInv

-----------------------------------------------------------------------------
(* What the package checks say.                                            *)

\* At the end of the inspection the firmware's check is one of three.
LEMMA FirmwareChecked ==
    ASSUME IInv, pc = "activation"
    PROVE  FirmwareCheck \in {"pass", "fail", "blocked"}
<1>1. Len(provider) = Len(Capabilities) /\ provider \in Seq({"pass", "fail"})
    BY DEF IInv, TypeOK, StageInv
<1>2. \E j \in DOMAIN Capabilities : Capabilities[j] = Firmware
    BY InspectionConstants DEF Components
<1>3. (CHOOSE j \in DOMAIN Capabilities : Capabilities[j] = Firmware) \in DOMAIN Capabilities
    BY <1>2
<1>4. \A i \in DOMAIN Capabilities : provider[i] \in {"pass", "fail"}
    BY <1>1, Parts
<1>5. QED BY <1>3, <1>4 DEF FirmwareCheck

\* If every provider passed, what was seen fits; and no reboot is pending for who is ready.
LEMMA PassedFits ==
    ASSUME IInv, pc = "activation", AllPassed, NEW strict \in BOOLEAN, strict => ~RebootRequired
    PROVE  ~StuckName(strict) /\ ~StuckFile
           /\ (late = 0 => PlacesFit(system, strict))
<1>1. \A i \in 1 .. Len(Capabilities) : ProviderPasses(Capabilities[i])
    BY Parts DEF IInv, JudgeInv, AllPassed
<1>2. ~ConflictFailure
    BY <1>1, Parts DEF ProviderPasses
<1>3. ASSUME NEW c \in Reboot PROVE query[Package[c]].answer = "expected"
    <2>1. c \in Components
        BY InspectionConstants
    <2>2. QED BY <1>1, <2>1 DEF Components, ProviderPasses
<1>4. ASSUME NEW n \in Names PROVE NameFits(query[n].answer, query[n].recent, n, strict)
    <2>1. query[n].answer = IF n \in Conflicts THEN "none" ELSE "expected"
        <3>1. CASE n \in Conflicts
            BY <1>2, <3>1 DEF ConflictFailure
        <3>2. CASE n \notin Conflicts
            BY <1>1, <3>2, Parts DEF ProviderPasses
        <3>3. QED BY <3>1, <3>2
    <2>2. strict /\ n \in RebootNames => ~query[n].recent
        BY <1>3 DEF RebootNames, RebootRequired, ActivationUnknown
    <2>3. QED BY <2>1, <2>2 DEF NameFits
<1>5. ASSUME NEW f \in Paths PROVE hash[f] = "expected" /\ OwnerFits(owned[f], f)
    <2>1. PICK i \in 1 .. Len(Capabilities) : f \in Files[Capabilities[i]]
        BY Parts
    <2>2. Good(f, Capabilities[i]) /\ Capabilities[i] \in Components
        BY <1>1, <2>1, Parts DEF ProviderPasses
    <2>3. \A c \in Components : f \in Files[c] => Package[c] = Package[Capabilities[i]]
        BY <2>1, <2>2, InspectionConstants
    <2>4. QED BY <2>2, <2>3 DEF Good, OwnerFits
<1>6. ASSUME late = 0 PROVE PlacesFit(system, strict)
    <2>1. \A n \in Names : NameFits(system.version[n], system.recent[n], n, strict)
        BY <1>4, <1>6 DEF IInv, AgreeInv, Looking, NameFits, Versions
    <2>2. ASSUME NEW f \in Paths
          PROVE  system.content[f] = "expected" /\ OwnerFits(system.owner[f], f)
        <3>1. \E c \in Components : f \in Files[c] /\ owned[f] = Package[c]
            BY <1>5, Parts DEF OwnerFits
        <3>2. owned[f] \in Names
            BY <3>1, Parts
        <3>3. owned[f] = system.owner[f] /\ hash[f] = system.content[f]
            BY <1>5, <1>6, <3>2 DEF IInv, AgreeInv, Looking, Contents
        <3>4. QED BY <1>5, <3>3
    <2>3. QED BY <2>1, <2>2 DEF PlacesFit
<1>7. QED BY <1>4, <1>5, <1>6 DEF StuckName, StuckFile

\* The end of the inspection of status and doctor, or of a preflight that is the report.
LEMMA InspectedStep ==
    ASSUME IInv, PackagesInspected \/ PreflightIsReport
    PROVE  IInv'
<1>1. PICK probes \in {checks["qualification.probes"], "blocked"}, next \in {"devices", "report"} :
        /\ checks' = [checks EXCEPT !["firmware.installed"] = FirmwareCheck,
                                    !["qualification.probes"] = probes]
        /\ pc' = next
        /\ IF next = "devices" THEN phase = "inspect" ELSE phase = "preflight" /\ probes = "blocked"
    <2>1. checks \in [Ids -> {"none", "pass", "warn", "fail", "blocked"}]
        BY DEF IInv, TypeOK
    <2>2. CASE PackagesInspected
        <3>1. checks' = [checks EXCEPT !["firmware.installed"] = FirmwareCheck,
                                    !["qualification.probes"] = checks["qualification.probes"]]
            BY <2>1, <2>2 DEF PackagesInspected, Ids
        <3>2. QED BY <2>2, <3>1 DEF PackagesInspected
    <2>3. CASE PreflightIsReport
        BY <2>3 DEF PreflightIsReport
    <2>4. QED BY <2>2, <2>3
<1>2. /\ pc = "activation" /\ reboot' \in BOOLEAN /\ Forget
      /\ UNCHANGED <<system, inputs, command, root, phase, provider, before, native, unsafe>>
      /\ UNCHANGED <<verdict, early, late, faulted, wasHealthy, wasReady>>
    BY DEF PackagesInspected, PreflightIsReport, history, RebootRequired, ActivationUnknown
<1>3. /\ checks' \in [Ids -> {"none", "pass", "warn", "fail", "blocked"}]
      /\ \A i \in Ids \ {"firmware.installed", "qualification.probes"} : checks'[i] = checks[i]
      /\ checks'["qualification.probes"] = probes
    BY <1>1, <1>2, FirmwareChecked DEF IInv, TypeOK, Ids
<1>4. /\ query' \in [Names -> [answer : Versions \cup {"unasked", "failed"}, recent : BOOLEAN]]
      /\ hash' \in [Paths -> Contents \cup {"unread", "failed"}]
      /\ owned' \in [Paths -> Names \cup {"unasked", "failed"}]
    BY <1>2 DEF Forget, Unasked
<1>5. TypeOK'
    <2>1. pc' \in {"devices", "report"}
        BY <1>1
    <2>2. QED BY <1>2, <1>3, <1>4, <2>1 DEF IInv, TypeOK
<1>6. StageInv'
    BY <1>1, <1>2, <1>3 DEF IInv, StageInv, DevicesSeen, Collecting, Ids
<1>7. JudgeInv' /\ HelperInv' /\ LaunchInv'
    BY <1>1, <1>2, <1>3 DEF IInv, JudgeInv, HelperInv, LaunchInv, Infers, Ids
<1>8. CheckInv'
    <2>1. ~ExitsZero'
        BY <1>2 DEF IInv, StageInv, ExitsZero
    <2>2. QED BY <1>1, <1>3, <2>1 DEF CheckInv, DevicesSeen
<1>9. /\ Looking /\ ~Looking' /\ (AllPassed' <=> AllPassed) /\ (SeenNode' <=> SeenNode)
      /\ NodeFits(system)' <=> NodeFits(system)
      /\ PlacesFit(system, FALSE)' <=> PlacesFit(system, FALSE)
    BY <1>1, <1>2, <1>3 DEF Looking, AllPassed, SeenNode, NodeFits, Ids, PlacesFit, NameFits, OwnerFits
<1>10. HealthyIn(system)' = HealthyIn(system) /\ ReadyIn(system)' = ReadyIn(system)
    BY <1>2 DEF HealthyIn, ReadyIn, PackagesHealthyIn, RebootPendingIn
<1>11. AllPassed => ~StuckName(FALSE) /\ ~StuckFile /\ (late = 0 => PlacesFit(system, FALSE))
    BY <1>2, PassedFits
<1>12. AgreeInv'
    BY <1>2, <1>9, <1>10, <1>11 DEF IInv, AgreeInv
<1>13. StuckInv'
    BY <1>2, <1>9, <1>11 DEF IInv, StuckInv, StuckNode
<1>14. QED BY <1>5, <1>6, <1>7, <1>8, <1>12, <1>13 DEF IInv

\* What is wrong with a system and not seen to be right in such caches.
Unseen(s, q, h, o, strict) ==
    \/ \E n \in Names : /\ ~NameFits(s.version[n], s.recent[n], n, strict)
                        /\ ~NameFits(q[n].answer, q[n].recent, n, strict)
    \/ \E f \in Paths : \/ s.content[f] # "expected" /\ h[f] # "expected"
                        \/ ~OwnerFits(s.owner[f], f) /\ ~OwnerFits(o[f], f)

\* Before anything is asked nothing is seen to be right.
LEMMA UnseenIsWrong ==
    ASSUME NEW s, NEW q, NEW h, NEW o, NEW strict \in BOOLEAN,
           \A n \in Names : q[n] = Unasked,
           \A f \in Paths : h[f] = "unread" /\ o[f] = "unasked",
           ~PlacesFit(s, strict)
    PROVE  Unseen(s, q, h, o, strict)
<1>1. \A n \in Names : ~NameFits(q[n].answer, q[n].recent, n, strict)
    BY DEF NameFits, Unasked
<1>2. \A f \in Paths : h[f] # "expected" /\ ~OwnerFits(o[f], f)
    <2>1. \A f \in Paths : \E c \in Components : f \in Files[c] /\ Package[c] # "unasked"
        BY Parts
    <2>2. QED BY <2>1 DEF OwnerFits
<1>3. QED BY <1>1, <1>2 DEF PlacesFit, Unseen

\* A good preflight of a probe: the inspection that counts begins.
LEMMA PreflightStep ==
    ASSUME IInv, PreflightPassed
    PROVE  IInv'
<1>1. /\ pc = "activation" /\ pc' = "query" /\ phase = "preflight" /\ phase' = "inspect" /\ Forget
      /\ command = "probe" /\ Ready /\ provider' = <<>> /\ wasHealthy' = HealthyIn(system)
      /\ UNCHANGED <<system, inputs, command, root, checks, reboot, before, native, unsafe>>
      /\ UNCHANGED <<verdict, early, late, faulted, wasReady>>
    BY DEF PreflightPassed
<1>2. /\ query' \in [Names -> [answer : Versions \cup {"unasked", "failed"}, recent : BOOLEAN]]
      /\ hash' \in [Paths -> Contents \cup {"unread", "failed"}]
      /\ owned' \in [Paths -> Names \cup {"unasked", "failed"}]
      /\ \A n \in Names : query'[n] = Unasked
      /\ \A f \in Paths : hash'[f] = "unread" /\ owned'[f] = "unasked"
    BY <1>1 DEF Forget, Unasked
<1>3. HealthyIn(system) \in BOOLEAN /\ HealthyIn(system)' = HealthyIn(system)
      /\ ReadyIn(system)' = ReadyIn(system)
    BY <1>1 DEF HealthyIn, ReadyIn, PackagesHealthyIn, RebootPendingIn
<1>4. TypeOK'
    BY <1>1, <1>2, <1>3, Parts DEF IInv, TypeOK
<1>5. StageInv'
    BY <1>1, <1>2 DEF IInv, StageInv, DevicesSeen, Collecting, Forget
<1>6. JudgeInv' /\ HelperInv' /\ LaunchInv'
    BY <1>1 DEF IInv, JudgeInv, HelperInv, LaunchInv, Infers
<1>7. CheckInv'
    <2>1. ~ExitsZero'
        BY <1>1 DEF IInv, StageInv, ExitsZero
    <2>2. QED BY <1>1, <2>1 DEF CheckInv, DevicesSeen
<1>8. ~SeenNode' /\ Looking'
    BY <1>1 DEF IInv, StageInv, SeenNode, Looking
<1>9. AgreeInv'
    <2>1. \A n \in Names : query'[n].answer \notin Versions
        BY <1>2 DEF Unasked, Versions
    <2>2. \A f \in Paths : hash'[f] \notin Contents /\ owned'[f] \notin Names
        BY <1>2, Parts DEF Contents
    <2>3. wasReady' = wasReady /\ late' = late
        BY <1>1
    <2>4. QED BY <1>1, <1>3, <1>8, <2>1, <2>2, <2>3 DEF IInv, AgreeInv
<1>10. StuckInv'
    <2>1. ASSUME ~HealthyIn(system) PROVE StuckName(FALSE)' \/ StuckFile' \/ StuckNode'
        <3>1. ~PlacesFit(system, FALSE) \/ ~NodeFits(system)
            BY <2>1, HealthyByPlace
        <3>2. CASE ~NodeFits(system)
            BY <1>1, <1>8, <3>2 DEF StuckNode, NodeFits
        <3>3. CASE ~PlacesFit(system, FALSE)
            <4>1. Unseen(system, query', hash', owned', FALSE)
                BY <1>2, <3>3, UnseenIsWrong
            <4>2. QED BY <1>1, <4>1 DEF Unseen, StuckName, StuckFile, NameFits, OwnerFits
        <3>4. QED BY <3>1, <3>2, <3>3
    <2>2. late <= 1 => wasReady
        <3>1. AllPassed /\ ~RebootRequired
            BY <1>1 DEF Ready, AllPassed, IInv, StageInv
        <3>2. ~StuckName(TRUE) /\ ~StuckFile /\ (late = 0 => PlacesFit(system, TRUE))
            BY <1>1, <3>1, PassedFits
        <3>3. CASE late = 0
            BY <3>2, <3>3, HealthyByPlace DEF IInv, AgreeInv
        <3>4. CASE late = 1
            BY <1>1, <3>2, <3>4 DEF IInv, StuckInv, Looking
        <3>5. late \in Nat
            BY DEF IInv, TypeOK
        <3>6. QED BY <3>3, <3>4, <3>5
    <2>3. QED BY <1>1, <1>8, <2>1, <2>2 DEF StuckInv
<1>11. QED BY <1>4, <1>5, <1>6, <1>7, <1>9, <1>10 DEF IInv

-----------------------------------------------------------------------------
(* The device and the busy counter.                                        *)

\* A look at the device, or at its counter.
LEMMA DeviceStep ==
    ASSUME IInv, ListNodes \/ OpenNodes \/ SampleBefore \/ SampleAfter
    PROVE  IInv'
<1>1. /\ UNCHANGED <<system, inputs, command, root, phase, query, hash, owned, provider, reboot>>
      /\ UNCHANGED <<native, unsafe, verdict, early, late, faulted, wasHealthy, wasReady>>
      /\ pc \in {"devices", "open", "before", "after"}
      /\ pc' \in {"open", "levelZero", "openvino", "report"}
    BY DEF ListNodes, OpenNodes, SampleBefore, SampleAfter, caches, history
<1>2. checks \in [Ids -> {"none", "pass", "warn", "fail", "blocked"}] /\ verdict = "none"
    BY <1>1 DEF IInv, TypeOK, StageInv
<1>3. checks' \in [Ids -> {"none", "pass", "warn", "fail", "blocked"}]
    BY <1>2 DEF ListNodes, OpenNodes, SampleBefore, SampleAfter
<1>4. before' \in [shown : BOOLEAN, busy : 0 .. MaxBusy]
    BY DEF ListNodes, OpenNodes, SampleBefore, SampleAfter, Snapshot, IInv, TypeOK, Systems
<1>5. TypeOK'
    BY <1>1, <1>3, <1>4 DEF IInv, TypeOK
<1>6. /\ \A i \in Ids \ {"device.node", "device.access", "runtime.activity"} : checks'[i] = checks[i]
      /\ ListNodes =>
            /\ checks'["device.node"] \in {"pass", "fail"}
            /\ checks'["device.access"] \in {"blocked", "fail"}
            /\ checks'["device.node"] = "pass" => system.node \in {"denied", "open"}
            /\ pc = "devices" /\ pc' \in {"open", "levelZero"} /\ (pc' = "open" => ~root)
      /\ OpenNodes =>
            /\ checks'["device.node"] = checks["device.node"]
            /\ checks'["device.access"] \in {"pass", "fail"}
            /\ checks'["device.access"] = "pass" => system.node = "open"
            /\ pc = "open" /\ pc' = "levelZero"
      /\ SampleBefore => checks' = checks /\ pc = "before" /\ pc' = "openvino"
      /\ SampleAfter =>
            /\ checks'["device.node"] = checks["device.node"]
            /\ checks'["device.access"] = checks["device.access"]
            /\ pc = "after" /\ pc' = "report"
    <2>1. CASE ListNodes
        BY <1>2, <2>1 DEF ListNodes, OpenNodes, SampleBefore, SampleAfter, Ids
    <2>2. CASE OpenNodes
        BY <1>2, <2>2 DEF ListNodes, OpenNodes, SampleBefore, SampleAfter, Ids
    <2>3. CASE SampleBefore
        BY <1>2, <2>3 DEF ListNodes, OpenNodes, SampleBefore, SampleAfter, Ids
    <2>4. CASE SampleAfter
        BY <1>2, <2>4 DEF ListNodes, OpenNodes, SampleBefore, SampleAfter, Ids
    <2>5. QED BY <2>1, <2>2, <2>3, <2>4
<1>7. StageInv'
    BY <1>1, <1>2, <1>6 DEF IInv, StageInv, DevicesSeen, Collecting
<1>8. JudgeInv' /\ HelperInv' /\ LaunchInv'
    <2>1. JudgeInv' /\ HelperInv'
        BY <1>1 DEF IInv, JudgeInv, HelperInv, Infers
    <2>2. LaunchInv'
        BY <1>1, <1>6 DEF IInv, LaunchInv, Ids
    <2>3. QED BY <2>1, <2>2
<1>9. CheckInv'
    <2>1. ~ExitsZero'
        BY <1>1, <1>2 DEF ExitsZero
    <2>2. pc # "devices" => NodeChecked
        BY <1>1 DEF IInv, CheckInv, DevicesSeen
    <2>3. NodeChecked'
        BY <1>6, <2>2 DEF NodeChecked, ListNodes, OpenNodes, SampleBefore, SampleAfter
    <2>4. pc \in {"before", "after"} => LevelZeroChecked /\ LevelZeroChecked'
        BY <1>6 DEF IInv, CheckInv, LevelZeroChecked, Ids
    <2>5. pc = "after" => OpenVinoChecked /\ OpenVinoChecked'
        BY <1>1, <1>6 DEF IInv, CheckInv, OpenVinoChecked, Ids
    <2>6. phase = "inspect" /\ Len(provider) = Len(Capabilities)
        BY <1>1 DEF IInv, StageInv, DevicesSeen, TypeOK
    <2>7. QED BY <1>1, <1>6, <2>1, <2>3, <2>4, <2>5, <2>6 DEF CheckInv, DevicesSeen
<1>10. Settled
    BY <1>1 DEF Settled
<1>11. SeenNode' => SeenNode \/ NodeFits(system)
    BY <1>1, <1>6 DEF SeenNode, NodeFits, IInv, StageInv
<1>12. AgreeInv' /\ StuckInv'
    BY <1>10, <1>11, SettledAgrees
<1>13. QED BY <1>5, <1>7, <1>8, <1>9, <1>12 DEF IInv

-----------------------------------------------------------------------------
(* The helpers.                                                            *)

HelperStates ==
    [stage : Stages, device : {"none", "other", "match"}, npuOnly : BOOLEAN, runs : 0 .. Iterations,
     said : Reports, odd : BOOLEAN]

\* What a state of a helper has to be.
HelperFits(m, h) ==
    /\ h.stage = "idle" => h = Idle
    /\ h.stage = "started" => h = [Idle EXCEPT !.stage = "started"]
    /\ h.stage \in {"discovered", "placed"} => Infers(m) /\ h.said = "nothing" /\ ~h.odd
    /\ h.stage = "placed" => h.npuOnly
    /\ h.stage = "reported" => ~h.odd
    /\ h.said = "pass" => ~h.odd /\ (Infers(m) => h.npuOnly /\ h.runs = Iterations)
    /\ h.said = "later" => Infers(m)

\* Each helper's state fits.
LEMMA HelperByState == HelperInv <=> \A m \in Helpers : HelperFits(m, native[m])
BY DEF HelperInv, HelperFits

\* A step of a helper.
LEMMA HelperIsFit ==
    ASSUME IInv, NEW m \in Helpers, Helper(m)
    PROVE  \E h \in HelperStates, fault \in BOOLEAN :
              /\ HelperStep(m, h, fault) /\ HelperFits(m, h)
              /\ native[m].stage \notin {"idle", "gone"} /\ h.stage \notin {"idle", "gone"}
              /\ \/ UNCHANGED system
                 \/ system.busy < MaxBusy /\ system' = [system EXCEPT !.busy = @ + 1]
<1> DEFINE g == native[m]
<1>1. g \in HelperStates /\ HelperFits(m, g)
    BY HelperByState DEF IInv, TypeOK, HelperStates
<1>2. Iterations \in Nat
    BY InspectionConstants
<1>3. CASE Discover(m)
    <2>1. PICK d \in {"none", "other", "match"} :
            HelperStep(m, [g EXCEPT
                 !.device = d,
                 !.stage = IF d # "none" /\ Infers(m) THEN "discovered" ELSE "reported",
                 !.said = IF d = "none" THEN "noDevice" ELSE IF Infers(m) THEN @ ELSE "pass"],
             d # "match")
        BY <1>3 DEF Discover
    <2> DEFINE h == [g EXCEPT
                 !.device = d,
                 !.stage = IF d # "none" /\ Infers(m) THEN "discovered" ELSE "reported",
                 !.said = IF d = "none" THEN "noDevice" ELSE IF Infers(m) THEN @ ELSE "pass"]
    <2>2. g.stage = "started" /\ g = [Idle EXCEPT !.stage = "started"]
        BY <1>1, <1>3 DEF Discover, HelperFits
    <2>3. g.said = "nothing" /\ g.odd = FALSE
        BY <2>2 DEF Idle
    <2>4. h \in HelperStates /\ HelperFits(m, h) /\ h.stage \in {"discovered", "reported"}
        BY <1>1, <2>3 DEF HelperStates, HelperFits, Stages, Reports
    <2>5. QED BY <1>3, <2>1, <2>2, <2>4 DEF Discover
<1>4. CASE Place(m)
    <2>1. PICK only \in BOOLEAN :
            HelperStep(m, [g EXCEPT !.npuOnly = only,
                               !.stage = IF only THEN "placed" ELSE "reported",
                               !.said = IF only THEN @ ELSE "later"], ~only)
        BY <1>4 DEF Place
    <2> DEFINE h == [g EXCEPT !.npuOnly = only,
                               !.stage = IF only THEN "placed" ELSE "reported",
                               !.said = IF only THEN @ ELSE "later"]
    <2>2. g.stage = "discovered" /\ g.said = "nothing" /\ ~g.odd /\ Infers(m)
        BY <1>1, <1>4 DEF Place, HelperFits
    <2>3. h \in HelperStates /\ HelperFits(m, h) /\ h.stage \in {"placed", "reported"}
        BY <1>1, <2>2 DEF HelperStates, HelperFits, Stages, Reports
    <2>4. QED BY <1>4, <2>1, <2>2, <2>3 DEF Place
<1>5. CASE Infer(m)
    <2> DEFINE h == [g EXCEPT !.runs = @ + 1]
    <2>1. /\ HelperStep(m, h, FALSE) /\ g.stage = "placed" /\ g.runs < Iterations
          /\ \/ UNCHANGED system
             \/ system.busy < MaxBusy /\ system' = [system EXCEPT !.busy = @ + 1]
        BY <1>5 DEF Infer, MoreToRun
    <2>2. g.said = "nothing" /\ ~g.odd /\ Infers(m) /\ g.npuOnly
        BY <1>1, <2>1 DEF HelperFits
    <2>3. g.runs + 1 \in 0 .. Iterations
        BY <1>1, <1>2, <2>1 DEF HelperStates
    <2>4. h \in HelperStates /\ HelperFits(m, h) /\ h.stage = "placed"
        BY <1>1, <2>1, <2>2, <2>3 DEF HelperStates, HelperFits
    <2> HIDE DEF h
    <2>5. QED BY <2>1, <2>4
<1>6. CASE ReportInference(m)
    <2> DEFINE h == [g EXCEPT !.stage = "reported", !.said = "pass"]
    <2>1. HelperStep(m, h, FALSE) /\ g.stage = "placed" /\ ~(g.runs < Iterations) /\ UNCHANGED system
        BY <1>6 DEF ReportInference, MoreToRun
    <2>2. ~g.odd /\ Infers(m) /\ g.npuOnly
        BY <1>1, <2>1 DEF HelperFits
    <2>3. g.runs = Iterations
        BY <1>1, <1>2, <2>1 DEF HelperStates
    <2>4. h \in HelperStates /\ HelperFits(m, h) /\ h.stage = "reported"
        BY <1>1, <2>2, <2>3 DEF HelperStates, HelperFits, Stages, Reports
    <2>5. QED BY <2>1, <2>4
<1>7. CASE HelperFails(m)
    <2> DEFINE h == [g EXCEPT !.stage = "reported",
                              !.said = IF g.stage = "started" THEN "internal" ELSE "later"]
    <2>1. HelperStep(m, h, TRUE) /\ g.stage \in {"started", "discovered", "placed"} /\ UNCHANGED system
        BY <1>7 DEF HelperFails
    <2>2. ~g.odd /\ (g.stage # "started" => Infers(m))
        BY <1>1, <2>1 DEF HelperFits, Idle
    <2>3. h \in HelperStates /\ HelperFits(m, h) /\ h.stage = "reported"
        BY <1>1, <2>1, <2>2 DEF HelperStates, HelperFits, Stages, Reports
    <2>4. QED BY <2>1, <2>3
<1>8. QED BY <1>3, <1>4, <1>5, <1>6, <1>7 DEF Helper

\* The invariant after it.
LEMMA HelperKeeps ==
    ASSUME IInv, NEW m \in Helpers, Helper(m)
    PROVE  IInv'
<1>1. PICK h \in HelperStates, fault \in BOOLEAN :
        /\ HelperStep(m, h, fault) /\ HelperFits(m, h)
        /\ native[m].stage \notin {"idle", "gone"} /\ h.stage \notin {"idle", "gone"}
        /\ \/ UNCHANGED system
           \/ system.busy < MaxBusy /\ system' = [system EXCEPT !.busy = @ + 1]
    BY HelperIsFit
<1>2. /\ native' = [native EXCEPT ![m] = h] /\ faulted' \in BOOLEAN
      /\ UNCHANGED <<inputs, command, root, pc, phase, query, hash, owned, provider, checks, reboot>>
      /\ UNCHANGED <<before, unsafe, verdict, early, late, wasHealthy, wasReady>>
    BY <1>1 DEF HelperStep, session, IInv, TypeOK
<1>3. native \in [Helpers -> HelperStates]
    BY DEF IInv, TypeOK, HelperStates
<1>4. native' \in [Helpers -> HelperStates] /\ native'[m] = h
      /\ \A k \in Helpers \ {m} : native'[k] = native[k]
    BY <1>2, <1>3
<1>5. system' \in Systems
      /\ system'.version = system.version /\ system'.recent = system.recent
      /\ system'.content = system.content /\ system'.owner = system.owner
      /\ system'.node = system.node
    <2>1. system \in Systems /\ MaxBusy \in Nat
        BY InspectionConstants DEF IInv, TypeOK
    <2>2. CASE UNCHANGED system
        BY <2>1, <2>2
    <2>3. CASE system.busy < MaxBusy /\ system' = [system EXCEPT !.busy = @ + 1]
        <3>1. system.busy + 1 \in 0 .. MaxBusy
            BY <2>1, <2>3 DEF Systems
        <3>2. QED BY <2>1, <2>3, <3>1 DEF Systems
    <2>4. QED BY <1>1, <2>2, <2>3
<1>6. TypeOK'
    BY <1>2, <1>4, <1>5 DEF IInv, TypeOK, HelperStates
<1>7. StageInv' /\ JudgeInv' /\ CheckInv'
    BY <1>2 DEF IInv, StageInv, JudgeInv, CheckInv, DevicesSeen, Collecting, ProviderPasses, Good,
                ConflictFailure, ExitsZero, NodeChecked, LevelZeroChecked, OpenVinoChecked, Required
<1>8. HelperInv'
    <2>1. \A k \in Helpers : HelperFits(k, native[k])
        BY HelperByState DEF IInv
    <2>2. \A k \in Helpers : HelperFits(k, native'[k])
        BY <1>1, <1>4, <2>1
    <2>3. QED BY <1>2, <2>2 DEF HelperInv, HelperFits, Infers
<1>9. LaunchInv'
    BY <1>1, <1>2, <1>4 DEF IInv, LaunchInv, Helpers
<1>10. /\ Looking' <=> Looking
       /\ SeenNode' <=> SeenNode
       /\ AllPassed' <=> AllPassed
       /\ \A s : NodeFits(s)' <=> NodeFits(s)
       /\ NodeFits(system') <=> NodeFits(system)
       /\ PlacesFit(system, FALSE)' <=> PlacesFit(system, FALSE)
       /\ HealthyIn(system)' = HealthyIn(system)
       /\ ReadyIn(system)' = ReadyIn(system)
    BY <1>2, <1>5 DEF Looking, SeenNode, AllPassed, NodeFits, PlacesFit, NameFits, OwnerFits,
                      HealthyIn, ReadyIn, PackagesHealthyIn, RebootPendingIn
<1>11. AgreeInv'
    BY <1>2, <1>5, <1>10 DEF IInv, AgreeInv
<1>12. StuckInv'
    BY <1>2, <1>5, <1>10 DEF IInv, StuckInv, StuckName, StuckFile, StuckNode, NameFits, OwnerFits
<1>13. QED BY <1>6, <1>7, <1>8, <1>9, <1>11, <1>12 DEF IInv

-----------------------------------------------------------------------------
(* Running the helpers.                                                    *)

\* A helper is started.
LEMMA LaunchStep ==
    ASSUME IInv, NEW m \in Helpers, Launch(m)
    PROVE  IInv'
<1> DEFINE h == [Idle EXCEPT !.stage = "started"]
<1>1. /\ pc = m /\ native' = [native EXCEPT ![m].stage = "started"] /\ pc' = Launched(m)
      /\ UNCHANGED <<system, inputs, command, root, phase, query, hash, owned, provider, checks>>
      /\ UNCHANGED <<reboot, before, unsafe, verdict, early, late, faulted, wasHealthy, wasReady>>
    BY DEF Launch, caches, history
<1>2. native \in [Helpers -> HelperStates] /\ native[m] = Idle
    <2>1. native \in [Helpers -> HelperStates]
        BY DEF IInv, TypeOK, HelperStates
    <2>2. native[m].stage = "idle"
        BY <1>1 DEF IInv, LaunchInv, Helpers
    <2>3. QED BY <2>1, <2>2 DEF IInv, HelperInv
<1>3. h \in HelperStates /\ HelperFits(m, h) /\ h.stage = "started" /\ h.said = "nothing"
    <2>1. Idle \in HelperStates
        BY <1>2 DEF Helpers
    <2>2. h \in HelperStates /\ h.stage = "started" /\ h.said = "nothing"
        BY <2>1 DEF HelperStates, Stages, Idle
    <2>3. QED BY <2>2 DEF HelperFits
<1>4. native' \in [Helpers -> HelperStates] /\ native'[m] = h
      /\ \A k \in Helpers \ {m} : native'[k] = native[k]
    <2>1. native' = [native EXCEPT ![m] = h]
        BY <1>1, <1>2
    <2> HIDE DEF h
    <2>2. QED BY <1>2, <1>3, <2>1
<1> HIDE DEF h
<1>5. \/ m = "levelZero" /\ pc = "levelZero" /\ pc' = "levelZeroRuns"
      \/ m = "openvino" /\ pc = "openvino" /\ pc' = "openvinoRuns"
    BY <1>1 DEF Launched, Helpers
<1>6. TypeOK'
    BY <1>1, <1>4, <1>5 DEF IInv, TypeOK, HelperStates
<1>7. StageInv' /\ JudgeInv'
    BY <1>1, <1>5 DEF IInv, StageInv, JudgeInv, DevicesSeen, Collecting
<1>8. HelperInv'
    <2>1. \A k \in Helpers : HelperFits(k, native'[k])
        BY <1>3, <1>4, HelperByState DEF IInv
    <2>2. QED BY <1>1, <2>1 DEF HelperInv, HelperFits, Infers
<1>9. LaunchInv'
    BY <1>1, <1>2, <1>4, <1>5 DEF IInv, LaunchInv, Helpers, Idle
<1>10. CheckInv'
    <2>1. ~ExitsZero'
        BY <1>1, <1>5 DEF IInv, StageInv, ExitsZero
    <2>2. QED BY <1>1, <1>5, <2>1 DEF IInv, CheckInv, DevicesSeen, NodeChecked, LevelZeroChecked
<1>11. AgreeInv' /\ StuckInv'
    <2>1. Settled /\ (SeenNode' <=> SeenNode)
        BY <1>1, <1>5 DEF Settled, SeenNode
    <2>2. QED BY <2>1, SettledAgrees
<1>12. QED BY <1>6, <1>7, <1>8, <1>9, <1>10, <1>11 DEF IInv

\* What is concluded of a helper that has exited, or was not started.
LEMMA ConcludeStep ==
    ASSUME IInv, NEW m \in Helpers, pc \in {m, Launched(m)},
           NEW said \in Reports, Concluded(m, said),
           UNCHANGED <<system, inputs, command, root, phase, caches, provider, reboot, before>>,
           UNCHANGED <<verdict, early, late, wasHealthy, wasReady>>,
           unsafe' \in BOOLEAN, faulted' \in BOOLEAN,
           native' \in [Helpers -> HelperStates],
           \A k \in Helpers \ {m} : native'[k] = native[k],
           HelperFits(m, native'[m]),
           native'[m].stage \in {native[m].stage, "gone"},
           said \in {"pass", "later"} =>
              /\ native'[m].stage = "gone" /\ native'[m].said = said
              /\ native'[m].device = native[m].device
              /\ said = "later" => Infers(m)
    PROVE  IInv'
<1> USE DEF caches
<1>1. \/ m = "levelZero" /\ pc \in {"levelZero", "levelZeroRuns"}
      \/ m = "openvino" /\ pc \in {"openvino", "openvinoRuns"}
    BY DEF Launched, Helpers
<1>2. checks \in [Ids -> {"none", "pass", "warn", "fail", "blocked"}] /\ verdict = "none"
    BY <1>1 DEF IInv, TypeOK, StageInv
<1>3. m = "levelZero" =>
        /\ pc' = IF command = "status" THEN "openvino" ELSE "before"
        /\ checks'["runtime.level_zero"] \in {"pass", "fail"}
        /\ checks'["runtime.level_zero"] = "pass" => said = "pass" /\ native[m].device = "match"
        /\ \A i \in Ids \ {"runtime.level_zero"} : checks'[i] = checks[i]
    BY <1>2 DEF Concluded, LevelZeroConcluded, Ids
<1>4. m = "openvino" =>
        /\ pc' = IF command = "status" THEN "report" ELSE "after"
        /\ checks'["runtime.openvino"] \in {"pass", "fail"}
        /\ checks'["runtime.openvino"] = "pass" => said \in {"pass", "later"}
        /\ checks'["runtime.inference"] = "pass" =>
              said = "pass" \/ checks["runtime.inference"] = "pass"
        /\ command # "status" => checks'["runtime.inference"] \in {"pass", "fail"}
        /\ \A i \in Ids \ {"runtime.openvino", "runtime.inference"} : checks'[i] = checks[i]
    BY <1>2 DEF Concluded, OpenVinoConcluded, Discovered, Ids
<1>5. checks' \in [Ids -> {"none", "pass", "warn", "fail", "blocked"}]
    BY <1>1, <1>2 DEF Concluded, LevelZeroConcluded, OpenVinoConcluded
<1>6. TypeOK'
    BY <1>1, <1>3, <1>4, <1>5 DEF IInv, TypeOK, HelperStates
<1>7. StageInv' /\ JudgeInv'
    BY <1>1, <1>3, <1>4 DEF IInv, StageInv, JudgeInv, DevicesSeen, Collecting, Ids
<1>8. HelperInv'
    <2>1. \A k \in Helpers : HelperFits(k, native'[k])
        BY HelperByState DEF IInv
    <2>2. QED BY <2>1 DEF HelperInv, HelperFits, Infers
<1>9. LaunchInv'
    <2>1. CASE m = "levelZero"
        BY <1>1, <1>3, <2>1 DEF IInv, LaunchInv, Helpers, Ids
    <2>2. CASE m = "openvino"
        BY <1>1, <1>4, <2>2 DEF IInv, LaunchInv, Helpers, Ids, Infers
    <2>3. QED BY <1>1, <2>1, <2>2
<1>10. CheckInv'
    <2>1. ~ExitsZero'
        BY <1>2 DEF ExitsZero
    <2>2. NodeChecked /\ NodeChecked'
        BY <1>1, <1>3, <1>4 DEF IInv, CheckInv, DevicesSeen, NodeChecked, Ids
    <2>3. LevelZeroChecked'
        BY <1>1, <1>3, <1>4 DEF IInv, CheckInv, LevelZeroChecked, Ids
    <2>4. m = "openvino" => OpenVinoChecked'
        BY <1>4 DEF OpenVinoChecked
    <2>5. phase = "inspect" /\ Len(provider) = Len(Capabilities)
        BY <1>1 DEF IInv, StageInv, DevicesSeen, TypeOK
    <2>6. QED BY <1>1, <1>3, <1>4, <2>1, <2>2, <2>3, <2>4, <2>5 DEF CheckInv, DevicesSeen
<1>11. AgreeInv' /\ StuckInv'
    <2>1. Settled /\ (SeenNode' <=> SeenNode)
        BY <1>1, <1>3, <1>4 DEF Settled, SeenNode, Ids
    <2>2. QED BY <2>1, SettledAgrees
<1>12. QED BY <1>6, <1>7, <1>8, <1>9, <1>10, <1>11 DEF IInv

\* A helper that could not be started, or is not.
LEMMA NotLaunchedStep ==
    ASSUME IInv, SkipOpenVino \/ \E m \in Helpers : LaunchFails(m)
    PROVE  IInv'
<1>1. PICK m \in Helpers : LaunchFails(m) \/ (m = "openvino" /\ SkipOpenVino)
    BY DEF Helpers
<1>2. /\ pc = m /\ Concluded(m, "nothing") /\ faulted' \in BOOLEAN
      /\ UNCHANGED <<system, inputs, command, root, phase, caches, provider, reboot, before>>
      /\ UNCHANGED <<native, unsafe, verdict, early, late, wasHealthy, wasReady>>
    BY <1>1 DEF LaunchFails, SkipOpenVino, Concluded, Faulty, history, IInv, TypeOK
<1>3. /\ native \in [Helpers -> HelperStates] /\ HelperFits(m, native[m]) /\ unsafe \in BOOLEAN
    BY HelperByState DEF IInv, TypeOK, HelperStates
<1>4. "nothing" \in Reports
    BY DEF Reports
<1>5. QED BY <1>2, <1>3, <1>4, ConcludeStep

\* What is left of a helper whose report is not used.
LEMMA LostIsFit ==
    ASSUME IInv, NEW m \in Helpers
    PROVE  /\ Lost(m) \in [Helpers -> HelperStates]
           /\ \A k \in Helpers \ {m} : Lost(m)[k] = native[k]
           /\ HelperFits(m, Lost(m)[m]) /\ Lost(m)[m].stage = "gone"
<1> DEFINE h == [Idle EXCEPT !.stage = "gone", !.runs = native[m].runs]
<1>1. native \in [Helpers -> HelperStates]
    BY DEF IInv, TypeOK, HelperStates
<1>2. h \in HelperStates /\ HelperFits(m, h) /\ h.stage = "gone"
    BY <1>1 DEF HelperStates, HelperFits, Idle, Stages, Reports
<1>3. Lost(m) = [native EXCEPT ![m] = h]
    BY DEF Lost
<1> HIDE DEF h
<1>4. QED BY <1>1, <1>2, <1>3

\* A helper whose report is taken, refused or lost.
LEMMA AnswerStep ==
    ASSUME IInv, NEW m \in Helpers, TakeReport(m) \/ RefuseReport(m) \/ LoseHelper(m)
    PROVE  IInv'
<1>1. pc = Launched(m)
      /\ UNCHANGED <<system, inputs, command, root, phase, caches, provider, reboot, before>>
      /\ UNCHANGED <<verdict, early, late, wasHealthy, wasReady>>
    BY DEF TakeReport, RefuseReport, LoseHelper
<1>2. CASE RefuseReport(m) \/ LoseHelper(m)
    <2>1. native' = Lost(m) /\ Concluded(m, "nothing") /\ unsafe' \in BOOLEAN /\ faulted' \in BOOLEAN
        BY <1>2 DEF RefuseReport, LoseHelper, Faulty, IInv, TypeOK
    <2>2. "nothing" \in Reports
        BY DEF Reports
    <2>3. QED BY <1>1, <2>1, <2>2, LostIsFit, ConcludeStep
<1>3. CASE TakeReport(m)
    <2> DEFINE g == native[m]
    <2>1. PICK odd \in BOOLEAN :
            /\ <<<<m, Mode(m), g.said>>, odd>> \in Accepted
            /\ native' = [native EXCEPT ![m].stage = "gone", ![m].odd = odd]
            /\ faulted' = (faulted \/ odd)
        BY <1>3 DEF TakeReport
    <2>2. Concluded(m, g.said) /\ g.stage = "reported" /\ unsafe' = unsafe
        BY <1>3 DEF TakeReport
    <2>3. native \in [Helpers -> HelperStates] /\ HelperFits(m, g) /\ g \in HelperStates
        BY HelperByState DEF IInv, TypeOK, HelperStates
    <2>4. g.said = "pass" => ~odd
        <3>1. SomePrinted(<<m, Mode(m), g.said>>, odd, TRUE)
            <4> DEFINE y == <<<<m, Mode(m), g.said>>, odd>>
            <4>1. y \in Accepted
                BY <2>1
            <4>2. y[1] = <<m, Mode(m), g.said>> /\ y[2] = odd
                OBVIOUS
            <4> HIDE DEF y
            <4>3. SomePrinted(y[1], y[2], TRUE)
                BY <4>1 DEF Accepted
            <4>4. QED BY <4>2, <4>3
        <3>2. Mode(m) \in {"enumerate", "infer"}
            BY DEF Mode
        <3>3. QED BY <3>1, <3>2, PassIsNotOff
    <2> DEFINE h == [g EXCEPT !.stage = "gone", !.odd = odd]
    <2>5. /\ h \in HelperStates /\ HelperFits(m, h) /\ h.stage = "gone" /\ h.said = g.said
          /\ h.device = g.device
        BY <2>2, <2>3, <2>4 DEF HelperStates, HelperFits, Stages
    <2>6. native' = [native EXCEPT ![m] = h]
        BY <2>1, <2>3
    <2> HIDE DEF h
    <2>7. native' \in [Helpers -> HelperStates] /\ native'[m] = h
          /\ \A k \in Helpers \ {m} : native'[k] = native[k]
        BY <2>3, <2>5, <2>6
    <2>8. g.said \in Reports /\ (g.said = "later" => Infers(m))
        BY <2>3 DEF HelperStates, HelperFits
    <2>9. unsafe' \in BOOLEAN /\ faulted' \in BOOLEAN
        BY <2>1, <2>2 DEF IInv, TypeOK
    <2> HIDE DEF g
    <2>10. QED BY <1>1, <2>2, <2>5, <2>7, <2>8, <2>9, ConcludeStep DEF g
<1>4. QED BY <1>2, <1>3

-----------------------------------------------------------------------------
(* The verdict, and the rest of the system.                                *)

\* The report is written, or is not.
LEMMA ReportStep ==
    ASSUME IInv, Report
    PROVE  IInv'
<1>1. /\ pc = "report" /\ pc' = "done" /\ verdict' \in {Verdict, "refused"} /\ faulted' \in BOOLEAN
      /\ UNCHANGED <<system, inputs, command, root, phase, query, hash, owned, provider, checks>>
      /\ UNCHANGED <<reboot, before, native, unsafe, early, late, wasHealthy, wasReady>>
    BY DEF Report, Faulty, caches, IInv, TypeOK
<1>2. Verdict \in {"passed", "degraded", "failed", "blocked"}
    BY DEF Verdict
<1>3. TypeOK'
    BY <1>1, <1>2 DEF IInv, TypeOK
<1>4. StageInv' /\ JudgeInv' /\ HelperInv' /\ LaunchInv'
    BY <1>1 DEF IInv, StageInv, JudgeInv, HelperInv, LaunchInv, Infers, DevicesSeen, Collecting
<1>5. CheckInv'
    <2>1. \/ checks["platform.profile"] = "fail"
          \/ checks["qualification.probes"] = "blocked"
          \/ /\ phase = "inspect" /\ Len(provider) = Len(Capabilities)
             /\ NodeChecked /\ LevelZeroChecked /\ OpenVinoChecked
        BY <1>1 DEF IInv, CheckInv
    <2>2. (NodeChecked /\ LevelZeroChecked /\ OpenVinoChecked) =>
            (NodeChecked /\ LevelZeroChecked /\ OpenVinoChecked)'
        BY <1>1 DEF NodeChecked, LevelZeroChecked, OpenVinoChecked
    <2>3. ExitsZero' => /\ \A i \in Ids : Required(i) => checks[i] \notin {"fail", "blocked"}
                        /\ \A i \in DOMAIN provider : provider[i] # "fail"
        BY <1>1 DEF ExitsZero, Verdict
    <2>4. QED BY <1>1, <2>1, <2>2, <2>3 DEF CheckInv, DevicesSeen, Required
<1>6. AgreeInv' /\ StuckInv'
    <2>1. Settled /\ (SeenNode' <=> SeenNode)
        BY <1>1 DEF Settled, SeenNode
    <2>2. QED BY <2>1, SettledAgrees
<1>7. QED BY <1>3, <1>4, <1>5, <1>6 DEF IInv

\* What is not about the rest of the system stays as it is when only that changes.
LEMMA DisturbedElsewhere ==
    ASSUME IInv, UNCHANGED <<session, native, faulted>>, system' \in Changes(system),
           early' \in 0 .. MaxEarly, late' \in 0 .. MaxLate, pc # "select",
           wasHealthy' \in BOOLEAN, wasReady' \in BOOLEAN
    PROVE  TypeOK' /\ StageInv' /\ JudgeInv' /\ HelperInv' /\ LaunchInv' /\ CheckInv'
<1>1. system' \in Systems
    BY ChangesAreSmall DEF IInv
<1>2. TypeOK'
    BY <1>1 DEF IInv, TypeOK, session
<1>3. StageInv' /\ JudgeInv'
    BY DEF IInv, StageInv, JudgeInv, DevicesSeen, Collecting, ProviderPasses, Good, ConflictFailure,
           session
<1>4. HelperInv' /\ LaunchInv' /\ CheckInv'
    BY DEF IInv, HelperInv, LaunchInv, Infers, CheckInv, DevicesSeen, ExitsZero, NodeChecked,
           LevelZeroChecked, OpenVinoChecked, Required, session
<1>5. QED BY <1>2, <1>3, <1>4

\* A change before the session looks.
LEMMA EarlyStep ==
    ASSUME IInv, DisturbEarly
    PROVE  IInv'
<1>1. /\ pc = "query" /\ phase = (IF Collecting THEN "preflight" ELSE "inspect")
      /\ \A n \in Names : query[n] = Unasked
      /\ system' \in Changes(system) /\ early' = early + 1 /\ early < MaxEarly
      /\ wasHealthy' = HealthyIn(system') /\ wasReady' = ReadyIn(system')
      /\ UNCHANGED <<inputs, command, root, pc, phase, query, hash, owned, provider, checks>>
      /\ UNCHANGED <<reboot, before, unsafe, verdict, native, late, faulted>>
    BY DEF DisturbEarly, Unobserved, session
<1>2. HealthyIn(system') \in BOOLEAN /\ ReadyIn(system') \in BOOLEAN
    BY DEF HealthyIn, ReadyIn, PackagesHealthyIn, RebootPendingIn
<1>3. TypeOK' /\ StageInv' /\ JudgeInv' /\ HelperInv' /\ LaunchInv' /\ CheckInv'
    <2>1. early' \in 0 .. MaxEarly
        BY <1>1, InspectionConstants DEF IInv, TypeOK
    <2>2. late' \in 0 .. MaxLate
        BY <1>1 DEF IInv, TypeOK
    <2>3. QED BY <1>1, <1>2, <2>1, <2>2, DisturbedElsewhere DEF session
<1>4. /\ \A f \in Paths : hash[f] = "unread" /\ owned[f] = "unasked"
      /\ ~SeenNode /\ ~SeenNode' /\ Looking'
    <2>1. hash = [f \in Paths |-> "unread"] /\ owned = [f \in Paths |-> "unasked"]
        BY <1>1 DEF IInv, StageInv
    <2>2. QED BY <1>1, <2>1 DEF IInv, StageInv, SeenNode, Looking
<1>5. AgreeInv'
    <2>1. \A n \in Names : query'[n].answer \notin Versions
        BY <1>1 DEF Unasked, Versions
    <2>2. \A f \in Paths : hash'[f] \notin Contents /\ owned'[f] \notin Names
        BY <1>1, <1>4, Parts DEF Contents
    <2>3. wasHealthy' = HealthyIn(system)' /\ wasReady' = ReadyIn(system)'
        BY <1>1 DEF HealthyIn, ReadyIn, PackagesHealthyIn, RebootPendingIn
    <2>4. QED BY <1>4, <2>1, <2>2, <2>3 DEF AgreeInv
<1>6. StuckInv'
    <2>1. ASSUME NEW strict \in BOOLEAN, ~PlacesFit(system', strict)
          PROVE  StuckName(strict)' \/ StuckFile'
        <3>1. Unseen(system', query, hash, owned, strict)
            BY <1>1, <1>4, <2>1, UnseenIsWrong
        <3>2. QED BY <1>1, <3>1 DEF Unseen, StuckName, StuckFile, NameFits, OwnerFits
    <2>2. ~HealthyIn(system') => StuckName(FALSE)' \/ StuckFile' \/ StuckNode'
        <3>1. ~HealthyIn(system') => ~PlacesFit(system', FALSE) \/ ~NodeFits(system')
            BY HealthyByPlace
        <3>2. ~NodeFits(system') => StuckNode'
            BY <1>1, <1>4 DEF StuckNode, NodeFits
        <3>3. QED BY <2>1, <3>1, <3>2
    <2>3. ~ReadyIn(system') => StuckName(TRUE)' \/ StuckFile'
        BY <2>1, HealthyByPlace
    <2>4. QED BY <1>1, <1>4, <2>2, <2>3 DEF StuckInv, Collecting
<1>7. QED BY <1>3, <1>5, <1>6 DEF IInv

\* A change while the session looks.
LEMMA LateStep ==
    ASSUME IInv, DisturbLate
    PROVE  IInv'
<1>1. /\ pc \notin {"select", "done"} /\ late < MaxLate /\ late' = late + 1
      /\ system' \in Changes(system)
      /\ wasHealthy' = (wasHealthy \/ HealthyIn(system'))
      /\ wasReady' = (wasReady \/ ReadyIn(system'))
      /\ UNCHANGED <<inputs, command, root, pc, phase, query, hash, owned, provider, checks>>
      /\ UNCHANGED <<reboot, before, unsafe, verdict, native, early, faulted>>
    BY DEF DisturbLate, session
<1>2. late \in Nat /\ wasHealthy \in BOOLEAN /\ wasReady \in BOOLEAN
    BY DEF IInv, TypeOK
<1>3. TypeOK' /\ StageInv' /\ JudgeInv' /\ HelperInv' /\ LaunchInv' /\ CheckInv'
    <2>1. late' \in 0 .. MaxLate /\ early' \in 0 .. MaxEarly
        BY <1>1, InspectionConstants DEF IInv, TypeOK
    <2>2. wasHealthy' \in BOOLEAN /\ wasReady' \in BOOLEAN
        BY <1>1
    <2>3. QED BY <1>1, <2>1, <2>2, DisturbedElsewhere DEF session
<1>4. AgreeInv'
    BY <1>1, <1>2 DEF AgreeInv
<1>5. StuckInv'
    <2>1. CASE late > 0
        <3>1. late' # 1 /\ ~(late' <= 1)
            BY <1>1, <1>2, <2>1
        <3>2. QED BY <3>1 DEF StuckInv
    <2>2. CASE late = 0
        <3>1. wasHealthy = HealthyIn(system) /\ wasReady = ReadyIn(system)
            BY <2>2 DEF IInv, AgreeInv
        <3>2. OneDifference(system, system')
            BY <1>1, ChangesAreSmall DEF IInv
        <3>3. ASSUME NEW strict \in BOOLEAN, WrongInBoth(system, system', strict), Looking
              PROVE  StuckName(strict)' \/ StuckFile'
            <4>1. ASSUME NEW n \in Names,
                         ~NameFits(system.version[n], system.recent[n], n, strict)
                  PROVE  ~NameFits(query[n].answer, query[n].recent, n, strict)
                BY <2>2, <3>3, <4>1 DEF IInv, AgreeInv, NameFits, Versions
            <4>2. ASSUME NEW f \in Paths
                  PROVE  /\ system.content[f] # "expected" => hash[f] # "expected"
                         /\ ~OwnerFits(system.owner[f], f) => ~OwnerFits(owned[f], f)
                <5>1. system.content[f] # "expected" => hash[f] # "expected"
                    BY <2>2, <3>3 DEF IInv, AgreeInv, Contents
                <5>2. owned[f] \notin Names => ~OwnerFits(owned[f], f)
                    BY Parts DEF OwnerFits
                <5>3. QED BY <2>2, <3>3, <5>1, <5>2 DEF IInv, AgreeInv
            <4>3. QED BY <1>1, <3>3, <4>1, <4>2
                      DEF WrongInBoth, StuckName, StuckFile, NameFits, OwnerFits
        <3>4. ~NodeFits(system) /\ ~NodeFits(system') => StuckNode'
            BY <1>1, <2>2 DEF IInv, AgreeInv, StuckNode, SeenNode, NodeFits
        <3>5. /\ Looking' <=> Looking
              /\ AllPassed' <=> AllPassed
            BY <1>1 DEF Looking, AllPassed
        <3>6. ASSUME ~wasHealthy'
              PROVE  \/ IF Looking THEN StuckName(FALSE)' \/ StuckFile' ELSE ~AllPassed
                     \/ StuckNode'
            <4>1. ~HealthyIn(system) /\ ~HealthyIn(system')
                BY <1>1, <3>1, <3>6
            <4>2. WrongInBoth(system, system', FALSE) \/ (~NodeFits(system) /\ ~NodeFits(system'))
                BY <3>2, <4>1, HealthyByPlace, CommonPlace
            <4>3. ASSUME WrongInBoth(system, system', FALSE), ~Looking PROVE ~AllPassed
                BY <2>2, <4>3 DEF IInv, AgreeInv, WrongInBoth, PlacesFit
            <4>4. QED BY <3>3, <3>4, <4>2, <4>3
        <3>7. ASSUME ~wasReady', Looking PROVE StuckName(TRUE)' \/ StuckFile'
            <4>1. ~ReadyIn(system) /\ ~ReadyIn(system')
                BY <1>1, <3>1, <3>7
            <4>2. WrongInBoth(system, system', TRUE)
                BY <3>2, <4>1, HealthyByPlace, CommonPlace
            <4>3. QED BY <3>3, <3>7, <4>2
        <3>8. phase = "inspect" /\ command = "probe" => wasReady
            BY <2>2 DEF IInv, StuckInv
        <3>9. QED BY <1>1, <3>5, <3>6, <3>7, <3>8 DEF StuckInv
    <2>3. QED BY <1>2, <2>1, <2>2
<1>6. QED BY <1>3, <1>4, <1>5 DEF IInv

-----------------------------------------------------------------------------
(* Theorems.                                                               *)

\* The invariant holds at the start.
LEMMA StartsRight == Init => IInv
<1> SUFFICES ASSUME Init PROVE IInv
    OBVIOUS
<1>1. /\ HealthySystem \in Systems /\ system = HealthySystem
    <2>1. ASSUME NEW f \in Paths PROVE Package[CHOOSE c \in Components : f \in Files[c]] \in Names
        <3>1. \E c \in Components : f \in Files[c]
            BY Parts
        <3>2. (CHOOSE c \in Components : f \in Files[c]) \in Components
            BY <3>1
        <3>3. QED BY <3>2, Parts
    <2>2. 1 \in 0 .. MaxBusy
        BY InspectionConstants
    <2>3. QED BY <2>1, <2>2 DEF Init, HealthySystem, Systems, Versions, Contents, Nodes
<1>2. HealthyIn(system) \in BOOLEAN /\ ReadyIn(system) \in BOOLEAN
    BY DEF HealthyIn, ReadyIn, PackagesHealthyIn, RebootPendingIn
<1>3. /\ native \in [Helpers -> HelperStates] /\ \A m \in Helpers : HelperFits(m, native[m])
      /\ \A m \in Helpers : native[m] = Idle
    <2>1. Idle \in HelperStates
        BY InspectionConstants DEF HelperStates, Idle, Stages, Reports
    <2>2. \A m \in Helpers : native[m] = Idle
        BY DEF Init
    <2>3. \A m \in Helpers : HelperFits(m, Idle)
        BY DEF HelperFits, Idle
    <2>4. QED BY <2>1, <2>2, <2>3 DEF Init
<1>4. TypeOK
    <2>1. before \in [shown : BOOLEAN, busy : 0 .. MaxBusy]
        BY InspectionConstants DEF Init, NoSnapshot
    <2>2. provider \in Seq({"pass", "fail"}) /\ Len(provider) <= Len(Capabilities)
        BY Parts DEF Init
    <2>3. /\ query \in [Names -> [answer : Versions \cup {"unasked", "failed"}, recent : BOOLEAN]]
          /\ hash \in [Paths -> Contents \cup {"unread", "failed"}]
          /\ owned \in [Paths -> Names \cup {"unasked", "failed"}]
          /\ checks \in [Ids -> {"none", "pass", "warn", "fail", "blocked"}]
        BY DEF Init, Unasked
    <2>4. 0 \in 0 .. MaxEarly /\ 0 \in 0 .. MaxLate
        BY InspectionConstants
    <2>5. QED BY <1>1, <1>2, <1>3, <2>1, <2>2, <2>3, <2>4 DEF Init, TypeOK, HelperStates
<1>5. StageInv /\ JudgeInv /\ HelperInv /\ LaunchInv
    <2>1. StageInv
        BY Parts DEF Init, StageInv, DevicesSeen, Ids, Collecting
    <2>2. JudgeInv /\ HelperInv
        BY <1>3, HelperByState DEF Init, JudgeInv
    <2>3. LaunchInv
        BY <1>3 DEF Init, LaunchInv, Idle, Ids, Helpers
    <2>4. QED BY <2>1, <2>2, <2>3
<1>6. CheckInv
    BY DEF Init, CheckInv, DevicesSeen, ExitsZero
<1>7. late = 0 /\ ~Looking /\ ~AllPassed /\ ~SeenNode
    BY Parts DEF Init, Looking, AllPassed, SeenNode, Ids
<1>8. AgreeInv
    BY <1>7 DEF Init, AgreeInv
<1>9. StuckInv
    BY <1>7 DEF Init, StuckInv, Collecting
<1>10. QED BY <1>4, <1>5, <1>6, <1>8, <1>9 DEF IInv

\* Every step keeps the invariant.
LEMMA StaysRight == IInv /\ [Next]_vars => IInv'
<1> SUFFICES ASSUME IInv, [Next]_vars PROVE IInv'
    OBVIOUS
<1>1. CASE UNCHANGED vars
    <2> USE <1>1 DEF vars
    <2>1. TypeOK' /\ StageInv' /\ JudgeInv'
        BY DEF IInv, TypeOK, StageInv, JudgeInv, DevicesSeen, Collecting, ProviderPasses, Good,
               ConflictFailure
    <2>2. HelperInv' /\ LaunchInv' /\ CheckInv'
        BY DEF IInv, HelperInv, LaunchInv, CheckInv, DevicesSeen, Infers, NodeChecked,
               LevelZeroChecked, OpenVinoChecked, ExitsZero, Required
    <2>3. AgreeInv' /\ StuckInv'
        <3>1. Settled /\ (SeenNode' <=> SeenNode)
            BY DEF Settled, SeenNode
        <3>2. QED BY <3>1, SettledAgrees
    <2>4. QED BY <2>1, <2>2, <2>3 DEF IInv
<1>2. CASE Refuse \/ SelectProfile \/ CollectCandidate
    BY <1>2, SelectionStep
<1>3. CASE Inspect
    BY <1>3, QueryStep, FileStep, JudgeStep, InspectedStep, PreflightStep DEF Inspect
<1>4. CASE ListNodes \/ OpenNodes \/ SampleBefore \/ SampleAfter
    BY <1>4, DeviceStep
<1>5. CASE Run
    BY <1>5, LaunchStep, NotLaunchedStep, AnswerStep DEF Run
<1>6. CASE Report
    BY <1>6, ReportStep
<1>7. CASE \E m \in Helpers : Helper(m)
    BY <1>7, HelperKeeps
<1>8. CASE DisturbEarly \/ DisturbLate
    BY <1>8, EarlyStep, LateStep
<1>9. QED BY <1>1, <1>2, <1>3, <1>4, <1>5, <1>6, <1>7, <1>8 DEF Next, Session, Finished

\* What the invariant says of a session that exits 0.
LEMMA Earned == IInv => ExitZeroWasEarned
<1> SUFFICES ASSUME IInv, ExitsZero, late <= 1
             PROVE  /\ wasHealthy
                    /\ command # "preflight"
                    /\ command = "probe" => wasReady
                    /\ native["levelZero"].said = "pass" /\ native["levelZero"].device = "match"
                    /\ native["openvino"].said = "pass"
                    /\ \A m \in Helpers : ~native[m].odd
                    /\ command # "status" => /\ native["openvino"].npuOnly
                                             /\ native["openvino"].runs = Iterations
    BY DEF ExitZeroWasEarned
<1>1. pc = "done"
    BY DEF IInv, StageInv, ExitsZero
<1>2. /\ \A i \in Ids : Required(i) => checks[i] \notin {"fail", "blocked"}
      /\ \A i \in DOMAIN provider : provider[i] # "fail"
      /\ \/ checks["platform.profile"] = "fail"
         \/ checks["qualification.probes"] = "blocked"
         \/ /\ phase = "inspect" /\ Len(provider) = Len(Capabilities)
            /\ NodeChecked /\ LevelZeroChecked /\ OpenVinoChecked
    BY DEF IInv, CheckInv
<1>3. /\ phase = "inspect" /\ Len(provider) = Len(Capabilities)
      /\ NodeChecked /\ LevelZeroChecked /\ OpenVinoChecked
    BY <1>2 DEF Required, Ids
<1>4. AllPassed
    <2>1. provider \in Seq({"pass", "fail"})
        BY DEF IInv, TypeOK
    <2>2. \A i \in DOMAIN provider : provider[i] \in {"pass", "fail"}
        BY <2>1
    <2>3. QED BY <1>2, <1>3, <2>2 DEF AllPassed
<1>5. SeenNode
    <2>1. checks["device.node"] = "pass"
        BY <1>2, <1>3 DEF NodeChecked, Required, Ids
    <2>2. ~(root /\ command = "status") => checks["device.access"] = "pass"
        BY <1>2, <1>3 DEF NodeChecked, Required, Ids
    <2>3. root => checks["device.access"] # "pass"
        BY DEF IInv, StageInv
    <2>4. QED BY <2>1, <2>2, <2>3 DEF SeenNode
<1>6. wasHealthy
    <2>1. CASE late = 0
        BY <1>1, <1>4, <1>5, <2>1, HealthyByPlace DEF IInv, AgreeInv, Looking
    <2>2. CASE late = 1
        BY <1>1, <1>3, <1>4, <1>5, <2>2 DEF IInv, StuckInv, Looking, StuckNode
    <2>3. late \in Nat
        BY DEF IInv, TypeOK
    <2>4. QED BY <2>1, <2>2, <2>3
<1>7. command # "preflight" /\ (command = "probe" => wasReady)
    BY <1>3 DEF IInv, StageInv, StuckInv
<1>8. checks["runtime.level_zero"] = "pass" /\ checks["runtime.openvino"] = "pass"
      /\ (command # "status" => checks["runtime.inference"] = "pass")
    BY <1>2, <1>3 DEF LevelZeroChecked, OpenVinoChecked, Required, Ids
<1>9. /\ native["levelZero"].said = "pass" /\ native["levelZero"].device = "match"
      /\ native["openvino"].said = "pass"
    BY <1>8 DEF IInv, LaunchInv
<1>10. /\ \A m \in Helpers : ~native[m].odd
       /\ command # "status" => /\ native["openvino"].npuOnly
                                /\ native["openvino"].runs = Iterations
    BY <1>9 DEF IInv, HelperInv, Helpers, Infers
<1>11. QED BY <1>6, <1>7, <1>9, <1>10

\* The invariant holds throughout.
THEOREM Invariant == Spec => []IInv
<1>1. Init => IInv
    BY StartsRight
<1>2. IInv /\ [Next]_vars => IInv'
    BY StaysRight
<1>3. QED BY <1>1, <1>2, PTL DEF Spec

\* Every variable of a session stays in its type (the busy counter and the number of
\* inferences within their bounds among them).
THEOREM TypeCorrect == Spec => []TypeOK
<1>1. IInv => TypeOK
    BY DEF IInv
<1>2. QED BY <1>1, Invariant, PTL

\* finalize() never exits 0 for a session that has not earned it: whatever the helpers print,
\* whichever call fails, and with one change of the system while the session looks.
THEOREM ExitZeroIsEarned == Spec => []ExitZeroWasEarned
<1>1. QED BY Earned, Invariant, PTL

-----------------------------------------------------------------------------
(* The converse: nothing but a fault, a change or the system itself keeps a *)
(* session from exit 0.                                                     *)

\* No call failed, nothing changed since the first look, and all is as the profile wants it.
Fair ==
    /\ ~faulted /\ late = 0 /\ HealthyIn(system)
    /\ command \in {"status", "doctor"} /\ checks["platform.profile"] = "pass"

\* Before the packages are inspected no other check has been made.
FreshInv ==
    pc \in {"select", "query", "files", "activation"} =>
        ~unsafe /\ \A i \in Ids \ {"platform.profile"} : checks[i] = "none"

\* Then nothing is seen to be wrong, and no helper has anything to report but a pass.
SeenFair ==
    /\ \A n \in Names : query[n] = Unasked \/ query[n].answer \in Versions
    /\ \A f \in Paths : hash[f] # "failed" /\ owned[f] # "failed"
    /\ \A i \in DOMAIN provider : provider[i] = "pass"
    /\ pc \notin {"select", "query", "files", "activation"} => (reboot <=> RebootPendingIn(system))
ChecksFair ==
    /\ \A i \in Ids : Required(i) /\ i # "device.access" => checks[i] \notin {"fail", "blocked"}
    /\ pc = "open" \/ root \/ checks["device.access"] \notin {"fail", "blocked"}
    /\ pc = "done" => ExitsZero
HelpersFair ==
    /\ ~unsafe
    /\ \A m \in Helpers :
         /\ native[m].stage \notin {"idle", "started"} => native[m].device = "match"
         /\ native[m].said \in {"nothing", "pass"}
         /\ native[m].stage = "reported" => native[m].said = "pass"
FairInv == Fair => SeenFair /\ ChecksFair /\ HelpersFair

FInv == FreshInv /\ FairInv

\* What fairness, once lost, leaves.
Lasting == /\ UNCHANGED <<command, root>> /\ late' = late
           /\ faulted => faulted'
           /\ checks'["platform.profile"] = checks["platform.profile"]
           /\ system'.version = system.version /\ system'.recent = system.recent
           /\ system'.content = system.content /\ system'.owner = system.owner
           /\ system'.node = system.node

\* A step that leaves the system alone and the session fair was taken by a fair session.
LEMMA FairBefore ==
    ASSUME IInv, FInv, Lasting, Fair'
    PROVE  /\ Fair /\ SeenFair /\ ChecksFair /\ HelpersFair
           /\ PlacesFit(system, FALSE) /\ NodeFits(system)
           /\ RebootPendingIn(system)' = RebootPendingIn(system)
<1>1. HealthyIn(system)' = HealthyIn(system) /\ RebootPendingIn(system)' = RebootPendingIn(system)
    BY DEF Lasting, HealthyIn, PackagesHealthyIn, RebootPendingIn
<1>2. Fair
    BY <1>1 DEF Fair, Lasting, IInv, TypeOK
<1>3. PlacesFit(system, FALSE) /\ NodeFits(system)
    BY <1>2, HealthyByPlace DEF Fair
<1>4. QED BY <1>1, <1>2, <1>3 DEF FInv, FairInv

\* Selection.
LEMMA FairSelection ==
    ASSUME IInv, FInv, Refuse \/ SelectProfile \/ CollectCandidate
    PROVE  FInv'
<1>1. PICK next \in {"done", "query", "report"}, status \in {"none", "pass", "fail"},
           overall \in {"none", "refused"} :
        /\ pc = "select" /\ SelectionDone(next, status, overall)
        /\ status = "pass" => next = "query"
    <2>1. /\ pc = "select"
          /\ \/ SelectionDone("done", "none", "refused")
             \/ SelectionDone("query", "pass", "none")
             \/ SelectionDone("report", "fail", "none")
        BY DEF Refuse, SelectProfile, CollectCandidate
    <2>2. QED BY <2>1
<1>2. /\ \A i \in Ids \ {"platform.profile"} : checks'[i] = "none"
      /\ checks'["platform.profile"] = status
      /\ pc' = next /\ ~unsafe' /\ native' = native /\ query' = query
      /\ hash' = hash /\ owned' = owned /\ provider' = provider
    BY <1>1 DEF FInv, FreshInv, SelectionDone, caches, IInv, TypeOK, Ids
<1>3. FreshInv'
    BY <1>2 DEF FreshInv
<1>4. SUFFICES ASSUME Fair' PROVE SeenFair' /\ ChecksFair' /\ HelpersFair'
    BY <1>3 DEF FInv, FairInv
<1>5. status = "pass" /\ next = "query"
    BY <1>1, <1>2, <1>4 DEF Fair
<1>6. SeenFair'
    BY <1>1, <1>2, <1>5 DEF SeenFair, IInv, StageInv
<1>7. ChecksFair'
    BY <1>2, <1>5 DEF ChecksFair, Ids
<1>8. HelpersFair'
    <2>1. \A m \in Helpers : native[m] = Idle
        BY <1>1 DEF IInv, LaunchInv, HelperInv, Helpers
    <2>2. QED BY <1>2, <2>1 DEF HelpersFair, Idle
<1>9. QED BY <1>6, <1>7, <1>8

\* A query of a package.
LEMMA FairQuery ==
    ASSUME IInv, FInv, NEW n \in Names, QueryPackage(n)
    PROVE  FInv'
<1>1. /\ pc = "query" /\ pc' \in {"query", "files"}
      /\ UNCHANGED <<system, command, root, hash, owned, provider, checks, reboot, native>>
      /\ UNCHANGED <<unsafe, verdict, late>>
      /\ \/ query' = [query EXCEPT ![n] = [answer |-> system.version[n],
                                           recent |-> system.recent[n]]] /\ faulted' = faulted
         \/ faulted' = TRUE
    BY DEF QueryPackage, Faulty
<1>2. FreshInv'
    BY <1>1 DEF FInv, FreshInv
<1>3. SUFFICES ASSUME Fair' PROVE SeenFair' /\ ChecksFair' /\ HelpersFair'
    BY <1>2 DEF FInv, FairInv
<1>4. Lasting
    BY <1>1 DEF Lasting
<1>5. SeenFair /\ ChecksFair /\ HelpersFair
    BY <1>3, <1>4, FairBefore
<1>6. \A k \in Names : query'[k] = query[k] \/ query'[k].answer \in Versions
    <2> DEFINE x == [answer |-> system.version[n], recent |-> system.recent[n]]
    <2>1. x.answer \in Versions
        BY DEF IInv, TypeOK, Systems
    <2>2. query' = [query EXCEPT ![n] = x]
        BY <1>1, <1>3 DEF Fair
    <2> HIDE DEF x
    <2>3. QED BY <2>1, <2>2 DEF IInv, TypeOK
<1>7. QED BY <1>1, <1>5, <1>6 DEF SeenFair, ChecksFair, HelpersFair, Required

\* A look at a file, or at its owner.
LEMMA FairFile ==
    ASSUME IInv, FInv, NEW f \in Paths, HashFile(f) \/ QueryOwner(f)
    PROVE  FInv'
<1>1. /\ pc = "files" /\ pc' = pc
      /\ UNCHANGED <<system, command, root, query, provider, checks, reboot, native>>
      /\ UNCHANGED <<unsafe, verdict, late>>
      /\ faulted => faulted'
    BY DEF HashFile, QueryOwner, Examining, Faulty
<1>2. FreshInv'
    BY <1>1 DEF FInv, FreshInv
<1>3. SUFFICES ASSUME Fair' PROVE SeenFair' /\ ChecksFair' /\ HelpersFair'
    BY <1>2 DEF FInv, FairInv
<1>4. Lasting
    BY <1>1 DEF Lasting
<1>5. SeenFair /\ ChecksFair /\ HelpersFair /\ PlacesFit(system, FALSE)
    BY <1>3, <1>4, FairBefore
<1>6. system.content[f] \in Contents /\ system.owner[f] \in Names /\ system.content[f] = "expected"
    BY <1>5 DEF IInv, TypeOK, Systems, PlacesFit
<1>7. \A g \in Paths : hash'[g] # "failed" /\ owned'[g] # "failed"
    <2>1. CASE hash' = [hash EXCEPT ![f] = system.content[f]] /\ owned' = owned
        BY <1>5, <1>6, <2>1 DEF SeenFair, IInv, TypeOK
    <2>2. CASE owned' = [owned EXCEPT ![f] = system.owner[f]] /\ hash' = hash
        BY <1>5, <1>6, <2>2, Parts DEF SeenFair, IInv, TypeOK
    <2>3. QED BY <1>3, <1>6, <2>1, <2>2 DEF HashFile, QueryOwner, Faulty, Fair
<1>8. QED BY <1>1, <1>5, <1>7 DEF SeenFair, ChecksFair, HelpersFair, Required

\* The judgement of a provider.
LEMMA FairJudge ==
    ASSUME IInv, FInv, JudgeProvider
    PROVE  FInv'
<1>1. /\ pc = "files" /\ pc' \in {"files", "activation"}
      /\ UNCHANGED <<system, command, root, query, hash, owned, checks, reboot, native>>
      /\ UNCHANGED <<unsafe, verdict, late, faulted>>
      /\ provider' = Append(provider, IF ProviderPasses(Current) THEN "pass" ELSE "fail")
    BY DEF JudgeProvider, caches, history
<1>2. FreshInv'
    BY <1>1 DEF FInv, FreshInv
<1>3. SUFFICES ASSUME Fair' PROVE SeenFair' /\ ChecksFair' /\ HelpersFair'
    BY <1>2 DEF FInv, FairInv
<1>4. Lasting
    BY <1>1 DEF Lasting
<1>5. Fair /\ SeenFair /\ ChecksFair /\ HelpersFair /\ PlacesFit(system, FALSE)
    BY <1>3, <1>4, FairBefore
<1>6. provider \in Seq({"pass", "fail"}) /\ Current \in Components
    BY <1>1, Parts DEF IInv, TypeOK, StageInv, Current
<1>7. \A n \in Names : query[n].answer = IF n \in Conflicts THEN "none" ELSE "expected"
    <2>1. \A n \in Names : query[n].answer = system.version[n]
        BY <1>1, <1>5 DEF SeenFair, Fair, IInv, JudgeInv, AgreeInv, Looking
    <2>2. QED BY <1>5, <2>1 DEF PlacesFit, NameFits
<1>8. \A f \in Files[Current] : hash[f] \in {"unread", "expected"}
                               /\ owned[f] \in {"unasked", Package[Current]}
    <2>1. \A f \in Files[Current] : f \in Paths
        BY <1>6, Parts
    <2>2. \A f \in Paths : hash[f] \in {"unread", "expected"}
        BY <1>1, <1>5 DEF SeenFair, Fair, IInv, TypeOK, AgreeInv, Looking, PlacesFit
    <2>3. \A f \in Paths : owned[f] \in {"unasked", system.owner[f]}
        BY <1>1, <1>5 DEF SeenFair, Fair, IInv, TypeOK, AgreeInv, Looking
    <2>4. \A f \in Files[Current] : system.owner[f] = Package[Current]
        BY <1>5, <1>6, <2>1 DEF PlacesFit, OwnerFits
    <2>5. QED BY <2>1, <2>2, <2>3, <2>4
<1>9. ProviderPasses(Current)
    <2>1. query[Package[Current]].answer = "expected"
        BY <1>6, <1>7, Parts
    <2>2. \A f \in Files[Current] : ~Bad(f, Current)
        BY <1>8 DEF Bad
    <2>3. \A f \in Files[Current] : Good(f, Current)
        BY <2>1, <2>2 DEF JudgeProvider
    <2>4. ~ConflictFailure
        BY <1>7 DEF ConflictFailure, Names
    <2>5. QED BY <2>1, <2>3, <2>4 DEF ProviderPasses
<1>10. \A i \in DOMAIN provider' : provider'[i] = "pass"
    <2>1. provider' = Append(provider, "pass")
        BY <1>1, <1>9
    <2>2. QED BY <1>5, <1>6, <2>1 DEF SeenFair
<1>11. QED BY <1>1, <1>5, <1>10 DEF SeenFair, ChecksFair, HelpersFair, Required

\* The end of an inspection.
LEMMA FairInspected ==
    ASSUME IInv, FInv, PackagesInspected \/ PreflightIsReport \/ PreflightPassed
    PROVE  FInv'
<1>1. FreshInv'
    BY DEF PackagesInspected, PreflightIsReport, PreflightPassed, FInv, FreshInv
<1>2. SUFFICES ASSUME Fair' PROVE SeenFair' /\ ChecksFair' /\ HelpersFair'
    BY <1>1 DEF FInv, FairInv
<1>3. PackagesInspected
    BY <1>2 DEF PreflightPassed, PreflightIsReport, Fair, IInv, StageInv, Collecting
<1>4. /\ pc = "activation" /\ pc' = "devices" /\ Forget /\ reboot' = RebootRequired
      /\ checks' = [checks EXCEPT !["firmware.installed"] = FirmwareCheck]
      /\ UNCHANGED <<system, command, root, provider, native, unsafe, verdict, late, faulted>>
    BY <1>3 DEF PackagesInspected, history
<1>5. checks \in [Ids -> {"none", "pass", "warn", "fail", "blocked"}]
    BY DEF IInv, TypeOK
<1>6. /\ \A i \in Ids \ {"firmware.installed"} : checks'[i] = checks[i]
      /\ checks'["firmware.installed"] = FirmwareCheck
    BY <1>4, <1>5 DEF Ids
<1>7. Lasting
    BY <1>4, <1>6 DEF Lasting, Ids
<1>8. /\ Fair /\ SeenFair /\ ChecksFair /\ HelpersFair /\ PlacesFit(system, FALSE)
      /\ RebootPendingIn(system)' = RebootPendingIn(system)
    BY <1>2, <1>7, FairBefore
<1>9. \A n \in Names : query[n].answer = system.version[n] /\ query[n].recent = system.recent[n]
    BY <1>4, <1>8 DEF SeenFair, Fair, IInv, JudgeInv, AgreeInv, Looking
<1>10. \A c \in Reboot : /\ query[Package[c]].answer = system.version[Package[c]]
                         /\ query[Package[c]].recent = system.recent[Package[c]]
                         /\ system.version[Package[c]] = "expected"
    <2>1. \A c \in Reboot : Package[c] \in Names \ Conflicts
        BY Parts, InspectionConstants
    <2>2. QED BY <1>8, <1>9, <2>1 DEF PlacesFit, NameFits
<1>11. RebootRequired <=> RebootPendingIn(system)
    BY <1>10 DEF RebootRequired, ActivationUnknown, RebootPendingIn
<1>12. FirmwareCheck = "pass"
    <2>1. \E j \in DOMAIN Capabilities : Capabilities[j] = Firmware
        BY InspectionConstants DEF Components
    <2>2. (CHOOSE j \in DOMAIN Capabilities : Capabilities[j] = Firmware) \in DOMAIN Capabilities
        BY <2>1
    <2>3. DOMAIN provider = DOMAIN Capabilities
        BY <1>4, Parts DEF IInv, TypeOK, StageInv
    <2>4. ~ActivationUnknown
        BY <1>10 DEF ActivationUnknown
    <2>5. QED BY <1>8, <2>2, <2>3, <2>4 DEF FirmwareCheck, SeenFair
<1>13. SeenFair'
    <2>1. /\ \A n \in Names : query'[n] = Unasked
          /\ \A f \in Paths : hash'[f] = "unread" /\ owned'[f] = "unasked"
        BY <1>4 DEF Forget
    <2>2. reboot' <=> RebootPendingIn(system)'
        BY <1>4, <1>8, <1>11
    <2>3. QED BY <1>4, <1>8, <2>1, <2>2 DEF SeenFair
<1>14. ChecksFair' /\ HelpersFair'
    BY <1>4, <1>6, <1>8, <1>12 DEF ChecksFair, HelpersFair, Required
<1>15. QED BY <1>13, <1>14

\* A look at the device, or at its counter.
LEMMA FairDevice ==
    ASSUME IInv, FInv, ListNodes \/ OpenNodes \/ SampleBefore \/ SampleAfter
    PROVE  FInv'
<1>1. /\ UNCHANGED <<system, command, root, query, hash, owned, provider, reboot>>
      /\ UNCHANGED <<native, unsafe, verdict, late, faulted>>
      /\ pc \in {"devices", "open", "before", "after"}
      /\ pc' \in {"open", "levelZero", "openvino", "report"}
    BY DEF ListNodes, OpenNodes, SampleBefore, SampleAfter, caches, history
<1>2. FreshInv'
    BY <1>1 DEF FreshInv
<1>3. SUFFICES ASSUME Fair' PROVE SeenFair' /\ ChecksFair' /\ HelpersFair'
    BY <1>2 DEF FInv, FairInv
<1>4. checks \in [Ids -> {"none", "pass", "warn", "fail", "blocked"}]
    BY DEF IInv, TypeOK
<1>5. checks'["platform.profile"] = checks["platform.profile"]
    BY <1>4 DEF ListNodes, OpenNodes, SampleBefore, SampleAfter, Ids
<1>6. Lasting
    BY <1>1, <1>5 DEF Lasting
<1>7. /\ SeenFair /\ ChecksFair /\ HelpersFair /\ NodeFits(system)
      /\ RebootPendingIn(system)' = RebootPendingIn(system)
    BY <1>3, <1>6, FairBefore
<1>8. /\ \A i \in Ids \ {"device.node", "device.access", "runtime.activity"} : checks'[i] = checks[i]
      /\ checks'["device.node"] \notin {"fail", "blocked"}
      /\ pc' = "open" \/ root \/ checks'["device.access"] \notin {"fail", "blocked"}
    <2>1. CASE ListNodes
        BY <1>4, <1>7, <2>1 DEF ListNodes, NodeFits, Ids
    <2>2. CASE OpenNodes
        BY <1>4, <1>7, <2>2 DEF OpenNodes, NodeFits, ChecksFair, Required, Ids
    <2>3. CASE SampleBefore
        BY <1>7, <2>3 DEF SampleBefore, ChecksFair, Required, Ids
    <2>4. CASE SampleAfter
        BY <1>4, <1>7, <2>4 DEF SampleAfter, ChecksFair, Required, Ids
    <2>5. QED BY <2>1, <2>2, <2>3, <2>4
<1>9. ChecksFair'
    BY <1>1, <1>7, <1>8 DEF ChecksFair, Required
<1>10. SeenFair' /\ HelpersFair'
    BY <1>1, <1>7 DEF SeenFair, HelpersFair
<1>11. QED BY <1>9, <1>10

\* A step of a helper: any but towards a pass is a fault.
LEMMA FairHelper ==
    ASSUME IInv, FInv, NEW m \in Helpers, Helper(m)
    PROVE  FInv'
<1> DEFINE g == native[m]
<1>1. /\ UNCHANGED <<command, root, pc, query, hash, owned, provider, checks, reboot>>
      /\ UNCHANGED <<unsafe, verdict, late>> /\ (faulted => faulted')
    BY DEF Helper, Discover, Place, Infer, ReportInference, HelperFails, HelperStep, session
<1>2. FreshInv'
    BY <1>1 DEF FInv, FreshInv
<1>3. SUFFICES ASSUME Fair' PROVE SeenFair' /\ ChecksFair' /\ HelpersFair'
    BY <1>2 DEF FInv, FairInv
<1>4. /\ system'.version = system.version /\ system'.recent = system.recent
      /\ system'.content = system.content /\ system'.owner = system.owner
      /\ system'.node = system.node
    <2>1. UNCHANGED system \/ system' = [system EXCEPT !.busy = @ + 1]
        BY DEF Helper, Discover, Place, Infer, ReportInference, HelperFails
    <2>2. QED BY <2>1 DEF IInv, TypeOK, Systems
<1>5. Lasting
    BY <1>1, <1>4 DEF Lasting
<1>6. /\ SeenFair /\ ChecksFair /\ HelpersFair
      /\ RebootPendingIn(system)' = RebootPendingIn(system)
    BY <1>3, <1>5, FairBefore
<1>7. SeenFair' /\ ChecksFair'
    BY <1>1, <1>6 DEF SeenFair, ChecksFair, Required, ExitsZero
<1>8. native \in [Helpers -> HelperStates] /\ HelperFits(m, g) /\ ~faulted'
    BY <1>3, HelperByState DEF IInv, TypeOK, HelperStates, Fair
<1>9. PICK h : /\ native' = [native EXCEPT ![m] = h] /\ h.device = "match"
               /\ h.said \in {"nothing", "pass"} /\ (h.stage = "reported" => h.said = "pass")
    <2>1. CASE Discover(m)
        <3> DEFINE h == [g EXCEPT
                     !.device = "match",
                     !.stage = IF Infers(m) THEN "discovered" ELSE "reported",
                     !.said = IF Infers(m) THEN @ ELSE "pass"]
        <3>1. PICK d \in {"none", "other", "match"} :
                HelperStep(m, [g EXCEPT
                     !.device = d,
                     !.stage = IF d # "none" /\ Infers(m) THEN "discovered" ELSE "reported",
                     !.said = IF d = "none" THEN "noDevice" ELSE IF Infers(m) THEN @ ELSE "pass"],
                 d # "match")
            BY <2>1 DEF Discover
        <3>2. d = "match"
            BY <1>8, <3>1 DEF HelperStep
        <3>3. native' = [native EXCEPT ![m] = h]
            BY <3>1, <3>2 DEF HelperStep
        <3>4. g.said \in {"nothing", "pass"}
            BY <1>6 DEF HelpersFair
        <3>5. h.device = "match" /\ h.said \in {"nothing", "pass"}
              /\ (h.stage = "reported" => h.said = "pass")
            BY <1>8, <3>4 DEF HelperStates
        <3> HIDE DEF h
        <3>6. QED BY <3>3, <3>5
    <2>2. CASE Place(m)
        <3> DEFINE h == [g EXCEPT !.npuOnly = TRUE, !.stage = "placed"]
        <3>1. PICK only \in BOOLEAN :
                HelperStep(m, [g EXCEPT !.npuOnly = only,
                                   !.stage = IF only THEN "placed" ELSE "reported",
                                   !.said = IF only THEN @ ELSE "later"], ~only)
            BY <2>2 DEF Place
        <3>2. only
            BY <1>8, <3>1 DEF HelperStep
        <3>3. native' = [native EXCEPT ![m] = h]
            BY <1>8, <3>1, <3>2 DEF HelperStep, HelperStates
        <3>4. h.device = "match" /\ h.said \in {"nothing", "pass"} /\ h.stage = "placed"
            BY <1>6, <1>8, <2>2 DEF HelperStates, Place, HelpersFair
        <3> HIDE DEF h
        <3>5. QED BY <3>3, <3>4
    <2>3. CASE Infer(m)
        <3> DEFINE h == [g EXCEPT !.runs = @ + 1]
        <3>1. native' = [native EXCEPT ![m] = h]
            BY <2>3 DEF Infer, HelperStep
        <3>2. h.device = "match" /\ h.said \in {"nothing", "pass"} /\ h.stage = "placed"
            BY <1>6, <1>8, <2>3 DEF HelperStates, Infer, HelpersFair
        <3> HIDE DEF h
        <3>3. QED BY <3>1, <3>2
    <2>4. CASE ReportInference(m)
        <3> DEFINE h == [g EXCEPT !.stage = "reported", !.said = "pass"]
        <3>1. native' = [native EXCEPT ![m] = h]
            BY <2>4 DEF ReportInference, HelperStep
        <3>2. h.device = "match" /\ h.said = "pass"
            BY <1>6, <1>8, <2>4 DEF HelperStates, ReportInference, HelpersFair
        <3> HIDE DEF h
        <3>3. QED BY <3>1, <3>2
    <2>5. CASE HelperFails(m)
        BY <1>8, <2>5 DEF HelperFails, HelperStep
    <2>6. QED BY <2>1, <2>2, <2>3, <2>4, <2>5 DEF Helper
<1>10. HelpersFair'
    BY <1>1, <1>6, <1>8, <1>9 DEF HelpersFair
<1>11. QED BY <1>7, <1>10

\* The helpers are run and their reports are taken.
LEMMA FairRun ==
    ASSUME IInv, FInv, Run
    PROVE  FInv'
<1>1. pc \in {"levelZero", "levelZeroRuns", "openvino", "openvinoRuns"}
      /\ pc' \notin {"select", "query", "files", "activation", "devices", "open", "done"}
    BY DEF Run, Launch, LaunchFails, TakeReport, RefuseReport, LoseHelper, SkipOpenVino, Launched,
           Helpers, Concluded, LevelZeroConcluded, OpenVinoConcluded
<1>2. FreshInv'
    BY <1>1 DEF FreshInv
<1>3. SUFFICES ASSUME Fair' PROVE SeenFair' /\ ChecksFair' /\ HelpersFair'
    BY <1>2 DEF FInv, FairInv
<1>4. ~faulted'
    BY <1>3 DEF Fair
<1>5. \/ \E m \in Helpers : Launch(m) \/ TakeReport(m)
      \/ SkipOpenVino
    BY <1>4 DEF Run, LaunchFails, RefuseReport, LoseHelper, Faulty
<1>6. /\ UNCHANGED <<system, command, root, query, hash, owned, provider, reboot>>
      /\ UNCHANGED <<unsafe, verdict, late>> /\ (faulted => faulted')
    <2>1. CASE SkipOpenVino
        BY <2>1 DEF SkipOpenVino, caches, history
    <2>2. ASSUME NEW m \in Helpers, Launch(m)
          PROVE  /\ UNCHANGED <<system, command, root, query, hash, owned, provider, reboot>>
                 /\ UNCHANGED <<unsafe, verdict, late, faulted>>
        BY <2>2 DEF Launch, caches, history
    <2>3. ASSUME NEW m \in Helpers, TakeReport(m)
          PROVE  /\ UNCHANGED <<system, command, root, query, hash, owned, provider, reboot>>
                 /\ UNCHANGED <<unsafe, verdict, late>> /\ (faulted => faulted')
        BY <2>3 DEF TakeReport, caches
    <2>4. QED BY <1>5, <2>1, <2>2, <2>3
<1>7. checks \in [Ids -> {"none", "pass", "warn", "fail", "blocked"}]
    BY DEF IInv, TypeOK
<1>8. checks'["platform.profile"] = checks["platform.profile"]
    <2>1. checks' = checks \/ \E m \in Helpers : \E said : Concluded(m, said)
        BY <1>5 DEF Launch, TakeReport, SkipOpenVino, Concluded, Helpers
    <2>2. \A m \in Helpers : \A said : Concluded(m, said) =>
            checks'["platform.profile"] = checks["platform.profile"]
        BY <1>7 DEF Concluded, LevelZeroConcluded, OpenVinoConcluded, Ids
    <2>3. QED BY <2>1, <2>2
<1>9. Lasting
    BY <1>6, <1>8 DEF Lasting
<1>10. /\ SeenFair /\ ChecksFair /\ HelpersFair
       /\ RebootPendingIn(system)' = RebootPendingIn(system)
    BY <1>3, <1>9, FairBefore
<1>11. SeenFair'
    BY <1>1, <1>6, <1>10 DEF SeenFair
<1>12. PICK m \in Helpers : Launch(m) \/ TakeReport(m)
    BY <1>5, <1>10 DEF SkipOpenVino, HelpersFair
<1>13. native \in [Helpers -> HelperStates]
    BY DEF IInv, TypeOK, HelperStates
<1>14. CASE Launch(m)
    <2>1. native[m] = Idle
        BY <1>14 DEF Launch, IInv, LaunchInv, HelperInv, Helpers
    <2>2. native' = [native EXCEPT ![m].stage = "started"] /\ checks' = checks
        BY <1>14 DEF Launch
    <2>3. ChecksFair'
        BY <1>1, <1>6, <1>10, <2>2 DEF ChecksFair, Required, ExitsZero
    <2>4. \A k \in Helpers \ {m} : native'[k] = native[k]
        BY <1>13, <2>2
    <2>5. native'[m].stage = "started" /\ native'[m].said = "nothing"
        BY <1>13, <2>1, <2>2 DEF HelperStates, Idle
    <2>6. HelpersFair'
        BY <1>6, <1>10, <2>4, <2>5 DEF HelpersFair
    <2>7. QED BY <1>11, <2>3, <2>6
<1>15. CASE TakeReport(m)
    <2>1. native[m].said = "pass" /\ native[m].device = "match" /\ Concluded(m, "pass")
        BY <1>10, <1>15 DEF TakeReport, HelpersFair
    <2>2. ChecksFair'
        <3>1. CASE m = "levelZero"
            BY <1>1, <1>6, <1>7, <1>10, <2>1, <3>1
               DEF Concluded, LevelZeroConcluded, ChecksFair, Required, Ids
        <3>2. CASE m = "openvino"
            BY <1>1, <1>6, <1>7, <1>10, <2>1, <3>2
               DEF Concluded, OpenVinoConcluded, Discovered, ChecksFair, Required, Ids
        <3>3. QED BY <3>1, <3>2 DEF Helpers
    <2>3. PICK odd \in BOOLEAN : native' = [native EXCEPT ![m].stage = "gone", ![m].odd = odd]
        BY <1>15 DEF TakeReport
    <2> DEFINE h == [native[m] EXCEPT !.stage = "gone", !.odd = odd]
    <2>4. native' = [native EXCEPT ![m] = h]
        BY <1>13, <2>3
    <2>5. h.stage = "gone" /\ h.said = "pass" /\ h.device = "match"
        BY <1>13, <2>1 DEF HelperStates
    <2> HIDE DEF h
    <2>6. HelpersFair'
        BY <1>6, <1>10, <1>13, <2>4, <2>5 DEF HelpersFair
    <2>7. QED BY <1>11, <2>2, <2>6
<1>16. QED BY <1>12, <1>14, <1>15

\* The report of a fair session is one of exit 0.
LEMMA FairReport ==
    ASSUME IInv, FInv, Report
    PROVE  FInv'
<1>1. /\ pc = "report" /\ pc' = "done"
      /\ UNCHANGED <<system, command, root, query, hash, owned, provider, checks, reboot>>
      /\ UNCHANGED <<native, unsafe, late>>
      /\ (verdict' = Verdict /\ faulted' = faulted) \/ faulted' = TRUE
    BY DEF Report, Faulty, caches
<1>2. FreshInv'
    BY <1>1 DEF FreshInv
<1>3. SUFFICES ASSUME Fair' PROVE SeenFair' /\ ChecksFair' /\ HelpersFair'
    BY <1>2 DEF FInv, FairInv
<1>4. Lasting
    BY <1>1 DEF Lasting
<1>5. /\ Fair /\ SeenFair /\ ChecksFair /\ HelpersFair
      /\ RebootPendingIn(system)' = RebootPendingIn(system)
    BY <1>3, <1>4, FairBefore
<1>6. root => command = "status"
    BY <1>5 DEF Fair, HealthyIn
<1>7. \A i \in Ids : Required(i) => checks[i] \notin {"fail", "blocked"}
    BY <1>1, <1>5, <1>6 DEF ChecksFair, Required
<1>8. verdict' = Verdict /\ Verdict \in {"passed", "degraded"}
    <2>1. \A i \in DOMAIN provider : provider[i] # "fail"
        BY <1>5 DEF SeenFair
    <2>2. QED BY <1>1, <1>3, <1>7, <2>1 DEF Fair, Verdict
<1>9. QED BY <1>1, <1>5, <1>8 DEF SeenFair, ChecksFair, HelpersFair, Required, ExitsZero

\* The rest of the system: a healthy one may have become so before the session looks.
LEMMA FairDisturbed ==
    ASSUME IInv, FInv, DisturbEarly \/ DisturbLate
    PROVE  FInv'
<1>1. UNCHANGED <<command, root, pc, query, hash, owned, provider, checks, reboot>>
      /\ UNCHANGED <<native, unsafe, verdict>>
    BY DEF DisturbEarly, DisturbLate, session
<1>2. FreshInv'
    BY <1>1 DEF FInv, FreshInv
<1>3. SUFFICES ASSUME Fair' PROVE SeenFair' /\ ChecksFair' /\ HelpersFair'
    BY <1>2 DEF FInv, FairInv
<1>4. late' = 0 /\ late \in Nat
    BY <1>3 DEF Fair, IInv, TypeOK
<1>5. pc = "query" /\ \A n \in Names : query[n] = Unasked
    BY <1>4 DEF DisturbEarly, DisturbLate, Unobserved
<1>6. /\ provider = <<>> /\ \A f \in Paths : hash[f] = "unread" /\ owned[f] = "unasked"
      /\ \A m \in Helpers : native[m] = Idle
    BY <1>5 DEF IInv, StageInv, LaunchInv, HelperInv, Helpers
<1>7. /\ ~unsafe /\ \A i \in Ids \ {"platform.profile"} : checks[i] = "none"
      /\ checks["platform.profile"] = "pass"
    BY <1>1, <1>3, <1>5 DEF FInv, FreshInv, Fair
<1>8. SeenFair' /\ ChecksFair' /\ HelpersFair'
    BY <1>1, <1>5, <1>6, <1>7 DEF SeenFair, ChecksFair, HelpersFair, Idle, Ids
<1>9. QED BY <1>8

\* The converse's invariant holds at the start, and every step keeps it.
LEMMA FairBegins == Init => FInv
BY DEF Init, FInv, FreshInv, FairInv, Fair, Ids

LEMMA FairKeeps == IInv /\ FInv /\ [Next]_vars => FInv'
<1> SUFFICES ASSUME IInv, FInv, [Next]_vars PROVE FInv'
    OBVIOUS
<1>1. CASE UNCHANGED vars
    <2>1. FreshInv'
        BY <1>1 DEF vars, FInv, FreshInv
    <2>2. Lasting
        BY <1>1 DEF vars, Lasting
    <2>3. ASSUME Fair' PROVE SeenFair' /\ ChecksFair' /\ HelpersFair'
        BY <1>1, <2>2, <2>3, FairBefore
           DEF vars, SeenFair, ChecksFair, HelpersFair, Required, ExitsZero
    <2>4. QED BY <2>1, <2>3 DEF FInv, FairInv
<1>2. CASE Refuse \/ SelectProfile \/ CollectCandidate
    BY <1>2, FairSelection
<1>3. CASE Inspect
    BY <1>3, FairQuery, FairFile, FairJudge, FairInspected DEF Inspect
<1>4. CASE ListNodes \/ OpenNodes \/ SampleBefore \/ SampleAfter
    BY <1>4, FairDevice
<1>5. CASE Run
    BY <1>5, FairRun
<1>6. CASE Report
    BY <1>6, FairReport
<1>7. CASE \E m \in Helpers : Helper(m)
    BY <1>7, FairHelper
<1>8. CASE DisturbEarly \/ DisturbLate
    BY <1>8, FairDisturbed
<1>9. QED BY <1>1, <1>2, <1>3, <1>4, <1>5, <1>6, <1>7, <1>8 DEF Next, Session, Finished

\* A session over a healthy system that stays as it is, in which nothing fails, exits 0 and
\* tells exactly whether a reboot is pending (evaluate_activation, finalize).
THEOREM HealthyGetsZero == Spec => []HealthyExitsZero
<1>1. IInv /\ FInv => HealthyExitsZero
    BY DEF FInv, FairInv, Fair, SeenFair, ChecksFair, HealthyExitsZero
<1>2. Init => FInv
    BY FairBegins
<1>3. IInv /\ FInv /\ [Next]_vars => FInv'
    BY FairKeeps
<1>4. QED BY <1>1, <1>2, <1>3, Invariant, PTL DEF Spec
=============================================================================
