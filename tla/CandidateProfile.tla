-------------------------- MODULE CandidateProfile --------------------------
(***************************************************************************)
(* The way of a candidate profile from a directory of RPMs to a file whose *)
(* digest a maintainer pins: the package gates, generate-fedora-profile,   *)
(* retarget-candidate and validate-profiles of xtask, one run at a time.   *)
(*                                                                         *)
(* While a tool runs, others rebuild RPMs, edit the source lock and write  *)
(* or remove profile files (another generator among them); the tool may    *)
(* fail or be killed at any step.  Files stand for their own digests.      *)
(* A file changes, if at all, just before the tool looks at it next: an    *)
(* earlier change is seen no differently.                                  *)
(***************************************************************************)
EXTENDS FedoraPackages, FiniteSets

CONSTANTS
    Shelf,     \* paths for profile files, in the order of their names
    Releases,  \* kernel releases 0 .. n: the window of one ends with the next
    Target,    \* the release the generator aims a profile at
    MaxEdits,  \* bound: what others change, a flaw in the first directory included
    MaxRuns    \* bound: runs of generator, retarget and validator

Spots == {Shelf[i] : i \in DOMAIN Shelf}

VARIABLES
    rpms,      \* package -> the file in the directory, or None
    extracted, \* OpenVINO package -> what the payload root holds of it, or None
    lock,      \* the source lock: a valid revision, or None
    shelf,     \* path -> the profile file there, or None
    tool,      \* the running or last tool
    receipts,  \* the records tools printed: what was read, what was written
    edits,     \* what others changed so far
    runs       \* how many runs were started

world == <<rpms, extracted, lock, shelf>>
candidateVars == <<rpms, extracted, lock, shelf, tool, receipts, edits, runs>>

\* A profile file.  What is wrong with it is its defect; "format" is valid TOML
\* that retarget cannot edit, "truncated" a file that was not written whole.
Defects == {"toml", "truncated", "schema", "limit", "field", "pci", "conflict", "component",
            "provider", "format"}
Profiled == [p \in Providers |-> Fresh]
Texts ==
    [defect : Defects \cup {None}, link : BOOLEAN, id : {"generated", "retargeted"},
     status : {"candidate", "experimental", "qualified"}, evidence : {"absent", "bad", "complete"},
     min : Releases, max : Releases,
     bound : [Providers -> [build : 1 .. Builds, flaw : (UNION {FlawsOf(p) : p \in Providers}) \cup {None}]],
     sources : 1 .. 2, lock : 1 .. 2]

Questions == {"file", "digest", "identity", "scripts", "requirements", "provides", "files", "source", "again"}

ASSUME CandidateConstants ==
    /\ Shelf \in Seq(Spots) /\ Shelf # <<>>
    /\ \A i, j \in DOMAIN Shelf : Shelf[i] = Shelf[j] => i = j
    /\ Releases \subseteq Nat /\ Target \in Releases /\ Target + 1 \in Releases
    /\ MaxEdits \in Nat \ {0} /\ MaxRuns \in Nat \ {0}
    /\ None \notin Defects \cup Texts \cup {1, 2}

Nothing == <<>> \* no function's value is known, none needed
NoAnswers == [p \in Packages |-> [q \in Questions |-> None]]

NoTool ==
    [name |-> "none", todo |-> <<>>, outcome |-> "none", quiet |-> TRUE, seen |-> Nothing,
     swaps |-> Nothing, sources |-> None, lock |-> None, from |-> None, text |-> None, to |-> None,
     id |-> None, release |-> None, ids |-> {}, invalid |-> FALSE]

Running == tool.todo # <<>>
Question == Head(tool.todo)[1]
Subject == Head(tool.todo)[2]
Asked(question) == Running /\ Question = question

CandidateTypeOK ==
    /\ rpms = Nothing \/ \A p \in Packages : rpms[p] = None \/ rpms[p] \in RpmFiles(p)
    /\ extracted = Nothing \/ \A p \in Shared \cup {Runtime} : extracted[p] = None \/ extracted[p] \in RpmFiles(p)
    /\ lock \in {None, 1, 2}
    /\ shelf = Nothing \/ \A s \in Spots : shelf[s] = None \/ shelf[s] \in Texts
    /\ tool.name \in {"none", "generate", "pair", "family", "retarget", "validate"}
    /\ tool.outcome \in {"none", "accepted", "refused"}
    /\ tool.text = None \/ tool.text \in Texts
    /\ \A r \in receipts : r.text \in Texts /\ (r.from = None \/ r.from \in Texts)
    /\ edits \in 0 .. MaxEdits /\ runs \in 0 .. MaxRuns

\* Any one package of the directory may have any one flaw, or the payload root hold
\* another build of one; else it holds what was extracted from the directory.
CandidateInit ==
    /\ rpms \in UNION {{[p \in Packages |-> IF p = q THEN f ELSE Fresh] : f \in RpmFiles(q)} : q \in Packages}
    /\ \A p \in Packages : rpms[p].build = 1
    /\ \/ extracted = [p \in Shared \cup {Runtime} |-> rpms[p]]
       \/ /\ \A p \in Packages : rpms[p] = Fresh
          /\ \E q \in Shared \cup {Runtime} :
               extracted = [p \in Shared \cup {Runtime} |-> IF p = q THEN [Fresh EXCEPT !.build = Builds] ELSE Fresh]
    /\ edits = IF /\ \A p \in Packages : rpms[p] = Fresh
                  /\ \A p \in Shared \cup {Runtime} : extracted[p] = Fresh
               THEN 0 ELSE 1
    /\ lock = 1
    /\ shelf = [s \in Spots |-> None]
    /\ tool = NoTool
    /\ receipts = {} /\ runs = 0

-----------------------------------------------------------------------------
(* Profile::parse_toml.                                                    *)

WellFormed(t) == t.defect \notin {"toml", "truncated"}
SchemaSupported(t) == t.defect # "schema"
WithinLimits(t) == t.defect # "limit"
FieldsFilled(t) == t.defect # "field"
ConflictsSorted(t) == t.defect # "conflict"
PciIdsNormal(t) == t.defect # "pci"
RangeOrdered(t) == t.min < t.max
ComponentsComplete(t) == t.defect # "component"
ProvidersExact(t) == t.defect # "provider"
EvidenceComplete(t) == t.status = "qualified" => t.evidence = "complete"

ValidProfile(t) ==
    /\ WellFormed(t) /\ SchemaSupported(t) /\ WithinLimits(t) /\ FieldsFilled(t)
    /\ ConflictsSorted(t) /\ PciIdsNormal(t) /\ RangeOrdered(t)
    /\ ComponentsComplete(t) /\ ProvidersExact(t) /\ EvidenceComplete(t)

\* What retarget and collect take.
Unqualified(t) == t.status = "candidate" /\ t.evidence = "absent"

-----------------------------------------------------------------------------
(* Running a tool.                                                         *)

Started(name, todo) ==
    [NoTool EXCEPT !.name = name, !.todo = todo, !.seen = NoAnswers, !.swaps = [p \in Packages |-> 0]]
Proceed(t) == tool' = [t EXCEPT !.todo = Tail(@)]
Ends(outcome) ==
    tool' = [NoTool EXCEPT !.name = tool.name, !.to = tool.to, !.outcome = outcome, !.quiet = tool.quiet]
Refuses == Ends("refused")
ToolOnly == UNCHANGED <<world, receipts, edits, runs>>

\* An error of the system, or the end of the process, at any step.
Trouble ==
    /\ Running
    /\ tool' = [NoTool EXCEPT !.name = tool.name, !.to = tool.to, !.outcome = "refused", !.quiet = FALSE]
    /\ ToolOnly

Accepts(p, f) ==
    CASE tool.name = "generate" -> Inspects(Question, f, tool.seen[p])
      [] tool.name = "pair" -> PairAccepts(Question, p, f)
      [] OTHER -> FamilyAccepts(Question, p, f, tool.seen)

\* One look of rpm, readelf or the hash at a file.
Look ==
    /\ Running /\ Question \in Questions \cup {"payload", "elf"}
    /\ LET p == Subject
           f == IF Question \in {"payload", "elf"} THEN extracted[p] ELSE rpms[p]
       IN IF f = None \/ ~Accepts(p, f) THEN Refuses
          ELSE IF Tail(tool.todo) = <<>> THEN Ends("accepted")
          ELSE Proceed(IF Question \in Questions THEN [tool EXCEPT !.seen[p][Question] = f] ELSE tool)
    /\ ToolOnly

\* What is as it may be at first: after a change between two runs the second run
\* would find what it finds after one just before it looks, or from a first directory.
FirstFiles ==
    /\ \A p \in Packages : rpms[p] # None /\ rpms[p].build = 1
    /\ \A p \in Shared \cup {Runtime} : extracted[p] # None /\ extracted[p].flaw = rpms[p].flaw
    /\ lock = 1 /\ \A s \in Spots : shelf[s] = None

Untouched == ~Running /\ runs = 0 /\ rpms # Nothing /\ FirstFiles

StartPair == Untouched /\ tool' = Started("pair", PairAgenda) /\ ToolOnly
StartFamily == Untouched /\ tool' = Started("family", FamilyAgenda) /\ ToolOnly

JudgeFamily ==
    /\ Asked("set") /\ tool.name = "family"
    /\ IF FamilySet(tool.seen) THEN Proceed(tool) ELSE Refuses
    /\ ToolOnly

-----------------------------------------------------------------------------
(* generate-fedora-profile.                                                *)

GenerateAgenda(to) ==
    << <<"output", to>>, <<"lock", to>>, <<"lockDigest", to>>, <<"entries", to>> >>
    \o InspectAgenda \o << <<"set", to>>, <<"publish", to>>, <<"sync", to>> >>

StartGenerate(to) ==
    /\ Untouched
    /\ tool' = [Started("generate", GenerateAgenda(to)) EXCEPT !.to = to]
    /\ runs' = runs + 1
    /\ UNCHANGED <<world, receipts, edits>>

OutputIsFree ==
    /\ Asked("output")
    /\ IF shelf[Subject] = None THEN Proceed(tool) ELSE Refuses
    /\ ToolOnly

\* The lock is validated, and then read once more for its digest.
ReadLock ==
    /\ Running /\ Question \in {"lock", "lockDigest"}
    /\ IF lock = None THEN Refuses
       ELSE Proceed(IF Question = "lock" THEN [tool EXCEPT !.sources = lock] ELSE [tool EXCEPT !.lock = lock])
    /\ ToolOnly

ListEntries ==
    /\ Asked("entries")
    /\ IF \A p \in Packages : rpms[p] # None THEN Proceed(tool) ELSE Refuses
    /\ ToolOnly

\* The components are bound to the digests; a provider has sixteen files at most.
GeneratedText ==
    [defect |-> IF \E p \in Providers : tool.seen[p]["files"].flaw = "crowded" THEN "provider" ELSE None,
     link |-> FALSE, id |-> "generated", status |-> "candidate", evidence |-> "absent",
     min |-> Target, max |-> Target + 1,
     bound |-> [p \in Providers |-> tool.seen[p]["digest"]],
     sources |-> tool.sources, lock |-> tool.lock]

JudgeSet ==
    /\ Asked("set") /\ tool.name = "generate"
    /\ IF CompleteSet(tool.seen) /\ ValidProfile(GeneratedText)
       THEN Proceed([tool EXCEPT !.text = GeneratedText]) ELSE Refuses
    /\ ToolOnly

PersistClobber(to, text) == shelf' = [shelf EXCEPT ![to] = text] \* mutant: persist replaces what is there

\* persist_noclobber: the draft appears whole, or not at all.
Persist(to, text) == shelf[to] = None /\ shelf' = [shelf EXCEPT ![to] = text]

Publish ==
    /\ Asked("publish")
    /\ \/ Persist(Subject, tool.text) /\ Proceed(tool)
       \/ shelf[Subject] # None /\ Refuses /\ UNCHANGED shelf
    /\ UNCHANGED <<rpms, extracted, lock, receipts, edits, runs>>

\* The file (or its directory) is synced and the record printed.
PrintRecord ==
    /\ Asked("sync")
    /\ receipts' = receipts \cup {[from |-> tool.from, text |-> tool.text]}
    /\ Ends("accepted")
    /\ UNCHANGED <<world, edits, runs>>

-----------------------------------------------------------------------------
(* retarget-candidate.                                                     *)

\* Nothing reads the RPMs any more: they are forgotten.
ForgetRpms ==
    /\ rpms' = Nothing /\ extracted' = Nothing
    /\ UNCHANGED <<lock, shelf>>

StartRetarget(from, to, id, release) ==
    /\ ~Running /\ runs < MaxRuns /\ from # to
    /\ tool' = [NoTool EXCEPT !.name = "retarget", !.id = id, !.release = release,
                              !.todo = << <<"read", from>>, <<"create", to>>, <<"write", to>>, <<"sync", to>> >>]
    /\ runs' = runs + 1
    /\ ForgetRpms /\ UNCHANGED <<receipts, edits>>

RegularFile(t) == t # None /\ ~t.link

Retargetable(t) == RegularFile(t) /\ ValidProfile(t) /\ Unqualified(t)

Wraps(release) == TRUE \* mutant: the patch level is incremented unchecked

Fits(release) == release + 1 \in Releases

\* Another identity, a release whose window does not overflow, lines as expected.
Retarget ==
    /\ Asked("read")
    /\ LET t == shelf[Subject]
       IN IF Retargetable(t) /\ tool.id # t.id /\ Fits(tool.release) /\ t.defect # "format"
          THEN Proceed([tool EXCEPT !.from = t,
                                    !.text = [t EXCEPT !.id = tool.id, !.min = tool.release,
                                                       !.max = tool.release + 1]])
          ELSE Refuses
    /\ ToolOnly

\* create_new: an empty file first.
Unwritten == [tool.text EXCEPT !.defect = "truncated"]

CreateOutput ==
    /\ Asked("create")
    /\ \/ Persist(Subject, Unwritten) /\ Proceed(tool)
       \/ shelf[Subject] # None /\ Refuses /\ UNCHANGED shelf
    /\ UNCHANGED <<rpms, extracted, lock, receipts, edits, runs>>

\* What is written goes to the file created, even if another has its name by now.
WriteOutput ==
    /\ Asked("write")
    /\ shelf' = IF shelf[Subject] = Unwritten THEN [shelf EXCEPT ![Subject] = tool.text] ELSE shelf
    /\ Proceed(tool)
    /\ UNCHANGED <<rpms, extracted, lock, receipts, edits, runs>>

-----------------------------------------------------------------------------
(* validate-profiles.                                                      *)

StartValidate ==
    /\ ~Running /\ runs < MaxRuns
    /\ tool' = [NoTool EXCEPT !.name = "validate", !.todo = << <<"list", None>>, <<"verdict", None>> >>]
    /\ runs' = runs + 1
    /\ ForgetRpms /\ UNCHANGED <<receipts, edits>>

\* Links are rejected from the listing; files are read in the order of their names.
IsListing(at) ==
    /\ \A i, j \in DOMAIN at : i < j => at[i] < at[j]
    /\ {Shelf[at[i]] : i \in DOMAIN at} = {s \in Spots : RegularFile(shelf[s])}

ListProfiles ==
    /\ Asked("list")
    /\ \E n \in 0 .. Len(Shelf) : \E at \in [1 .. n -> DOMAIN Shelf] :
         /\ IsListing(at)
         /\ tool' = [tool EXCEPT !.todo = [i \in 1 .. n |-> <<"profile", Shelf[at[i]]>>] \o Tail(@),
                                 !.invalid = \E s \in Spots : shelf[s] # None /\ shelf[s].link]
    /\ ToolOnly

SeenId(id) == FALSE \* mutant: no check of duplicate ids

RepeatedId(id) == id \in tool.ids

\* An invalid profile's id is not taken; a file that is gone ends the run.
ReadProfile ==
    /\ Asked("profile")
    /\ LET t == shelf[Subject]
       IN IF t = None THEN Refuses
          ELSE IF ValidProfile(t) /\ ~RepeatedId(t.id) THEN Proceed([tool EXCEPT !.ids = @ \cup {t.id}])
          ELSE Proceed([tool EXCEPT !.invalid = TRUE])
    /\ ToolOnly

ConcludeValidation ==
    /\ Asked("verdict")
    /\ Ends(IF tool.invalid THEN "refused" ELSE "accepted")
    /\ ToolOnly

-----------------------------------------------------------------------------
(* The others.                                                             *)

Meddles == edits < MaxEdits /\ edits' = edits + 1 /\ UNCHANGED <<receipts, runs>>
Disturbed == tool' = [tool EXCEPT !.quiet = FALSE]

\* The RPM is built again, with any flaw, taken away or put back; one package at
\* a time is another than the flawless first build.
Rebuild(p) ==
    /\ Running /\ Question \in Questions /\ Subject = p
    /\ \A q \in Packages \ {p} : rpms[q] = Fresh
    /\ Meddles
    /\ \E f \in IF rpms[p] = Fresh THEN {None} \cup {g \in RpmFiles(p) : g.build > 1} ELSE {None, Fresh} :
         f # rpms[p] /\ rpms' = [rpms EXCEPT ![p] = f]
    /\ tool' = [tool EXCEPT !.swaps[p] = @ + 1, !.quiet = FALSE]
    /\ UNCHANGED <<extracted, lock, shelf>>

\* The payload of some build, or nothing; of its flaws only those of the libraries matter.
ReExtract(p) ==
    /\ Running /\ Question \in {"payload", "elf"} /\ Subject = p
    /\ Meddles
    /\ \E f \in IF extracted[p] = rpms[p]
              THEN {None} \cup {g \in RpmFiles(p) : GoodElf(g) => g.flaw = None} ELSE {None, rpms[p]} :
         f # extracted[p] /\ extracted' = [extracted EXCEPT ![p] = f]
    /\ Disturbed
    /\ UNCHANGED <<rpms, lock, shelf>>

EditLock ==
    /\ Running /\ Question \in {"lock", "lockDigest"}
    /\ Meddles
    /\ \E l \in {None, 1, 2} \ {lock} : lock' = l
    /\ Disturbed
    /\ UNCHANGED <<rpms, extracted, shelf>>

\* Another generator's profile, from other RPMs.
Foreign ==
    [defect |-> None, link |-> FALSE, id |-> "generated", status |-> "candidate", evidence |-> "absent",
     min |-> Target, max |-> Target + 1, bound |-> [p \in Providers |-> [build |-> Builds, flaw |-> None]],
     sources |-> 1, lock |-> 1]

\* A file is removed, broken, promoted, bound to other RPMs or replaced by a link.
Edited(t) ==
    {None, [t EXCEPT !.link = TRUE], [t EXCEPT !.bound = Foreign.bound],
     [t EXCEPT !.status = "experimental"], [t EXCEPT !.max = t.min]}
    \cup {[t EXCEPT !.status = "qualified", !.evidence = e] : e \in {"absent", "bad", "complete"}}
    \cup {[t EXCEPT !.defect = d] : d \in Defects}

EditProfile(s) ==
    /\ Running => \/ Question = "list"
                  \/ Question \in {"output", "publish", "read", "create", "write", "profile"} /\ Subject = s
    /\ Meddles
    /\ \E t \in IF shelf[s] = None THEN {Foreign} \cup {shelf[r] : r \in Spots} ELSE Edited(shelf[s]) :
         t # shelf[s] /\ shelf' = [shelf EXCEPT ![s] = t]
    /\ Disturbed
    /\ UNCHANGED <<rpms, extracted, lock>>

Others ==
    \/ \E p \in Packages : Rebuild(p)
    \/ \E p \in Shared \cup {Runtime} : ReExtract(p)
    \/ EditLock
    \/ \E s \in Spots : EditProfile(s)

-----------------------------------------------------------------------------

Tool ==
    \/ Look \/ JudgeFamily
    \/ OutputIsFree \/ ReadLock \/ ListEntries \/ JudgeSet \/ Publish \/ PrintRecord
    \/ Retarget \/ CreateOutput \/ WriteOutput
    \/ ListProfiles \/ ReadProfile \/ ConcludeValidation
    \/ Trouble

Begin ==
    \/ StartPair \/ StartFamily \/ StartValidate
    \/ StartGenerate(Shelf[1])
    \/ \E from, to \in Spots, id \in {"generated", "retargeted"}, release \in Releases :
         StartRetarget(from, to, id, release)

CandidateNext == Begin \/ Tool \/ Others

-----------------------------------------------------------------------------
(* Properties.                                                             *)

\* The re-hash of inspect() does what it is for: unless an RPM was changed more
\* than once meanwhile, what the generator publishes is bound to files each of
\* which gave all the answers, and which have nothing wrong that the generator
\* is there to find.
PublishedIsSound ==
    tool.name = "generate" /\ Asked("sync") =>
        \A p \in Packages :
            LET f == tool.seen[p]["digest"]
            IN tool.swaps[p] <= 1 =>
                /\ \A q \in Questions \ {"file"} : tool.seen[p][q] \in {None, f}
                /\ f.flaw \notin FoundByGenerator(p) \ {"irregular"}

\* A tool that nothing disturbs accepts the packages exactly if nothing is wrong
\* with them that it is there to find: fedora_package.rs, fedora_openvino_package.rs
\* and fedora_profile.rs neither overlook such a flaw nor refuse a good set.
GatesAreExact ==
    LET Fine(looked, found(_)) == \A p \in looked : rpms[p] # None /\ rpms[p].flaw \notin found(p)
        accepted == tool.outcome = "accepted"
    IN tool.outcome # "none" /\ tool.quiet =>
        CASE tool.name = "pair" -> accepted <=> Fine({Driver, Blob}, FoundByPair)
          [] tool.name = "family" -> accepted <=> /\ Fine(Shared \cup {Runtime}, FoundByFamily)
                                                  /\ \A p \in Shared \cup {Runtime} : extracted[p] = rpms[p]
          [] tool.name = "generate" -> IF accepted THEN Fine(Packages, FoundByGenerator)
                                       ELSE \/ ~Fine(Packages, FoundByGenerator)
                                            \/ lock = None \/ shelf[tool.to] # None
          [] OTHER -> TRUE

\* No tool changes or removes a profile file that it did not make itself, not even
\* one that appeared after it looked: persist_noclobber and create_new.
OutputsAreKept ==
    [][edits' = edits /\ tool' # NoTool =>
         \A s \in Spots : \/ shelf[s] \in {None, shelf'[s]}
                          \/ Asked("write") /\ Subject = s /\ shelf[s] = Unwritten]_candidateVars

\* validate-profiles, undisturbed, passes a directory exactly if it holds no link,
\* no broken, unfinished or unproven profile and no id twice, whatever tools and
\* people did to it before.
ValidatorIsExact ==
    LET There == {s \in Spots : shelf[s] # None}
        Sound(t) == /\ ~t.link /\ t.defect \in {None, "format"} /\ t.min < t.max
                    /\ t.status = "qualified" => t.evidence = "complete"
    IN tool.name = "validate" /\ tool.outcome # "none" /\ tool.quiet =>
         (tool.outcome = "accepted" <=> /\ \A s \in There : Sound(shelf[s])
                                        /\ \A r, s \in There : r # s => shelf[r].id # shelf[s].id)
=============================================================================
