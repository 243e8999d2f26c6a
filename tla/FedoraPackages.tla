--------------------------- MODULE FedoraPackages ---------------------------
(***************************************************************************)
(* What xtask asks of the RPMs of a candidate: the profile generator       *)
(* (fedora_profile.rs) and two gates, for the driver and firmware pair     *)
(* (fedora_package.rs) and for OpenVINO (fedora_openvino_package.rs).      *)
(*                                                                         *)
(* Each looks at a file many times, with one rpm or readelf process for    *)
(* every question; nothing makes the answers come from the same bytes.     *)
(* A file is a build of its package and the one flaw that build may have.  *)
(* oneapi-level-zero and intel-npu-compiler are as openvino to the         *)
(* generator, and as its plugins to the gate: they are left out.           *)
(***************************************************************************)
EXTENDS Naturals, Sequences

CONSTANTS
    None,      \* no value, and no flaw
    Meta,      \* the metapackage intel-npu-stack
    Tools,     \* intel-npu-stack-tools
    Driver,    \* intel-npu-driver
    Blob,      \* intel-npu-stack-firmware
    Runtime,   \* openvino, whose licence file serves its family
    Family,    \* that family in the order of its names, Runtime among them
    Builds     \* bound: how often a package was built

Shared == {Family[i] : i \in DOMAIN Family} \ {Runtime}
Directory == <<Meta, Tools, Driver, Blob>> \o Family
Packages == {Directory[i] : i \in DOMAIN Directory}
Providers == Packages \ {Meta, Tools}   \* what the profile's components come from

\* What can be wrong with a package, whoever looks.
FlawsOf(p) ==
    {"irregular", "identity", "licenceTag", "scripts", "shortCircuit", "unsafePath", "source", "loose"}
    \cup (IF p = Meta THEN {"owns"} ELSE {"overlap", "payload"})
    \cup (IF p # Blob THEN {"relation"} ELSE {"provide"})
    \cup (IF p \in {Tools, Driver, Blob, Runtime} THEN {"licence"} ELSE {})
    \cup (IF p \in {Driver, Blob} THEN {"stray"} ELSE {})
    \cup (IF p \in {Tools, Blob} THEN {"mode"} ELSE {})
    \cup (IF p \in Providers THEN {"crowded"} ELSE {})
    \cup (IF p \in Shared \cup {Runtime} THEN {"elf", "soname", "closure"} ELSE {})

RpmFiles(p) == [build : 1 .. Builds, flaw : FlawsOf(p) \cup {None}]
Fresh == [build |-> 1, flaw |-> None]

\* The packages have different names, and a value is no flaw, file or revision if it is none.
ASSUME PackageConstants ==
    /\ Family \in Seq(Shared \cup {Runtime}) /\ Runtime \in {Family[i] : i \in DOMAIN Family}
    /\ \A i, j \in DOMAIN Directory : Directory[i] = Directory[j] => i = j
    /\ Builds \in Nat \ {0}
    /\ \A p \in Packages : None \notin FlawsOf(p) \cup RpmFiles(p)

\* An agenda is a sequence of <<question, subject>>: all questions on one package, then
\* on the next.
AskAll(questions, ps) ==
    [k \in 1 .. Len(ps) * Len(questions) |->
        <<questions[((k - 1) % Len(questions)) + 1], ps[((k - 1) \div Len(questions)) + 1]>>]

-----------------------------------------------------------------------------
(* What each tool is there to find, as their documentation says.           *)

FoundByPair(p) ==
    {"irregular", "identity", "scripts", "relation", "provide", "licence", "payload", "stray", "overlap"}
    \cup (IF p = Blob THEN {"mode", "unsafePath"} ELSE {})

FoundByFamily(p) ==
    {"irregular", "identity", "scripts", "relation", "payload", "overlap", "unsafePath",
     "elf", "soname", "closure"} \cup (IF p = Runtime THEN {"licence"} ELSE {})

\* A missing relation of the runtime, the driver or the firmware is for the gates.
FoundByGenerator(p) ==
    {"irregular", "identity", "licenceTag", "scripts", "shortCircuit", "unsafePath", "source",
     "loose", "owns", "overlap", "payload", "licence", "crowded"}
    \cup (IF p \in Shared \cup {Meta, Tools} THEN {"relation"} ELSE {})
    \cup (IF p = Tools THEN {"mode"} ELSE {})

\* Whatever is wrong with a package, one of the tools is there to find it.
ASSUME NothingIsOverlooked ==
    \A p \in Packages : FlawsOf(p) \subseteq FoundByGenerator(p)
        \cup (IF p \in {Driver, Blob} THEN FoundByPair(p) ELSE {})
        \cup (IF p \in Shared \cup {Runtime} THEN FoundByFamily(p) ELSE {})

-----------------------------------------------------------------------------
(* The generator: inspect() of one RPM after the other.                    *)

InspectAgenda ==
    AskAll(<<"file", "digest", "identity", "scripts", "requirements", "files", "source", "again">>,
           Directory)

Expected(f) == f.flaw # "identity"
ReviewedLicence(f) == f.flaw # "licenceTag"
FullBuild(f) == f.flaw # "shortCircuit"
SafeFiles(f) == f.flaw \notin {"unsafePath", "owns"}

NotRehashed(f, first) == TRUE \* mutant: the RPM is hashed before its queries only

Unchanged(f, first) == f = first

\* Whether inspect() goes on when f answers the question; `answers' are earlier ones.
Inspects(question, f, answers) ==
    CASE question = "file" -> f.flaw # "irregular"
      [] question = "identity" -> Expected(f) /\ ReviewedLicence(f)
      [] question = "scripts" -> f.flaw # "scripts"
      [] question = "requirements" -> FullBuild(f)
      [] question = "files" -> SafeFiles(f)
      [] question = "source" -> f.flaw # "source"
      [] question = "again" -> Unchanged(f, answers["digest"])
      [] OTHER -> TRUE

-----------------------------------------------------------------------------
(* The generator: the set.  seen[p] is what answered each question on p.   *)

NoOverlap(seen) == \A p \in Packages : seen[p]["files"].flaw # "overlap"

\* Only openvino's family does without a licence file of its own.
OwnsLicence(seen, p) == p \notin Shared /\ seen[p]["files"].flaw # "licence"
Requires(seen, p) == seen[p]["requirements"].flaw # "relation"

\* license_provider: its own licence file, or openvino's when openvino is required exactly.
Licensed(seen, p) ==
    \/ OwnsLicence(seen, p)
    \/ p \in Shared /\ OwnsLicence(seen, Runtime) /\ Requires(seen, p)

RequiredPayload(seen, p) == seen[p]["files"].flaw # "payload"

InternalPinned(seen, p) == seen[p]["requirements"].flaw # "loose"

ExactProviders(seen) == Requires(seen, Meta) /\ Requires(seen, Tools)

ExecutableModes(seen) == seen[Tools]["files"].flaw # "mode"

CompleteSet(seen) ==
    /\ NoOverlap(seen)
    /\ \A p \in Packages \ {Meta} : Licensed(seen, p)
    /\ \A p \in Packages : RequiredPayload(seen, p) /\ InternalPinned(seen, p)
    /\ ExactProviders(seen)
    /\ ExecutableModes(seen)

-----------------------------------------------------------------------------
(* The gate for the driver and firmware pair: every answer is judged alone.*)

PairAgenda ==
    << <<"file", Driver>>, <<"file", Blob>>, <<"identity", Driver>>, <<"identity", Blob>>,
       <<"requirements", Driver>>, <<"provides", Blob>>, <<"scripts", Driver>>,
       <<"scripts", Blob>>, <<"files", Driver>>, <<"files", Blob>> >>

\* The driver's library, documentation, licences and build ids, and nothing else.
DriverFiles(f) == f.flaw \notin {"stray", "overlap", "payload", "licence"}

\* The firmware and its notices, nothing else, with the locked digest and mode.
FirmwareFiles(f) == f.flaw \notin {"stray", "unsafePath", "overlap", "payload", "licence", "mode"}

ExactRelation(f) == f.flaw \notin {"relation", "provide"}

RegularRpm(f) == f.flaw # "irregular"
Identified(f) == f.flaw # "identity"
Scriptless(f) == f.flaw # "scripts"

PairAccepts(question, p, f) ==
    CASE question = "file" -> RegularRpm(f)
      [] question = "identity" -> Identified(f)
      [] question \in {"requirements", "provides"} -> ExactRelation(f)
      [] question = "scripts" -> Scriptless(f)
      [] OTHER -> IF p = Driver THEN DriverFiles(f) ELSE FirmwareFiles(f)

-----------------------------------------------------------------------------
(* The gate for OpenVINO: every RPM, the set, then the extracted payload.  *)

FamilyAgenda ==
    AskAll(<<"file", "identity", "requirements", "files", "scripts">>, Family)
    \o << <<"set", Runtime>> >>
    \o AskAll(<<"payload", "elf">>, Family)

FamilyRelations(seen) == \A i \in DOMAIN Family : Requires(seen, Family[i])

\* The Fedora prefix, no file of two packages, the runtime's licence.
FamilyOwnership(seen) ==
    /\ \A i \in DOMAIN Family : seen[Family[i]]["files"].flaw \notin {"unsafePath", "overlap"}
    /\ OwnsLicence(seen, Runtime)

FamilySet(seen) ==
    /\ \A i \in DOMAIN Family : Identified(seen[Family[i]]["identity"])
    /\ FamilyRelations(seen)
    /\ FamilyOwnership(seen)

PayloadListed(f, rpm) == rpm.flaw # "payload" \* mutant: the payload's digest is not compared

\* An extracted library is one the RPM lists, with the digest it lists.
PayloadIsOfRpm(f, rpm) == rpm.flaw # "payload" /\ f = rpm

\* Class, machine, type, paths, SONAME, and the closure over the set's libraries.
GoodElf(f) == f.flaw \notin {"elf", "soname", "closure"}

FamilyAccepts(question, p, f, seen) ==
    CASE question = "file" -> RegularRpm(f)
      [] question = "scripts" -> Scriptless(f)
      [] question = "set" -> FamilySet(seen)
      [] question = "payload" -> PayloadIsOfRpm(f, seen[p]["files"])
      [] question = "elf" -> GoodElf(f)
      [] OTHER -> TRUE
=============================================================================
