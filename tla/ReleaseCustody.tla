--------------------------- MODULE ReleaseCustody ---------------------------
(***************************************************************************)
(* The chain of custody of one release run, from the dispatched inputs to  *)
(* the published release (.github/workflows/release.yml, preflight to      *)
(* publish-release, and the scripts its steps call).                       *)
(*                                                                         *)
(* A job downloads what earlier jobs uploaded, works on a fresh runner and *)
(* seals what it made as an artifact whose digest is its output.  Two jobs *)
(* hold the signing key, each between its import and its destroy step.     *)
(* Steps are refused or killed, runners are lost, downloads are damaged,   *)
(* people re-run jobs and delete artifacts; every signature is new bytes.  *)
(*                                                                         *)
(* A file is a record of what it was made from, and equal records are      *)
(* equal bytes.  `flaw' is the one thing wrong with what was dispatched.   *)
(***************************************************************************)
EXTENDS Naturals

CONSTANTS
    None,           \* no value, and no flaw
    Flaws,          \* what can be wrong with a dispatched release, of KnownFlaws
    Sizes,          \* bytes an unsigned site may take
    Budget,         \* SITE_BUDGET_BYTES
    SignatureLimit, \* MAX_SIGNATURE_BYTES
    SignatureSizes, \* bytes gpg may produce for one signature
    SumsBytes,      \* bytes of SHA256SUMS
    MaxFailures,    \* bound: steps killed and runners lost
    MaxDamage,      \* bound: damaged downloads
    MaxReruns,      \* bound: re-runs of the workflow run
    MaxDeletes      \* bound: artifacts deleted by hand or expired

KnownFlaws ==
    {"dispatch", "archive", "inputs", "profile", "key", "package", "binding", "evidence", "drift",
     "literals", "notes", "install", "lax", "repository"}

ASSUME CustodyConstants ==
    /\ None \notin KnownFlaws /\ Flaws \subseteq KnownFlaws
    /\ Sizes \subseteq Nat /\ SignatureSizes \subseteq Nat
    /\ Budget \in Nat /\ SignatureLimit \in Nat /\ SumsBytes \in Nat
    /\ MaxFailures \in Nat /\ MaxDamage \in Nat /\ MaxReruns \in Nat /\ MaxDeletes \in Nat

Legs == {"installer-a", "installer-b"}
KeyJobs == {"sign", "finalize"}
Jobs == {"preflight", "verify", "attest", "publish-release"} \cup KeyJobs \cup Legs

\* The artifacts a job downloads, named by the job that uploads them.
Consumed == [j \in Jobs |->
    CASE j = "preflight" -> {}
      [] j = "sign" -> {"preflight"}
      [] j \in Legs -> {"sign"}
      [] j = "verify" -> {"sign"} \cup Legs
      [] j = "finalize" -> {"verify"}
      [] OTHER -> {"finalize"}]

NeedsWhatItReads == Consumed \* mutant: publish-release does not wait for attest
Needs == [Consumed EXCEPT !["publish-release"] = {"finalize", "attest"}]

\* Steps of the key jobs up to the one that destroys the keyring, and after it.
KeylessSteps == {"handoff", "inputs", "site"}
KeySteps == {"import", "probe", "packages", "profile", "repodata", "assemble",
             "binary.asc", "install.sh.asc", "SHA256SUMS", "SHA256SUMS.asc", "destroy"}
Steps == KeylessSteps \cup KeySteps \cup
         {"dispatch", "fetch", "unpublished", "gates", "build", "compose", "budget", "primary",
          "corrupted", "dnf", "signed", "archive", "attest", "publish", "upload", "end"}

FirstStep(j) == IF j = "preflight" THEN "dispatch" ELSE "handoff"

VARIABLES
    flaw,      \* what is wrong with this release, or None
    size,      \* bytes of its unsigned site
    result,    \* what GitHub shows of each job
    step,      \* the step a running job is at
    doomed,    \* a step failed: only steps with if: always() still run
    got,       \* job -> producer -> files downloaded
    made,      \* job -> files made on its runner
    store,     \* producer -> the artifact that GitHub keeps of it
    output,    \* producer -> the digest it last output, or None
    keyring,   \* the signing keyring on a key job's runner
    serial,    \* signing passes so far: every one makes new bytes
    attested,  \* publications with provenance attestations
    published, \* the released publication, or None
    budgets,   \* failures, damage, reruns and deletes so far
    verified,  \* history: unsigned sites verify passed
    bypass     \* history: a job that had succeeded was re-run

dispatched == <<flaw, size>>
runners == <<got, made, keyring>>
jobs == <<result, step, doomed>>
github == <<store, output>>
outcome == <<attested, published>>
history == <<verified, bypass>>
vars == <<dispatched, runners, jobs, github, outcome, serial, budgets, history>>

-----------------------------------------------------------------------------
(* Files.  A release tree is named by the signing pass that made it.       *)

File(kind, tree, build, pass, bytes) ==
    [kind |-> kind, tree |-> tree, build |-> build, pass |-> pass, bytes |-> bytes]
Foreign == File("foreign", 0, 0, 0, 0)

Only(files, names) == [f \in DOMAIN files \cap names |-> files[f]]
Without(files, names) == [f \in DOMAIN files \ names |-> files[f]]
With(files, name, file) ==
    [f \in DOMAIN files \cup {name} |-> IF f = name THEN file ELSE files[f]]
NoFiles == Only(<<>>, {})

Archive == File("archive", 0, 0, 0, 0)
Records(n) == File("records", n, 0, 0, 0)
Trust(n) == File("trust", n, 0, 0, 0)
Binary(n, b) == File("binary", n, b, 0, 0)
Signature(file, pass, bytes) == File("signature", file.tree, file.build, pass, bytes)

Scripts(binary) == File("scripts", binary.tree, binary.build, 0, 0)
LegRecord(leg, n, b) == File(leg, n, b, 0, 0)
BuildRecord(n, b) == File("legs", n, b, 0, 0)
\* support-matrix.json, index.html and publication-manifest.json.
Rendered(n, binary) == File("rendered", n, binary.build, 0, 0)
Notes(site) == File("notes", site["binary"].tree, site["binary"].build, site["SHA256SUMS.asc"].pass, 0)

UnsignedFiles == {"tree", "records", "trust", "binary", "install.sh", "legs", "rendered"}
FinalizeFiles == {"binary.asc", "install.sh.asc", "SHA256SUMS", "SHA256SUMS.asc"}
SiteFiles == UnsignedFiles \cup FinalizeFiles

\* A release tree: packages signed in one pass, and files that each bind the bytes
\* of earlier ones.
Bound(kind, files) == [kind |-> kind, binds |-> files]
Rpms(pass) == File("rpms", pass, 0, pass, 0)
Profile(rpms) == Bound("profile", rpms)
ProfileRpm(profile) == Bound("profile.rpm", profile)
Repomd(rpms, profileRpm) == Bound("repomd", <<rpms, profileRpm>>)
ReleaseJson(parts) == Bound("release", Only(parts, {"rpms", "profile", "profile.rpm", "repomd"}))
ReleaseSignature(release) == Bound("release.sig", release)
Checksums(parts) == Bound("checksums", Without(parts, {"checksums"}))
TreeParts == {"rpms", "profile", "profile.rpm", "repomd", "release.json", "release.json.sig", "checksums"}

\* release.json names the packages of its signing pass: the pass stands for its digest.
Metadata(tree) == tree["rpms"].pass

\* SHA256SUMS lists the rest of the site.
Listing(site) == Without(site, {"SHA256SUMS", "SHA256SUMS.asc"})

SignatureBytes(site, name) == IF name \in DOMAIN site THEN site[name].bytes ELSE 0
SiteBytes(site) ==
    size
    + (IF "SHA256SUMS" \in DOMAIN site THEN SumsBytes ELSE 0)
    + SignatureBytes(site, "binary.asc") + SignatureBytes(site, "install.sh.asc")
    + SignatureBytes(site, "SHA256SUMS.asc")

\* The most that signing adds to an unsigned site.
SigningBytes == SumsBytes + 3 * SignatureLimit

-----------------------------------------------------------------------------
(* Artifacts.                                                              *)

Seal(files) == [files |-> files, sums |-> files]
Digest(files) == files

HandoffAccepted(dir, digest) == dir.sums = digest /\ dir.files = dir.sums

\* What a download can deliver of an artifact that was damaged on the way.
Damaged(dir) ==
    LET Changed == {[dir.files EXCEPT ![f] = Foreign] : f \in DOMAIN dir.files}
        Lost == {Without(dir.files, {f}) : f \in DOMAIN dir.files}
        Added == {With(dir.files, "extra", Foreign)}
    IN  {[dir EXCEPT !.files = files] : files \in Changed \cup Lost \cup Added}
        \cup {Seal(files) : files \in Changed}

-----------------------------------------------------------------------------

Init ==
    /\ flaw \in Flaws \cup {None} /\ size \in Sizes
    /\ result = [j \in Jobs |-> "waiting"]
    /\ step = [j \in Jobs |-> "end"]
    /\ doomed = [j \in Jobs |-> FALSE]
    /\ got = [j \in Jobs |-> NoFiles]
    /\ made = [j \in Jobs |-> NoFiles]
    /\ store = NoFiles
    /\ output = [j \in Jobs |-> None]
    /\ keyring = [j \in KeyJobs |-> "none"]
    /\ serial = 0
    /\ attested = {} /\ published = None
    /\ budgets = [failures |-> 0, damage |-> 0, reruns |-> 0, deletes |-> 0]
    /\ verified = {} /\ bypass = FALSE

-----------------------------------------------------------------------------
(* How a job moves.                                                        *)

At(j, s) == result[j] = "running" /\ step[j] = s
Goto(j, s) == step' = [step EXCEPT ![j] = s] /\ UNCHANGED <<result, doomed>>

\* The runner is gone, with the keyring in its memory.
RunnerGone(j, res) ==
    /\ result' = [result EXCEPT ![j] = res]
    /\ step' = [step EXCEPT ![j] = "end"]
    /\ doomed' = [doomed EXCEPT ![j] = FALSE]
    /\ got' = [got EXCEPT ![j] = NoFiles]
    /\ made' = [made EXCEPT ![j] = NoFiles]
    /\ keyring' = [k \in KeyJobs |-> IF k = j THEN "none" ELSE keyring[k]]

\* A step fails.  Of a key job's other steps only Destroy still runs.
Refuse(j) ==
    IF j \in KeyJobs /\ step[j] \in KeylessSteps \cup KeySteps
    THEN /\ step' = [step EXCEPT ![j] = "destroy"]
         /\ doomed' = [doomed EXCEPT ![j] = TRUE]
         /\ UNCHANGED <<result, runners>>
    ELSE RunnerGone(j, "failed")

\* A step that passes or refuses and leaves no files.
Check(j, s, passes, next) ==
    /\ At(j, s)
    /\ IF passes THEN Goto(j, next) /\ UNCHANGED runners ELSE Refuse(j)
    /\ UNCHANGED <<dispatched, github, outcome, serial, budgets, history>>

\* A step that makes files, or refuses.
Make(j, s, passes, files, next) ==
    /\ At(j, s)
    /\ IF passes
       THEN /\ Goto(j, next)
            /\ made' = [made EXCEPT ![j] = files]
            /\ UNCHANGED <<got, keyring>>
       ELSE Refuse(j)
    /\ UNCHANGED <<dispatched, github, outcome, serial, budgets, history>>

\* Every needed job succeeded; a job of the environment waits for its reviewer.
Start(j) ==
    /\ result[j] = "waiting"
    /\ \A n \in Needs[j] : result[n] = "succeeded"
    /\ result' = [result EXCEPT ![j] = IF j \in KeyJobs THEN "pending" ELSE "running"]
    /\ step' = [step EXCEPT ![j] = FirstStep(j)]
    /\ UNCHANGED <<dispatched, runners, doomed, github, outcome, serial, budgets, history>>

Approve(j) ==
    /\ result[j] = "pending"
    /\ result' = [result EXCEPT ![j] = "running"]
    /\ UNCHANGED <<dispatched, runners, step, doomed, github, outcome, serial, budgets, history>>

Reject(j) ==
    /\ result[j] = "pending"
    /\ RunnerGone(j, "failed")
    /\ UNCHANGED <<dispatched, github, outcome, serial, budgets, history>>

\* What the downloads of a job deliver: what was uploaded, or one artifact damaged.
Sent(j) == Only(store, Consumed[j])
Spoilt(j) == UNION {{[Sent(j) EXCEPT ![p] = d] : d \in Damaged(store[p])} : p \in DOMAIN Sent(j)}
Delivered(j, dirs) ==
    \A p \in Consumed[j] : p \in DOMAIN dirs /\ HandoffAccepted(dirs[p], output[p])

HandoffRetrying(j, next) == \* mutant: waits for the right artifact instead of refusing
    /\ At(j, "handoff")
    /\ \E dirs \in {Sent(j)} \cup IF budgets.damage < MaxDamage THEN Spoilt(j) ELSE {} :
          /\ budgets' = [budgets EXCEPT !.damage = IF dirs = Sent(j) THEN @ ELSE @ + 1]
          /\ IF Delivered(j, dirs)
             THEN /\ got' = [got EXCEPT ![j] = [p \in Consumed[j] |-> dirs[p].files]]
                  /\ Goto(j, next)
                  /\ UNCHANGED <<made, keyring>>
             ELSE UNCHANGED <<jobs, runners>>
    /\ UNCHANGED <<dispatched, github, outcome, serial, history>>

\* Download every consumed artifact and check each against its producer's output.
Handoff(j, next) ==
    /\ At(j, "handoff")
    /\ \E dirs \in {Sent(j)} \cup IF budgets.damage < MaxDamage THEN Spoilt(j) ELSE {} :
          /\ budgets' = [budgets EXCEPT !.damage = IF dirs = Sent(j) THEN @ ELSE @ + 1]
          /\ IF Delivered(j, dirs)
             THEN /\ got' = [got EXCEPT ![j] = [p \in Consumed[j] |-> dirs[p].files]]
                  /\ Goto(j, next)
                  /\ UNCHANGED <<made, keyring>>
             ELSE Refuse(j)
    /\ UNCHANGED <<dispatched, github, outcome, serial, history>>

\* upload-artifact, which refuses a second artifact of a name.
Upload(j) ==
    /\ At(j, "upload")
    /\ IF j \notin DOMAIN store
       THEN /\ store' = With(store, j, Seal(made[j]))
            /\ Goto(j, "end") /\ UNCHANGED runners
       ELSE Refuse(j) /\ UNCHANGED store
    /\ UNCHANGED <<dispatched, output, outcome, serial, budgets, history>>

\* The job succeeds, and its output becomes the digest it sealed.
Finish(j) ==
    /\ At(j, "end")
    /\ RunnerGone(j, "succeeded")
    /\ output' = [output EXCEPT ![j] = Digest(made[j])]
    /\ verified' = IF j = "verify" THEN verified \cup {made[j]["report"]} ELSE verified
    /\ UNCHANGED <<dispatched, store, outcome, serial, budgets, bypass>>

-----------------------------------------------------------------------------
(* preflight *)

\* Dispatched on main, with the committed version and a tracked profile.
DispatchCheck == Check("preflight", "dispatch", flaw # "dispatch", "fetch")

\* The inputs themselves, which no later step changes: the archive's digest and
\* members, a qualified profile, and every RPM, document and notice it lists.
InputsAccepted == flaw \notin {"archive", "inputs", "profile"}
FetchCheck == Make("preflight", "fetch", InputsAccepted, With(NoFiles, "archive", Archive), "unpublished")

CheckUnpublished == Check("preflight", "unpublished", published = None, "upload")

Preflight == DispatchCheck \/ FetchCheck \/ CheckUnpublished

-----------------------------------------------------------------------------
(* The keyring of sign and finalize. *)

\* The tmpfs home is made, the key imported and the passphrase written.
Import(j) ==
    /\ At(j, "import")
    /\ keyring' = [keyring EXCEPT ![j] = "partial"]
    /\ Goto(j, "probe")
    /\ UNCHANGED <<dispatched, got, made, github, outcome, serial, budgets, history>>

\* One secret key, the committed one, that the passphrase and nothing else unlocks.
Probe(j, next) ==
    /\ At(j, "probe")
    /\ IF flaw # "key"
       THEN keyring' = [keyring EXCEPT ![j] = "ready"] /\ Goto(j, next)
       ELSE keyring' = [keyring EXCEPT ![j] = "none"] \* destroy_on_failure
            /\ step' = [step EXCEPT ![j] = "destroy"]
            /\ doomed' = [doomed EXCEPT ![j] = TRUE] /\ UNCHANGED result
    /\ UNCHANGED <<dispatched, got, made, github, outcome, serial, budgets, history>>

DestroyIfPassed(j, next) == \* mutant: no if: always()
    /\ At(j, "destroy")
    /\ IF doomed[j]
       THEN step' = [step EXCEPT ![j] = "end"] /\ doomed' = [doomed EXCEPT ![j] = FALSE]
            /\ result' = [result EXCEPT ![j] = "failed"] /\ UNCHANGED runners
       ELSE keyring' = [keyring EXCEPT ![j] = "none"] /\ Goto(j, next) /\ UNCHANGED <<got, made>>
    /\ UNCHANGED <<dispatched, github, outcome, serial, budgets, history>>
Destroy(j, next) ==
    /\ At(j, "destroy")
    /\ IF doomed[j]
       THEN RunnerGone(j, "failed")
       ELSE keyring' = [keyring EXCEPT ![j] = "none"] /\ Goto(j, next) /\ UNCHANGED <<got, made>>
    /\ UNCHANGED <<dispatched, github, outcome, serial, budgets, history>>

-----------------------------------------------------------------------------
(* sign: release_sign.py between the import and the destruction of the key. *)

\* The same check of the inputs as preflight's, repeated before any key.
CheckInputs == Check("sign", "inputs", InputsAccepted, "import")

\* Every RPM of the inputs is signed in place; its identity and payload may not change.
SignPackages ==
    /\ At("sign", "packages")
    /\ IF flaw # "package"
       THEN /\ Goto("sign", "profile")
            /\ made' = [made EXCEPT !["sign"] = With(NoFiles, "rpms", Rpms(serial + 1))]
            /\ UNCHANGED <<got, keyring>>
       ELSE Refuse("sign")
    /\ serial' = serial + 1
    /\ UNCHANGED <<dispatched, github, outcome, budgets, history>>

\* The qualified profile gets the digests of the signed packages, and a profile
\* package of two equal builds.
BindProfileUnsigned == \* mutant: bound to the unsigned packages
    LET profile == Profile(Rpms(0))
    IN  Make("sign", "profile", flaw # "binding",
             With(With(made["sign"], "profile", profile), "profile.rpm", ProfileRpm(profile)), "repodata")
BindProfile ==
    LET profile == Profile(made["sign"]["rpms"])
    IN  Make("sign", "profile", flaw # "binding",
             With(With(made["sign"], "profile", profile), "profile.rpm", ProfileRpm(profile)), "repodata")

SignRepodata ==
    LET parts == made["sign"]
    IN  Make("sign", "repodata", TRUE,
             With(parts, "repomd", Repomd(parts["rpms"], parts["profile.rpm"])), "assemble")

\* assemble.py: the repository, the profile and its package are of one pass.
AssemblyAccepts(parts) ==
    /\ parts["rpms"].pass # 0
    /\ parts["repomd"] = Repomd(parts["rpms"], parts["profile.rpm"])
    /\ parts["profile"] = Profile(parts["rpms"])
    /\ parts["profile.rpm"] = ProfileRpm(parts["profile"])

\* Assembled with a placeholder, signed, and assembled again with the signature of
\* release.json, which must not change in between.
Assembled(parts) ==
    LET released == With(parts, "release.json", ReleaseJson(parts))
        signed == With(released, "release.json.sig", ReleaseSignature(released["release.json"]))
    IN  With(signed, "checksums", Checksums(signed))
Assemble ==
    LET parts == made["sign"]
    IN  Make("sign", "assemble", flaw # "evidence" /\ AssemblyAccepts(parts),
             [f \in {"tree", "records"} |->
                IF f = "tree" THEN Assembled(parts) ELSE Records(parts["rpms"].pass)], "destroy")

\* check_release.py, the publication gates of a tree.
MetadataBinds(tree) ==
    /\ tree["release.json"].binds["rpms"] = tree["rpms"]
    /\ tree["release.json"].binds["profile.rpm"] = tree["profile.rpm"]
    /\ tree["release.json"].binds["repomd"] = tree["repomd"]
ProfileBinds(tree) ==
    /\ tree["release.json"].binds["profile"] = tree["profile"]
    /\ tree["profile"] = Profile(tree["rpms"])
ChecksumsCover(tree) == tree["checksums"] = Checksums(tree)
SignaturesTrusted(tree) ==
    /\ tree["release.json.sig"] = ReleaseSignature(tree["release.json"])
    /\ tree["rpms"].pass # 0
GatesPass(tree) ==
    /\ DOMAIN tree = TreeParts
    /\ MetadataBinds(tree) /\ ProfileBinds(tree)
    /\ ChecksumsCover(tree) /\ SignaturesTrusted(tree)

SignGates == Check("sign", "gates", GatesPass(made["sign"]["tree"]), "upload")

Sign == \/ Handoff("sign", "inputs")
        \/ CheckInputs \/ Import("sign") \/ Probe("sign", "packages")
        \/ SignPackages \/ BindProfile \/ SignRepodata \/ Assemble
        \/ Destroy("sign", "gates") \/ SignGates

-----------------------------------------------------------------------------
(* installer-a and installer-b *)

LegGates(j) == Check(j, "gates", GatesPass(got[j]["sign"]["tree"]), "build")

\* Only the source commit pinned to the tree's release.json goes into the build;
\* when it is not reproducible, leg b differs.
Build(j) ==
    LET pinned == Metadata(got[j]["sign"]["tree"])
        build == IF flaw = "drift" /\ j = "installer-b" THEN 1 ELSE 0
        binary == Binary(pinned, build)
    IN  Make(j, "build", flaw # "literals",
             [f \in {"binary", "install.sh", "trust", "record"} |->
                CASE f = "binary" -> binary
                  [] f = "install.sh" -> Scripts(binary)
                  [] f = "trust" -> Trust(pinned)
                  [] f = "record" -> LegRecord(j, pinned, build)], "upload")

Installer(j) == Handoff(j, "gates") \/ LegGates(j) \/ Build(j)

-----------------------------------------------------------------------------
(* verify *)

\* Both legs have the same bytes, and records that bind them and name their leg.
LegsAgreeByName(a, b) == DOMAIN a = DOMAIN b \* mutant: bytes not compared
LegsAgree(a, b) ==
    /\ Without(a, {"record"}) = Without(b, {"record"})
    /\ a["record"] = LegRecord("installer-a", a["binary"].tree, a["binary"].build)
    /\ b["record"] = LegRecord("installer-b", b["binary"].tree, b["binary"].build)

SigningRecordsBound(site) == site["records"] = Records(Metadata(site["tree"]))

InstallerPinned(site) ==
    /\ site["trust"] = Trust(Metadata(site["tree"]))
    /\ site["binary"] = Binary(Metadata(site["tree"]), site["binary"].build)
    /\ site["legs"] = BuildRecord(Metadata(site["tree"]), site["binary"].build)

RenderedExactly(site) ==
    /\ site["install.sh"] = Scripts(site["binary"])
    /\ site["rendered"] = Rendered(Metadata(site["tree"]), site["binary"])

SignaturesVerify(site) ==
    /\ site["SHA256SUMS"] = Listing(site)
    /\ \A data \in {"binary", "install.sh"} :
          LET signature == site[IF data = "binary" THEN "binary.asc" ELSE "install.sh.asc"]
          IN  /\ signature.bytes <= SignatureLimit
              /\ signature = Signature(site[data], signature.pass, signature.bytes)
    /\ site["SHA256SUMS.asc"].bytes <= SignatureLimit
    /\ site["SHA256SUMS.asc"].pass = site["binary.asc"].pass

UnsignedSitePasses(site) ==
    /\ GatesPass(site["tree"])
    /\ InstallerPinned(site) /\ SigningRecordsBound(site) /\ RenderedExactly(site)

VerifyUnsigned(site) == DOMAIN site = UnsignedFiles /\ UnsignedSitePasses(site)

\* `expected' is the report of the unsigned site that verify passed.
VerifySigned(site, expected) ==
    /\ DOMAIN site = SiteFiles
    /\ UnsignedSitePasses(site)
    /\ Only(site, UnsignedFiles) = expected
    /\ SignaturesVerify(site)

Composed ==
    LET signed == got["verify"]["sign"]
        leg == got["verify"]["installer-a"]
        both == [f \in DOMAIN signed \cup DOMAIN Without(leg, {"record"}) |->
                   IF f \in DOMAIN signed THEN signed[f] ELSE leg[f]]
    IN  With(With(both, "legs", BuildRecord(leg["binary"].tree, leg["binary"].build)),
             "rendered", Rendered(Metadata(signed["tree"]), leg["binary"]))

\* All or nothing: a refused composition removes what it wrote.
Compose ==
    LET legs == got["verify"]
    IN  Make("verify", "compose",
             /\ LegsAgree(legs["installer-a"], legs["installer-b"])
             /\ legs["installer-a"]["record"].tree = Metadata(legs["sign"]["tree"])
             /\ flaw # "notes"
             /\ VerifyUnsigned(Composed),
             Composed, "budget")

CheckUnsigned ==
    Check("verify", "budget",
          VerifyUnsigned(made["verify"]) /\ SiteBytes(made["verify"]) + SigningBytes <= Budget, "primary")

\* The serve test: the primary command verifies the good site, refuses changed
\* metadata and a changed install.sh, and DNF installs every package.
ServePrimary == Check("verify", "primary", flaw # "install", "corrupted")
ServeCorrupted == Check("verify", "corrupted", flaw # "lax", "dnf")
ServeDnf ==
    LET site == made["verify"]
    IN  Make("verify", "dnf", flaw # "repository",
             [f \in DOMAIN site \cup {"report"} |-> IF f = "report" THEN site ELSE site[f]],
             "upload")

Verify == Handoff("verify", "compose") \/ Compose \/ CheckUnsigned
          \/ ServePrimary \/ ServeCorrupted \/ ServeDnf

-----------------------------------------------------------------------------
(* finalize *)

\* The unsigned site passes every check before any key is imported.
SiteBeforeKey == Without(got["finalize"]["verify"], {"report"})
CheckWithoutKey ==
    Make("finalize", "site", VerifyUnsigned(SiteBeforeKey), SiteBeforeKey, "import")

\* What sign has written when it fails is removed; the step then ends the job.
Unsign ==
    /\ made' = [made EXCEPT !["finalize"] = Only(@, UnsignedFiles)]
    /\ step' = [step EXCEPT !["finalize"] = "destroy"]
    /\ doomed' = [doomed EXCEPT !["finalize"] = TRUE]
    /\ UNCHANGED result

\* One detached signature of `data', refused when gpg makes it too large.
SignFile(name, data, pass, next) ==
    /\ At("finalize", name)
    /\ \E bytes \in SignatureSizes :
          IF bytes <= SignatureLimit
          THEN made' = [made EXCEPT !["finalize"] = With(@, name, Signature(data, pass, bytes))]
               /\ Goto("finalize", next)
          ELSE Unsign
    /\ serial' = pass
    /\ UNCHANGED <<dispatched, got, keyring, github, outcome, budgets, history>>

\* sign starts from exactly the bytes verify reported, on a site with no signature.
SignBinary ==
    LET site == made["finalize"]
    IN  IF VerifyUnsigned(site) /\ site = got["finalize"]["verify"]["report"]
        THEN SignFile("binary.asc", site["binary"], serial + 1, "install.sh.asc")
        ELSE Check("finalize", "binary.asc", FALSE, "end")
SignScript == SignFile("install.sh.asc", made["finalize"]["install.sh"], serial, "SHA256SUMS")
WriteSums ==
    Make("finalize", "SHA256SUMS", TRUE,
         With(made["finalize"], "SHA256SUMS", Listing(made["finalize"])), "SHA256SUMS.asc")
SignSums == SignFile("SHA256SUMS.asc", made["finalize"]["binary"], serial, "destroy")

CheckSignedUnder == \* mutant: refuses a site of exactly the budget
    Check("finalize", "signed",
          /\ VerifySigned(made["finalize"], got["finalize"]["verify"]["report"])
          /\ SiteBytes(made["finalize"]) < Budget, "archive")
CheckSigned ==
    Check("finalize", "signed",
          /\ VerifySigned(made["finalize"], got["finalize"]["verify"]["report"])
          /\ SiteBytes(made["finalize"]) <= Budget, "archive")

\* The archive of a site that passes again, the notes and the release assets.
Publication(site) ==
    [f \in {"site.tar", "SHA256SUMS", "SHA256SUMS.asc", "manifest", "notes"} |->
        CASE f = "site.tar" -> site
          [] f = "SHA256SUMS" -> site["SHA256SUMS"]
          [] f = "SHA256SUMS.asc" -> site["SHA256SUMS.asc"]
          [] f = "manifest" -> site["rendered"]
          [] f = "notes" -> Notes(site)]

ArchiveSite ==
    LET site == made["finalize"]
    IN  Make("finalize", "archive", VerifySigned(site, got["finalize"]["verify"]["report"]),
             Publication(site), "upload")

Finalize == \/ Handoff("finalize", "site") \/ CheckWithoutKey
            \/ Import("finalize") \/ Probe("finalize", "binary.asc")
            \/ SignBinary \/ SignScript \/ WriteSums \/ SignSums
            \/ Destroy("finalize", "signed") \/ CheckSigned \/ ArchiveSite

-----------------------------------------------------------------------------
(* attest and publish-release: no artifact, no output. *)

Attest ==
    /\ At("attest", "attest")
    /\ attested' = attested \cup {got["attest"]["finalize"]}
    /\ RunnerGone("attest", "succeeded")
    /\ UNCHANGED <<dispatched, github, published, serial, budgets, history>>

\* Another publication of this version is refused (ReleasePublication has the calls).
Publish ==
    LET files == got["publish-release"]["finalize"]
    IN  /\ At("publish-release", "publish")
        /\ IF published \in {None, files}
           THEN published' = files /\ RunnerGone("publish-release", "succeeded")
           ELSE Refuse("publish-release") /\ UNCHANGED published
        /\ UNCHANGED <<dispatched, github, attested, serial, budgets, history>>

Deliver == Handoff("attest", "attest") \/ Attest
           \/ Handoff("publish-release", "publish") \/ Publish

-----------------------------------------------------------------------------
(* What goes wrong, and what people do about it. *)

Spend(what, limit) == budgets[what] < limit /\ budgets' = [budgets EXCEPT ![what] = @ + 1]

\* A step is killed or a tool fails; a cancelled job is the same to its steps.
StepDies(j) ==
    /\ result[j] = "running" /\ step[j] # "destroy"
    /\ Spend("failures", MaxFailures)
    /\ Refuse(j)
    /\ UNCHANGED <<dispatched, github, outcome, serial, history>>

\* The runner is lost at any point, also after its upload.
RunnerLost(j) ==
    /\ result[j] = "running"
    /\ Spend("failures", MaxFailures)
    /\ RunnerGone(j, "failed")
    /\ UNCHANGED <<dispatched, github, outcome, serial, history>>

Startable(j) == result[j] = "waiting" /\ \A n \in Needs[j] : result[n] = "succeeded"
Resting == \A j \in Jobs : result[j] \notin {"pending", "running"} /\ ~ Startable(j)

Reset(again) ==
    /\ Resting
    /\ Spend("reruns", MaxReruns)
    /\ result' = [j \in Jobs |-> IF j \in again THEN "waiting" ELSE result[j]]
    /\ bypass' = (bypass \/ \E j \in again : result[j] = "succeeded")
    /\ UNCHANGED <<dispatched, runners, step, doomed, github, outcome, serial, verified>>

RerunAllJobs == \* mutant: the whole run is run again
    /\ \E j \in Jobs : result[j] = "failed"
    /\ Resting
    /\ Spend("reruns", MaxReruns)
    /\ result' = [j \in Jobs |-> "waiting"]
    /\ UNCHANGED <<dispatched, runners, step, doomed, github, outcome, serial, history>>
RerunFailed ==
    LET failed == {j \in Jobs : result[j] = "failed"}
    IN  failed # {} /\ Reset(failed)

\* Re-running one job also re-runs every job that depends on it.
NeedsOf(set) == {j \in Jobs : Needs[j] \cap set # {}}
Dependents(j) ==
    LET one == {j} \cup NeedsOf({j})
        two == one \cup NeedsOf(one)
        three == two \cup NeedsOf(two)
        four == three \cup NeedsOf(three)
        five == four \cup NeedsOf(four)
    IN  five \cup NeedsOf(five)
RerunFrom(j) == result[j] = "succeeded" /\ Reset(Dependents(j))

DeleteArtifact(j) ==
    /\ Resting
    /\ j \in DOMAIN store
    /\ Spend("deletes", MaxDeletes)
    /\ store' = Without(store, {j})
    /\ UNCHANGED <<dispatched, runners, jobs, output, outcome, serial, history>>

Environment ==
    \/ \E j \in Jobs : StepDies(j) \/ RunnerLost(j) \/ RerunFrom(j) \/ DeleteArtifact(j)
    \/ RerunFailed

\* At rest for good: published, or left to people.
Settled == Resting /\ UNCHANGED vars

Workflow ==
    \/ \E j \in Jobs : Start(j) \/ Upload(j) \/ Finish(j)
    \/ \E j \in KeyJobs : Approve(j) \/ Reject(j)
    \/ Preflight \/ Sign \/ (\E j \in Legs : Installer(j)) \/ Verify \/ Finalize \/ Deliver

Next == Workflow \/ Environment \/ Settled

Spec == Init /\ [][Next]_vars /\ WF_vars(Workflow)

-----------------------------------------------------------------------------
(* Properties.                                                             *)

\* The signing key is on a runner only between the import and the destroy step of
\* a running key job, after the inputs passed their keyless check: never for
\* inputs or a site that a check without the key would refuse.
KeyOnlyInWindow ==
    \A j \in KeyJobs : keyring[j] # "none" =>
        /\ result[j] = "running" /\ step[j] \in KeySteps
        /\ InputsAccepted /\ flaw # "dispatch"
        /\ j = "finalize" => got[j]["verify"]["report"] \in verified

\* The second approval is asked only for a release that has no flaw, and after verify
\* passed the site that finalize is to sign.
ApprovalIsForVerified ==
    result["finalize"] = "pending" =>
        /\ flaw = None
        /\ output["verify"]["report"] \in verified

\* What is published is a site that verify passed, byte for byte, plus exactly the
\* four signing files; it fits its budget and its provenance is attested.
PublishedIsVerified ==
    published # None =>
        LET site == published["site.tar"]
        IN  /\ published \in attested
            /\ Only(site, UnsignedFiles) \in verified
            /\ DOMAIN site = SiteFiles /\ SignaturesVerify(site)
            /\ published["SHA256SUMS.asc"] = site["SHA256SUMS.asc"]
            /\ site["binary"].tree = Metadata(site["tree"])
            /\ SiteBytes(site) <= Budget
            /\ flaw = None

\* A job is refused: a step ends it, or leaves it only its Destroy step.
Refusal(j) ==
    result[j] = "running" /\ ~ doomed[j] /\ (doomed'[j] \/ result'[j] = "failed")

\* gpg was reached, and made a signature larger than MAX_SIGNATURE_BYTES.
Oversized(j) ==
    /\ j = "finalize" /\ step[j] \in FinalizeFiles \ {"SHA256SUMS"}
    /\ step[j] = "binary.asc" => serial' # serial
    /\ \E bytes \in SignatureSizes : bytes > SignatureLimit

\* What one step makes the later steps accept: in a release with no flaw, whose site
\* fits, no step refuses as long as nothing fails.  Every layer of the tree has to bind
\* the final bytes of the layers before it, the unsigned site to pass again without
\* the key, and the signed one each check up to its archive.  The one refusal left is
\* over a signature of finalize that is larger than MAX_SIGNATURE_BYTES.
FlawlessIsNotRefused ==
    [][/\ flaw = None /\ size + SigningBytes <= Budget
       /\ budgets'.failures + budgets'.damage + budgets'.reruns + budgets'.deletes = 0
       => \A j \in Jobs : Refusal(j) => Oversized(j)]_vars

\* A failed job is re-run on its own; nothing is signed again after attest
\* unless someone re-runs a job that had succeeded.
NothingSignedAfterAttest ==
    [][attested # {} /\ ~ bypass => serial' = serial]_vars

\* However its steps and runners fail, a run comes to rest with no key anywhere.
ComesToRest == <>[](Resting /\ \A j \in KeyJobs : keyring[j] = "none")
=============================================================================
