----------------------------- MODULE ReleaseFiles -----------------------------
(***************************************************************************)
(* What intel-npu-stack-install verifies of a release (crates/             *)
(* stack-install: transport, signature, manifest, fedora_rpm, project_rpm, *)
(* prepare), as predicates on the facts of a release.                      *)
(*                                                                         *)
(* The installer is built with the release's location, metadata digest and *)
(* key.  A release whose files these pins name may still be wrong in one   *)
(* of the facts below; each is one way a field, a signature or a file of   *)
(* it fails to agree with the others.                                      *)
(***************************************************************************)
EXTENDS Naturals, Sequences, FiniteSets

\* The values of each fact, the sound one first.
Facts == [
    location    |-> <<"exact", "moving", "plain">>,   \* the pinned version and base URL
    keyring     |-> <<"armored", "binary", "broken">>, \* the pinned key's envelope
    fingerprint |-> <<"keyring", "other">>,            \* the key the pinned fingerprint names
    signature   |-> <<"good", "bad", "expired", "stranger", "weak", "text", "cosigned">>,
    schema      |-> <<1, 2>>,
    version     |-> <<"pinned", "other">>,             \* the metadata's stack_release
    url         |-> <<"exact", "moving">>,             \* the metadata's repository
    repository  |-> <<"own", "fedora", "malformed">>,  \* its identifier
    packages    |-> <<"some", "none", "excessive">>,
    naming      |-> <<"exact", "no_epoch", "other_dist", "other_filename", "other_arch">>,
    names       |-> <<"distinct", "repeated">>,
    required    |-> <<"runtime", "absent", "devel">>,  \* the tools and the metapackage
    profile     |-> <<"listed", "other">>,             \* its bytes against the metadata
    profiled    |-> <<"fedora44", "unparsed", "other_release", "other_platform">>,
    component   |-> <<"agrees", "absent", "not_runtime", "other_nevr", "other_digest">>,
    verdict     |-> <<"allowed", "forbidden", "external_only">>,
    repomd      |-> <<"listed", "other", "unsigned">>, \* the repository's metadata
    bytes       |-> <<"listed", "other">>,             \* a package against the metadata
    signers     |-> <<"release", "none", "other", "both">>, \* of a package
    header      |-> <<"listed", "other_name", "other_nevr", "other_arch">>]

Sound == [f \in DOMAIN Facts |-> Facts[f][1]]

\* What a release can be wrong in: a fact and the number of its value; <<>> is nothing.
Flaws == UNION {{<<f, i>> : i \in 2 .. Len(Facts[f])} : f \in DOMAIN Facts}
NoFlaw == <<>>

\* A release with that flaw and no other.
ReleaseWith(flaw) ==
    IF flaw = NoFlaw THEN Sound ELSE [Sound EXCEPT ![flaw[1]] = Facts[flaw[1]][flaw[2]]]

-----------------------------------------------------------------------------
(* release.json and its detached signature. *)

\* repository_url, release_version: an https URL one of whose segments is the numeric
\* triple of the release, and none the name of a channel.
ExactUrl(url) == url = "exact"

\* fetch_release: a numeric triple, its URL, a digest, a fingerprint and a key.
ValidLocation(r) == ExactUrl(r.location)

\* gpg --import into a throwaway home takes an armored or a binary key.
Imported(r) == r.keyring # "broken"

Says(kind) == [kind |-> kind]
By(kind, key) == [kind |-> kind, key |-> key]
Valid(key, class, hash) == [kind |-> "VALIDSIG", key |-> key, class |-> class, hash |-> hash]
One(key, class, hash) == <<Says("NEWSIG"), Says("KEY_CONSIDERED"), Says("SIG_ID"),
                           By("GOODSIG", key), Valid(key, class, hash)>>

\* External: the machine-readable status gpg --verify writes.
GnupgStatus(r) ==
    CASE r.signature = "good" -> One("keyring", "binary", "SHA512")
      [] r.signature = "weak" -> One("keyring", "binary", "SHA1")
      [] r.signature = "text" -> One("keyring", "text", "SHA512")
      [] r.signature = "stranger" -> One("stranger", "binary", "SHA512")
      [] r.signature = "cosigned" ->
             One("keyring", "binary", "SHA512") \o One("stranger", "binary", "SHA512")
      [] r.signature = "expired" ->
             <<Says("NEWSIG"), Says("KEYEXPIRED"), By("EXPKEYSIG", "keyring"),
               Valid("keyring", "binary", "SHA512")>>
      [] r.signature = "bad" -> <<Says("NEWSIG"), By("BADSIG", "keyring")>>

\* External: it exits 0 also for an expired key and for another one of its keyring.
GnupgAccepts(r) == r.signature # "bad"

Occurrences(status, kind) == Cardinality({i \in DOMAIN status : status[i].kind = kind})

\* Records that say nothing against a signature, whatever trust they rate.
Neutral == {"KEY_CONSIDERED", "SIG_ID", "TRUST_UNDEFINED"}

\* verify_signature_status: one binary signature with SHA256 or better, good and valid
\* by the same key, whose primary key is the pinned one, and no record that speaks of
\* expiry, revocation or anything unknown.
SignatureStatusHolds(status, primary) ==
    /\ \A i \in DOMAIN status : status[i].kind \in Neutral \cup {"NEWSIG", "GOODSIG", "VALIDSIG"}
    /\ \A kind \in {"NEWSIG", "GOODSIG", "VALIDSIG"} : Occurrences(status, kind) = 1
    /\ \A i \in DOMAIN status :
         status[i].kind \in {"GOODSIG", "VALIDSIG"} => status[i].key = primary
    /\ \A i \in DOMAIN status : status[i].kind = "VALIDSIG" =>
         status[i].class = "binary" /\ status[i].hash \in {"SHA256", "SHA384", "SHA512"}

\* verify_detached
DetachedHolds(r) ==
    /\ Imported(r)
    /\ GnupgAccepts(r)
    /\ SignatureStatusHolds(GnupgStatus(r), r.fingerprint)

\* validate_package: an explicit epoch, a release of Fedora 44, x86_64 or noarch, and
\* the file name that follows from them.
ValidPackages(r) == r.naming = "exact"

\* ReleaseManifest::parse_json
ValidManifest(r) ==
    /\ r.schema = 1
    /\ ExactUrl(r.url)
    /\ r.repository # "malformed"
    /\ r.packages = "some"
    /\ ValidPackages(r)
    /\ r.names = "distinct"
    /\ r.required = "runtime"

\* fetch_release: the metadata names the release that was asked for.
NamesPinnedVersion(r) == r.version = "pinned"

\* ReleaseManifest::bind_profile: the listed bytes, for this release and platform, every
\* component a runtime package with the listed version and digest; what may not be
\* redistributed is no part of it but the loader, which Fedora carries.
ProfileBinds(r) ==
    /\ r.profile = "listed"
    /\ r.profiled = "fedora44"
    /\ r.component = "agrees"
    /\ r.verdict = "allowed"

-----------------------------------------------------------------------------
(* The repository and its packages. *)

\* compose: the release's repository is none of Fedora's.
OwnRepository(r) == r.repository # "fedora"

\* ProjectRpmTrust::from_armored_key: an armored envelope of exactly the pinned key.
TrustsProjectKey(r) == r.keyring = "armored" /\ r.fingerprint = "keyring"

\* verify_native_rpm: the expected bytes, one signature of the allowed key and no other,
\* and a header that gives the name of the file.
NativeRpmHolds(r) == r.bytes = "listed" /\ r.signers = "release" /\ r.header # "other_name"

\* ProjectRpm::verify: and the header's identity is the one the metadata lists.
ProjectRpmHolds(r) == ValidPackages(r) /\ NativeRpmHolds(r) /\ r.header = "listed"

\* bind_cache_and_snapshot: what the planner used is the listed metadata, and signed.
CacheBinds(r) == r.repomd = "listed"
=============================================================================
