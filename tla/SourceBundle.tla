---------------------------- MODULE SourceBundle ----------------------------
(***************************************************************************)
(* Bundling the locked sources from a cache of clones, with no network     *)
(* (xtask/src/source_bundle.rs, bundle_sources).                           *)
(*                                                                         *)
(* Every source is checked against the lock and archived into a staging    *)
(* directory; then the archives, and last SHA256SUMS, are renamed one by   *)
(* one into the output, which was empty at the start.  The process may     *)
(* fail or be killed between any two of these steps.                       *)
(*                                                                         *)
(* A clone is what git answers for it: the tag ref, the gitlinks of the    *)
(* locked commit, and the one flaw it may have.                            *)
(***************************************************************************)
EXTENDS SourceLock

CONSTANT
    Flaws        \* what can be wrong with a clone

VARIABLES
    bundle,  \* the process: pc, its lock and its cache
    output   \* the output directory: staging (None or archives), archives, SHA256SUMS
bundleVars == <<bundle, output>>

Empty == [staging |-> None, files |-> <<>>, sums |-> None]

BundleInit ==
    /\ bundle = [pc |-> "idle", lock |-> None, cache |-> <<>>]
    /\ output = Empty

\* verify_identity: the cached tag must still be what was pinned, of its kind.
IdentityHolds(pin, ref) ==
    CASE pin.kind = "git_tag" -> ref = [commit |-> pin.commit, object |-> None]
      [] pin.kind = "git_annotated_tag" ->
            pin.object # None /\ ref = [commit |-> pin.commit, object |-> pin.object]
      [] OTHER -> TRUE

DeclaredMatch(lk, s, tree) == \* mutant: a gitlink nobody declared passes
    \A l \in LinksOf(s) :
        /\ l.path \in DOMAIN tree /\ tree[l.path] = lk.link[l]
        /\ l.disposition = "bundled" => lk.pin[l.source].commit = lk.link[l]
\* verify_gitlinks: the tree's gitlinks are the declared ones, at those
\* commits, and the source that supplies a bundled one is pinned there too.
GitlinksHold(lk, s, tree) ==
    /\ DOMAIN tree = {l.path : l \in LinksOf(s)}
    /\ \A l \in LinksOf(s) :
        /\ tree[l.path] = lk.link[l]
        /\ l.disposition = "bundled" =>
              l.source \in Sources /\ lk.pin[l.source].commit = lk.link[l]

\* Flaws that git or the LFS store reports, whichever commit is archived.
Reported == {"config", "commit", "lfs"}

\* create_archive_from_commit: refused, or the digest of what it wrote.  A
\* clone whose git writes tar differently is noticed by nothing but the digest.
Archive(s, commit, flaw) ==
    CASE flaw \in Reported -> None
      [] flaw = "tar" -> <<s, commit, flaw>>
      [] OTHER -> Digest(s, commit)

HashUnchecked(s, commit, flaw) == \* mutant: without verify_safe_local_config
    IF flaw = "config" THEN <<s, commit, flaw>> ELSE Archive(s, commit, flaw)
\* hash_cached_source, for a commit nobody has pinned yet.
HashCachedSource(s, commit, flaw) == Archive(s, commit, flaw)

AcceptedIfArchived(lk, s, clone) == \* mutant: no digest comparison
    /\ clone.flaw # "origin"
    /\ IdentityHolds(lk.pin[s], clone.ref)
    /\ GitlinksHold(lk, s, clone.tree)
    /\ Archive(s, lk.pin[s].commit, clone.flaw) # None
\* The checks of one source, in the order bundle_into_staging makes them.
Accepted(lk, s, clone) ==
    /\ clone.flaw \notin {"config", "origin"}
    /\ IdentityHolds(lk.pin[s], clone.ref)
    /\ GitlinksHold(lk, s, clone.tree)
    /\ Archive(s, lk.pin[s].commit, clone.flaw) = lk.pin[s].digest

Idle == bundle.pc = "idle"
Goto(pc) == bundle' = [bundle EXCEPT !.pc = pc]

OutputUsable == TRUE \* mutant: an output in use is accepted
\* require_empty_output.
OutputEmpty == output = Empty

\* bundle_sources up to the staging directory.  A refusal changes nothing.
BundleStart(lk, cache) ==
    /\ Idle
    /\ ValidLock(lk) /\ lk.status = "sealed"
    /\ OutputEmpty
    /\ bundle' = [pc |-> "sources", lock |-> lk, cache |-> cache]
    /\ output' = [output EXCEPT !.staging = {}]

\* bundle_into_staging: every source is checked and archived in turn; an
\* archive that may not be passed on is removed again.  Nobody sees how far
\* the loop got, so it is one step.
BundleSources ==
    /\ bundle.pc = "sources"
    /\ IF \A s \in Sources : Accepted(bundle.lock, s, bundle.cache[s])
       THEN output' = [output EXCEPT !.staging = Sources \ External] /\ Goto("archives")
       ELSE Goto("cleanup") /\ UNCHANGED output

\* The digest of an archive the process has staged.
Staged(s) == Archive(s, bundle.lock.pin[s].commit, bundle.cache[s].flaw)

\* Renames the next archive of the manifest into the output.
PublishArchive ==
    /\ bundle.pc = "archives"
    /\ \E i \in DOMAIN Order :
        LET s == Order[i] IN
        /\ s \in output.staging
        /\ \A j \in DOMAIN Order : Order[j] \in output.staging => i <= j
        /\ output' = [staging |-> output.staging \ {s},
                      files |-> [f \in DOMAIN output.files \cup {s} |->
                                   IF f = s THEN Staged(s) ELSE output.files[f]],
                      sums |-> output.sums]
    /\ UNCHANGED bundle

SumsFirst == \* mutant: the checksums are published before the archives
    bundle.pc = "archives" /\ output.sums = None
\* SHA256SUMS follows when no archive is left in staging.
ArchivesPublished == bundle.pc = "archives" /\ output.staging = {}

PublishSums ==
    /\ ArchivesPublished
    /\ output' = [output EXCEPT !.sums = [s \in Sources \ External |-> bundle.lock.pin[s].digest]]
    /\ Goto("cleanup")

\* Removes the staging directory and returns.
Cleanup ==
    /\ bundle.pc = "cleanup"
    /\ output' = [output EXCEPT !.staging = None]
    /\ bundle' = [bundle EXCEPT !.pc = "idle", !.cache = <<>>]

\* A create, write or rename fails: what is published stays.
BundleFails == bundle.pc \in {"sources", "archives"} /\ Goto("cleanup") /\ UNCHANGED output

\* The process is killed.
BundleKilled ==
    /\ ~Idle
    /\ bundle' = [bundle EXCEPT !.pc = "idle", !.cache = <<>>]
    /\ UNCHANGED output

\* Someone takes the bundle away or clears the remains of a failed one.
ClearOutput ==
    /\ Idle /\ output # Empty
    /\ output' = Empty
    /\ bundle' = [bundle EXCEPT !.lock = None]

BundleStep == BundleSources \/ PublishArchive \/ PublishSums \/ Cleanup
-----------------------------------------------------------------------------
\* An output with SHA256SUMS is a whole bundle of one lock: exactly the
\* archives that may be passed on, each the digest that lock seals, wherever
\* the process failed or was killed and whatever an earlier call left there.
BundleIsWhole ==
    output.sums # None =>
        /\ DOMAIN output.files = Sources \ External
        /\ \A s \in Sources \ External :
              output.files[s] = bundle.lock.pin[s].digest /\ output.sums[s] = output.files[s]
=============================================================================
