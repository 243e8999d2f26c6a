----------------------------- MODULE SourceLock -----------------------------
(***************************************************************************)
(* The provider source lock (packaging/fedora/44/provider-sources.toml and *)
(* xtask/src/source_lock.rs): one pin per source and one commit per        *)
(* gitlink of a source's tree.                                             *)
(*                                                                         *)
(* A commit is <<repository, release, variant>>, a digest the source and   *)
(* the commit archived.  Which gitlinks a source declares, and what        *)
(* replaces each, is edited by hand only, hence a constant.                *)
(***************************************************************************)
EXTENDS Naturals, Sequences, FiniteSets

CONSTANTS
    None,       \* no value
    Order,      \* the sources in the order of the lock
    Watched,    \* sources pinned by a release tag
    External,   \* sources the project may not redistribute
    Links       \* declared gitlinks: [parent, path, disposition, source]

ASSUME LockConstants ==
    /\ \A i, j \in DOMAIN Order : Order[i] = Order[j] => i = j
    /\ Watched \cup External \subseteq {Order[i] : i \in DOMAIN Order}
    /\ Watched \cap External = {}
    /\ \A l \in Links : l.parent \in {Order[i] : i \in DOMAIN Order}
    /\ None \notin {Order[i] : i \in DOMAIN Order}
    \* validate_gitlinks: the paths of one source are unique.
    /\ \A l, m \in Links : l.parent = m.parent /\ l.path = m.path => l = m

Sources == {Order[i] : i \in DOMAIN Order}
LinksOf(s) == {l \in Links : l.parent = s}

\* What `git archive' of a commit hashes to, its LFS pointers replaced.
Digest(s, commit) == <<s, commit>>

Pin(kind, tag, object, commit, digest) ==
    [kind |-> kind, tag |-> tag, object |-> object, commit |-> commit, digest |-> digest]

\* Kind, tag and tag object must fit together.
ValidIdentity(pin) ==
    CASE pin.kind = "git_tag" -> pin.tag # None /\ pin.object = None
      [] pin.kind = "git_annotated_tag" -> pin.tag # None /\ pin.object # None
      [] OTHER -> pin.tag = None /\ pin.object = None

\* A bundled gitlink names the source that supplies it, no other one does.
\* That the source exists, at that commit, is not asked here.
ValidDisposition(l) == (l.disposition = "bundled") <=> (l.source # None)

ValidLock(lk) ==
    /\ \A s \in Sources : ValidIdentity(lk.pin[s])
    /\ \A l \in Links : ValidDisposition(l)
=============================================================================
