--------------------------- MODULE PublishedSite ---------------------------
(***************************************************************************)
(* What the publication of versions promises to someone who reads the      *)
(* Pages site: contents are released under a version, a deployment puts at *)
(* most one version in place, with a content released under it, and every  *)
(* other version stays byte for byte what it was or is withdrawn.          *)
(***************************************************************************)
CONSTANTS Versions, Contents, None

VARIABLES
    released, \* <<version, content>> pairs released so far
    live      \* version -> the content the site serves, or None

Init ==
    /\ released = {}
    /\ live = [v \in Versions |-> None]

Release ==
    \E v \in Versions, c \in Contents :
        /\ released' = released \cup {<<v, c>>}
        /\ UNCHANGED live

Deploy(version) ==
    /\ live' \in [Versions -> Contents \cup {None}]
    /\ <<version, live'[version]>> \in released
    /\ \A v \in Versions \ {version} : live'[v] \in {live[v], None}
    /\ UNCHANGED released

Next == Release \/ \E v \in Versions : Deploy(v)

Spec == Init /\ [][Next]_<<released, live>>
=============================================================================
