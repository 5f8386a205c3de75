----------------------------- MODULE MCSoftware -----------------------------
(***************************************************************************)
(* Two instances, a tool, the package of ensurepip, a library under two    *)
(* names of which one is virtual in some releases, an optional library and *)
(* wkhtmltox.                                                              *)
(***************************************************************************)
EXTENDS Software, TLC

CONSTANTS a, b, git, venv, tiff, tiff5, ldap, wk

MCSymmetry == Permutations({a, b})

MCProvider == tiff5 :> tiff
MCTools == {<<git>>}
MCLibraries == {<<venv>>, <<tiff5, tiff>>, <<ldap>>}
MCOptional == {<<ldap>>}
MCReleases == {{git, venv, tiff, ldap}, {git, venv, tiff5}, {git, venv}}
MCFoundPackages == {{}, {git, venv}, {tiff, wk}}
MCVenvGroup == <<venv>>

Theirs(repo, filled) == [dir |-> "theirs", modules |-> "absent", repo |-> repo, venv |-> filled]

MCFoundTrees == {NoTree, Theirs("invalid", "absent"), Theirs("other branch", "absent"), Theirs("whole", "filled")}

\* The sources were moved away, the modules were not.
MCModulesOnly == {[Theirs("absent", "absent") EXCEPT !.modules = "theirs"]}

\* One oddity at a time: a tree, a machine with packages, a release without a
\* library's name, no index, another family; and after a fault one instance.
MCBounds ==
    /\ Cardinality({i \in Instance : found.tree[i] # NoTree}
                   \cup {p \in {git, tiff} : found.pkg[p] = "installed"}
                   \cup {n \in {tiff} : n \notin release}
                   \cup {f \in {"Fedora"} : f = family}) < 2
    /\ faults > 0 => \E i \in Instance : man[i].steps = {} /\ who # i

=============================================================================
