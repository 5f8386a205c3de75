------------------------------ MODULE Software ------------------------------
(***************************************************************************)
(* The packages of the machine and the sources and virtualenvs of several  *)
(* instances: the steps bootstrap-prerequisites,                           *)
(* install-system-dependencies, install-wkhtmltopdf, clone-odoo-repo,      *)
(* create-virtualenv and install-python-requirements, after a step that    *)
(* stands for the instance's own directories.  The packages are shared and *)
(* stay while another instance lives; the tree is the instance's.          *)
(*                                                                         *)
(* Commands run one at a time, each with the list of the other instances   *)
(* it read when it began (Commands).  The package manager is dpkg and apt, *)
(* which may be left half-way, or rpm and dnf, which may not.              *)
(***************************************************************************)
EXTENDS Naturals, Sequences, FiniteSetsExt

CONSTANTS
    Instance, Nobody,  \* the instances, and the process's when there is none
    Package,           \* the packages
    Virtual,           \* names only provided by another package
    Provider,          \* and by which
    Tools, Libraries,  \* the groups of alternatives of the two package steps
    Optional,          \* those that may be missing
    VenvGroup,         \* the one of ensurepip
    Wkhtmltox,         \* the package of wkhtmltopdf
    Releases,          \* the names a repository may have
    FoundPackages,     \* the packages a machine may be found with
    FoundTrees,        \* the install_dir an instance may be found with
    Attempts,          \* install_attempts, GIT_CLONE_RETRIES
    MaxFaults          \* bound on deaths, failed undos and unclaimed halves

VARIABLES
    family,     \* "Debian", "Fedora"
    release,    \* the names its repositories have
    index,      \* the package index can be queried
    pkg,        \* the state of each package
    tree,       \* the install_dir of each instance
    attempt,    \* the attempts of this run that have failed
    found,      \* the machine before the first command
    man,        \* the manifests
    pc,         \* "idle", "snapshot", "run", "undo"
    who, idx,   \* the instance and the step the process is at
    snap,       \* the snapshots in memory
    recorded,   \* the steps in the manifest in memory
    others,     \* Context::other_instances
    args,       \* nothing of the context counts here
    remains,    \* the instances whose manifest is what a rollback left
    spoilt,     \* such a manifest was resumed, or a failed step left a shared
                \* artifact with no record
    faults

machine == <<family, release, found>>
world == <<machine, index, pkg, tree, attempt>>
vars == <<world, pc, who, idx, snap, recorded, others, args, man, remains, spoilt, faults>>

Name == Package \cup Virtual
Groups == Tools \cup Libraries

ASSUME InstanceAssumption == Nobody \in Instance
ASSUME NamesAssumption ==
    Provider \in [Virtual -> Package \ {Wkhtmltox}] /\ Package \cap Virtual = {} /\ Wkhtmltox \in Package
ASSUME GroupsAssumption ==
    /\ \A g \in Groups : g \in Seq(Name \ {Wkhtmltox}) /\ g # <<>>
    /\ VenvGroup \in Libraries /\ Optional \subseteq Libraries
ASSUME MachinesAssumption == Releases \subseteq SUBSET Name /\ FoundPackages \subseteq SUBSET Package
ASSUME BoundsAssumption == Attempts \in Nat \ {0} /\ MaxFaults \in Nat

DirectoryStep == 1
BootstrapStep == 2
LibrariesStep == 3
WkhtmltopdfStep == 4
CloneStep == 5
VenvStep == 6
RequirementsStep == 7

PreState == {"Untracked", "Preexisting", "CreatedByUs"}

\* Of a package there may be another version than ours; only wkhtmltox is asked for
\* in one.
PackageState == {"absent", "half", "other", "installed"}

\* The directory, which holds files of theirs when it is theirs, the modules and
\* the sources in it, the virtualenv: with bin/python3 only, empty, or filled.
Whose == {"absent", "ours", "theirs"}
Sources == {"absent", "invalid", "unborn", "partial", "other branch", "mixed", "whole"}
Tree == [dir : Whose, modules : Whose, repo : Sources, venv : {"absent", "half", "bare", "filled"}]
NoTree == [dir |-> "absent", modules |-> "absent", repo |-> "absent", venv |-> "absent"]

\* Nothing in a tree that is found is ours, and without the directory there is none.
ASSUME TreesAssumption ==
    \A t \in FoundTrees : /\ t \in Tree /\ "ours" \notin {t.dir, t.modules}
                          /\ t.dir = "absent" => t = NoTree

\* AptDeltaSnapshot (its delta), CloneSnapshot and the PreState of the others.
Snapshots ==
    [tools : SUBSET Name, libraries : SUBSET Name,
     wkhtmltox : PreState, repo : PreState, venv : PreState]

Default ==
    [tools |-> {}, libraries |-> {},
     wkhtmltox |-> "Untracked", repo |-> "Untracked", venv |-> "Untracked"]

\* What the records of some steps hold of a snapshot.
Fields(k) ==
    CASE k = BootstrapStep -> {"tools"}
      [] k = LibrariesStep -> {"libraries"}
      [] k = WkhtmltopdfStep -> {"wkhtmltox"}
      [] k = CloneStep -> {"repo"}
      [] k = VenvStep -> {"venv"}
      [] OTHER -> {}

\* Mutant: the packages go with the instance that added them.
OwnPackages(k, i) == "OwnInstance"

\* artifact_scope: the purge of a delta "would remove packages another instance
\* is running on".
Scope(k, i) ==
    IF k \in {BootstrapStep, LibrariesStep, WkhtmltopdfStep} THEN "Shared" ELSE "OwnInstance"

Kept(a) == a

INSTANCE Commands WITH
    Last <- RequirementsStep, NoArgs <- "none", rest <- world

-----------------------------------------------------------------------------
Init ==
    /\ family \in {"Debian", "Fedora"} /\ release \in Releases /\ index \in BOOLEAN
    /\ \E there \in FoundPackages, version \in {"other", "installed"} :
          pkg = [p \in Package |-> IF p \notin there THEN "absent"
                                  ELSE IF p = Wkhtmltox THEN version ELSE "installed"]
    /\ tree \in [Instance -> FoundTrees]
    /\ attempt = 0
    /\ found = [pkg |-> pkg, tree |-> tree]
    /\ Start

Install(i) == Begin(i, "none")
Rollback(i) == BeginRollback(i, "none")

Finish ==
    /\ Finished
    /\ UNCHANGED world

-----------------------------------------------------------------------------
\* is_installed: of a name, as dpkg-query or rpm knows it.
IsInstalled(n) == n \in Package /\ pkg[n] = "installed"

\* availability: without an index every answer is "Absent".
Availability(n) ==
    IF ~index \/ n \notin release THEN "Absent" ELSE IF n \in Package THEN "Real" ELSE "VirtualOnly"

\* The first of a group's alternatives with a property.
FirstOf(g, P(_)) == g[Min({j \in DOMAIN g : P(g[j])})]
Some(g, P(_)) == \E j \in DOMAIN g : P(g[j])
IsReal(n) == Availability(n) = "Real"
IsVirtual(n) == Availability(n) = "VirtualOnly"

Resolvable(g) == Some(g, IsInstalled) \/ Some(g, IsReal) \/ Some(g, IsVirtual)

\* resolve: what a group adds to the delta.  One that is installed wins, then
\* the first with a real candidate, then the first virtual one; what cannot be
\* looked up yet is asked for under its preferred name.
Added(g) ==
    CASE Some(g, IsInstalled) -> {}
      [] ~Some(g, IsInstalled) /\ Some(g, IsReal) -> {FirstOf(g, IsReal)}
      [] ~Some(g, IsInstalled) /\ ~Some(g, IsReal) /\ Some(g, IsVirtual) -> {FirstOf(g, IsVirtual)}
      [] ~Resolvable(g) -> IF g \in Optional THEN {} ELSE {g[1]}

Delta(groups) == UNION {Added(g) : g \in groups}

Unavailable(groups) == {g \in groups \ Optional : ~Resolvable(g)}

\* Only the first of the two goes on without an index, which it refreshes.
SnapshotTools ==
    /\ At(BootstrapStep)
    /\ Unavailable(Tools) # {} => ~index
    /\ Snapshotted([snap EXCEPT !.tools = Delta(Tools)])

SnapshotLibraries ==
    /\ At(LibrariesStep)
    /\ Unavailable(Libraries) = {}
    /\ Snapshotted([snap EXCEPT !.libraries = Delta(Libraries)])

\* Whether wkhtmltopdf says it is the pinned version; one that could not be
\* configured may.
SaysItIs(right) == right \in IF pkg[Wkhtmltox] = "half" THEN BOOLEAN ELSE {pkg[Wkhtmltox] = "installed"}

SnapshotWkhtmltopdf ==
    /\ At(WkhtmltopdfStep)
    /\ \E right \in BOOLEAN :
          SaysItIs(right) /\ Snapshotted([snap EXCEPT !.wkhtmltox = Verdict(right)])

\* detect_odoo_source: a repository counts by its branch, another directory by
\* its odoo-bin.  A repository on another branch, or on none, is refused.
SnapshotClone ==
    /\ At(CloneStep)
    /\ tree[who].repo \notin {"other branch", "unborn"}
    /\ Snapshotted([snap EXCEPT !.repo = Verdict(tree[who].repo \in {"whole", "partial", "mixed"})])

SnapshotVenv ==
    /\ At(VenvStep)
    /\ Snapshotted([snap EXCEPT !.venv = Verdict(tree[who].venv # "absent")])

\* The snapshots of the other two say nothing.
SnapshotNothing ==
    /\ At(DirectoryStep) \/ At(RequirementsStep)
    /\ Snapshotted(snap)

-----------------------------------------------------------------------------
\* The machine's steps before these.
RunDirectory ==
    /\ Running(DirectoryStep)
    /\ UNCHANGED <<world, snap>>
    /\ Ran

\* dpkg has a package it could not configure, and apt refuses.
Broken(p) == \E n \in Package : p[n] = "half"

Real(n) == IF n \in Virtual THEN Provider[n] ELSE n

With(names, state) == [p \in Package |-> IF \E n \in names : Real(n) = p THEN state ELSE pkg[p]]

\* What an installation that fails may leave: what it had unpacked is there,
\* but for one that was not configured.  rpm applies all or nothing.
Cut(names) ==
    {pkg} \cup
    IF family = "Fedora" THEN {}
    ELSE {[With(part, "installed") EXCEPT ![Real(n)] = IF @ = "installed" THEN @ ELSE "half"] :
             part \in SUBSET names, n \in names}

PackageStep == pc = "run" /\ idx \in {BootstrapStep, LibrariesStep}
Wanted == IF idx = BootstrapStep THEN snap.tools ELSE snap.libraries

\* refresh_apt_index, in the first of the two: a refresh that failed will do
\* when there is an index.
Refreshed == IF idx = BootstrapStep /\ attempt = 0 THEN {index, TRUE} ELSE {index}

\* install_resolved, when the manager has done it: nothing is asked of it when
\* the delta is empty.
RunPackages ==
    /\ PackageStep
    /\ index' \in Refreshed /\ (idx = BootstrapStep => index')
    /\ Wanted # {} => Wanted \subseteq release /\ ~Broken(pkg)
    /\ pkg' = With(Wanted, "installed")
    /\ attempt' = 0
    /\ UNCHANGED snap
    /\ Ran
    /\ UNCHANGED <<machine, tree>>

\* A download the mirror dropped is asked for again, and nothing else is.
AskAgain ==
    /\ PackageStep /\ Wanted # {}
    /\ attempt + 1 < Attempts
    /\ index' \in Refreshed /\ (idx = BootstrapStep => index')
    /\ attempt' = attempt + 1
    /\ UNCHANGED <<machine, pkg, tree, man, pc, who, idx, snap, recorded, others, args,
                   remains, spoilt, faults>>

\* There is no index, the mirror does not answer, a name does not exist, or the
\* manager stopped half-way.
PackagesFail ==
    /\ PackageStep
    /\ index' \in Refreshed
    /\ \/ idx = BootstrapStep /\ ~index' /\ UNCHANGED pkg
       \/ Wanted # {} /\ pkg' \in IF Wanted \subseteq release THEN Cut(Wanted) ELSE {pkg}
    /\ attempt' = 0
    /\ UNCHANGED snap
    /\ Failed
    /\ UNCHANGED <<machine, tree, faults>>

\* The file is installed once its checksum has matched, over another version too.
RunWkhtmltopdf ==
    /\ Running(WkhtmltopdfStep)
    /\ IF snap.wkhtmltox = "Preexisting"
       THEN UNCHANGED <<pkg, snap>>
       ELSE /\ ~Broken(pkg)
            /\ pkg' = With({Wkhtmltox}, "installed")
            /\ snap' = [snap EXCEPT !.wkhtmltox = "CreatedByUs"]
    /\ Ran
    /\ UNCHANGED <<machine, index, tree, attempt>>

\* Only what is installed is claimed: a package that could not be configured
\* stays.
WkhtmltopdfFails ==
    /\ Running(WkhtmltopdfStep) /\ snap.wkhtmltox # "Preexisting"
    /\ \/ UNCHANGED <<pkg, faults>>
       \/ pkg' \in Cut({Wkhtmltox}) \ {pkg} /\ Fault
    /\ UNCHANGED snap
    /\ Failed
    /\ UNCHANGED <<machine, index, tree, attempt>>

-----------------------------------------------------------------------------
MadeDir(whose) == IF whose = "absent" THEN "ours" ELSE whose

\* The directories of the sources, without a repository that is not one.
Prepared ==
    [tree[who] EXCEPT !.dir = MadeDir(@), !.modules = MadeDir(@),
                      !.repo = IF attempt = 0 /\ @ = "invalid" THEN "absent" ELSE @]

Claimed == [snap EXCEPT !.repo = "CreatedByUs"]

RunClone ==
    /\ Running(CloneStep)
    /\ IF snap.repo = "Preexisting"
       THEN UNCHANGED <<tree, snap>>
       ELSE /\ attempt < Attempts /\ Prepared.repo = "absent"
            /\ tree' = [tree EXCEPT ![who] = [Prepared EXCEPT !.repo = "whole"]]
            /\ snap' = Claimed
    /\ attempt' = 0
    /\ Ran
    /\ UNCHANGED <<machine, index, pkg>>

\* What a clone that fails or runs out of time leaves.
Torn(repo) == IF repo = "absent" THEN {"absent", "unborn", "partial"} ELSE {repo}

\* The partial tree is removed before the next attempt.
Cleaned(torn) == "absent"

CloneAgain ==
    /\ Running(CloneStep) /\ snap.repo # "Preexisting"
    /\ attempt < Attempts
    /\ \E torn \in Torn(Prepared.repo) :
          \/ /\ tree' = [tree EXCEPT ![who] = [Prepared EXCEPT !.repo = Cleaned(torn)]]
             /\ UNCHANGED faults
          \/ /\ torn # "absent" /\ tree' = [tree EXCEPT ![who] = [Prepared EXCEPT !.repo = torn]]
             /\ Fault
    /\ attempt' = attempt + 1
    /\ snap' = Claimed
    /\ UNCHANGED <<machine, index, pkg, man, pc, who, idx, recorded, others, args, remains, spoilt>>

\* The tarball, once every attempt to clone has failed, is unpacked over what is
\* there.
RunTarball ==
    /\ Running(CloneStep) /\ snap.repo # "Preexisting"
    /\ attempt = Attempts
    /\ tree' = [tree EXCEPT ![who].repo = IF @ = "absent" THEN "whole" ELSE "mixed"]
    /\ attempt' = 0
    /\ UNCHANGED snap
    /\ Ran
    /\ UNCHANGED <<machine, index, pkg>>

\* The tarball fails too, or the directories cannot be made: the first may be,
\* and is not claimed.
CloneFails ==
    /\ Running(CloneStep) /\ snap.repo # "Preexisting"
    /\ \/ /\ attempt = Attempts
          /\ tree' = [tree EXCEPT ![who].repo = IF @ = "absent" THEN "invalid" ELSE @]
          /\ UNCHANGED faults
       \/ attempt = 0 /\ UNCHANGED <<tree, faults>>
       \/ attempt = 0 /\ tree[who].dir = "absent" /\ tree' = [tree EXCEPT ![who].dir = "ours"] /\ Fault
    /\ attempt' = 0
    /\ UNCHANGED snap
    /\ Failed
    /\ UNCHANGED <<machine, index, pkg>>

\* A group is satisfied by a package of one of its names, or one that provides it.
Satisfied(g) == \E j \in DOMAIN g : pkg[Real(g[j])] = "installed"

\* python_venv_available asks for what the package brings.
RunVenv ==
    /\ Running(VenvStep)
    /\ IF snap.venv = "Preexisting"
       THEN UNCHANGED <<tree, snap>>
       ELSE /\ Satisfied(VenvGroup)
            /\ tree' = [tree EXCEPT ![who].venv = "bare", ![who].dir = MadeDir(@)]
            /\ snap' = [snap EXCEPT !.venv = "CreatedByUs"]
    /\ Ran
    /\ UNCHANGED <<machine, index, pkg, attempt>>

\* Only what was made whole is claimed: a half-built virtualenv stays.
VenvFails ==
    /\ Running(VenvStep) /\ snap.venv # "Preexisting"
    /\ \/ UNCHANGED <<tree, faults>>
       \/ tree' = [tree EXCEPT ![who].venv = "half"] /\ Fault
    /\ UNCHANGED snap
    /\ Failed
    /\ UNCHANGED <<machine, index, pkg, attempt>>

\* pip takes a virtualenv that has it and the requirements of the sources.
RunRequirements ==
    /\ Running(RequirementsStep)
    /\ tree[who].venv \in {"bare", "filled"} /\ tree[who].repo \notin {"absent", "invalid", "unborn"}
    /\ tree' = [tree EXCEPT ![who].venv = "filled"]
    /\ UNCHANGED snap
    /\ Ran
    /\ UNCHANGED <<machine, index, pkg, attempt>>

RequirementsFail ==
    /\ Running(RequirementsStep)
    /\ UNCHANGED <<world, snap, faults>>
    /\ Failed

-----------------------------------------------------------------------------
\* Mutant: the manager is not repaired before a removal.
NotRepaired(p) == p

\* try_repair and try_deep_repair: what was left half-way is configured.
Repaired(p) == [n \in Package |-> IF p[n] = "half" THEN "installed" ELSE p[n]]

\* remove: exactly what was asked.  A virtual name is none of the packages.
Removed(p, names) ==
    IF Broken(p) THEN p ELSE [n \in Package |-> IF n \in names THEN "absent" ELSE p[n]]

\* remove_with_recovery: it never fails, but may leave everything when the
\* removal after the second repair has failed as well.
Purge(names) ==
    IF names = {}
    THEN UNCHANGED <<pkg, faults>>
    ELSE \/ pkg' = Removed(Repaired(pkg), names) /\ UNCHANGED faults
         \/ pkg' \in {pkg, Repaired(pkg)} /\ Fault

\* The tools stay, unless the rollback is an aggressive one.
UndoTools ==
    /\ Undoing(BootstrapStep)
    /\ \/ UNCHANGED <<pkg, faults>>
       \/ Purge(snap.tools)
    /\ Undone
    /\ UNCHANGED <<machine, index, tree, attempt>>

UndoLibraries ==
    /\ Undoing(LibrariesStep)
    /\ Purge(snap.libraries)
    /\ Undone
    /\ UNCHANGED <<machine, index, tree, attempt>>

UndoWkhtmltopdf ==
    /\ Undoing(WkhtmltopdfStep)
    /\ IF snap.wkhtmltox = "CreatedByUs" THEN Purge({Wkhtmltox}) ELSE UNCHANGED <<pkg, faults>>
    /\ Undone
    /\ UNCHANGED <<machine, index, tree, attempt>>

\* The container goes if nothing is in it.
IsEmpty(t) == t.dir = "ours" /\ t.modules = "absent" /\ t.repo = "absent" /\ t.venv = "absent"

WithoutContainer(t) == IF IsEmpty(t) THEN [t EXCEPT !.dir = "absent"] ELSE t

\* The sources, the modules and the container; any may fail with a warning.
UndoClone ==
    /\ Undoing(CloneStep)
    /\ IF snap.repo # "CreatedByUs"
       THEN UNCHANGED <<tree, faults>>
       ELSE \E repo, modules, container \in BOOLEAN :
               LET t == [tree[who] EXCEPT !.repo = IF repo THEN "absent" ELSE @,
                                          !.modules = IF modules THEN "absent" ELSE @]
               IN  /\ tree' = [tree EXCEPT ![who] = IF container THEN WithoutContainer(t) ELSE t]
                   /\ IF repo /\ modules /\ container THEN UNCHANGED faults ELSE Fault
    /\ Undone
    /\ UNCHANGED <<machine, index, pkg, attempt>>

\* Its packages are gone with it.
UndoVenv ==
    /\ Undoing(VenvStep)
    /\ IF snap.venv # "CreatedByUs"
       THEN UNCHANGED <<tree, faults>>
       ELSE \/ tree' = [tree EXCEPT ![who].venv = "absent"] /\ UNCHANGED faults
            \/ Fault /\ UNCHANGED tree
    /\ Undone
    /\ UNCHANGED <<machine, index, pkg, attempt>>

UndoNothing ==
    /\ Undoing(DirectoryStep) \/ Undoing(RequirementsStep)
    /\ Undone
    /\ UNCHANGED <<world, faults>>

-----------------------------------------------------------------------------
\* A process dies, in the middle of a run too.
Die ==
    /\ Dies
    /\ attempt' = 0
    /\ \/ UNCHANGED <<pkg, tree>>
       \/ PackageStep /\ Wanted # {} /\ pkg' \in Cut(Wanted) /\ UNCHANGED tree
       \/ /\ Running(WkhtmltopdfStep) /\ snap.wkhtmltox # "Preexisting"
          /\ pkg' \in Cut({Wkhtmltox}) /\ UNCHANGED tree
       \/ /\ Running(CloneStep) /\ snap.repo # "Preexisting"
          /\ \E torn \in Torn(Prepared.repo) :
                tree' = [tree EXCEPT ![who] = [Prepared EXCEPT !.repo = torn]]
          /\ UNCHANGED pkg
    /\ UNCHANGED <<machine, index>>

Next ==
    \/ \E i \in Instance : Install(i) \/ Rollback(i)
    \/ Stops \/ Skip \/ Finish
    \/ SnapshotTools \/ SnapshotLibraries \/ SnapshotWkhtmltopdf
    \/ SnapshotClone \/ SnapshotVenv \/ SnapshotNothing
    \/ RunDirectory \/ RunPackages \/ AskAgain \/ PackagesFail
    \/ RunWkhtmltopdf \/ WkhtmltopdfFails
    \/ RunClone \/ CloneAgain \/ RunTarball \/ CloneFails
    \/ RunVenv \/ VenvFails \/ RunRequirements \/ RequirementsFail
    \/ LeaveShared \/ UndoTools \/ UndoLibraries \/ UndoWkhtmltopdf
    \/ UndoClone \/ UndoVenv \/ UndoNothing
    \/ Die

Spec == Init /\ [][Next]_vars

-----------------------------------------------------------------------------
WorldType ==
    /\ family \in {"Debian", "Fedora"} /\ release \in Releases /\ index \in BOOLEAN
    /\ pkg \in [Package -> PackageState] /\ (family = "Fedora" => ~Broken(pkg))
    /\ tree \in [Instance -> Tree]
    /\ attempt \in 0 .. Attempts /\ (attempt > 0 => pc = "run")

TypeOK == WorldType /\ ProcessType(Snapshots, {"none"})

\* A finished instance has everything Odoo runs on, whoever else installs, fails
\* and goes: the packages of every required group, wkhtmltopdf in the pinned
\* version, sources that are whole and a filled virtualenv ("the delta purge would remove packages another
\* instance is running on", artifact_scope).
FinishedIsWhole ==
    faults = 0 /\ ~spoilt =>
        \A i \in Instance : man[i].finished /\ ~(pc = "undo" /\ who = i) =>
            /\ \A g \in Groups \ Optional : Satisfied(g)
            /\ pkg[Wkhtmltox] = "installed"
            /\ tree[i].repo = "whole" /\ tree[i].venv = "filled"

ToolNames == UNION {{g[j] : j \in DOMAIN g} : g \in Tools}

\* A package that stays: one of the tools, or one that was only asked for under
\* the name of what it provides.
Stays(p) == p \in {Real(n) : n \in ToolNames \cup Virtual}

\* What was found stays: the packages, but a wkhtmltox of another version,
\* which is replaced, claimed and purged ("ONLY what the installer created will be
\* removed", says the confirmation of `rollback`); the directory with whatever is in
\* it, sources that are a repository or Odoo's, and a virtualenv.
FoundStays ==
    /\ \A p \in Package : found.pkg[p] = "installed" => pkg[p] = "installed"
    /\ \A i \in Instance :
          LET t == found.tree[i]
          IN  /\ t.dir = "theirs" => tree[i].dir = "theirs"
              /\ t.repo \notin {"absent", "invalid"} => tree[i].repo = t.repo /\ tree[i].modules = t.modules
              /\ t.venv # "absent" => tree[i].venv = t.venv \/ (t.venv = "bare" /\ tree[i].venv = "filled")

\* What was found stays, whatever fails or dies; and when the last manifest is
\* gone, the packages and the directories are as they were found, in whatever
\* order the instances left and wherever an installation stopped, a package
\* manager left half-way included, but for a wkhtmltox of another version, which
\* may be gone.
RemovedMeansRestored ==
    /\ FoundStays
    /\ pc = "idle" /\ faults = 0 /\ ~spoilt /\ (\A i \in Instance : man[i].steps = {}) =>
          /\ \A p \in Package :
                pkg[p] = found.pkg[p] \/ Stays(p) \/ (found.pkg[p] = "other" /\ pkg[p] = "absent")
          /\ \A i \in Instance :
                LET t == found.tree[i]
                IN  tree[i] = [t EXCEPT !.repo = IF @ = "invalid" THEN tree[i].repo ELSE @]

\* The modules somebody has put beside the sources are not removed with them:
\* "pre-existing material included, stays" (the undo of clone-odoo-repo).
TheirModulesStay ==
    [][\A i \in Instance : tree[i].modules = "theirs" => tree'[i].modules = "theirs"]_vars

=============================================================================
