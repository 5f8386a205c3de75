------------------------------- MODULE Nginx -------------------------------
(***************************************************************************)
(* One nginx that several instances proxy through: the steps nginx-install,*)
(* nginx-write-config, nginx-enable-site, nginx-selinux, nginx-firewall and*)
(* nginx-reload of each, over whatever nginx the customer runs.            *)
(*                                                                         *)
(* On Debian a site is written and then enabled by a link, and a default   *)
(* site is in the way; elsewhere writing it enables it, and there is       *)
(* SELinux.  The commands are those of Commands.  What an instance made    *)
(* before these steps is its step Base.                                    *)
(***************************************************************************)
EXTENDS Naturals, FiniteSetsExt

CONSTANTS
    Instance,      \* the instances
    Behind,        \* those with with_nginx
    Https,         \* those with nginx_open_https_port
    Families,      \* "debian", "fedora"
    Odd,           \* the instances whose vhost or link may be there before
    FoundSites,    \* what the default site may be found to be
    FoundRules,    \* the open ports the firewall may be found with
    DieIn,         \* where a process may die: "install", "rollback"
    MaxFaults      \* bound on deaths, failed undos and failed removals

VARIABLES
    family,           \* os_family
    pkg,              \* whose the nginx package is
    enabled, active,  \* the service
    vhost, backup,    \* the file of each instance, and the copies of it
    link,             \* what each enabling link points to
    site, siteBackup, \* the default site, and whether a copy of it is kept
    switch,           \* the SELinux boolean
    walled, rules,    \* is there an active firewall, and its open ports
    loaded,           \* the configuration the running nginx serves
    found,            \* the machine before the first command
    man, pc, who, idx, snap, recorded, others, remains, spoilt, faults

service == <<pkg, enabled, active, loaded>>
files == <<vhost, backup, link, site, siteBackup>>
guards == <<switch, rules>>
fixed == <<family, walled, found>>
world == <<service, files, guards, fixed>>
vars == <<world, man, pc, who, idx, snap, recorded, others, remains, spoilt, faults>>

Port == {80, 443}

ASSUME InstanceAssumption ==
    /\ Instance # {}
    /\ Behind \subseteq Instance /\ Https \subseteq Behind /\ Odd \subseteq Instance
ASSUME FamilyAssumption == Families \subseteq {"debian", "fedora"}
ASSUME FoundAssumption ==
    FoundSites \subseteq {"absent", "link", "file", "other"} /\ FoundRules \subseteq SUBSET Port
ASSUME FaultsAssumption == DieIn \subseteq {"install", "rollback"} /\ MaxFaults \in Nat

Base == 1
InstallStep == 2
WriteStep == 3
EnableStep == 4
SelinuxStep == 5
FirewallStep == 6
ReloadStep == 7

PreState == {"Untracked", "Preexisting", "CreatedByUs"}
Whose == {"absent", "ours", "theirs"}
Site == {"absent", "link", "file", "other"}

\* The snapshots of the six steps; moved is whether the backup of a default
\* site that is a file is recorded.
Snapshots ==
    [installed : PreState, enabled : PreState, vhost : PreState, backup : {"none", "theirs", "ours"},
     link : PreState, site : Site, moved : BOOLEAN,
     switch : PreState, delta : SUBSET Port, active : PreState]

Default ==
    [installed |-> "Untracked", enabled |-> "Untracked", vhost |-> "Untracked", backup |-> "none",
     link |-> "Untracked", site |-> "absent", moved |-> FALSE,
     switch |-> "Untracked", delta |-> {}, active |-> "Untracked"]

Fields(k) ==
    CASE k = Base -> {}
      [] k = InstallStep -> {"installed", "enabled"}
      [] k = WriteStep -> {"vhost", "backup"}
      [] k = EnableStep -> {"link", "site", "moved"}
      [] k = SelinuxStep -> {"switch"}
      [] k = FirewallStep -> {"delta"}
      [] k = ReloadStep -> {"active"}

\* Mutant: the firewall's rules taken for the instance's own.
RulesOwned(k, i) ==
    CASE k = InstallStep -> "Mixed"
      [] k = SelinuxStep -> "Shared"
      [] OTHER -> "OwnInstance"

\* artifact_scope
Scope(k, i) ==
    CASE k = InstallStep -> "Mixed"
      [] k \in {SelinuxStep, FirewallStep} -> "Shared"
      [] OTHER -> "OwnInstance"

Kept(args) == args

INSTANCE Commands WITH
    Nobody <- CHOOSE i \in Instance : TRUE, Last <- ReloadStep, NoArgs <- "none",
    args <- "none", rest <- world

\* What a configuration serves: a link may lead to a file of another name.
ServedBy(v, l, i) ==
    IF family = "fedora" \/ l[i] = "vhost" THEN v[i]
    ELSE IF l[i] = "elsewhere" THEN "theirs"
    ELSE "absent"

Config(v, l, s) == [sites |-> [i \in Instance |-> ServedBy(v, l, i)], default |-> s # "absent"]
OnDisk == Config(vhost, link, site)
NotRunning == [sites |-> [i \in Instance |-> "absent"], default |-> FALSE]

\* nginx -t: an enabling link that leads nowhere makes it fail.
Valid == family = "fedora" \/ \A i \in Instance : link[i] = "vhost" => vhost[i] # "absent"

-----------------------------------------------------------------------------
\* Nothing of nginx is there without its package.
Init ==
    /\ family \in Families
    /\ pkg \in {"absent", "theirs"}
    /\ enabled \in {FALSE, pkg = "theirs"} /\ active \in {FALSE, pkg = "theirs"}
    /\ vhost \in {v \in [Instance -> {"absent", "theirs"}] :
                    \A i \in Instance : v[i] = "theirs" => i \in Odd /\ pkg = "theirs"}
    /\ link \in {l \in [Instance -> {"absent", "vhost", "elsewhere"}] :
                    \A i \in Instance :
                        /\ l[i] = "vhost" => vhost[i] = "theirs"
                        /\ l[i] # "absent" => i \in Odd /\ pkg = "theirs" /\ family = "debian"}
    /\ site \in {s \in FoundSites : s # "absent" => family = "debian" /\ pkg = "theirs"}
    /\ switch \in (IF family = "fedora" THEN {"none", "off", "on"} ELSE {"none"})
    /\ walled \in BOOLEAN
    /\ rules \in {r \in FoundRules : r # {} => walled}
    /\ backup = [i \in Instance |-> {}] /\ siteBackup = FALSE
    /\ loaded = IF active THEN OnDisk ELSE NotRunning
    /\ found = [pkg |-> pkg, enabled |-> enabled, active |-> active, vhost |-> vhost,
                link |-> link, site |-> site, switch |-> switch, rules |-> rules]
    /\ Start

Install(i) == Begin(i, "none")
Rollback(i) == BeginRollback(i, "none")

Finish == Finished /\ UNCHANGED world

-----------------------------------------------------------------------------
\* Without with_nginx every step is inert and its snapshot the default.
Gated == who \notin Behind

SnapshotBase == At(Base) /\ Snapshotted(snap)

SnapshotInstall ==
    /\ At(InstallStep)
    /\ Snapshotted(IF Gated THEN snap ELSE
          [snap EXCEPT !.installed = Verdict(pkg # "absent"), !.enabled = Verdict(enabled)])

SnapshotWrite ==
    /\ At(WriteStep)
    /\ Snapshotted(IF Gated THEN snap ELSE [snap EXCEPT !.vhost = Verdict(vhost[who] # "absent")])

SnapshotEnable ==
    /\ At(EnableStep)
    /\ Snapshotted(IF Gated THEN snap ELSE
          [snap EXCEPT !.link = Verdict(link[who] # "absent"), !.site = site])

SnapshotSelinux ==
    /\ At(SelinuxStep)
    /\ Snapshotted(IF Gated THEN snap ELSE [snap EXCEPT !.switch = Verdict(switch = "on")])

Wanted(i) == IF i \in Https THEN {80, 443} ELSE IF i \in Behind THEN {80} ELSE {}

\* Mutant: the whole of what is wanted is claimed.
WholeWanted == IF walled THEN Wanted(who) ELSE {}

\* The wanted rules that are not there, if there is a firewall.
Delta == IF walled THEN Wanted(who) \ rules ELSE {}

SnapshotFirewall == At(FirewallStep) /\ Snapshotted([snap EXCEPT !.delta = Delta])

SnapshotReload ==
    /\ At(ReloadStep)
    /\ Snapshotted(IF Gated THEN snap ELSE [snap EXCEPT !.active = Verdict(active)])

-----------------------------------------------------------------------------
\* The effects of the runs, up to how far they get: 0 not at all, 1 half-way, 2
\* to the end; and what their snapshots claim by then.
Made(prestate) == IF prestate = "Preexisting" THEN prestate ELSE "CreatedByUs"
MadeIf(done, prestate) == IF done THEN Made(prestate) ELSE prestate

\* The package, then the service.  A Debian package enables and starts the
\* service itself, with a default site.
InstallEffect(far) ==
    /\ IF far >= 1 /\ snap.installed = "Untracked"
       THEN /\ pkg' = "ours"
            /\ IF family = "debian"
               THEN active' = TRUE /\ site' = "link" /\ loaded' = Config(vhost, link, "link")
               ELSE UNCHANGED <<active, site, loaded>>
       ELSE UNCHANGED <<pkg, active, site, loaded>>
    /\ enabled' = (enabled \/ far = 2 \/ (pkg' # pkg /\ family = "debian"))
    /\ UNCHANGED <<vhost, backup, link, siteBackup, guards, fixed>>

InstallClaims(far) == [snap EXCEPT !.installed = MadeIf(far >= 1, @), !.enabled = MadeIf(far = 2, @)]

\* Mutant: the file is written over with no copy.
NotSetAside(far) == UNCHANGED backup

SetAside(far) ==
    backup' = IF far >= 1 /\ snap.vhost = "Preexisting"
              THEN [backup EXCEPT ![who] = @ \cup {vhost[who]}] ELSE backup

\* A file that is there is copied, then ours is moved over it.
WriteEffect(far) ==
    /\ SetAside(far)
    /\ vhost' = IF far = 2 THEN [vhost EXCEPT ![who] = "ours"] ELSE vhost
    /\ UNCHANGED <<service, link, site, siteBackup, guards, fixed>>

WriteClaims(far) ==
    [snap EXCEPT !.backup = IF far >= 1 /\ snap.vhost = "Preexisting" THEN vhost[who] ELSE @,
                 !.vhost = MadeIf(far = 2, @)]

MovedIfFile == snap.site = "file"

\* displace_default_site: a link is removed, or stays with a warning, a file moved,
\* the rest left.
Displaced(far) ==
    IF far = 0 THEN {site}
    ELSE CASE snap.site = "link" -> {"absent", site}
           [] snap.site = "file" -> {"absent"}
           [] OTHER -> {site}

\* Then our link is made with ln -sf, over whatever is there.
EnableEffect(far) ==
    /\ site' \in Displaced(far)
    /\ siteBackup' = (siteBackup \/ (far >= 1 /\ MovedIfFile))
    /\ link' = IF far = 2 /\ family = "debian" THEN [link EXCEPT ![who] = "vhost"] ELSE link
    /\ UNCHANGED <<service, vhost, backup, guards, fixed>>

EnableClaims(far) ==
    [snap EXCEPT !.moved = @ \/ (far >= 1 /\ MovedIfFile),
                 !.link = MadeIf(far = 2 /\ family = "debian", @)]

SelinuxEffect(far) ==
    /\ switch' = IF far = 2 /\ switch = "off" THEN "on" ELSE switch
    /\ UNCHANGED <<service, files, rules, fixed>>

SelinuxClaims(far) ==
    [snap EXCEPT !.switch = MadeIf(far = 2 /\ switch # "none", @)]

\* One rule after the other, 80 first.
FirewallEffect(far) ==
    /\ rules' = CASE far = 0 -> rules
                  [] far = 1 -> rules \cup (snap.delta \cap {80})
                  [] far = 2 -> rules \cup snap.delta
    /\ UNCHANGED <<service, files, switch, fixed>>

\* nginx -t, then a reload, or a start.
ReloadEffect(far) ==
    /\ IF far = 2 THEN Valid /\ active' = TRUE /\ loaded' = OnDisk ELSE UNCHANGED <<active, loaded>>
    /\ UNCHANGED <<pkg, enabled, files, guards, fixed>>

ReloadClaims(far) ==
    [snap EXCEPT !.active = IF far = 2 /\ ~active THEN "CreatedByUs" ELSE @]

Effect(far) ==
    \/ idx = Base /\ UNCHANGED world
    \/ idx = InstallStep /\ InstallEffect(far)
    \/ idx = WriteStep /\ WriteEffect(far)
    \/ idx = EnableStep /\ EnableEffect(far)
    \/ idx = SelinuxStep /\ SelinuxEffect(far)
    \/ idx = FirewallStep /\ FirewallEffect(far)
    \/ idx = ReloadStep /\ ReloadEffect(far)

Claims(far) ==
    CASE idx = InstallStep -> InstallClaims(far)
      [] idx = WriteStep -> WriteClaims(far)
      [] idx = EnableStep -> EnableClaims(far)
      [] idx = SelinuxStep -> SelinuxClaims(far)
      [] idx = ReloadStep -> ReloadClaims(far)
      [] OTHER -> snap

-----------------------------------------------------------------------------
RunStep ==
    /\ pc = "run"
    /\ IF Gated THEN UNCHANGED <<world, snap>> ELSE Effect(2) /\ snap' = Claims(2)
    /\ Ran

\* Where a run may fail: the setting of a mode or an owner, or a reload of the
\* firewall, fails when all is in place.
FailsAt ==
    CASE idx \in {Base, InstallStep, SelinuxStep, ReloadStep} -> {0}
      [] idx = EnableStep -> {0, 1}
      [] idx \in {WriteStep, FirewallStep} -> {0, 1, 2}

RunFails ==
    /\ pc = "run" /\ ~Gated
    /\ \E far \in FailsAt : Effect(far) /\ snap' = Claims(far)
    /\ Failed
    /\ UNCHANGED faults

\* A failed installation of the package may leave it there, unclaimed, and when
\* the enabling fails a Debian package has done it already, and nothing says so.
HalfInstalled ==
    /\ Running(InstallStep) /\ ~Gated /\ snap.installed = "Untracked"
    /\ InstallEffect(1)
    /\ snap' \in {snap, InstallClaims(1)}
    /\ Failed /\ Fault

-----------------------------------------------------------------------------
\* An undo takes its parts one by one, and each may fail with a warning.
Parts(all) == {done \in SUBSET all : faults + Cardinality(all \ done) <= MaxFaults}

Cost(done, all) == faults' = faults + Cardinality(all \ done)

UndoBase ==
    /\ Undoing(Base)
    /\ Undone
    /\ UNCHANGED <<world, faults>>

\* The nginx it started is stopped, whoever is behind it by now.
UndoReload ==
    /\ Undoing(ReloadStep)
    /\ IF snap.active = "CreatedByUs"
       THEN \/ /\ active' = FALSE /\ loaded' = NotRunning
               /\ UNCHANGED <<pkg, enabled, faults>>
            \/ Fault /\ UNCHANGED service
       ELSE UNCHANGED <<service, faults>>
    /\ Undone
    /\ UNCHANGED <<files, guards, fixed>>

UndoFirewall ==
    /\ Undoing(FirewallStep)
    /\ \E done \in Parts(snap.delta) :
          rules' = rules \ done /\ Cost(done, snap.delta)
    /\ Undone
    /\ UNCHANGED <<service, files, switch, fixed>>

UndoSelinux ==
    /\ Undoing(SelinuxStep)
    /\ IF snap.switch = "CreatedByUs"
       THEN \/ switch' = "off" /\ UNCHANGED faults
            \/ Fault /\ UNCHANGED switch
       ELSE UNCHANGED <<switch, faults>>
    /\ Undone
    /\ UNCHANGED <<service, files, rules, fixed>>

\* restore_default_site: a link is made again, a file is moved back.
UndoEnable ==
    /\ Undoing(EnableStep)
    /\ \E done \in Parts({"link", "site"}) :
          /\ link' = IF "link" \in done /\ snap.link = "CreatedByUs"
                     THEN [link EXCEPT ![who] = "absent"] ELSE link
          /\ IF "site" \in done /\ (snap.site = "link" \/ (snap.moved /\ siteBackup))
             THEN site' = snap.site /\ siteBackup' = (siteBackup /\ ~snap.moved)
             ELSE UNCHANGED <<site, siteBackup>>
          /\ Cost(done, {"link", "site"})
    /\ Undone
    /\ UNCHANGED <<service, vhost, backup, guards, fixed>>

\* The file is removed, or the copy that is recorded moved back.
UndoWrite ==
    /\ Undoing(WriteStep)
    /\ CASE snap.vhost = "CreatedByUs" ->
              \/ vhost' = [vhost EXCEPT ![who] = "absent"] /\ UNCHANGED <<backup, faults>>
              \/ Fault /\ UNCHANGED <<vhost, backup>>
         [] snap.vhost = "Preexisting" /\ snap.backup \in backup[who] ->
              \/ /\ vhost' = [vhost EXCEPT ![who] = snap.backup]
                 /\ backup' = [backup EXCEPT ![who] = @ \ {snap.backup}]
                 /\ UNCHANGED faults
              \/ Fault /\ UNCHANGED <<vhost, backup>>
         [] OTHER -> UNCHANGED <<vhost, backup, faults>>
    /\ Undone
    /\ UNCHANGED <<service, link, site, siteBackup, guards, fixed>>

Reloads(up) == up /\ Valid

\* Stop and disable what it enabled, purge if --aggressive-rollback is given to
\* this very command; then, whoever else is there, an nginx that is up reloads
\* what is left.
UndoInstall ==
    /\ Undoing(InstallStep)
    /\ \E done \in Parts({"stop", "disable", "purge", "reload"}), aggressive \in BOOLEAN :
          LET alone == others = {}
              stopped == alone /\ snap.enabled = "CreatedByUs" /\ "stop" \in done
              purged == alone /\ snap.installed = "CreatedByUs" /\ aggressive /\ "purge" \in done
              up == active /\ ~stopped /\ ~purged
          IN  /\ active' = up
              /\ enabled' = (enabled /\ ~purged
                               /\ ~(alone /\ snap.enabled = "CreatedByUs" /\ "disable" \in done))
              /\ pkg' = IF purged THEN "absent" ELSE pkg
              /\ site' = IF purged THEN "absent" ELSE site
              /\ loaded' = CASE ~up -> NotRunning
                             [] Reloads(up) /\ "reload" \in done -> OnDisk
                             [] OTHER -> loaded
              /\ Cost(done, {"stop", "disable", "purge", "reload"})
    /\ Undone
    /\ UNCHANGED <<vhost, backup, link, siteBackup, guards, fixed>>

Die ==
    /\ Dies
    /\ \/ pc = "run" /\ "install" \in DieIn /\ ~Gated /\ \E far \in 0 .. 2 : Effect(far)
       \/ pc = "snapshot" /\ "install" \in DieIn /\ UNCHANGED world
       \/ pc = "undo" /\ "rollback" \in DieIn /\ UNCHANGED world

Next ==
    \/ \E i \in Instance : Install(i) \/ Rollback(i)
    \/ Stops \/ Skip \/ Finish
    \/ SnapshotBase \/ SnapshotInstall \/ SnapshotWrite \/ SnapshotEnable
    \/ SnapshotSelinux \/ SnapshotFirewall \/ SnapshotReload
    \/ RunStep \/ RunFails \/ HalfInstalled
    \/ LeaveShared
    \/ UndoBase \/ UndoInstall \/ UndoWrite \/ UndoEnable
    \/ UndoSelinux \/ UndoFirewall \/ UndoReload
    \/ Die

Spec == Init /\ [][Next]_vars

-----------------------------------------------------------------------------
WorldType ==
    /\ family \in Families
    /\ pkg \in Whose /\ enabled \in BOOLEAN /\ active \in BOOLEAN
    /\ vhost \in [Instance -> Whose] /\ backup \in [Instance -> SUBSET {"ours", "theirs"}]
    /\ link \in [Instance -> {"absent", "vhost", "elsewhere"}]
    /\ site \in Site /\ siteBackup \in BOOLEAN
    /\ switch \in {"none", "off", "on"} /\ walled \in BOOLEAN /\ rules \in SUBSET Port
    /\ loaded \in [sites : [Instance -> Whose], default : BOOLEAN]

TypeOK == WorldType /\ ProcessType(Snapshots, {"none"})

\* What the customer had written is never lost: a vhost is in its place or in a
\* copy, a default site that is a file in its place or in its backup ("moved to a
\* backup rather than deleted, and the undo puts it back").
CustomerConfigKept ==
    /\ \A i \in Instance :
          found.vhost[i] = "theirs" => vhost[i] = "theirs" \/ "theirs" \in backup[i]
    /\ found.site = "file" => site = "file" \/ siteBackup

\* A customer's link of our name to a file of another is written over; the link
\* is not restored, and leads nowhere when our vhost is gone.
LinksAreOurs == \A i \in Instance : found.link[i] # "elsewhere"

\* Between commands a running nginx serves what is on disk: "after our vhost is
\* gone, a running nginx is still serving the config it loaded (A1.4)".
ServedIsOnDisk == pc = "idle" /\ faults = 0 /\ LinksAreOurs /\ active => loaded = OnDisk

\* A rollback takes nothing another instance behind the proxy needs: its vhost,
\* its link, its ports, the boolean, the package (artifact_scope); and when it
\* has ended nginx serves what is left, and nothing that was removed.
RollbackCutsNobodyOff ==
    [][pc = "undo" =>
        /\ ServedIsOnDisk'
        /\ \A i \in (Behind \ {who}) : IsLive(i) =>
              /\ vhost'[i] = vhost[i] /\ link'[i] = link[i]
              /\ rules \cap Wanted(i) \subseteq rules'
              /\ switch = "on" => switch' = "on"
              /\ pkg # "absent" => pkg' # "absent"
              /\ enabled => enabled']_vars

\* When the last manifest is gone the customer's nginx is as it was found, in
\* whatever order the instances left; only an nginx that was not enabled is no
\* longer up, and a package of ours stays unless a purge was asked for (D3).
RemovedMeansRestored ==
    pc = "idle" /\ faults = 0 /\ ~spoilt /\ (\A i \in Instance : man[i].steps = {}) =>
        /\ vhost = found.vhost /\ switch = found.switch /\ rules = found.rules
        /\ \A i \in Instance : found.link[i] # "elsewhere" => link[i] = found.link[i]
        /\ found.pkg = "theirs" => pkg = "theirs" /\ site = found.site
        /\ enabled = found.enabled
        /\ active => found.active
        /\ found.active /\ found.enabled => active

\* A rollback never stops the nginx another installed instance lives behind
\* ("with another one installed it is neither stopped nor purged").
RollbackStopsNobody ==
    [][pc = "undo" /\ active /\ ~active' => \A i \in (Behind \ {who}) : ~man[i].finished]_vars

=============================================================================
