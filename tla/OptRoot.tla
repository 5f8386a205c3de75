------------------------------ MODULE OptRoot ------------------------------
(***************************************************************************)
(* The directories and users of several instances on one machine: the      *)
(* steps prepare-opt-root, create-odoo-user, setup-log-dir and             *)
(* setup-cache-dir.  The home of the unnamed instance is the shared root,  *)
(* below which every named one has its own; the first closes it (0750),    *)
(* the others have to walk through it.                                     *)
(*                                                                         *)
(* Commands run one at a time, each with the list of the other instances   *)
(* it read when it began (Commands).                                       *)
(***************************************************************************)
EXTENDS Naturals, FiniteSetsExt

CONSTANTS
    Unnamed, Named,   \* the instance installed without --instance, the others
    None,             \* no log file
    FoundModes,       \* the modes the shared root may be found with
    Settled,          \* the instances whose user and home may be there before
    LogDirs,          \* the directories of the log files
    LogsOf,           \* the log directories an instance may be asked to use
    DieIn,            \* where a process may die: "install", "rollback"
    MaxFaults         \* bound on deaths and failed undos

VARIABLES
    dir,        \* the shared root (at Unnamed) and the homes below it
    user,       \* whose the system user of each instance is
    cache,      \* whose the .cache in each home is
    logs,       \* whose each log directory is
    written,    \* the log directories that hold files
    found,      \* the machine before the first command
    man,        \* the manifests
    pc,         \* "idle", "snapshot", "run", "undo"
    who, idx,   \* the instance and the step the process is at
    snap,       \* the snapshots in memory
    recorded,   \* the steps in the manifest in memory
    others,     \* Context::other_instances
    logfile,    \* Context::odoo_logfile
    remains,    \* the instances whose manifest is what a rollback left
    spoilt,     \* such a manifest was resumed, or a failed step left a shared
                \* artifact with no record
    faults

world == <<dir, user, cache, logs, written, found>>
process == <<pc, who, idx, snap, recorded, others, logfile>>
vars == <<world, process, man, remains, spoilt, faults>>

Instance == Named \cup {Unnamed}
Mode == {"755", "750", "751"}

ASSUME InstanceAssumption == Unnamed \notin Named /\ {"root", "none"} \cap Instance = {}
ASSUME NoneAssumption == None \notin LogDirs
ASSUME FoundAssumption == FoundModes \subseteq Mode /\ Settled \subseteq Instance
ASSUME LogsAssumption == LogsOf \in [Instance -> SUBSET (LogDirs \cup {None})]
ASSUME FaultsAssumption == DieIn \subseteq {"install", "rollback"} /\ MaxFaults \in Nat

OptRootStep == 1
UserStep == 2
LogDirStep == 3
CacheDirStep == 4
PreState == {"Untracked", "Preexisting", "CreatedByUs"}
Whose == {"absent", "ours", "theirs"}

\* A directory: whose it is, which user it belongs to, its mode.
Directory == [made : Whose, owner : Instance \cup {"root"}, mode : Mode]
NoDirectory == [made |-> "absent", owner |-> "root", mode |-> "755"]

\* OptRootSnapshot, CreateUserSnapshot and the PreState of the other two.
Snapshots ==
    [root : PreState, home : PreState, before : Mode \cup {"none"},
     user : PreState, owner : Instance \cup {"root", "none"}, mode : Mode \cup {"none"},
     log : PreState, cache : PreState]

Default ==
    [root |-> "Untracked", home |-> "Untracked", before |-> "none",
     user |-> "Untracked", owner |-> "none", mode |-> "none",
     log |-> "Untracked", cache |-> "Untracked"]

\* What the records of some steps hold of a snapshot.
Fields(k) ==
    CASE k = OptRootStep -> {"root", "home", "before"}
      [] k = UserStep -> {"user", "owner", "mode"}
      [] k = LogDirStep -> {"log"}
      [] k = CacheDirStep -> {"cache"}

\* artifact_scope
Scope(k, i) ==
    CASE k = OptRootStep -> IF i = Unnamed THEN "Shared" ELSE "Mixed"
      [] k = UserStep -> IF i = Unnamed THEN "Shared" ELSE "OwnInstance"
      [] OTHER -> "OwnInstance"

Kept(file) == file

INSTANCE Commands WITH
    Nobody <- Unnamed, Last <- CacheDirStep, NoArgs <- None, args <- logfile, rest <- world

There(d) == dir[d].made # "absent"

\* Others may walk through the shared root.
Open(mode) == mode # "750"
Widened(mode) == IF mode = "750" THEN "751" ELSE mode

CanWalkIn(i) == i = Unnamed \/ Open(dir[Unnamed].mode)

-----------------------------------------------------------------------------
\* A user that is there already may have a home, its own or root's.
Homes(root, users) ==
    {d \in [Named -> {NoDirectory} \cup
                     [made : {"theirs"}, owner : Settled \cup {"root"}, mode : {"755"}]] :
        \A i \in Named :
            d[i] # NoDirectory => /\ root # NoDirectory
                                  /\ users[i] = "theirs" /\ d[i].owner \in {i, "root"}}

Roots(users) ==
    {NoDirectory} \cup
        {r \in [made : {"theirs"}, owner : {"root", Unnamed}, mode : FoundModes] :
            r.owner = Unnamed => users[Unnamed] = "theirs"}

Init ==
    /\ user \in {u \in [Instance -> {"absent", "theirs"}] : \A i \in Instance \ Settled : u[i] = "absent"}
    /\ \E root \in Roots(user) : \E h \in Homes(root, user) :
          dir = [i \in Instance |-> IF i = Unnamed THEN root ELSE h[i]]
    /\ cache \in {c \in [Instance -> {"absent", "theirs"}] :
                     \A i \in Instance : c[i] = "theirs" => dir[i].owner = i}
    /\ logs \in [LogDirs -> {"absent", "theirs"}]
    /\ written \in SUBSET {d \in LogDirs : logs[d] = "theirs"}
    /\ found = [dir |-> dir, user |-> user, cache |-> cache, logs |-> logs]
    /\ Start

\* A resumed installation may log elsewhere; the undos read the recorded file.
Install(i) == \E file \in LogsOf[i] : Begin(i, file)

Rollback(i) == BeginRollback(i, man[i].args)

\* The steps after these succeed, and Odoo writes its log.
Finish ==
    /\ Finished
    /\ written' = written \cup ({logfile} \ {None})
    /\ UNCHANGED <<dir, user, cache, logs, found>>

-----------------------------------------------------------------------------
\* traversal_to_widen
ToWiden ==
    IF who # Unnamed /\ There(Unnamed) /\ ~Open(dir[Unnamed].mode) THEN dir[Unnamed].mode ELSE "none"

SnapshotOptRoot ==
    /\ At(OptRootStep)
    /\ Snapshotted([snap EXCEPT !.root = Verdict(There(Unnamed)),
                                !.home = Verdict(who # Unnamed /\ There(who)),
                                !.before = ToWiden])

\* refuse_unusable_home: a user of theirs whose home is root's.
SnapshotUser ==
    /\ At(UserStep)
    /\ user[who] # "absent" /\ There(who) => dir[who].owner # "root"
    /\ Snapshotted([snap EXCEPT !.user = Verdict(user[who] # "absent"),
                                !.owner = IF There(who) THEN dir[who].owner ELSE "none",
                                !.mode = IF There(who) THEN dir[who].mode ELSE "none"])

SnapshotLogDir ==
    /\ At(LogDirStep)
    /\ Snapshotted([snap EXCEPT !.log = Verdict(logfile # None /\ logs[logfile] # "absent")])

SnapshotCacheDir ==
    /\ At(CacheDirStep)
    /\ Snapshotted([snap EXCEPT !.cache = Verdict(cache[who] # "absent")])

-----------------------------------------------------------------------------
\* create_level
Level == [made |-> "ours", owner |-> "root", mode |-> "755"]

\* hand_over_if_user_exists
HandedOver(d, i) == IF user[i] = "absent" THEN d ELSE [d EXCEPT !.owner = i, !.mode = "750"]

\* The shared root after the first half of the run.
RootMade ==
    IF snap.root # "Preexisting" THEN (IF who = Unnamed THEN HandedOver(Level, who) ELSE Level)
    ELSE IF snap.before # "none" THEN [dir[Unnamed] EXCEPT !.mode = Widened(snap.before)]
    ELSE dir[Unnamed]

Made(prestate) == IF prestate = "Preexisting" THEN prestate ELSE "CreatedByUs"

HomeToMake == who # Unnamed /\ snap.home # "Preexisting"

RunOptRoot ==
    /\ Running(OptRootStep)
    /\ dir' = [dir EXCEPT ![Unnamed] = RootMade,
                          ![who] = IF HomeToMake THEN HandedOver(Level, who) ELSE @]
    /\ snap' = [snap EXCEPT !.root = Made(@), !.home = IF HomeToMake THEN "CreatedByUs" ELSE @]
    /\ Ran
    /\ UNCHANGED <<user, cache, logs, written, found>>

\* Mutant: the verdicts are set only once the whole run has worked.
HalvesUnclaimed ==
    {[dir |-> d, user |-> u, snap |-> snap, bare |-> snap] :
        d \in {dir, [dir EXCEPT ![Unnamed] = RootMade]}, u \in {user}}

\* What prepare-opt-root and create-odoo-user leave when they fail: nothing, a
\* root or a home that was not handed over, a user without its home.  What
\* exists is claimed, but for a level whose mode could not be set (bare).
Halves ==
    {[dir |-> dir, user |-> user, snap |-> snap, bare |-> snap]} \cup
    IF idx = OptRootStep
    THEN LET root == [dir EXCEPT ![Unnamed] = IF snap.root = "Preexisting" THEN RootMade ELSE Level]
             claimed == [snap EXCEPT !.root = Made(@)]
         IN  {[dir |-> root, user |-> user, snap |-> claimed, bare |-> snap]} \cup
             (IF HomeToMake
              THEN {[dir |-> [root EXCEPT ![who] = Level], user |-> user,
                     snap |-> [claimed EXCEPT !.home = "CreatedByUs"], bare |-> claimed]}
              ELSE {})
    ELSE IF idx = UserStep /\ snap.user = "Untracked" /\ There(who)
         THEN {[dir |-> dir, user |-> [user EXCEPT ![who] = "ours"],
                snap |-> [snap EXCEPT !.user = "CreatedByUs"],
                bare |-> [snap EXCEPT !.user = "CreatedByUs"]]}
         ELSE {}

RunHalfway ==
    /\ pc = "run" /\ idx \in {OptRootStep, UserStep}
    /\ \E h \in Halves :
          /\ dir' = h.dir /\ user' = h.user
          /\ \/ snap' = h.snap /\ UNCHANGED faults
             \/ snap' = h.bare /\ Fault
    /\ Failed
    /\ UNCHANGED <<cache, logs, written, found>>

\* useradd --create-home makes the home that is not there; the one that is gets
\* its new owner.
RunUser ==
    /\ Running(UserStep)
    /\ IF snap.user = "Preexisting"
       THEN UNCHANGED <<dir, user>>
       ELSE /\ who # Unnamed => There(Unnamed)
            /\ user' = [user EXCEPT ![who] = "ours"]
            /\ dir' = [dir EXCEPT ![who] = [made |-> IF There(who) THEN @.made ELSE "ours",
                                            owner |-> who, mode |-> "750"]]
    /\ snap' = [snap EXCEPT !.user = Made(@)]
    /\ Ran
    /\ UNCHANGED <<cache, logs, written, found>>

\* Nothing is done without a log file.
RunLogDir ==
    /\ Running(LogDirStep)
    /\ IF logfile = None \/ snap.log = "Preexisting"
       THEN UNCHANGED <<logs, snap>>
       ELSE /\ logs' = [logs EXCEPT ![logfile] = "ours"]
            /\ snap' = [snap EXCEPT !.log = "CreatedByUs"]
    /\ Ran
    /\ UNCHANGED <<dir, user, cache, written, found>>

\* The user makes it, which takes a home of its own it can reach.
RunCacheDir ==
    /\ Running(CacheDirStep)
    /\ snap.cache = "Preexisting" \/ (There(who) /\ dir[who].owner = who /\ CanWalkIn(who))
    /\ cache' = [cache EXCEPT ![who] = IF snap.cache = "Preexisting" THEN @ ELSE "ours"]
    /\ snap' = [snap EXCEPT !.cache = Made(@)]
    /\ Ran
    /\ UNCHANGED <<dir, user, logs, written, found>>

\* The one command failed; a log directory may be made and not handed over.
RunFails ==
    /\ pc = "run" /\ idx \in {LogDirStep, CacheDirStep}
    /\ \/ UNCHANGED <<logs, snap>>
       \/ /\ idx = LogDirStep /\ logfile # None /\ snap.log = "Untracked"
          /\ logs' = [logs EXCEPT ![logfile] = "ours"]
          /\ snap' = [snap EXCEPT !.log = "CreatedByUs"]
    /\ Failed
    /\ UNCHANGED <<dir, user, cache, written, found, faults>>

-----------------------------------------------------------------------------
\* Only an empty directory is removed; homes are below the root.
IsEmpty(i, d) == cache[i] = "absent" /\ (i = Unnamed => \A j \in Named : d[j].made = "absent")

\* Mutant: any empty directory is removed.
AnyLevelRemoved(i, prestate, d) ==
    IF IsEmpty(i, d) THEN [d EXCEPT ![i] = NoDirectory] ELSE d

\* undo_level
LevelRemoved(i, prestate, d) ==
    IF prestate = "CreatedByUs" /\ IsEmpty(i, d) THEN [d EXCEPT ![i] = NoDirectory] ELSE d

\* Mutant: the bit goes with the instance that set it.
TraversedByNobody == FALSE

\* Context::shared_root_traversed_by_others: the unnamed one owns the root.
TraversedByOthers == others \cap Named # {}

\* restore_shared_root_mode: only what was changed, if it is as it was left.
ModeRestored(d) ==
    IF /\ ~TraversedByOthers /\ snap.before # "none"
       /\ d[Unnamed].made # "absent" /\ d[Unnamed].mode = Widened(snap.before)
    THEN [d EXCEPT ![Unnamed].mode = snap.before]
    ELSE d

\* The home, the mode, the root; any of the three may fail with a warning.
UndoOptRoot ==
    /\ Undoing(OptRootStep)
    /\ \E done \in SUBSET {"home", "mode", "root"} :
          LET home == IF who # Unnamed /\ "home" \in done THEN LevelRemoved(who, snap.home, dir) ELSE dir
              mode == IF "mode" \in done THEN ModeRestored(home) ELSE home
          IN  /\ dir' = IF others = {} /\ "root" \in done THEN LevelRemoved(Unnamed, snap.root, mode) ELSE mode
              /\ IF Cardinality(done) = 3 THEN UNCHANGED faults ELSE Fault
    /\ Undone
    /\ UNCHANGED <<user, cache, logs, written, found>>

\* Mutant: only the owner is put back (A-V6-12).
HomeOwnerGivenBack ==
    IF There(who) /\ snap.owner # "none" THEN [dir EXCEPT ![who].owner = snap.owner] ELSE dir

\* Owner and mode are put back as they were before the hand-over.
HomeGivenBack ==
    IF There(who)
    THEN [dir EXCEPT ![who].owner = IF snap.owner = "none" THEN @ ELSE snap.owner,
                     ![who].mode = IF snap.mode = "none" THEN @ ELSE snap.mode]
    ELSE dir

\* userdel without -r, then the home; each may fail with a warning.
UndoUser ==
    /\ Undoing(UserStep)
    /\ IF snap.user # "CreatedByUs"
       THEN UNCHANGED <<dir, user, faults>>
       ELSE \E deleted, given \in BOOLEAN :
               /\ user' = IF deleted THEN [user EXCEPT ![who] = "absent"] ELSE user
               /\ dir' = IF given THEN HomeGivenBack ELSE dir
               /\ IF deleted /\ given THEN UNCHANGED faults ELSE Fault
    /\ Undone
    /\ UNCHANGED <<cache, logs, written, found>>

\* Only if it is empty: logs already written are never deleted.
UndoLogDir ==
    /\ Undoing(LogDirStep)
    /\ IF snap.log = "CreatedByUs" /\ logfile # None /\ logfile \notin written
       THEN \/ logs' = [logs EXCEPT ![logfile] = "absent"] /\ UNCHANGED faults
            \/ Fault /\ UNCHANGED logs
       ELSE UNCHANGED <<logs, faults>>
    /\ Undone
    /\ UNCHANGED <<dir, user, cache, written, found>>

UndoCacheDir ==
    /\ Undoing(CacheDirStep)
    /\ IF snap.cache = "CreatedByUs"
       THEN \/ cache' = [cache EXCEPT ![who] = "absent"] /\ UNCHANGED faults
            \/ Fault /\ UNCHANGED cache
       ELSE UNCHANGED <<cache, faults>>
    /\ Undone
    /\ UNCHANGED <<dir, user, logs, written, found>>

-----------------------------------------------------------------------------
\* A process dies between two steps, or half-way through a run or an undo, and
\* its manifest stays as it was last saved.
Die ==
    /\ Dies
    /\ \/ /\ pc = "run" /\ "install" \in DieIn
          /\ \E h \in Halves : dir' = h.dir /\ user' = h.user
       \/ /\ \/ pc = "snapshot" /\ "install" \in DieIn
             \/ pc = "undo" /\ "rollback" \in DieIn
          /\ UNCHANGED <<dir, user>>
    /\ UNCHANGED <<cache, logs, written, found>>

Next ==
    \/ \E i \in Instance : Install(i) \/ Rollback(i)
    \/ Stops \/ Skip \/ Finish
    \/ SnapshotOptRoot \/ SnapshotUser \/ SnapshotLogDir \/ SnapshotCacheDir
    \/ RunOptRoot \/ RunUser \/ RunLogDir \/ RunCacheDir
    \/ RunHalfway \/ RunFails
    \/ LeaveShared \/ UndoOptRoot \/ UndoUser \/ UndoLogDir \/ UndoCacheDir
    \/ Die

Spec == Init /\ [][Next]_vars

-----------------------------------------------------------------------------
WorldType ==
    /\ dir \in [Instance -> Directory]
    /\ user \in [Instance -> Whose] /\ cache \in [Instance -> Whose]
    /\ logs \in [LogDirs -> Whose] /\ written \subseteq LogDirs

TypeOK == WorldType /\ ProcessType(Snapshots, LogDirs \cup {None})

\* Nothing that was there before the first command is ever removed, whatever
\* instances come, fail, die and go: no directory, user, cache or log directory
\* (the promise of every undo, "undo NO-OP (directory not created by us)").
TheirsStay ==
    /\ \A i \in Instance :
          /\ found.dir[i].made = "theirs" => dir[i].made = "theirs"
          /\ found.user[i] = "theirs" => user[i] = "theirs"
          /\ found.cache[i] = "theirs" => cache[i] = "theirs"
    /\ \A d \in LogDirs : found.logs[d] = "theirs" => logs[d] = "theirs"

\* A rollback, of a failed installation or of a whole one, leaves every other
\* live instance its home and the way to it (shared_in_use and
\* shared_root_traversed_by_others).
CanReachHome(i) == There(Unnamed) /\ There(i) /\ CanWalkIn(i)

RollbackShutsNobodyOut ==
    [][pc = "undo" =>
        \A i \in Instance \ {who} : IsLive(i) /\ CanReachHome(i) => CanReachHome(i)']_vars

Claimed(f, i, k) == k \in man[i].steps /\ man[i].snap[f] = "CreatedByUs"

\* What an installation made is in some manifest, in whatever order instances
\* fail and go, but for what a failed step could not record.
LeftoversAreRecorded ==
    pc = "idle" /\ faults = 0 /\ ~spoilt =>
        /\ \A i \in Instance :
              /\ dir[i].made = "ours" =>
                    \E j \in Instance : \/ i = Unnamed /\ Claimed("root", j, OptRootStep)
                                        \/ i = j /\ Claimed("home", j, OptRootStep)
              /\ user[i] = "ours" => Claimed("user", i, UserStep)
              /\ cache[i] = "ours" => Claimed("cache", i, CacheDirStep)
        /\ \A d \in LogDirs \ written :
              logs[d] = "ours" => \E i \in Instance : Claimed("log", i, LogDirStep) /\ man[i].args = d

\* All instances are gone, and nothing failed or was left unrecorded.
AllRemoved == pc = "idle" /\ faults = 0 /\ ~spoilt /\ \A i \in Instance : man[i].steps = {}

\* The modes a root may end with that was found with this one: it may keep the
\* traversal bit; and one found with 0751, closed by the unnamed instance and
\* widened by a named one, is 0751 again when the first leaves, which the second
\* takes for its own widening and closes.
LeftWith(mode) == IF mode = "755" THEN {"755"} ELSE {"750", "751"}

\* When the last manifest is gone, every directory is back as it was found, with
\* its owner and its mode, in whatever order the instances left.  Only the
\* traversal bit of the root may differ: it may stay ("the bit can outlive the
\* instance that set it, and that is accepted"), or go with a root found 0751,
\* whatever restore_shared_root_mode says ("we put back what we changed, or we
\* leave it alone").
RemovedMeansRestored ==
    AllRemoved =>
        /\ user = found.user /\ cache = found.cache
        /\ \E mode \in LeftWith(found.dir[Unnamed].mode) :
              dir = [found.dir EXCEPT ![Unnamed].mode = mode]

\* A named instance that has been installed beyond its user can walk through the
\* shared root ("the shared root has to be walkable by everybody under it").
InstalledCanWalkIn ==
    pc = "idle" => \A i \in Named : man[i].finished => CanWalkIn(i)

=============================================================================
