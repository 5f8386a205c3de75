# invok in TLA+

`invok` installs Odoo on a machine as a sequence of reversible steps, keeps a
manifest of what it did, resumes an interrupted installation, and removes an
installation later from its manifest alone, next to other instances that share
part of what it made. This directory holds TLA+ modules of that machinery, TLC
configurations that check them on small instances, and theorems about them that
TLAPS proves for every instance.

Source paths below are relative to `src/src/`.

## 1. The system

| part | source | state | operations |
|---|---|---|---|
| step contract | `step.rs` | a verdict (`PreState`) per artifact a step manages | `snapshot`, `run`, `undo`, `snapshot_value`/`rehydrate` |
| engine | `engine.rs` | manifest in memory, interrupt flag, local `completed` | `execute_with_reporter`, `mark_finished`, `rollback_with_reporter` |
| manifest | `state.rs` | one file per instance: records, configuration, `finished` | `load`, `save`, `clear`, `record`, `forget`, `start_decision` |
| discovery | `manifests.rs` | none (reads every manifest) | `discover`, `is_live`, `live_others`, `tombstones`, `port_conflict`, `select` |
| rollback from disk | `rollback.rs`, `main.rs` | outcomes of one rollback | `rollback_from_state_sharing_with`, `rollback_manifest`, `rollback_all` |
| install command | `main.rs`, `lockfile.rs`, `interrupt.rs` | decision, list of other instances, lock, signal flag | `run_install`, `decide_start`, `archive_manifest`, `acquire`, `install` |
| registry | `steps/mod.rs` | none | `build_steps`, `step_by_name`, `artifact_scope`, `remove_with_recovery`, `remove_created_root` |
| database steps | `steps/setup_postgres.rs`, `create_db_role.rs`, `create_database.rs`, `setup_data_dir.rs`, `initialize_odoo_database.rs` | one snapshot each, `Context::db_created_by_us` | the contract's |
| root and user steps | `steps/prepare_opt_root.rs`, `create_odoo_user.rs`, `setup_log_dir.rs`, `setup_cache_dir.rs` | levels, owner and mode given away, the traversal bit | the contract's, `record`'s hand-over |
| package and source steps | `steps/apt_packages.rs`, `install_wkhtmltopdf.rs`, `clone_odoo_repo.rs`, `create_virtualenv.rs`, `install_python_requirements.rs` | the delta asked for, the sources found | the contract's, with retries and a tarball for the clone |
| nginx steps | `steps/nginx_*.rs` | the copy of a vhost, the default site, the rules opened, the boolean, what was running | the contract's |
| service and shell steps | `steps/generate_config.rs`, `setup_systemd.rs`, `write_control_script.rs`, `patch_bashrc.rs` | copies, directories made, the owner | the contract's; the script's `start`, `stop`, `dev` |
| package managers, distributions | `packaging/*`, `distro/*` | none | `availability`, `install`, `remove`, `try_repair`, `try_deep_repair` |
| machine access | `system_ops.rs` | none | one call each |
| checks, configuration, prompts, reports | `checks.rs`, `config.rs`, `cli.rs`, `prompt.rs`, `progress.rs`, `logging.rs` | none | input and output |

How they interact. `run_install` reads the manifest of its instance and decides
(fresh, resume, replace or refuse), reads every manifest once more (ports, who
else is installed), asks for a confirmation, registers the signal handler,
takes one lock for the machine, and hands the steps to the engine. The engine
drives each step through `snapshot` and `run`, appends a record and saves the
manifest; on any failure, and on a signal seen between two steps, it undoes the
completed steps backwards and rewrites or removes the manifest. `run_rollback`
reads the manifests, loads one, asks, locks, rebuilds each recorded step,
undoes it, and writes back the records of what stayed. Every step gets its
scope from `artifact_scope`: the undo of a *shared* step is not called while
another instance is live, a *mixed* one is called and leaves its shared half.

What is hard: a process may end anywhere (a second signal, SIGKILL, power) and
what survives is a file written in place; manifests of several processes
accumulate verdicts; the undo order, the failing step and partial failures; the
lists and decisions read before the lock and used after it; instances removed
in any order, each holding part of what the others need; one nginx, one root,
one firewall and one package database behind all of them, each changed by
several instances; copies of a customer's file put back long after; retries over
half-done work; sessions of the control script that take no lock; and 23 of the
25 undos report success whatever they left behind (`write-control-script` and
`patch-bashrc` can return an error).

What makes the parts correct:

- step contract: an undo removes only what its run made; the verdict is set when
  the artifact comes into existence, never taken anew from a mutated machine;
- engine: what was there before is never touched; what an ended process leaves
  behind is in the manifest, or bounded; a resumed run skips only what is
  there; every run ends; a signal is honoured;
- discovery and rollback from disk: what stays is still listed; a shared
  artifact goes when nobody is left, not before, and does go then;
- install command: what a process decided is still true when it acts;
- database steps: an existing database is neither dropped nor written into, nor
  its filestore removed; what was made goes again, in an order that can work;
- every other step: what the customer had is in its place or in a copy, what a
  live instance needs survives the rollback of another, and when the last
  instance has left, in whatever order they left, the machine is as it was found.

`PROJECT.json` lists the hazards at their lines with the properties that catch
them.

## 2. Modules

| module | models | kind |
|---|---|---|
| `StepContract` | the contract as operators over a machine of artifacts | operators |
| `Engine` | the in-process installer over one manifest, run after run | state machine |
| `Reversible` | what an installer promises, without steps or manifest | abstract specification |
| `DiskRollback` | `invok rollback` and `rollback --all` over all manifests | state machine |
| `Machine` | several commands at once: reading, asking, locking, acting | state machine |
| `Database` | the five database steps over a PostgreSQL server in use | state machine |
| `Commands` | the engine as the steps of one component see it, for several instances | actions, instantiated by the four below |
| `OptRoot` | root, users, homes, log and cache directories | state machine |
| `Nginx` | the six nginx steps over one server | state machine |
| `Service` | configuration, service, control script and `.bashrc` | state machine |
| `Software` | packages, wkhtmltopdf, sources, virtualenv | state machine |
| `EngineProofs`, `DiskRollbackProofs`, `MachineProofs`, `DatabaseProofs`, `OptRootProofs`, `NginxProofs`, `ServiceProofs`, `SoftwareProofs` | theorems of the module they are named after | proofs |
| `MCEngine`, `MCDiskRollback`, `MCMachine`, `MCOptRoot`, `MCNginx`, `MCService`, `MCSoftware` | instances for TLC | model values, constraints |

### StepContract and Engine

An artifact is what a step creates: a directory, a user, a database. `art` says
what the machine holds (`absent`, `theirs`, `ours`), `pre` what the step objects
in memory believe. Which steps exist, which artifacts each manages, which are
shared and which scope a step has are constants, with the assumption the
classification in `artifact_scope` is meant to satisfy.

The actions of `Engine` are the branches of the engine's loops: `Interrupted`,
`Skip`, `RehydrateFails`, `TakeSnapshot`, `SnapshotFails`, `Run`, `RunFails`,
`Persist`, `PersistFails`, `MarkFinished`; `LeaveShared`, `Undo`,
`ClearManifest`, `SaveManifest`. Three more are the world: `Start` (a process,
with `start_decision` for a request that names the recorded artifacts),
`Signal`, and `Die`, which may leave half of a run, of an undo or of a save.
`execute`'s local `completed` is always the steps before the current one, so it
is represented by the indices `idx`, `cur` and `top`. A failed save leaves the
old file, a torn one or the new one, according to the call that failed.
`dry_run` changes nothing and is left out.

### DiskRollback

Each manifest is a sequence of records in the order they were appended, each
with the artifacts its snapshot calls ours. `RollbackOne` and `RollbackAll` are
the commands, `Pass1`, `Pass1Done`, `Pass2`, `AllDone` the two loops of
`rollback_all`, with the manifests discovered anew each time round;
`NotCalled` and `Called` the two ways a record is dealt with, `WriteBack` the
pruned manifest. An undo that is called removes what it can, or leaves any part of
it and warns: it then returns `Ok` and its record is consumed like that of one
that worked; only `write-control-script` and `patch-bashrc` may return an error,
which keeps the record. The history variable `warned` is what warnings have left.
Manifests may be torn, lack a configuration, or mention a step this binary does
not know. No installation runs meanwhile (that is `Machine`).

### Machine

The point is what lies between reading and acting. `DecideStart`, `Discover`,
`BeginInstall` and `BeginRollback`, `Load`, `BeginUndo` are separate actions
because other processes act between them; so are `BeginAll`, `Pass1`,
`Pass1Done`, `Pass2` and `AllDone`, since `rollback --all` discovers anew before
each manifest, takes the lock for one manifest at a time, and in its second pass
looks for tombstones alone and tells their undos of nobody else. A step and its
save are one action: `Engine` has what may go wrong inside. `Clash` is the port
check: an http port against another's http or gevent port, crosswise too. Three
history variables say when a reading is out of date: `stale`, the processes some
other one's write has overtaken, `overtaken`, whether one of them ever took the
lock, and `misled`, the second passes during which somebody else wrote a
manifest. Properties are stated with and without that condition: with it they
hold, which shows that reading again under the lock would be enough; without it
they do not. A step that finds its port taken at the socket is part of
`TurnedAway`; an instance may always be stopped, so that check is never relied
upon.

### Database

`setup-postgres`, `create-db-role`, `create-database`, `setup-data-dir` and
`initialize-odoo-database` are modelled one by one, because they hand each other
a verdict (`Context::db_created_by_us`) the contract does not know of. The
machine is the server's four axes (`installed`, `cluster`, `enabled`, `active`),
whose role and database of our names there are, how much schema the database
holds, whether there are databases of other names, and how many of the
directories down to the filestore exist. For each step there is a `Snapshot...`,
a `Run...`, where the code has more than one outcome a `Run...Fails`, and an
`Undo...`; `NotOurs` is the early return of an undo whose verdict is not
`CreatedByUs`. The undo of `setup-postgres` is its five calls, because the
administrator acts between them: `ListDatabases` (the question whether the
cluster may go), `StopServer`, `DisableServer`, `PurgePackages`,
`RemoveCluster`, with the answer to the first kept in `purge` for the last. The
engine is condensed to what the steps see of it: `Install` (new or resumed; a
resumed one starts with the recorded snapshots and with `db_created_by_us`
false), `Stops`, `Finish`, `Rollback`, `NextUndo`, `Die`. A run and its save are
one action: `Engine` has what may happen in between. `AdminCreates` is the
administrator, who makes databases of our name and of others at any moment the
server is up.

`found` (what the installation saw when it began) and `cut` (a rollback died)
are history variables: no action's guard or effect reads them. Two things are
assumed. A name that a process or a manifest claims is not taken by the
administrator (`Claimed`): `dropdb` goes by the name and could not tell. And the
instance is the only one: with others `setup-postgres` is a shared step, whose
undo the engine does not call (`Engine`, `DiskRollback`).

### Commands

The four modules below share one engine. `Commands` has what a component's steps
see of it: `Begin` (an installation, or the resumption of one, with the recorded
snapshots and the list of the other live instances) and `BeginRollback`; `Skip`,
`Snapshotted`, `Ran`, `Failed`, `Stops`, `Finished`; `LeaveShared`, `Undone`; and
`Dies`. The component gives the number of steps, the scope of each for each
instance, the fields of a record and what the manifest keeps of the context, and
adds one snapshot, run and undo per step, and a failing run where the code
leaves something behind on failure. Commands run one at a time: the lock is held
from before the first step to after the last undo, and what lies outside it is
`Machine`. A run and its save are one action; `Engine` has what happens between.

`found` (the machine before the first command) and `spoilt` are history
variables. `spoilt` says that an installation has resumed the remainder of a
rollback: the shared records stay in the manifest, the steps are skipped, and
what was undone of them by others since is not made again. `faults` counts what
the code cannot know of: deaths, failed undos, and failures that leave something
unclaimed. Properties of a machine put back are stated for no fault.

### OptRoot

A directory has a maker, an owner and a mode, of which only what the properties
tell apart is kept: closed (0750), open (0755) and 0751, closed but walkable. The
unnamed instance's home *is* the shared root; a named one's is a level below it.
`RunOptRoot` makes the missing levels and widens the traversal bit, only when
another's root is closed; `RunUser` hands the home over and closes it;
`RunLogDir` and `RunCacheDir` make one directory each. The undos give the owner
and the mode back, drop the bit when nobody else walks, remove a level only when
it is empty, and stop at what was there. `Context::odoo_logfile` of the running
process, and not the record, says which directory `setup-log-dir` undoes: that is
modelled (`logfile` and the manifest's `args`).

### Nginx

The package, the two axes of the service, a file and its copies and a link for
each instance, the default site and its backup, the SELinux boolean, the rules
of a firewall that may be off, and what the running server has loaded. Families
differ: on Debian a site is enabled by a link and the default site is in the
way. `loaded` is the point: a removed file is served on until somebody reloads.
The undos of the files do not; the one of `nginx-install` comes last and reloads
whatever is up, which is why its scope is mixed and not shared. `nginx -t` fails
only on a link that leads nowhere (`Valid`). A run that does several things may
fail after each (`RunFails`, `HalfInstalled`), and one thing it does may fail
with a warning: the link of the default site stays (`Displaced`). An undo takes
its parts one by one and each may fail with a warning (`Parts`).

### Service

A configuration and a unit for each instance, and for each administrator a
script, a link, two directories and a `.bashrc`, whose lines are the customer's
and ours. Copies keep what they were made of. The effect of a run up to the
point it gets to (`ScriptEffect(far)` and its like) follows the order of the
code: copied, replaced, linked, recorded; a run that fails and one that is
killed stop in between. The undo of `patch-bashrc` has a last resort, to take
its line out of the file and write that back in place: it may not be able to
read the file, and the write may fail or die in the middle (`WrittenShort`;
`cutShort` remembers whose file that was). The control script takes no lock, so
its sessions interleave with everything: `Enter` (the state is read, the trap
set), `StopIt`, `Leave` (the shell's end or a signal), `Unanswered`, `Answered`,
`Interrupted` (a signal while the question waits, when the traps are gone
already), `Lost` (killed outright). `owed` remembers what the first of
overlapping sessions found, and says `unmet` when the last that found the
service up was interrupted and left it down. `Types` and `Tidies` are an
administrator who edits his own `.bashrc` and removes the copies of it.

### Software

A package is absent, half-configured (dpkg only) or installed; a release of the
distribution says which names exist, an index may be out of date until it is
refreshed, and a name may be virtual. wkhtmltox may also be there in `other`
version than the pinned one: its step looks at the version and not at the
package (`SaysItIs`), takes such a one for absent and replaces it. The steps
resolve each group of alternatives to the first that exists, subtract what is
installed, and ask for the delta; a download is retried, an installation that
stops half-way leaves dpkg refusing everything until `try_repair`. Sources are
absent, partial, whole, on another branch or no repository at all; `CloneAgain`
cleans what an attempt left, and the tarball is the last resort.
`remove_with_recovery` is `Purge`: remove, repair, remove again, warn.

## 3. Runs

Deadlock is checked for every step module over all its commands: a command may
always begin. The runs of `Engine`, `DiskRollback` and `Machine` set
`CHECK_DEADLOCK FALSE`, because there the commands or the manifests to remove
may run out; those that show a violation do not ask.

| run | shows | bounds |
|---|---|---|
| `engine_all` | `Ownership`, `NeverTouchTheirs`, `LossBounded`, `IsReversible`, `EveryRunEnds`, `InterruptHonoured` under every fault | 3 steps, 4 artifacts, 2 faults |
| `engine_resume` | `ResumeFindsItsWork`, `FinishedMeansInstalled` when no rollback is cut short: torn and unreadable manifests, saves that fail after the write, undos that leave something and say nothing, deaths while installing and while saving | 3 steps, 2 faults |
| `disk_all` | `NothingForgotten`, `SharedOutlivesInstances`, `AllRemovesEverything`, `RollbackEnds`, the first three but for what an undo warned about | 3 instances, 2 faults, every undo may warn |
| `machine_all` | `OwnedUnlessOvertaken`, `PortsDifferUnlessOvertaken`, `SharedSurvivesTheLive`, with `--all` and crossing ports | 2 processes, 2 instances, 3 ports, 4 commands, 1 fault |
| `database_all` | `TheirDatabaseIsSafe`, `OtherDatabasesSurvive`, `FilestoreIsSafe`, `RollbackRestores`, `FinishedHasSchema` | both families, 2 directories, 2 faults, any number of commands |
| `optroot_all` | `TheirsStay`, `LeftoversAreRecorded`, `RemovedMeansRestored`, `RollbackShutsNobodyOut` | the unnamed and 2 named instances, roots of 0755, 0750 and 0751, 1 fault, any number of commands |
| `nginx_all` | `CustomerConfigKept`, `RemovedMeansRestored`, `RollbackCutsNobodyOff` | 2 instances, both families, 1 fault, any number of commands |
| `service_all` | `TheirsKept`, `RemovedMeansRestored` over every file that may be in the way, `ServicePutBack`, and `RemovedMeansRestored` beside sessions | 2 instances, 1 administrator, 1 fault, 2 sessions where no file is in the way |
| `software_all` | `FinishedIsWhole`, `RemovedMeansRestored` | 2 instances, both families, wkhtmltox in either version, 2 attempts, 1 fault |
| `optroot_closed` | violates `InstalledCanWalkIn` | no fault |
| `nginx_stop` | violates `RollbackStopsNobody` | no fault |
| `software_modules` | violates `TheirModulesStay` | no fault needed |

The bounds. In `Engine`, three steps give one of each scope, in the order of the
canonical sequence of a named instance (mixed, shared, own), and a first, a
middle and a last index; two faults give a fault in a run that recovers from a
fault. Artifacts may belong to somebody else from the start, so each verdict
occurs in each combination. Two instances share, a third is needed for a
rollback that finds a live instance and a tombstone together; of the two faults
of `disk_all` one is a warning and the other a write that fails, a kill or a
second warning. In `Machine` two processes are enough for one to overtake the
other, its second pass included; four commands let an installation be
interrupted, resumed and removed next to another; the three ports are two of
which one is the other's gevent port, and one apart. In `Database` two
directories give a filestore of which nothing, a part or all was there.

`OptRoot` needs the unnamed instance and two others: the root has a maker, a
second that walks through it, and one more that decides whether the first may
leave. The other three step modules relate an instance to *another*, so two are
enough. Where the machines to begin with are many, a `CONSTRAINT` of the MC module
takes one thing out of the ordinary at a time: `MCBounds` of `MCNginx` (the
customer's vhost or link, the default site, the firewall, SELinux), of
`MCSoftware` (a tree, packages, a release, the family) and `MCFiles` of
`MCService` (one of the configuration, the unit, the script and the link, over
every `.bashrc` and directory). `service_all` asks two things of `Service`: what
becomes of files, which the control script's sessions do not touch, and what the
sessions owe, which does not depend on the files. So there is no session where a
file is in the way (`MCFiles`), and no file in the way where there are sessions
(`MCSessions`; `MCBounds` is either). On one instance an edit of `.bashrc` and a
fault occur together (where `~/.scripts` and `~/.local/bin` were not there), a
file in the way and a fault, and sessions and a fault; beside a second instance at
most one of them does, and the fault beside a second instance is explored on the
machine that has a `.bashrc` without `PATH_LINE` and neither directory. After a
fault fewer instances go on (`MCFewAfterFault`, `MCAloneAfterFault`, and in
`MCBounds` of `MCSoftware`): the properties stated after faults are about what the
customer had, which the instances do not share there. The named instances of
`OptRoot`, the processes of `Machine` and the two sessions of `Service` are
interchangeable and declared symmetric; the runs with liveness have no symmetry.

`InterruptHonoured` and `EveryRunEnds` assume weak fairness of the program's own
steps (`WF_vars(Progress)`): the process is one thread that the system schedules
and that waits for no other (the lock is not waited for, and commands with a
time limit end). Nothing obliges anybody to start a process, to signal it or to
kill it. `RollbackEnds` assumes the same of the rollback, and that failures are
transient: they are bounded by `MaxFaults`. The step modules have no liveness of
their own: each of their actions is one of the engine's steps, which `Engine`
shows to end.

### What the violations show

1. `optroot_closed`: the home of the unnamed instance is the shared root, and
   `create-odoo-user` closes it (0750). Installed after a named one, it shuts the
   named one's user out, although "the shared root has to be walkable by
   everybody under it" (`prepare_opt_root.rs:38`). Only the other order is handled.
2. `nginx_stop`: the undo of `nginx-reload` stops the nginx its run started, and
   is called while others live. "With another one installed it is neither stopped
   nor purged" (`nginx_install.rs:102-103`) binds the undo of `nginx-install` only.
3. `software_modules`: `repos` is made by `mkdir -p` and removed with everything
   in it when the sources were ours, without having looked whether it was there.

### What the models exclude by name

Each is what the code does and the models have; the property named excludes it,
with the condition. The seven from the warning undo to wkhtmltox, where a comment
of the code claims more, were checked without the exception too: TLC finds each
so stated violated.

- *The failing step.* Its shared part is left while others live, but the record
  that "stays" (`engine.rs:295`) was never made (`LeftoversAreRecorded`).
- *A torn manifest.* `save` truncates in place (`state.rs:518`), so a death there
  loses every earlier record, in spite of `main.rs:569-570` (`LossBounded`).
- *A second signal during a rollback.* The manifest is rewritten after the last
  undo (`engine.rs:332`): a later run skips steps that were undone
  (`FinishedMeansInstalled` is checked and proved for rollbacks that get to their
  end, `RollbackIsWhole`).
- *An instance with only its home.* Interrupted after `prepare-opt-root` it is
  not live, and its home keeps the root from being removed by its maker
  (`manifests.rs:121`; `AllRemovesEverything`).
- *A decision older than the lock* (`main.rs:154`): `...UnlessOvertaken`.
- *A resume with another port* (`state.rs:286`): the manifest keeps the recorded
  one, `odoo.conf` gets the requested one (`RepeatPort`).
- *A resume does not know the database is ours* (`create_database.rs:55`): the
  installation can only be rolled back, though it "resumes where it stopped"
  (`README.md:511`). The direction is the safe one (`TheirDatabaseIsSafe`).
- *A resumed remainder of a rollback* (`engine.rs:309`): shared steps are skipped
  whatever became of them (`spoilt`).
- *Another log file on a resume* (`setup_log_dir.rs:100`): the undo looks at the
  file of its own run, and may remove an empty directory that was there
  (`OneLogFile`; in the run each instance has one file).
- *What an undo warned about* is in no manifest and protects nothing any more
  (`warned` in `NothingForgotten`, `SharedOutlivesInstances`,
  `AllRemovesEverything`). "The manifest must go on saying what is still on the
  system" (`main.rs:991`), but an undo that fails warns and returns `Ok`, and its
  record is dropped with the artifact still there; with it goes what makes its
  instance count as live.
- *A second pass of `--all` that somebody overtakes* (`misled` in
  `SharedSurvivesTheLive`). "By then there is nobody left to protect"
  (`main.rs:748-749`), but an installation begun after the first pass looked last
  is somebody, and the second takes the shared artifacts from under it
  (`main.rs:822`).
- *A database made between the question and the purge* (`purge.late` in
  `OtherDatabasesSurvive`). "Purge only when no database besides ours and the
  maintenance one is present" (`setup_postgres.rs:333-334`): the list is taken
  before the server is stopped (`:243`), and nobody looks again before `PGDATA` is
  removed (`:297`).
- *The traversal bit* may outlive who set it, or go with a root found 0751
  (`LeftWith` in `RemovedMeansRestored`, OptRoot), in spite of "we put back what
  we changed, or we leave it alone" (`prepare_opt_root.rs:387-388`). The unnamed
  instance closes the root (0750), a named one widens it and records 0750, the
  first gives 0751 back when it leaves, and the second takes that for its own
  widening.
- *A `.bashrc` whose rewriting is cut short* (`cutShort` in `TheirsKept`). "Never
  rewrite or truncate the whole file" (`patch_bashrc.rs:6-7`), but the last resort
  of the undo does, with a truncating write in place, when the copy is gone
  (`:167`).
- *A signal at the question of `dev`* (`owed` is then `unmet` in
  `ServicePutBack`). "The question is an OFFER, never the mechanism"
  (`write_control_script.rs:221-224`), but the traps are cleared before it is asked
  (`:235`): a closed window or a Ctrl-C while it waits leaves a service that was
  up down.
- *A wkhtmltox of another version* may be gone (`FoundStays` and
  `RemovedMeansRestored`, Software). It counts as absent
  (`install_wkhtmltopdf.rs:322`), is replaced, recorded as created by us and
  purged, although "pre-existing resources [...] stay untouched"
  (`main.rs:1091-1092`).
- *A link of our name* that led elsewhere is written over and not restored
  (`nginx_enable_site.rs:301`, `LinksAreOurs`); an nginx found running but not
  enabled is no longer up afterwards; a package of ours stays unless a purge is
  asked for.
- *A unit* that was there is written over without a copy (`setup_systemd.rs:138`).
- *`.bashrc` edited since*: the copy is put back over it (`patch_bashrc.rs:142`;
  only lines found at the installation stay). Another administrator who resumes
  takes the record over (`AnyResumes`).
- *Empty directories* stay when their maker is not the last to leave.
- *Half-made things nobody claims*: a virtualenv or a package whose installation
  failed (counted as faults in `Software`), a clone killed with its HEAD in place.

## 4. Proofs

`EngineProofs` proves, for every `N`, every set of artifacts and every choice of
scopes, failures and bounds that satisfy the assumptions of `StepContract` and
`Engine`:

- `EngineTypeOK`: `Spec => []TypeOK`;
- `EngineOwnership`: `Spec => []Ownership`. `Ownership` is inductive together
  with `TypeOK`: a verdict `CreatedByUs`, in the step objects, in the manifest
  in memory or in the one on disk, never names somebody else's artifact, and
  between a snapshot and its run what the snapshot missed is still missing. The
  second half is what carries the first through `Run`: the run makes exactly
  what the snapshot missed. The disk is part of it because a later process
  rehydrates from there;
- `EngineNeverTouchesTheirs`: `Spec => NeverTouchTheirs`, from the invariant:
  every action that changes `art` changes it on artifacts the invariant shows
  not to be theirs;
- `EngineIsReversible`: `Spec => IsReversible`, the refinement of `Reversible`
  under the mapping of `pc` to a mode: each action is a step `Begin`,
  `Forward` or `Backward` of it, or a stutter;
- `EngineLossBounded`: `Spec => []LossBounded`, by counting. `LossInv` says that
  the steps whose own artifacts are ours and unlisted, leaving out those the
  process still holds in hand, are no more than the faults, for the manifest in
  memory and for a readable one on disk; every action adds a step to one of these
  sets only together with a fault. The lemmas about cardinalities are the work;
- `EngineResumeFindsItsWork` and `EngineFinishedMeansInstalled`, under
  `RollbackIsWhole`: no save of a rollback fails, no process dies in one, no undo
  returns an error, and no other instance is there to make a shared record stay.
  `WorkInv` says that every record describes something that is there (`Sound`):
  of the manifest in memory always, of the one on disk unless a rollback is under
  way. Without the condition both are false, and TLC shows how: see the list
  above.

`DiskRollbackProofs` proves, for every set of instances, steps and artifacts, and
every order of removal:

- `DiskTypeOK`: `Spec => []TypeOK`;
- `DiskNothingForgotten`, `DiskSharedOutlivesInstances`,
  `DiskAllRemovesEverything`, from one invariant, `DiskInv`, under two
  conditions. `HoldersFound`: an instance with something of its own has a record
  of a step that is wholly its own, which is what makes it live (it excludes the
  interrupted instance of `manifests.rs:130`). `MixedUndoWarns`: the undo of a
  mixed step can be called, and warns where it fails, as each of them does. Any
  undo may leave any part of what it was to remove and report success; what it
  left is then in `warned`, and the properties except just that. `DiskInv`
  relates the records, the loop's local variables and the artifacts on the
  machine, and says who lists what while pass 1 and pass 2 are under way. Record
  lists are sequences pruned by a recursive function (`Only`): that the function
  exists, and that the pruned list has the records it should, is shown from a
  least counterexample.

`DatabaseProofs` proves, for every depth, bound, choice of families and of what
may die:

- `DatabaseTypeOK`: `Spec => []TypeOK`;
- `DatabaseSafe`: `Spec => TheirDatabaseIsSafe`. The invariant `SafeInv` adds to
  `TypeOK` that what memory or the manifest claims is not the administrator's
  (`ClaimIsOurs`), and how the verdict travels (`VerdictIsPassedOn`): a context
  that says "ours" after `create-database` has a claim behind it, and a schema
  is about to be written only into a database that is claimed. The disk is part
  of it because resumes and rollbacks start from there;
- `FilestoreSafe`: `Spec => FilestoreIsSafe`. `FilestoreInv` adds that the
  recorded root lies below what the installation found, in memory and on disk,
  and that the filestore's gate is open only together with a claim on the
  database; the latter needs that no record of `setup-data-dir` exists while
  `create-database` may still take its snapshot;
- `OtherDatabases`: `Spec => OtherDatabasesSurvive`. The question and the purge
  are different steps, with the administrator between them; `PurgeInv` says what
  holds across: an answer "safe" belongs to the undo under way, to a cluster that
  this installation made and to a rollback that was asked to purge, and a
  database of another name beside it has come since;
- `FinishedSchema`: `Spec => FinishedHasSchema`. `SchemaInv`: as long as no
  rollback was cut short, the record of `create-database` means that there is a
  database, that of the init that there is a schema; and what the snapshot
  before a run found is still there when it runs, since the administrator adds
  and only a rollback removes;
- `DatabaseRollbackRestores`: `Spec => RollbackRestores`. `RestInv` adds to
  `SafeInv`, for the time before the first fault: a manifest is that of a
  finished installation or of none (`Whole`); what is ours is claimed by a step
  that is done, the directories are back or will be, and the service runs until
  the last undo, which knows what was there (`Left`); and what a step relies on
  when it begins (`Ready`). That the role goes after its database, that the
  service is up for both, and that the filestore goes only when the database
  was ours, all come from the order of the steps in this invariant.

`OptRootProofs` proves, for any number of instances, log directories and faults:

- `OptRootTypeOK`: `Spec => []TypeOK`;
- `OptRootTheirsStay`: `Spec => []TheirsStay`, under `OneLogFile`: an installation
  that is resumed keeps its log file. (`setup-log-dir`'s undo uses the log file of
  the process, not of the record.) `TheirsInv` adds what makes it inductive:
  whatever a snapshot calls created by us, in memory or in any instance's manifest,
  was not there in `found` (`ClaimsAreOurs`), and what the snapshot before a run
  did not find was not there either (`RunMakesOurs`). A claim outlives its process
  in the manifest and is acted upon much later, next to other instances: hence all
  manifests;
- `OptRootLeftoversAreRecorded` and `OptRootRemovedMeansRestored`, under
  `OneLogFile`, from `RestInv`. Without a fault, and as long as no remainder of a
  rollback was resumed, each home, user, log and cache directory of ours has its
  claim with an instance that holds it, in memory or on disk (`HomesLeft`,
  `UsersLeft`, `LogsLeft`, `CachesLeft`), and the owner and the mode somebody
  will give back are those that were found (`HomesBack`). The hard part is the
  root, which one instance may have made, another walks through, and a third
  owns, and whose claim stays with an instance that has left;
- the second of these is for every mode the root may be found with, 0751
  included: that the bit may then be lost is in the property (`LeftWith`);
- `OptRootShutsNobodyOut`: `Spec => RollbackShutsNobodyOut`, with faults or
  without. The invariant (`Current`) is that the others a process read when it
  began are those that live as long as it works: the lock is held.

`NginxProofs` proves, for every set of instances, family and firewall:

- `NginxTypeOK`: `Spec => []TypeOK`;
- `NginxCustomerConfigKept`: `Spec => []CustomerConfigKept`, deaths and failed
  undos included. `KeptInv`: a vhost or a default site that was the customer's
  is in its place or in a copy; a record that calls one created by us is not
  about the customer's; a copy of ours is not taken for one of the customer's; and
  what a snapshot saw is still so when its run begins;
- `NginxRemovedMeansRestored`: `Spec => []RemovedMeansRestored`, with no
  condition on the constants. `RestInv` adds to `KeptInv`, for the time before
  the first fault: a manifest is that of a whole installation, or of the steps
  others held back (`Orderly`, `Lasting`); each vhost, link, rule, the default
  site, the boolean, the package and the service are as they were found or
  claimed by a record that gives them back (`GivenBack`), the rules only while
  no remainder of a rollback was resumed and no failed step left one unrecorded
  (`~spoilt`); an nginx that is up serves what is on disk, unless a process is
  on its way to reload it (`Served`, `Pending`); and a run finds what its
  snapshot saw (`Ready`);
- `NginxCutsNobodyOff`: `Spec => RollbackCutsNobodyOff`, for any number of
  instances. That nginx ends up serving what is on disk needs all of `RestInv`;
  that the others keep what they need holds with faults too, and needs only that
  the others a process counts are those that live (`Current`).

`ServiceProofs` proves, for every set of instances, administrators and sessions:

- `ServiceTypeOK`: `Spec => []TypeOK`;
- `ServiceTheirsKept`: `Spec => []TheirsKept`, faults included, with the last
  resort of `patch-bashrc`'s undo failing or dying where it may, when an
  installation is resumed by the administrator who began it (`AnyResumes =
  FALSE`). The condition is needed: one administrator installs and dies after
  the script, another resumes and is interrupted, and the undo removes the
  other's own empty `~/.local/bin`, because the record of which directories
  existed is the first one's. TLC finds it with `AnyResumes = TRUE`. `KeptInv`
  is of the kind of `Nginx`'s;
- `ServiceRemovedMeansRestored`: `Spec => []RemovedMeansRestored`, with no
  condition. `RestInv` says, for the time before the first fault, that a manifest
  is that of a finished installation or of none (`Orderly`), that each file is as
  it was found, or ours with a claim of an instance that is done with the step and
  holds the copy of what was found (`AllLeft`), and that what a step relies on is so
  when it begins (`Ready`). The sessions and the administrators act in between;
  the lemmas about them show what they cannot disturb;
- `ServiceIsPutBack`: `Spec => ServicePutBack`, for any number of sessions,
  faults included. The property speaks of the last session alone, which says too
  little to be inductive: `Owing` says that a service owed as down is down with
  no session that found it up, and that one owed as up is up, or has a unit and
  a session, not always the last to come, that found it up. A session that a
  signal ends at its question leaves its debt to another that found the service
  up, and only when there is none is it unmet, which the property excepts. A
  session that came between the stop and the way out of another found it down,
  and starts nothing.

`SoftwareProofs` proves, for every catalogue of packages, groups of alternatives,
release, number of attempts and set of instances:

- `SoftwareTypeOK`: `Spec => []TypeOK`;
- `SoftwareFoundStays`: what was found stays, whatever fails, dies, is repaired
  or purged: the packages (a wkhtmltox in the pinned version; one in another may
  go), directories with what is in them, sources, virtualenvs. It is a part of the
  run's `RemovedMeansRestored`; what the deltas subtract is what makes it true,
  and that no delta ever names wkhtmltox, whose step goes by the version;
- `SoftwareFinishedIsWhole`, under `SourcesFound` (no instance finds a clone of
  an earlier life that was left half-way; the snapshot would take it for
  Odoo's): what one instance's rollback purges no finished instance needs, and
  wkhtmltopdf is in the pinned version. `HalfInv`: without a fault wkhtmltox is
  never left half-configured, since no delta names it and a run of its own step
  that stops half-way is a fault;
- `SoftwareRemovedMeansRestored`, with the same exception for wkhtmltox, under
  `ModulesFound` and `VenvsFound` (no `repos` is found, which is
  `software_modules`' finding, and no empty virtualenv, into which the
  requirements would be installed and left).

  The constants' assumptions say that no group of libraries or tools names
  wkhtmltox, which none of the lists in the code does.

`MachineProofs` proves, for every number of processes, instances, ports and
steps, if there are an instance and a port at all:

- `MachineTypeOK`, and from one invariant, `MachineInv`, the three properties of
  the run: `MachineOwned`, `MachinePortsDiffer` (under `RepeatPort`) and the
  action property `MachineSharedSurvives`. `MachineInv` says that the lock has
  one holder and, as long as nobody acted on an overtaken reading, that what each
  process not overtaken holds in memory is what is on disk (`UpToDate`): the
  manifest it decided on, who else lives, that its port is free; an installation
  keeps manifest and memory in step, an undo runs ahead of the manifest it will
  write and accounts for what is left meanwhile (`Removing`), and while a second
  pass of `--all` that is not misled goes on, nobody lives (`SecondPassIsAlone`).
  This is the sense in which reading again under the lock would be enough.

There is one lemma per action, or per group of actions that disturb the
invariant alike. The constants' assumptions are evaluated by TLC in the runs that
extend the modules; every strengthened invariant was evaluated by TLC first.
Where an argument goes by induction over a finite set (the least of some
instances, the first record that...), it cites the well-foundedness of the
subset order on finite sets, and no induction theorem with an operator for
parameter.

"Without a fault" is a condition the properties themselves state, and the
theorems inherit: after a death or a failed undo the machine is not put back,
and nothing in the code promises that it is. What is promised then, that nothing
of the customer's is lost, is stated and proved with faults.

Only model-checked: liveness (`EveryRunEnds`, `InterruptHonoured`, `RollbackEnds`),
which needs ENABLED. Every other property of the runs that pass is proved, under
the conditions named above.

## 5. Not modelled

Dry runs change nothing. Text (messages, templates, names derived from an
instance) appears only as the choice it makes. The perimeter and trust checks,
the legacy path cascade, `select` and the confirmation gate are decisions on one
input each. `system_ops.rs` is one call per function; what the calls do is in the
steps' modules, their time limits are not. `checks.rs` only reads, and any of its
checks may turn a command away.

Inside the steps: which packages depend on which (removing one never removes
another), a `wkhtmltopdf` in `PATH` that comes from another package than
wkhtmltox, pip's upgrades inside a virtualenv that was there, the undos' errors
when the administrator's home is unknown, an administrator who changes nginx,
the firewall or packages by hand between commands (in `Database` and, for
`.bashrc` and the service, in `Service` he does), a Debian package enabling
itself, a kill inside a step between its own commands (in `Engine` a death leaves
any part of a run).

Three hazards have no property, since the code does what they fear, and
`PROJECT.json` gives the reason at each: a torn save (`state.rs:518`), an
instance with only its home (`manifests.rs:130`), and early steps undone under
later recorded ones by a resumed run that stops while it is still skipping
(`engine.rs:145`). Half a schema taken for a whole one
(`initialize_odoo_database.rs:71`) nobody can tell, and `FinishedHasSchema`
claims only what the check after the init can see. Pass 2 of `--all` returns for
ever to a tombstone with a record this binary cannot undo (`main.rs:815`);
`RollbackEnds` assumes there is none.

## 6. Plan

Order of the remaining work:

1. `Policies`: `start_decision` with identities, `select`, `confirmation_gate`,
   `pick_state_path`, `trust_verdict` as operators checked against their stated
   rules over all small inputs.
2. Composition: a step module's records as an instance of `StepContract`'s
   operators, so that `Engine`'s theorems speak of it.
