------------------------------ MODULE Service ------------------------------
(***************************************************************************)
(* What the people of a machine see of its instances: the configuration    *)
(* and the systemd service of each, and, in the home of the administrator  *)
(* who installed it, the control script and the line in .bashrc.  Steps    *)
(* generate-config, setup-systemd, write-control-script and patch-bashrc.  *)
(*                                                                         *)
(* The control script takes no lock: its sessions (`odoo dev`) stop and    *)
(* start the service beside one another and beside the commands, which are *)
(* those of Commands.                                                      *)
(***************************************************************************)
EXTENDS Naturals, FiniteSetsExt

CONSTANTS
    Instance,     \* the instances
    Admin,        \* the users behind sudo
    Session,      \* the `dev` sessions
    WorksOn,      \* the instance of each session
    AnyResumes,   \* may another administrator resume an installation
    Odd,          \* the instances some of whose files may be there before
    Typing,       \* the administrators who go on editing their .bashrc
    DieIn,        \* where a process may die: "install", "rollback"
    MaxFaults     \* bound on deaths, failed undos and failed removals

VARIABLES
    conf, confCopies,             \* odoo.conf of each instance, and copies of it
    unit, enabled, up,            \* the service of each instance
    script, scriptCopies, link,   \* of each administrator, for each instance
    dirs,                         \* ~/.scripts and ~/.local/bin
    bashrc, copies,               \* .bashrc of each administrator, copies of it
    typed,                        \* the lines each administrator wrote in it
    cutShort,                     \* those whose .bashrc was written short of its end
    at, entry,                    \* where a session is, dev_state_on_entry
    owed,                         \* the service before the sessions came, and what
                                  \* they failed to put back
    found,                        \* the machine before the first command
    man, pc, who, idx, snap, recorded, others, sudoUser, remains, spoilt, faults

config == <<conf, confCopies>>
service == <<unit, enabled, up>>
helper == <<script, scriptCopies, link, dirs>>
shell == <<bashrc, copies, typed, cutShort>>
sessions == <<at, entry, owed>>
world == <<config, service, helper, shell, sessions, found>>
vars == <<world, man, pc, who, idx, snap, recorded, others, sudoUser, remains, spoilt, faults>>

ASSUME InstanceAssumption == Instance # {} /\ Odd \subseteq Instance
ASSUME AdminAssumption == Admin # {} /\ Typing \subseteq Admin /\ AnyResumes \in BOOLEAN
ASSUME SessionAssumption == WorksOn \in [Session -> Instance]
ASSUME FaultsAssumption == DieIn \subseteq {"install", "rollback"} /\ MaxFaults \in Nat

ConfigStep == 1
UnitStep == 2
ScriptStep == 3
BashrcStep == 4

PreState == {"Untracked", "Preexisting", "CreatedByUs"}
Whose == {"absent", "ours", "theirs"}
Copies == SUBSET {"ours", "theirs"}
Dir == {"scripts", "bin"}

\* The line of the installer, PATH_LINE, one that was there and one written later.
Line == {"path", "own", "later"}
Bashrc == [there : BOOLEAN, lines : SUBSET Line]
NoBashrc == [there |-> FALSE, lines |-> {}]

\* The snapshots of the four steps.  A backup is the set of what it holds.
Snapshots ==
    [conf : PreState, confBackup : Copies,
     unit : PreState, enabled : PreState, active : PreState,
     script : PreState, scriptBackup : Copies, link : PreState, existed : SUBSET Dir,
     line : PreState, bashrcExisted : BOOLEAN, backup : SUBSET SUBSET Line]

Default ==
    [conf |-> "Untracked", confBackup |-> {},
     unit |-> "Untracked", enabled |-> "Untracked", active |-> "Untracked",
     script |-> "Untracked", scriptBackup |-> {}, link |-> "Untracked", existed |-> {},
     line |-> "Untracked", bashrcExisted |-> FALSE, backup |-> {}]

Fields(k) ==
    CASE k = ConfigStep -> {"conf", "confBackup"}
      [] k = UnitStep -> {"unit", "enabled", "active"}
      [] k = ScriptStep -> {"script", "scriptBackup", "link", "existed"}
      [] k = BashrcStep -> {"line", "bashrcExisted", "backup"}

\* artifact_scope
Scope(k, i) == "OwnInstance"

\* The manifest holds the administrator of the first run, whoever resumes it.
Kept(user) == user

Nobody == CHOOSE u \in Admin : TRUE

INSTANCE Commands WITH
    Nobody <- CHOOSE i \in Instance : TRUE, Last <- BashrcStep, NoArgs <- Nobody,
    args <- sudoUser, rest <- world

-----------------------------------------------------------------------------
Init ==
    /\ conf \in {c \in [Instance -> {"absent", "theirs"}] : \A i \in Instance \ Odd : c[i] = "absent"}
    /\ unit \in {u \in [Instance -> {"absent", "theirs"}] : \A i \in Instance \ Odd : u[i] = "absent"}
    /\ enabled \in {e \in [Instance -> BOOLEAN] : \A i \in Instance : e[i] => unit[i] = "theirs"}
    /\ up = enabled
    /\ dirs \in [Admin -> [Dir -> {"absent", "theirs"}]]
    /\ script \in {s \in [Admin -> [Instance -> {"absent", "theirs"}]] :
                     \A u \in Admin, i \in Instance :
                        s[u][i] = "theirs" => i \in Odd /\ dirs[u]["scripts"] = "theirs"}
    /\ link \in {l \in [Admin -> [Instance -> {"absent", "theirs"}]] :
                     \A u \in Admin, i \in Instance :
                        l[u][i] = "theirs" => i \in Odd /\ dirs[u]["bin"] = "theirs"}
    /\ bashrc \in [Admin -> {NoBashrc} \cup [there : {TRUE}, lines : {{"own"}, {"own", "path"}}]]
    /\ confCopies = [i \in Instance |-> {}]
    /\ scriptCopies = [u \in Admin |-> [i \in Instance |-> {}]]
    /\ copies = [u \in Admin |-> {}]
    /\ typed = [u \in Admin |-> bashrc[u].lines] /\ cutShort = {}
    /\ at = [s \in Session |-> "none"] /\ entry = [s \in Session |-> FALSE]
    /\ owed = [i \in Instance |-> "nothing"]
    /\ found = [conf |-> conf, unit |-> unit, enabled |-> enabled, up |-> up, dirs |-> dirs,
                script |-> script, link |-> link, bashrc |-> bashrc]
    /\ Start

\* sudo_user is no part of the identity an installation is resumed under.
Install(i) ==
    \E u \in Admin : /\ AnyResumes \/ man[i].steps = {} \/ man[i].args = u
                     /\ Begin(i, u)

Rollback(i) == BeginRollback(i, man[i].args)

Finish == Finished /\ UNCHANGED world

-----------------------------------------------------------------------------
SnapshotConfig ==
    /\ At(ConfigStep)
    /\ Snapshotted([snap EXCEPT !.conf = Verdict(conf[who] # "absent")])

SnapshotUnit ==
    /\ At(UnitStep)
    /\ Snapshotted([snap EXCEPT !.unit = Verdict(unit[who] # "absent"),
                                !.enabled = Verdict(enabled[who]),
                                !.active = Verdict(up[who])])

Existing(u) == {d \in Dir : dirs[u][d] # "absent"}

SnapshotScript ==
    /\ At(ScriptStep)
    /\ Snapshotted([snap EXCEPT !.script = Verdict(script[sudoUser][who] # "absent"),
                                !.link = Verdict(link[sudoUser][who] # "absent"),
                                !.existed = Existing(sudoUser)])

SnapshotBashrc ==
    /\ At(BashrcStep)
    /\ Snapshotted([snap EXCEPT !.line = Verdict("path" \in bashrc[sudoUser].lines),
                                !.bashrcExisted = bashrc[sudoUser].there])

-----------------------------------------------------------------------------
\* The effects of the runs up to how far they get, 3 being the end, and what
\* their snapshots claim by then.
Made(prestate) == IF prestate = "Preexisting" THEN prestate ELSE "CreatedByUs"
MadeIf(done, prestate) == IF done THEN Made(prestate) ELSE prestate

\* The service of i has been changed by somebody: its sessions owe nothing.
Changed(i) == owed' = [owed EXCEPT ![i] = "nothing"]

\* A file that is there is copied, then ours is moved over it.
ConfigEffect(far) ==
    /\ confCopies' = IF far >= 1 /\ snap.conf = "Preexisting"
                     THEN [confCopies EXCEPT ![who] = @ \cup {conf[who]}] ELSE confCopies
    /\ conf' = IF far >= 2 THEN [conf EXCEPT ![who] = "ours"] ELSE conf
    /\ UNCHANGED <<service, helper, shell, sessions, found>>

ConfigClaims(far) ==
    [snap EXCEPT !.confBackup = IF far >= 1 /\ snap.conf = "Preexisting" THEN {conf[who]} ELSE @,
                 !.conf = MadeIf(far >= 2, @)]

\* The unit is written over with no copy, then enabled, then started or started
\* again; at 2 it did not come up.
UnitEffect(far) ==
    /\ unit' = IF far >= 1 THEN [unit EXCEPT ![who] = "ours"] ELSE unit
    /\ enabled' = IF far >= 2 THEN [enabled EXCEPT ![who] = TRUE] ELSE enabled
    /\ up' = IF far >= 2 THEN [up EXCEPT ![who] = far = 3] ELSE up
    /\ Changed(who)
    /\ UNCHANGED <<config, helper, shell, at, entry, found>>

UnitClaims(far) ==
    [snap EXCEPT !.unit = MadeIf(far >= 1, @), !.enabled = MadeIf(far >= 2, @),
                 !.active = MadeIf(far >= 2, @)]

\* Mutant: the script is written over with no copy.
ScriptWrittenOver == FALSE

ScriptSetAside == snap.script = "Preexisting" /\ snap.scriptBackup = {}

\* The two directories, a copy of a script that is there, the script, and a link
\* unless there is one.
ScriptEffect(far) ==
    LET u == sudoUser IN
    /\ dirs' = IF far >= 1
               THEN [dirs EXCEPT ![u] = [d \in Dir |-> IF @[d] = "absent" THEN "ours" ELSE @[d]]]
               ELSE dirs
    /\ scriptCopies' = IF far >= 1 /\ ScriptSetAside
                       THEN [scriptCopies EXCEPT ![u][who] = @ \cup {script[u][who]}]
                       ELSE scriptCopies
    /\ script' = IF far >= 2 THEN [script EXCEPT ![u][who] = "ours"] ELSE script
    /\ link' = IF far = 3 /\ snap.link # "Preexisting" THEN [link EXCEPT ![u][who] = "ours"] ELSE link
    /\ UNCHANGED <<config, service, shell, sessions, found>>

ScriptClaims(far) ==
    [snap EXCEPT !.scriptBackup = IF far >= 1 /\ ScriptSetAside THEN {script[sudoUser][who]} ELSE @,
                 !.script = MadeIf(far >= 2, @), !.link = MadeIf(far = 3, @)]

\* A copy, then the line at the end of the file, unless it is there.
BashrcEffect(far) ==
    LET u == sudoUser IN
    /\ copies' = IF far >= 1 /\ snap.line = "Untracked" /\ snap.bashrcExisted
                 THEN [copies EXCEPT ![u] = @ \cup {bashrc[u].lines}] ELSE copies
    /\ bashrc' = IF far >= 2 /\ snap.line = "Untracked"
                 THEN [bashrc EXCEPT ![u] = [there |-> TRUE, lines |-> @.lines \cup {"path"}]]
                 ELSE bashrc
    /\ UNCHANGED <<config, service, helper, typed, cutShort, sessions, found>>

BashrcClaims(far) ==
    [snap EXCEPT !.backup = IF far >= 1 /\ snap.line = "Untracked" /\ snap.bashrcExisted
                            THEN {bashrc[sudoUser].lines} ELSE @,
                 !.line = MadeIf(far >= 2, @)]

Effect(far) ==
    \/ idx = ConfigStep /\ ConfigEffect(far)
    \/ idx = UnitStep /\ UnitEffect(far)
    \/ idx = ScriptStep /\ ScriptEffect(far)
    \/ idx = BashrcStep /\ BashrcEffect(far)

Claims(far) ==
    CASE idx = ConfigStep -> ConfigClaims(far)
      [] idx = UnitStep -> UnitClaims(far)
      [] idx = ScriptStep -> ScriptClaims(far)
      [] idx = BashrcStep -> BashrcClaims(far)

RunStep ==
    /\ pc = "run"
    /\ Effect(3) /\ snap' = Claims(3)
    /\ Ran

\* Setting the mode or the owner of what was made may fail, at the very end too;
\* a service that is up has been started.
RunFails ==
    /\ pc = "run"
    /\ \E far \in (IF idx = UnitStep THEN 0 .. 2 ELSE 0 .. 3) : Effect(far) /\ snap' = Claims(far)
    /\ Failed
    /\ UNCHANGED faults

-----------------------------------------------------------------------------
\* An undo takes its parts one by one, and each may fail with a warning.
Parts(all) == {done \in SUBSET all : faults + Cardinality(all \ done) <= MaxFaults}

Cost(done, all) == faults' = faults + Cardinality(all \ done)

\* The file is removed, or the copy that is recorded moved back if it is there.
UndoConfig ==
    /\ Undoing(ConfigStep)
    /\ \E done \in Parts({"file"}) :
          /\ IF "file" \in done /\ snap.conf = "CreatedByUs"
             THEN conf' = [conf EXCEPT ![who] = "absent"] /\ UNCHANGED confCopies
             ELSE IF "file" \in done /\ snap.conf = "Preexisting" /\ snap.confBackup \cap confCopies[who] # {}
             THEN \E c \in snap.confBackup \cap confCopies[who] :
                     /\ conf' = [conf EXCEPT ![who] = c]
                     /\ confCopies' = [confCopies EXCEPT ![who] = @ \ {c}]
             ELSE UNCHANGED config
          /\ Cost(done, {"file"})
    /\ Undone
    /\ UNCHANGED <<service, helper, shell, sessions, found>>

\* Mutant: the unit is removed from under a service that runs.
LeftRunning(done) == FALSE

Stopped(done) == "stop" \in done /\ snap.active = "CreatedByUs"

\* Stop, disable, remove, reload.
UndoUnit ==
    /\ Undoing(UnitStep)
    /\ \E done \in Parts({"stop", "disable", "remove"}) :
          /\ up' = IF Stopped(done) THEN [up EXCEPT ![who] = FALSE] ELSE up
          /\ enabled' = IF "disable" \in done /\ snap.enabled = "CreatedByUs"
                        THEN [enabled EXCEPT ![who] = FALSE] ELSE enabled
          /\ unit' = IF "remove" \in done /\ snap.unit = "CreatedByUs"
                     THEN [unit EXCEPT ![who] = "absent"] ELSE unit
          /\ Cost(done, {"stop", "disable", "remove"})
    /\ Changed(who)
    /\ Undone
    /\ UNCHANGED <<config, helper, shell, at, entry, found>>

\* Mutant: an empty directory goes, whoever made it.
EmptyGoes(d) == TRUE

\* remove_if_empty is asked only of what this installation made.
MadeHere(d) == d \notin snap.existed

\* What an undo that does these parts leaves of the link and the script, the copy
\* it moves back, and the directories that are empty then.
Unlinked(done) ==
    IF "link" \in done /\ snap.link = "CreatedByUs" THEN "absent" ELSE link[sudoUser][who]

Restored(done) ==
    IF "script" \in done /\ snap.script = "Preexisting"
    THEN snap.scriptBackup \cap scriptCopies[sudoUser][who] ELSE {}

Left(done) ==
    IF "script" \in done /\ snap.script = "CreatedByUs" THEN "absent"
    ELSE IF Restored(done) # {} THEN CHOOSE c \in Restored(done) : TRUE
    ELSE script[sudoUser][who]

Empty(d, done) ==
    LET u == sudoUser IN
    /\ d = "bin" => Unlinked(done) = "absent"
    /\ d = "scripts" => Left(done) = "absent" /\ scriptCopies[u][who] = {}
    /\ \A i \in Instance \ {who} :
          /\ d = "bin" => link[u][i] = "absent"
          /\ d = "scripts" => script[u][i] = "absent" /\ scriptCopies[u][i] = {}

UndoScript ==
    /\ Undoing(ScriptStep)
    /\ \E done \in Parts({"link", "script"} \cup Dir) :
          LET u == sudoUser
              emptied == {d \in Dir \cap done : MadeHere(d) /\ Empty(d, done)}
          IN  /\ link' = [link EXCEPT ![u][who] = Unlinked(done)]
              /\ script' = [script EXCEPT ![u][who] = Left(done)]
              /\ scriptCopies' = [scriptCopies EXCEPT ![u][who] = @ \ Restored(done)]
              /\ dirs' = [dirs EXCEPT ![u] = [d \in Dir |-> IF d \in emptied THEN "absent" ELSE @[d]]]
              /\ Cost(done, {"link", "script"} \cup Dir)
    /\ Undone
    /\ UNCHANGED <<config, service, shell, sessions, found>>

\* A file that was not there is removed; the copy is moved back, if it is there
\* and can be; else, if it can be read, our line alone is taken out
\* (remove_exact_line).
UndoBashrc ==
    /\ Undoing(BashrcStep)
    /\ \E done \in Parts({"first", "read"}) :
          LET u == sudoUser
              back == IF "first" \in done THEN snap.backup \cap copies[u] ELSE {}
          IN  /\ IF snap.line # "CreatedByUs" THEN UNCHANGED <<bashrc, copies>>
                 ELSE IF ~snap.bashrcExisted
                 THEN /\ bashrc' = IF "first" \in done THEN [bashrc EXCEPT ![u] = NoBashrc] ELSE bashrc
                      /\ UNCHANGED copies
                 ELSE IF back # {}
                 THEN \E lines \in back :
                         /\ bashrc' = [bashrc EXCEPT ![u] = [there |-> TRUE, lines |-> lines]]
                         /\ copies' = [copies EXCEPT ![u] = @ \ {lines}]
                 ELSE /\ bashrc' = IF "read" \in done THEN [bashrc EXCEPT ![u].lines = @ \ {"path"}]
                                   ELSE bashrc
                      /\ UNCHANGED copies
              /\ Cost(done, {"first", "read"})
    /\ Undone
    /\ UNCHANGED <<config, service, helper, typed, cutShort, sessions, found>>

\* The file without our line is written over the one that is there, which opening
\* empties: as it was if it cannot be opened, or any part of it.
WrittenShort(u) ==
    LET cleaned == bashrc[u].lines \ {"path"} IN
    /\ \E lines \in {bashrc[u].lines} \cup (SUBSET cleaned \ {cleaned}) :
          /\ bashrc' = [bashrc EXCEPT ![u].lines = lines]
          /\ cutShort' = IF lines = bashrc[u].lines THEN cutShort ELSE cutShort \cup {u}
    /\ UNCHANGED <<config, service, helper, copies, typed, sessions, found>>

\* The last resort, with the copy gone.
CopyGone == snap.line = "CreatedByUs" /\ snap.bashrcExisted /\ snap.backup \cap copies[sudoUser] = {}

\* That write fails, and with it the undo.
UndoBashrcFails ==
    /\ Undoing(BashrcStep) /\ CopyGone
    /\ WrittenShort(sudoUser)
    /\ Fault
    /\ UndoFailed

Die ==
    /\ Dies
    /\ \/ pc = "run" /\ "install" \in DieIn /\ \E far \in 0 .. 3 : Effect(far)
       \/ pc = "snapshot" /\ "install" \in DieIn /\ UNCHANGED world
       \/ pc = "undo" /\ "rollback" \in DieIn /\ UNCHANGED world
       \/ Undoing(BashrcStep) /\ "rollback" \in DieIn /\ CopyGone /\ WrittenShort(sudoUser)

-----------------------------------------------------------------------------
\* The administrators: one writes a line, or tidies the copies away.
Types(u) ==
    /\ u \in Typing /\ "later" \notin typed[u]
    /\ bashrc' = [bashrc EXCEPT ![u] = [there |-> TRUE, lines |-> @.lines \cup {"later"}]]
    /\ typed' = [typed EXCEPT ![u] = @ \cup {"later"}]
    /\ UNCHANGED <<config, service, helper, copies, cutShort, sessions, found>>
    /\ UNCHANGED <<man, pc, who, idx, snap, recorded, others, sudoUser, remains, spoilt, faults>>

Tidies(u) ==
    /\ u \in Typing /\ copies[u] # {}
    /\ copies' = [copies EXCEPT ![u] = {}]
    /\ UNCHANGED <<config, service, helper, bashrc, typed, cutShort, sessions, found>>
    /\ UNCHANGED <<man, pc, who, idx, snap, recorded, others, sudoUser, remains, spoilt, faults>>

SessionsOf(i) == {s \in Session : WorksOn[s] = i /\ at[s] # "none"}

OnlyOne(s) == SessionsOf(WorksOn[s]) = {s}

Beside ==
    /\ UNCHANGED <<config, unit, enabled, helper, shell, found>>
    /\ UNCHANGED <<man, pc, who, idx, snap, recorded, others, sudoUser, remains, spoilt>>

\* A start in the middle of a command on the instance is counted as a fault: what
\* the command snapshotted of the service is then stale.
InTheMiddle(i) ==
    IF ~up[i] /\ up'[i] /\ pc # "idle" /\ who = i THEN Fault ELSE UNCHANGED faults

\* `odoo start` and `odoo stop` beside a session; a restart is both.
Control(i) ==
    /\ SessionsOf(i) # {}
    /\ \E u \in Admin : script[u][i] = "ours"
    /\ unit[i] # "absent"
    /\ up' = [up EXCEPT ![i] = ~@]
    /\ InTheMiddle(i)
    /\ Changed(i)
    /\ UNCHANGED <<at, entry>>
    /\ Beside

Service(i) == IF up[i] THEN "up" ELSE "down"

\* `odoo dev`: the state is read, and the trap is set.
Enter(s) ==
    LET i == WorksOn[s] IN
    /\ at[s] = "none"
    /\ \E u \in Admin : script[u][i] = "ours"
    /\ at' = [at EXCEPT ![s] = "trapped"]
    /\ entry' = [entry EXCEPT ![s] = up[i]]
    /\ owed' = IF SessionsOf(i) = {} THEN [owed EXCEPT ![i] = Service(i)] ELSE owed
    /\ UNCHANGED <<up, faults>>
    /\ Beside

\* The service is stopped and a shell opened.  A reading that another session's
\* way out has overtaken is that of a service which was down.
StopIt(s) ==
    LET i == WorksOn[s] IN
    /\ at[s] = "trapped" /\ unit[i] # "absent"
    /\ at' = [at EXCEPT ![s] = "shell"]
    /\ up' = [up EXCEPT ![i] = FALSE]
    /\ owed' = IF up[i] /\ ~entry[s] THEN [owed EXCEPT ![i] = "nothing"] ELSE owed
    /\ UNCHANGED <<entry, faults>>
    /\ Beside

Gone(s) ==
    /\ at' = [at EXCEPT ![s] = "none"] /\ entry' = [entry EXCEPT ![s] = FALSE]
    /\ owed' = IF OnlyOne(s) THEN [owed EXCEPT ![WorksOn[s]] = "nothing"] ELSE owed
    /\ Beside

\* restore_service, from the end of the shell or a signal before it: its traps
\* are cleared, a service that is up is left, any other asked about.
Leave(s) ==
    /\ at[s] \in {"trapped", "shell"}
    /\ IF up[WorksOn[s]]
       THEN Gone(s)
       ELSE at' = [at EXCEPT ![s] = "asked"] /\ UNCHANGED <<entry, owed>> /\ Beside
    /\ UNCHANGED <<up, faults>>

\* Mutant: without an answer it is started.
StartsAnyway(s) == TRUE

\* The answer nobody types is "as it was".
StartsUnanswered(s) == entry[s]

Starts(i, does) == up' = IF does /\ unit[i] # "absent" THEN [up EXCEPT ![i] = TRUE] ELSE up

Unanswered(s) ==
    /\ at[s] = "asked"
    /\ Starts(WorksOn[s], StartsUnanswered(s))
    /\ InTheMiddle(WorksOn[s])
    /\ Gone(s)

Answered(s) ==
    /\ at[s] = "asked"
    /\ \E yes \in BOOLEAN : Starts(WorksOn[s], yes)
    /\ InTheMiddle(WorksOn[s])
    /\ at' = [at EXCEPT ![s] = "none"] /\ entry' = [entry EXCEPT ![s] = FALSE]
    /\ Changed(WorksOn[s])
    /\ Beside

\* A signal at the question finds no trap: the session ends there and starts
\* nothing.  What is owed is left to the others that found the service up, or is
\* unmet.
Interrupted(s) ==
    LET i == WorksOn[s]
        heirs == {z \in SessionsOf(i) \ {s} : entry[z]}
    IN  /\ at[s] = "asked"
        /\ at' = [at EXCEPT ![s] = "none"] /\ entry' = [entry EXCEPT ![s] = FALSE]
        /\ owed' = IF owed[i] = "up" /\ ~up[i] /\ heirs = {} THEN [owed EXCEPT ![i] = "unmet"]
                   ELSE IF OnlyOne(s) THEN [owed EXCEPT ![i] = "nothing"] ELSE owed
        /\ UNCHANGED <<up, faults>>
        /\ Beside

\* The session is killed outright, or the start fails.
Lost(s) ==
    /\ at[s] # "none"
    /\ at' = [at EXCEPT ![s] = "none"] /\ entry' = [entry EXCEPT ![s] = FALSE]
    /\ Changed(WorksOn[s])
    /\ Fault
    /\ UNCHANGED up
    /\ Beside

Next ==
    \/ \E i \in Instance : Install(i) \/ Rollback(i) \/ Control(i)
    \/ Stops \/ Skip \/ Finish
    \/ SnapshotConfig \/ SnapshotUnit \/ SnapshotScript \/ SnapshotBashrc
    \/ RunStep \/ RunFails
    \/ UndoConfig \/ UndoUnit \/ UndoScript \/ UndoBashrc \/ UndoBashrcFails
    \/ Die
    \/ \E u \in Admin : Types(u) \/ Tidies(u)
    \/ \E s \in Session :
          \/ Enter(s) \/ StopIt(s) \/ Leave(s)
          \/ Unanswered(s) \/ Answered(s) \/ Interrupted(s) \/ Lost(s)

Spec == Init /\ [][Next]_vars

-----------------------------------------------------------------------------
WorldType ==
    /\ conf \in [Instance -> Whose] /\ confCopies \in [Instance -> Copies]
    /\ unit \in [Instance -> Whose] /\ enabled \in [Instance -> BOOLEAN] /\ up \in [Instance -> BOOLEAN]
    /\ script \in [Admin -> [Instance -> Whose]] /\ link \in [Admin -> [Instance -> Whose]]
    /\ scriptCopies \in [Admin -> [Instance -> Copies]]
    /\ dirs \in [Admin -> [Dir -> Whose]]
    /\ bashrc \in [Admin -> Bashrc] /\ copies \in [Admin -> SUBSET SUBSET Line]
    /\ typed \in [Admin -> SUBSET Line] /\ cutShort \subseteq Admin
    /\ at \in [Session -> {"none", "trapped", "shell", "asked"}] /\ entry \in [Session -> BOOLEAN]
    /\ owed \in [Instance -> {"nothing", "up", "down", "unmet"}]

TypeOK == WorldType /\ ProcessType(Snapshots, Admin)

\* Nothing the customer had is lost, wherever an installation or a rollback stops
\* or dies: a configuration and a script are in their place or in a copy beside it
\* ("an existing file is still set aside rather than destroyed"), a link, a
\* directory and every line .bashrc was found with in their place; but for a
\* .bashrc whose last resort was cut short, a truncating write of the whole file
\* although it is to "remove ONLY the exact line, touching nothing else".  A unit
\* that is there is written over.
TheirsKept ==
    /\ \A i \in Instance : found.conf[i] = "theirs" => conf[i] = "theirs" \/ "theirs" \in confCopies[i]
    /\ \A u \in Admin :
          /\ \A i \in Instance :
                /\ found.script[u][i] = "theirs" => script[u][i] = "theirs" \/ "theirs" \in scriptCopies[u][i]
                /\ found.link[u][i] = "theirs" => link[u][i] = "theirs"
          /\ \A d \in Dir : found.dirs[u][d] = "theirs" => dirs[u][d] = "theirs"
          /\ u \notin cutShort => found.bashrc[u].lines \subseteq bashrc[u].lines

\* When the last manifest is gone every file is back as it was found, in whatever
\* order the instances left, and no service runs whose unit is gone, if nobody
\* starts one in the middle; but for a unit that was written over, and for empty
\* directories, which stay when the instance that made them is not the last.
RemovedMeansRestored ==
    pc = "idle" /\ faults = 0 /\ (\A i \in Instance : man[i].steps = {}) =>
        /\ conf = found.conf /\ script = found.script /\ link = found.link
        /\ enabled = found.enabled
        /\ \A i \in Instance : found.unit[i] = "absent" => unit[i] = "absent" /\ ~up[i]
        /\ \A u \in Admin :
              /\ "later" \notin typed[u] => bashrc[u] = found.bashrc[u]
              /\ \A d \in Dir : dirs[u][d] \in {found.dirs[u][d], "ours"}

\* The last of its sessions leaves the service as it was before the first.
PutsBack(s) ==
    LET i == WorksOn[s]
    IN  OnlyOne(s) /\ owed[i] \in {"up", "down"} => up'[i] = (owed[i] = "up")

\* "What `dev` owes you on the way out: the machine you walked in on."  When the
\* last of any number of sessions ends with its question unanswered, or not asked,
\* and nothing else has touched the service, it is as it was before the first;
\* unless a session read it as down and another's way out started it before the
\* stop, or a signal took the last that found it up at its question, where
\* its traps are cleared, "an OFFER, never the mechanism" as the question is to be.
ServicePutBack ==
    [][\A s \in Session : (Leave(s) /\ at'[s] = "none") \/ Unanswered(s) => PutsBack(s)]_vars

=============================================================================
