-------------------------------- MODULE Wrap --------------------------------
(***************************************************************************)
(* thoughtgate wrap: several processes that each rewrite an agent's        *)
(* configuration so that its MCP servers start behind shims, launch the    *)
(* agent and put the configuration back (thoughtgate/src/wrap).            *)
(*                                                                         *)
(* A configuration file is a function from the ids of its servers to the   *)
(* shims put in front of the server's own command, innermost first: <<>>   *)
(* is the user's command, <<a>> a shim of process a, <<a, b>> a shim of b  *)
(* that starts a shim of a.  Torn is a file whose copy was interrupted.    *)
(* The processes share the files and an advisory lock; each may be killed  *)
(* at any point, which also stands for a signal before the handlers exist. *)
(* What was written stays written: a failure of the machine is not         *)
(* modelled (atomic_write does not sync).                                  *)
(***************************************************************************)
EXTENDS Naturals, Sequences

CONSTANTS Instances,   \* the wrap processes
          Absent,
          Torn,        \* the content of a file cut short
          Layouts,     \* agents with the entries of their two files
          Projects,    \* working directories of the processes
          MaxMishaps,   \* bound: crashes, panics and failed writes
          DryRuns, NoRestores     \* values of the two flags

Files == {"config", "project"}

\* What the adapters do differently.  strict: an entry without a command is an
\* error, not skipped; scoped: only the entries of the working directory's
\* project count; expands: environment variables in commands are replaced;
\* disables: disabled servers are left out; beside: what is done with the
\* configuration file of the project.
ClaudeDesktop == [strict |-> TRUE, scoped |-> FALSE, expands |-> FALSE, disables |-> FALSE, beside |-> "ignored"]
ClaudeCode == [strict |-> FALSE, scoped |-> TRUE, expands |-> TRUE, disables |-> TRUE, beside |-> "read"]
Cursor == [ClaudeDesktop EXCEPT !.beside = "rewritten"]
VsCode == [ClaudeDesktop EXCEPT !.strict = FALSE]
Windsurf == [ClaudeDesktop EXCEPT !.expands = TRUE]
Zed == ClaudeDesktop

ASSUME WrapAssumption ==
    /\ MaxMishaps \in Nat /\ Absent \notin Instances
    /\ \A l \in Layouts :
        /\ l.adapter \in {ClaudeDesktop, ClaudeCode, Cursor, VsCode, Windsurf, Zed}
        /\ \A e, g \in l.entries["project"] : e.project = g.project
        /\ \A f \in Files : \A e \in l.entries[f], g \in l.entries[f] : e.id = g.id => e = g

VARIABLES layout,            \* the agent and what its files list
          project,           \* the working directory of each process
          dryRun, noRestore, \* --dry-run, --no-restore
          disk, backup,      \* each file and its .thoughtgate-backup
          lock,              \* the holder of the flock
          pc, servers, image,
          armed,             \* guard.backup_path and PANIC_RESTORE are set
          restored,          \* guard.restored
          loaded,            \* the configuration an agent started with
          signalled, mishaps,
          hook,              \* what the panic hook is copying
          panicked,          \* some panic hook has run
          raced              \* one ran while its process was restoring as well

panicVars == <<hook, panicked, raced>>
instanceVars == <<pc, servers, image, armed, restored>>
fixed == <<layout, project, dryRun, noRestore>>
wrapVars == <<fixed, disk, backup, lock, instanceVars, loaded, signalled, mishaps, panicVars>>

Entries(f) == layout.entries[f]
ServerIds(f) == {e.id : e \in Entries(f)}
Original(f) == [id \in ServerIds(f) |-> <<>>]
Ended == {"exited", "failed", "dead"}

WrapInit ==
    /\ layout \in Layouts
    /\ project \in [Instances -> Projects]
    /\ dryRun \in [Instances -> DryRuns] /\ noRestore \in [Instances -> NoRestores]
    /\ disk = [f \in Files |-> Original(f)] /\ backup = [f \in Files |-> Absent]
    /\ lock = Absent
    /\ pc = [i \in Instances |-> "start"]
    /\ servers = [i \in Instances |-> <<>>] /\ image = [i \in Instances |-> Absent]
    /\ armed = [i \in Instances |-> FALSE] /\ restored = [i \in Instances |-> FALSE]
    /\ loaded = [i \in Instances |-> Absent]
    /\ signalled = {} /\ mishaps = 0
    /\ hook = [i \in Instances |-> Absent] /\ panicked = FALSE /\ raced = FALSE

Goto(i, step) == pc' = [pc EXCEPT ![i] = step]
Mishap == mishaps < MaxMishaps /\ mishaps' = mishaps + 1
NoMishap == UNCHANGED mishaps

----------------------------------------------------------------------------
(* Reading the configuration.                                              *)

\* The entries of a file that an adapter takes into account.
InScope(i, e) == layout.adapter.scoped => e.project = project[i]
OwnIds(i, f) == {e.id : e \in {e \in Entries(f) : InScope(i, e)}}
Visible(i, f) ==
    {e \in Entries(f) : InScope(i, e) /\ (e.transport = "stdio" \/ layout.adapter.strict)}
Complete(es) == \A e \in es : e.transport = "stdio"
Expands(es) == layout.adapter.expands => \A e \in es : e.vars = "defined"
Listed(es) == IF layout.adapter.disables THEN {e \in es : e.enabled} ELSE es

\* The project's file, of the process's own directory, is read leniently: one
\* that does not parse adds nothing.  Claude Code leaves out the servers the
\* user disabled for the project.
HasBeside(i) == layout.adapter.beside # "ignored" /\ \E e \in Entries("project") : e.project = project[i]
Beside(i) ==
    {e \in Entries("project") :
        /\ HasBeside(i) /\ disk["project"] # Torn /\ Complete(Entries("project"))
        /\ layout.adapter.beside = "read" => e.approved}

\* parse_servers: the servers with their commands, the project's file first.
Merged(i) == {e \in Visible(i, "config") : \A o \in Beside(i) : o.id # e.id} \cup Beside(i)
ParseOk(i) ==
    /\ disk["config"] # Torn /\ Complete(Visible(i, "config")) /\ Expands(Merged(i))
    /\ layout.adapter.disables => Listed(Merged(i)) # {}
Parsed(i) ==
    [id \in {e.id : e \in Listed(Merged(i))} |->
        IF \E o \in Beside(i) : o.id = id THEN disk["project"][id] ELSE disk["config"][id]]

\* run_wrap up to the lock: the files are read before the lock is taken.
ParseServers(i) ==
    /\ pc[i] = "start"
    /\ \/ ~ParseOk(i) /\ Goto(i, "failed") /\ UNCHANGED servers
       \/ /\ ParseOk(i)
          /\ servers' = [servers EXCEPT ![i] = Parsed(i)]
          /\ Goto(i, IF dryRun[i] THEN "dry" ELSE "parsed")
    /\ UNCHANGED <<fixed, disk, backup, lock, image, armed, restored, loaded, signalled, mishaps, panicVars>>

\* resolve_shim_binary, setup_governance or start_governance_service fails.
SetupFails(i) ==
    /\ pc[i] = "parsed" /\ Mishap /\ Goto(i, "failed")
    /\ UNCHANGED <<fixed, disk, backup, lock, servers, image, armed, restored, loaded, signalled, panicVars>>

----------------------------------------------------------------------------
(* The lock and the rewrite.                                               *)

LockFree == lock = Absent

\* ConfigGuard::lock does not wait.
Lock(i) ==
    /\ pc[i] = "parsed"
    /\ \/ LockFree /\ lock' = i /\ Goto(i, "locked")
       \/ ~LockFree /\ Goto(i, "failed") /\ UNCHANGED lock
    /\ UNCHANGED <<fixed, disk, backup, servers, image, armed, restored, loaded, signalled, mishaps, panicVars>>

\* Dropping the guard.  (The kernel does the same for a process that ends.)
Unlock(i) == lock' = IF lock = i THEN Absent ELSE lock

\* detect_double_wrap, detect_project_double_wrap.  A shim is known by the path
\* of the process's own binary or the file name thoughtgate: all processes run
\* the same binary or keep that name, and no server of the user has it.
DoubleWrapMissed(i, f) == FALSE
DoubleWrap(i, f) == \E e \in Entries(f) : InScope(i, e) /\ disk[f][e.id] # <<>>
Wrappable(i, f) == disk[f] # Torn /\ ~DoubleWrap(i, f)

\* rewrite_mcp_servers_key: the shim becomes the command and the server's own
\* command its arguments.
ShimInFront(i, command) == Append(command, i)

\* The file a process rewrites at a step.
FileAt(i) == IF pc[i] \in {"dry", "beside", "besideRead", "besideBacked"} THEN "project" ELSE "config"

\* The rewritten content: a shim in front of each parsed server that the file
\* has in the process's scope (rewrite_project_servers leaves other projects
\* alone).
RewriteOne(i) ==
    [id \in DOMAIN image[i] |->
        IF id = (CHOOSE s \in DOMAIN servers[i] : TRUE) THEN ShimInFront(i, servers[i][id]) ELSE image[i][id]]
Rewrite(i) ==
    [id \in DOMAIN image[i] |->
        IF id \in DOMAIN servers[i] \cap OwnIds(i, FileAt(i))
          THEN ShimInFront(i, servers[i][id]) ELSE image[i][id]]

\* The steps of one standard_rewrite.
After == [locked |-> "read", read |-> "backed", backed |-> "written",
          dry |-> "besideRead", beside |-> "besideRead", besideRead |-> "besideBacked",
          besideBacked |-> "besideDone"]

RewritesBeside(i) == layout.adapter.beside = "rewritten" /\ HasBeside(i)

\* Errors of the main file end the process; those of the project's file are
\* ignored.
RewriteFails(i) ==
    /\ Goto(i, IF FileAt(i) = "config" THEN "failed" ELSE "besideDone")
    /\ IF FileAt(i) = "config" THEN Unlock(i) ELSE UNCHANGED lock

\* read_config and the check for an earlier wrap.  A dry run rewrites a copy of
\* the main file in a temporary directory, but Cursor's project file in place.
RunDryRun(i) == pc[i] = "dry" /\ RewritesBeside(i)

ReadConfig(i) ==
    /\ pc[i] \in {"locked", "beside"} \/ RunDryRun(i)
    /\ LET f == FileAt(i) IN
       \/ /\ ~Wrappable(i, f)
          /\ RewriteFails(i) /\ UNCHANGED image
       \/ /\ Wrappable(i, f)
          /\ image' = [image EXCEPT ![i] = disk[f]]
          /\ Goto(i, After[pc[i]]) /\ UNCHANGED lock
    /\ UNCHANGED <<fixed, disk, backup, servers, armed, restored, loaded, signalled, mishaps, panicVars>>

\* backup_config reads the file again, writes the backup atomically and
\* compares it.
BackupConfig(i) ==
    /\ pc[i] \in {"read", "besideRead"}
    /\ \/ /\ backup' = [backup EXCEPT ![FileAt(i)] = disk[FileAt(i)]]
          /\ Goto(i, After[pc[i]]) /\ NoMishap /\ UNCHANGED lock
       \/ Mishap /\ RewriteFails(i) /\ UNCHANGED backup
    /\ UNCHANGED <<fixed, disk, servers, image, armed, restored, loaded, signalled, panicVars>>

\* write_config: a temporary file renamed over the configuration.
WriteConfig(i) ==
    /\ pc[i] \in {"backed", "besideBacked"}
    /\ \/ /\ disk' = [disk EXCEPT ![FileAt(i)] = Rewrite(i)]
          /\ Goto(i, After[pc[i]]) /\ NoMishap /\ UNCHANGED lock
       \/ Mishap /\ RewriteFails(i) /\ UNCHANGED disk
    /\ UNCHANGED <<fixed, backup, servers, image, armed, restored, loaded, signalled, panicVars>>

\* rewrite_config of the Cursor adapter goes on with the project's file.
BesideNext(i) ==
    /\ pc[i] = "written"
    /\ Goto(i, IF RewritesBeside(i) THEN "beside" ELSE "besideDone")
    /\ UNCHANGED <<fixed, disk, backup, lock, servers, image, armed, restored, loaded, signalled, mishaps, panicVars>>

\* ConfigGuard::skip_restore
SkipRestoreAlways(i) == TRUE
SkipRestore(i) == noRestore[i]

\* The end of a dry run; or set_backup, skip_restore and the panic hook.
Arm(i) ==
    /\ \/ pc[i] = "besideDone"
       \/ pc[i] = "dry" /\ ~RewritesBeside(i)
    /\ \/ dryRun[i] /\ Goto(i, "exited") /\ UNCHANGED <<armed, restored>>
       \/ /\ ~dryRun[i] /\ Goto(i, "armed")
          /\ armed' = [armed EXCEPT ![i] = TRUE]
          /\ restored' = [restored EXCEPT ![i] = SkipRestore(i)]
    /\ UNCHANGED <<fixed, disk, backup, lock, servers, image, loaded, signalled, mishaps, panicVars>>

----------------------------------------------------------------------------
(* The agent, and the end.                                                 *)

\* The command an agent starts for a server: the project's file wins.
Effective(i, id) ==
    IF HasBeside(i) /\ id \in DOMAIN disk["project"]
      THEN disk["project"][id] ELSE disk["config"][id]

\* It starts none from a file that a panic has cut short.
Started(i) == {id \in DOMAIN servers[i] : disk["config"] # Torn \/ (HasBeside(i) /\ id \in ServerIds("project"))}

\* An agent that cannot be started ends the process; the guard restores.
SpawnAgent(i) ==
    /\ pc[i] = "armed"
    /\ \/ /\ Goto(i, "running") /\ NoMishap
          /\ loaded' = [loaded EXCEPT ![i] = [id \in Started(i) |-> Effective(i, id)]]
       \/ Goto(i, "restore") /\ Mishap /\ UNCHANGED loaded
    /\ UNCHANGED <<fixed, disk, backup, lock, servers, image, armed, restored, signalled, panicVars>>

\* The agent ends by itself, or a signal arrives: the governance service is
\* told and the agent given ten seconds.
AgentExits(i) ==
    /\ pc[i] \in {"running", "waiting"}
    /\ Goto(i, "cleanup")
    /\ UNCHANGED <<fixed, disk, backup, lock, servers, image, armed, restored, loaded, signalled, mishaps, panicVars>>

Signal(i) ==
    /\ pc[i] \in {"armed", "running", "waiting", "cleanup", "restore"} /\ i \notin signalled
    /\ signalled' = signalled \cup {i}
    /\ UNCHANGED <<fixed, disk, backup, lock, instanceVars, loaded, mishaps, panicVars>>

HandleSignalShutdown(i) ==
    /\ pc[i] = "running" /\ i \in signalled
    /\ Goto(i, "waiting")
    /\ UNCHANGED <<fixed, disk, backup, lock, servers, image, armed, restored, loaded, signalled, mishaps, panicVars>>

\* The agent did not end in time and is killed.
Kills(i) == pc[i] = "waiting" /\ Goto(i, "cleanup")

KillAgent(i) ==
    /\ Kills(i)
    /\ UNCHANGED <<fixed, disk, backup, lock, servers, image, armed, restored, loaded, signalled, mishaps, panicVars>>

\* wrap_cleanup: the scheduler and the service are stopped, within ten seconds.
WrapCleanup(i) ==
    /\ pc[i] = "cleanup" /\ Goto(i, "restore")
    /\ UNCHANGED <<fixed, disk, backup, lock, servers, image, armed, restored, loaded, signalled, mishaps, panicVars>>

\* ConfigGuard::restore, first from run_wrap and again when the guard is
\* dropped: the flag is swapped before the copy, so a failed copy is not tried
\* again.  fs::copy truncates the file and then fills it, and may fail before,
\* between or during the two.
Restore(i) ==
    /\ pc[i] = "restore"
    /\ restored' = [restored EXCEPT ![i] = TRUE]
    /\ raced' = (raced \/ hook[i] # Absent)
    /\ \/ restored[i] /\ Goto(i, "drop") /\ NoMishap /\ UNCHANGED disk
       \/ ~restored[i] /\ Goto(i, "copy") /\ NoMishap /\ disk' = [disk EXCEPT !["config"] = Torn]
       \/ ~restored[i] /\ Goto(i, "drop") /\ Mishap /\ UNCHANGED disk
    /\ UNCHANGED <<fixed, backup, lock, servers, image, armed, loaded, signalled, hook, panicked>>

CopyBackup(i) ==
    /\ pc[i] = "copy"
    /\ \/ disk' = [disk EXCEPT !["config"] = backup["config"]] /\ Goto(i, "remove") /\ NoMishap
       \/ Goto(i, "drop") /\ Mishap /\ UNCHANGED disk
    /\ UNCHANGED <<fixed, backup, lock, servers, image, armed, restored, loaded, signalled, panicVars>>

RemoveBackup(i) ==
    /\ pc[i] = "remove"
    /\ backup' = [backup EXCEPT !["config"] = Absent]
    /\ Goto(i, "drop")
    /\ UNCHANGED <<fixed, disk, lock, servers, image, armed, restored, loaded, signalled, mishaps, panicVars>>

\* Dropping the guard releases the lock.
DropGuard(i) ==
    /\ pc[i] = "drop" /\ Unlock(i) /\ Goto(i, "clear")
    /\ UNCHANGED <<fixed, disk, backup, servers, image, armed, restored, loaded, signalled, mishaps, panicVars>>

\* PANIC_RESTORE is cleared, under the mutex that a hook at work holds.  A run
\* that ended early, without an agent, does not clear it and does not wait.
ClearPanicRestore(i) ==
    /\ pc[i] = "clear" /\ (hook[i] = Absent \/ loaded[i] = Absent) /\ Goto(i, "exited")
    /\ armed' = [armed EXCEPT ![i] = FALSE]
    /\ UNCHANGED <<fixed, disk, backup, lock, servers, image, restored, loaded, signalled, mishaps, panicVars>>

\* The panic hook runs for a panic of any task, also one tokio contains, beside
\* the main task: it opens the backup and truncates the configuration, then
\* fills it unless that fails.
Restoring == {"copy", "remove", "drop", "clear"}

TaskPanics(i) ==
    /\ armed[i] /\ pc[i] \notin Ended /\ backup["config"] # Absent /\ hook[i] = Absent /\ Mishap
    /\ hook' = [hook EXCEPT ![i] = backup["config"]]
    /\ disk' = [disk EXCEPT !["config"] = Torn]
    /\ panicked' = TRUE /\ raced' = (raced \/ pc[i] \in Restoring)
    /\ UNCHANGED <<fixed, backup, lock, instanceVars, loaded, signalled>>

HookCopies(i) ==
    /\ hook[i] # Absent /\ pc[i] \notin Ended
    /\ hook' = [hook EXCEPT ![i] = Absent]
    /\ \E content \in {hook[i], disk["config"]} : disk' = [disk EXCEPT !["config"] = content]
    /\ UNCHANGED <<fixed, backup, lock, instanceVars, loaded, signalled, mishaps, panicked, raced>>

\* SIGKILL, or a signal before the handlers are registered.
Crash(i) ==
    /\ pc[i] \notin Ended /\ Mishap
    /\ Goto(i, "dead") /\ Unlock(i)
    /\ UNCHANGED <<fixed, disk, backup, servers, image, armed, restored, loaded, signalled, panicVars>>

----------------------------------------------------------------------------
Step(i) ==
    \/ ParseServers(i) \/ Lock(i) \/ ReadConfig(i) \/ BackupConfig(i) \/ WriteConfig(i)
    \/ BesideNext(i) \/ Arm(i) \/ SpawnAgent(i) \/ HandleSignalShutdown(i) \/ KillAgent(i)
    \/ WrapCleanup(i) \/ Restore(i) \/ CopyBackup(i) \/ RemoveBackup(i) \/ DropGuard(i)
    \/ ClearPanicRestore(i) \/ HookCopies(i)

WrapNext ==
    \E i \in Instances :
        Step(i) \/ SetupFails(i) \/ AgentExits(i) \/ Signal(i) \/ TaskPanics(i) \/ Crash(i)

WrapSpec == WrapInit /\ [][WrapNext]_wrapVars

----------------------------------------------------------------------------
(* Properties.                                                             *)

\* The values the variables take.
Contents(f) == [ServerIds(f) -> Seq(Instances)]
WrapTypeOK ==
    /\ \A f \in Files : disk[f] \in Contents(f) \cup {Torn} /\ backup[f] \in Contents(f) \cup {Absent, Torn}
    /\ lock \in Instances \cup {Absent}
    /\ \A i \in Instances :
        /\ pc[i] \in DOMAIN After \cup Ended \cup
                     {"start", "parsed", "written", "besideDone", "armed", "running", "waiting",
                   "cleanup", "restore", "copy", "remove", "drop", "clear"}
        /\ hook[i] \in Contents("config") \cup {Absent, Torn}

\* Every process looks at the same entries.
SingleScope == layout.adapter.scoped => \A i, j \in Instances : project[i] = project[j]

\* The user's configuration can be recovered: whenever the file is not the
\* original one its backup is, whichever process was killed, failed or panicked
\* at whichever step and whatever ran afterwards.  (Claude Code looks for an
\* earlier wrap in its own project only, so there it takes a single project;
\* and a panic hook at work while its own process restores is left out.)
OriginalKept ==
    (SingleScope /\ ~raced)
        => (disk["config"] = Original("config") \/ backup["config"] = Original("config"))

\* While an agent runs nobody but a panic changes what its process wrote.
RewriteStands ==
    \A i \in Instances :
        (pc[i] \in {"running", "waiting", "cleanup"} /\ ~panicked)
            => \A id \in DOMAIN servers[i] \cap OwnIds(i, "config") :
                disk["config"][id] # <<>> /\ disk["config"][id][Len(disk["config"][id])] = i

\* An agent without a configuration of its own beside the main file starts
\* every server behind a shim of the process that launched it.
AgentGoverned ==
    (layout.adapter.beside = "ignored" /\ ~panicked) =>
        \A i \in Instances : loaded[i] # Absent =>
            \A id \in DOMAIN loaded[i] : loaded[i][id] # <<>> /\ loaded[i][id][Len(loaded[i][id])] = i

\* An agent starts behind the shims of its process and stays there.
StaysGoverned == RewriteStands /\ AgentGoverned

\* A file is as the user left it once every process has ended, none of them by
\* a crash, after a failure, or told not to restore.
Restored(f) ==
    (/\ \A i \in Instances : pc[i] \in Ended \ {"dead"} /\ ~noRestore[i]
     /\ mishaps = 0)
    => disk[f] = Original(f)

\* The main configuration is restored, also when processes overlap and some
\* are refused.
ConfigRestored == Restored("config")

\* Every file that was rewritten is restored.
AllRestored == \A f \in Files : Restored(f)

\* The original is never lost, with any number of projects and any panic.
OriginalAlwaysKept == disk["config"] = Original("config") \/ backup["config"] = Original("config")

\* No server of the main file is behind more than one shim.
NeverNested == disk["config"] # Torn => \A id \in ServerIds("config") : Len(disk["config"][id]) <= 1

\* Whatever the adapter, the agent starts every server behind a shim.
EveryServerGoverned ==
    ~panicked => \A i \in Instances : loaded[i] # Absent =>
        \A id \in DOMAIN loaded[i] : loaded[i][id] # <<>>
=============================================================================
