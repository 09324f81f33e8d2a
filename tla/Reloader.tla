------------------------------ MODULE Reloader ------------------------------
(***************************************************************************)
(* reloader.c and the require() of builtin.lua: which source files are     *)
(* watched, when a change of one leads to a reload, and what of that the   *)
(* Lua lock, errors in the script and the shutdown may disturb.            *)
(*                                                                         *)
(* The inotify descriptor is closed whenever the reloader wakes up and     *)
(* opened again, with the watches set anew, by the reload.  What the       *)
(* reload does to the output buffers is in BufferList.                     *)
(***************************************************************************)
EXTENDS Naturals, Sequences, SequencesExt

CONSTANTS
    Script,    \* script.lua
    Modules,   \* the source files loaded with require()
    MaxLoads,  \* bound on the files being loaded; Lua has one on its C calls
    MaxMsgs    \* bound on the messages in msgpipe

ASSUME ReloaderAssumption ==
    Script \notin Modules /\ MaxLoads \in Nat \ {0} /\ MaxMsgs \in Nat \ {0}

VARIABLES
    broken,    \* the files that do not compile at the moment
    stale,     \* the files changed since Lua read what it uses of them
    fd,        \* inotify_fd is open
    watches,   \* the files it watches
    event,     \* it is readable
    msgpipe,   \* messages to the reloader
    runner,    \* the thread that runs Lua; locked_by is NULL for main
    loads,     \* the files being loaded: read, and running
    cached,    \* package.loaded
    watched_modules,  \* what _reloader_add_watch() returned
    path_cache,
    thread,    \* where the reloader is
    main,      \* where the main thread is
    timedOut,  \* history: the last reload did not get the Lua lock
    failed,    \* history: the last reload found an error in script.lua
    slipped,   \* history: the files changed between their loading and watching
    raced      \* history: main added a watch after reloader_init()

files    == <<broken, stale>>
inotify  == <<fd, watches, event>>
modules  == <<loads, cached, watched_modules, path_cache>>
outcomes == <<timedOut, failed, slipped, raced>>
vars == <<files, inotify, msgpipe, runner, modules, thread, main, outcomes>>

Files == Modules \cup {Script}

(* What was so when the loading began: the module was watched, and the     *)
(* file compiled.                                                          *)
Load == [file : Files, watched : BOOLEAN, compiles : BOOLEAN]

Loading(f) == \E l \in Range(loads) : l.file = f

(* The type of every variable.  Where the file of a module is, is known    *)
(* once it is or was to be watched, for when it fails to load.             *)
TypeOK ==
    /\ broken \subseteq Files /\ stale \subseteq Files
    /\ fd \in BOOLEAN /\ watches \subseteq Files /\ event \in BOOLEAN
    /\ msgpipe \in Seq({"reload", "exit"})
    /\ runner \in {"none", "main", "reloader", "other"}
    /\ loads \in Seq(Load)
    /\ cached \subseteq Modules
    /\ watched_modules \in [Modules -> {"nil", "true", "false"}]
    /\ path_cache \subseteq Modules
    /\ \A m \in Modules : watched_modules[m] # "nil" => m \in path_cache
    /\ thread \in {"none", "enter", "poll", "woken", "unload", "script", "gone"}
    /\ main \in {"load", "script", "running", "unload", "closed", "join", "done"}
    /\ timedOut \in BOOLEAN /\ failed \in BOOLEAN /\ raced \in BOOLEAN
    /\ slipped \subseteq Files

Init ==
    /\ broken \in SUBSET Files /\ stale = {}
    /\ fd = FALSE /\ watches = {} /\ event = FALSE
    /\ msgpipe = <<>>
    /\ runner = "main"
    /\ loads = <<>> /\ cached = {}
    /\ watched_modules = [m \in Modules |-> "nil"]
    /\ path_cache = {}
    /\ thread = "none" /\ main = "load"
    /\ timedOut = FALSE /\ failed = FALSE
    /\ slipped = {} /\ raced = FALSE

-----------------------------------------------------------------------------
(* Mutant of GetOrInit: script.lua is only watched when it has been run. *)
GetOrInitBare ==
    /\ fd' = TRUE
    /\ UNCHANGED <<watches, event>>

(* get_or_init_inotify_fd(): a new descriptor watches script.lua. *)
GetOrInit ==
    /\ fd' = TRUE
    /\ watches' = IF fd THEN watches ELSE {Script}
    /\ UNCHANGED event

(* watch_file() *)
WatchFile(f) ==
    /\ fd' = TRUE
    /\ watches' = (IF fd THEN watches ELSE {Script}) \cup {f}
    /\ UNCHANGED event

(* deinit_inotify_if_inited(): events not read are gone with it. *)
DeinitInotify == fd' = FALSE /\ watches' = {} /\ event' = FALSE

(* safe_to_call_these_from_lua(): the holder of the lock is the reloader,  *)
(* or nobody who has set the name.                                         *)
SafeToAddWatch == runner \in {"reloader", "main"}

(* The reset callback of require(). *)
ForgetModules ==
    /\ cached' = cached \ {m \in Modules : watched_modules[m] # "nil"}
    /\ watched_modules' = [m \in Modules |-> "nil"]
    /\ UNCHANGED <<loads, path_cache>>

-----------------------------------------------------------------------------
(* require() while a script, a bind or a listener runs: a module that is   *)
(* not cached is read from its file, ...                                   *)
ScriptRuns ==
    \/ runner = "main" /\ main \in {"script", "unload"}
    \/ runner = "reloader" /\ thread \in {"unload", "script"}
    \/ runner = "other"

(* ... also one that is being loaded already, ...                          *)
RequireBegin(m) ==
    /\ ScriptRuns /\ m \notin cached /\ Len(loads) < MaxLoads
    /\ loads' = Append(loads, [file |-> m, watched |-> watched_modules[m] = "true",
                               compiles |-> m \notin broken])
    /\ IF Loading(m)
       THEN UNCHANGED <<stale, slipped>>   \* the first to begin is the last to end
       ELSE stale' = stale \ {m} /\ slipped' = slipped \ {m}
    /\ UNCHANGED <<broken, inotify, msgpipe, runner, cached, watched_modules, path_cache,
                   thread, main, timedOut, failed, raced>>

(* Mutant of RequireEnd: the path is not kept. *)
RequireEndPathless ==
    /\ loads # <<>> /\ Last(loads).file \in Modules
    /\ loads' = Front(loads)
    /\ \E ok \in BOOLEAN :
          LET m == Last(loads).file
          IN /\ ok => Last(loads).compiles
             /\ cached' = IF ok THEN cached \cup {m} ELSE cached
             /\ IF Last(loads).watched \/ ~ok
                THEN UNCHANGED <<inotify, watched_modules, raced>>
                ELSE /\ watched_modules' = [watched_modules EXCEPT ![m] =
                                               IF SafeToAddWatch THEN "true" ELSE "false"]
                     /\ IF SafeToAddWatch THEN WatchFile(m) ELSE UNCHANGED inotify
                     /\ raced' = (raced \/ (runner = "main" /\ thread # "none"))
    /\ UNCHANGED <<files, msgpipe, runner, path_cache, thread, main, timedOut, failed, slipped>>

(* ... run, which may require() others and fail, and watched if its path   *)
(* is known and this thread may.  A module that was watched when it began  *)
(* to be loaded is not watched again.                                      *)
RequireEnd ==
    /\ loads # <<>> /\ Last(loads).file \in Modules
    /\ loads' = Front(loads)
    /\ \E ok \in BOOLEAN :
          LET m == Last(loads).file
              known == ok \/ m \in path_cache
          IN /\ ok => Last(loads).compiles
             /\ cached' = IF ok THEN cached \cup {m} ELSE cached
             /\ IF Last(loads).watched \/ ~known
                THEN UNCHANGED <<inotify, watched_modules, path_cache, raced>>
                ELSE /\ path_cache' = path_cache \cup {m}
                     /\ watched_modules' = [watched_modules EXCEPT ![m] =
                                               IF SafeToAddWatch THEN "true" ELSE "false"]
                     /\ IF SafeToAddWatch THEN WatchFile(m) ELSE UNCHANGED inotify
                     /\ raced' = (raced \/ (runner = "main" /\ thread # "none"))
    /\ UNCHANGED <<files, msgpipe, runner, thread, main, timedOut, failed, slipped>>

-----------------------------------------------------------------------------
(* The main thread loads script.lua before there are other threads, ...    *)
LoadScript ==
    /\ main = "load"
    /\ IF Script \in broken
       THEN main' = "done" /\ UNCHANGED <<runner, stale, loads>>
       ELSE /\ main' = "script"
            /\ stale' = stale \ {Script}
            /\ loads' = <<[file |-> Script, watched |-> FALSE, compiles |-> TRUE]>>
            /\ UNCHANGED runner
    /\ UNCHANGED <<broken, inotify, msgpipe, cached, watched_modules, path_cache, thread, outcomes>>

(* ... watches it after running it, and starts the reloader.               *)
ScriptEnd ==
    /\ main = "script" /\ Len(loads) = 1
    /\ loads' = <<>>
    /\ WatchFile(Script)
    /\ runner' = "none"
    /\ \/ main' = "running" /\ thread' = "enter"
       \/ main' = "done" /\ UNCHANGED thread
    /\ UNCHANGED <<files, msgpipe, cached, watched_modules, path_cache, outcomes>>

(* At the end lua_deinit() takes the lock, fires "unload", closes Lua, ... *)
LuaDeinit ==
    /\ main = "running" /\ runner = "none"
    /\ main' = "unload" /\ runner' = "main"
    /\ UNCHANGED <<files, inotify, msgpipe, modules, thread, outcomes>>

LuaClose ==
    /\ main = "unload" /\ loads = <<>>
    /\ main' = "closed" /\ runner' = "none"
    /\ UNCHANGED <<files, inotify, msgpipe, modules, thread, outcomes>>

(* ... and reloader_deinit() waits a second for the reloader to leave.     *)
ReloaderDeinit ==
    /\ main = "closed" /\ Len(msgpipe) < MaxMsgs
    /\ msgpipe' = Append(msgpipe, "exit")
    /\ main' = "join"
    /\ UNCHANGED <<files, inotify, runner, modules, thread, outcomes>>

Joined ==
    /\ main = "join"
    /\ main' = "done"
    /\ UNCHANGED <<files, inotify, msgpipe, runner, modules, thread, outcomes>>

-----------------------------------------------------------------------------
(* wait_for_event(): poll, ...                                             *)
EnterPoll ==
    /\ thread = "enter"
    /\ thread' = "poll"
    /\ GetOrInit
    /\ UNCHANGED <<files, msgpipe, runner, modules, main, outcomes>>

(* Mutant of WakeMsg: every message counts as the one to leave. *)
WakeMsgLeaves ==
    /\ thread = "poll" /\ msgpipe # <<>>
    /\ msgpipe' = Tail(msgpipe)
    /\ thread' = "gone"
    /\ DeinitInotify
    /\ UNCHANGED <<files, runner, modules, main, outcomes>>

(* ... where a message is read before the event, and either ends the wait. *)
WakeMsg ==
    /\ thread = "poll" /\ msgpipe # <<>>
    /\ msgpipe' = Tail(msgpipe)
    /\ thread' = IF Head(msgpipe) = "exit" THEN "gone" ELSE "woken"
    /\ DeinitInotify
    /\ UNCHANGED <<files, runner, modules, main, outcomes>>

WakeEvent ==
    /\ thread = "poll" /\ msgpipe = <<>> /\ event
    /\ thread' = "woken"
    /\ DeinitInotify
    /\ UNCHANGED <<files, msgpipe, runner, modules, main, outcomes>>

(* do_reload() without the Lua lock: it was held for two seconds, or Lua   *)
(* is closed.                                                              *)
ReloadDropped ==
    /\ thread = "woken"
    /\ thread' = "enter"
    /\ timedOut' = TRUE
    /\ UNCHANGED <<files, inotify, msgpipe, runner, modules, main, failed, slipped, raced>>

(* do_reload() and _reload_1() of a script that does not compile, ...      *)
ReloadFails ==
    /\ thread = "woken" /\ runner = "none" /\ main = "running"
    /\ Script \in broken
    /\ GetOrInit
    /\ stale' = stale \ {Script} /\ slipped' = slipped \ {Script}
    /\ thread' = "enter"
    /\ failed' = TRUE /\ timedOut' = FALSE
    /\ UNCHANGED <<broken, msgpipe, runner, modules, main, raced>>

(* ... and of one that does.  The "unload" listeners run first, ...        *)
ReloadBegin ==
    /\ thread = "woken" /\ runner = "none" /\ main = "running"
    /\ Script \notin broken
    /\ GetOrInit
    /\ stale' = stale \ {Script}
    /\ slipped' = slipped \ {Script}
    /\ thread' = "unload" /\ runner' = "reloader"
    /\ failed' = FALSE /\ timedOut' = FALSE
    /\ UNCHANGED <<broken, msgpipe, modules, main, raced>>

(* ... then everything is reset and the script runs, ...                   *)
ReloadScript ==
    /\ thread = "unload" /\ loads = <<>>
    /\ thread' = "script"
    /\ ForgetModules
    /\ UNCHANGED <<files, inotify, msgpipe, runner, main, outcomes>>

(* ... to its end or an error.                                             *)
ReloadEnd ==
    /\ thread = "script" /\ loads = <<>>
    /\ thread' = "enter" /\ runner' = "none"
    /\ WatchFile(Script)
    /\ UNCHANGED <<files, msgpipe, modules, main, outcomes>>

-----------------------------------------------------------------------------
(* Another thread runs Lua, with the lock. *)
OtherBegin ==
    /\ main = "running" /\ runner = "none"
    /\ runner' = "other"
    /\ UNCHANGED <<files, inotify, msgpipe, modules, thread, main, outcomes>>

OtherEnd ==
    /\ runner = "other" /\ loads = <<>>
    /\ runner' = "none"
    /\ UNCHANGED <<files, inotify, msgpipe, modules, thread, main, outcomes>>

(* reloader_reload() *)
RequestReload ==
    /\ main = "running" /\ Len(msgpipe) < MaxMsgs - 1
    /\ msgpipe' = Append(msgpipe, "reload")
    /\ UNCHANGED <<files, inotify, runner, modules, thread, main, outcomes>>

(* The user saves a file. *)
Save(f) ==
    /\ broken' \in {broken \cup {f}, broken \ {f}}
    /\ stale' = stale \cup {f}
    /\ event' = (event \/ f \in watches)
    /\ slipped' = IF Loading(f) /\ f \notin watches THEN slipped \cup {f} ELSE slipped
    /\ UNCHANGED <<fd, watches, msgpipe, runner, modules, thread, main, timedOut, failed, raced>>

Lua == (\E m \in Modules : RequireBegin(m)) \/ RequireEnd

MainStep == LoadScript \/ ScriptEnd \/ LuaClose \/ ReloaderDeinit \/ Joined

Reload == ReloadDropped \/ ReloadFails \/ ReloadBegin \/ ReloadScript \/ ReloadEnd

ReloaderStep == EnterPoll \/ WakeMsg \/ WakeEvent \/ Reload

Next ==
    /\ main # "done"
    /\ \/ Lua \/ MainStep \/ LuaDeinit \/ ReloaderStep
       \/ OtherBegin \/ OtherEnd \/ RequestReload
       \/ \E f \in Files : Save(f)

Spec == Init /\ [][Next]_vars

-----------------------------------------------------------------------------
(* A file the running script depends on: script.lua, and the modules that  *)
(* are loaded, or failed and are watched until somebody corrects them.     *)
InUse(f) == f = Script \/ f \in cached \/ watched_modules[f] = "true"

(* A reload is about to read the file. *)
Underway(f) == thread = "woken" \/ (thread = "unload" /\ f # Script)

(* While the program runs, a file in use that has changed leads to a       *)
(* reload: the event is pending or a reload is on its way.  The ways a     *)
(* change may go unnoticed are these and no others: a save between the     *)
(* loading of the file and its watch, a module loaded outside of a reload, *)
(* and, until a later reload works, the Lua lock held for two seconds or   *)
(* an error in script.lua (wait_for_event(), do_reload(), require()).      *)
ChangesNoticed ==
    main = "running" =>
        \A f \in Files :
            InUse(f) /\ f \in stale =>
                \/ event \/ Underway(f)
                \/ f \in slipped
                \/ f \in Modules /\ watched_modules[f] = "false"
                \/ timedOut
                \/ f # Script /\ failed

(* After a reload that found script.lua broken, correcting it leads to     *)
(* another one, unless that does not get the lock: the failed reload has   *)
(* left script.lua watched from before it was read (do_reload()).          *)
CorrectionNoticed ==
    main = "running" /\ failed /\ Script \notin broken =>
        event \/ thread = "woken" \/ timedOut

(* The watches are only changed where reloader.c assumes it: "1. from main *)
(* thread before it has called reloader_init() 2. from the reloader        *)
(* thread" (the comment on safe_to_call_these_from_lua()).                 *)
WatchesWhereAssumed == ~raced

(* The reloader goes on, and so does what runs under the lock: a script or *)
(* a module ends even if it tries to load others again and again.          *)
FairSpec ==
    /\ Spec
    /\ WF_vars(ReloaderStep)
    /\ \A n \in 1 .. MaxLoads : SF_vars(Len(loads) = n /\ RequireEnd)
    /\ SF_vars(ReloadScript) /\ SF_vars(ReloadEnd)

(* A change of script.lua is read in the end, unless it was made while the *)
(* program started and had no watch yet, the reload does not get the lock  *)
(* or the program exits: neither further saves, nor errors, nor requests   *)
(* to reload get in the way (reloader_main()).                             *)
ChangeRead ==
    Script \in stale ~>
        \/ Script \notin stale
        \/ Script \in slipped \/ timedOut \/ main # "running"
=============================================================================
