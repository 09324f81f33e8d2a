----------------------------- MODULE Lifecycle ------------------------------
(***************************************************************************)
(* main() of main.c: it starts the threads of the program, serves files    *)
(* until it is told to quit, and takes everything down again.  Threads     *)
(* wait for messages in their pipes, call Lua and end when they are told   *)
(* to; main() waits for each of them for a second.  main_quit() sends      *)
(* SIGINT to the main thread, which kills the program where FUSE's handler *)
(* is not installed.  What the reloader reloads is Reloader, the clicks    *)
(* are Delivery, the threads of FUSE are here one.                         *)
(***************************************************************************)
EXTENDS Naturals, Sequences

CONSTANTS ShellCommands  \* run by the script: lua_close() waits for them

(* The threads in the order main() takes them down *)
Order == <<"attention", "cli", "click", "reloader">>
Threads == {Order[i] : i \in DOMAIN Order}
Callers == (Threads \ {"click"}) \cup {"fuse"}  \* those that call Lua
NoOne == "no one"

VARIABLES
    at, next,   \* where main() is, and the next thread to take down
    mounted, handled,   \* the mount, and FUSE's signal handlers
    quitdata,   \* whether quitdata.main_thread is set
    sigint,     \* "none", "sent", "deadly"
    lua,        \* g_L: "none", "open", "closed"
    holder,     \* the Lua lock
    thread,     \* "none", "idle", "call" (wants the lock or has it), "over"
    exitMsg,    \* whether msg_exit is in the thread's pipe
    got_eof,    \* cli_got_eof
    children    \* shell commands that are running

mountVars == <<mounted, handled>>
quitVars == <<quitdata, sigint>>
luaVars == <<lua, holder, children>>
threadVars == <<thread, exitMsg, got_eof>>
lifeVars == <<at, next, mountVars, quitVars, luaVars, threadVars>>

LifeStart(where) ==
    /\ at = where /\ next = 1 /\ mounted = FALSE /\ handled = FALSE
    /\ quitdata = FALSE /\ sigint = "none" /\ lua = "none" /\ holder = NoOne /\ children = {}
    /\ thread = [t \in Threads \cup {"fuse"} |-> "none"]
    /\ exitMsg = [t \in Threads |-> FALSE] /\ got_eof = FALSE

LifeInit == LifeStart("setup")

-----------------------------------------------------------------------------
(* Arguments, mount and signal handlers; each of them can fail.            *)
Setup ==
    /\ at = "setup"
    /\ \/ at' = "lua_deinit" /\ UNCHANGED <<mountVars, quitdata>>
       \/ at' = "unmount" /\ mounted' = TRUE /\ UNCHANGED <<handled, quitdata>>
       \/ at' = "script" /\ mounted' = TRUE /\ handled' = TRUE /\ quitdata' = TRUE
    /\ UNCHANGED <<next, sigint, luaVars, threadVars>>

(* When no script can be found or made everything is left as it is.        *)
FindScript ==
    /\ at = "script"
    /\ at' \in {"lua_init", "no script"}
    /\ UNCHANGED <<next, mountVars, quitVars, luaVars, threadVars>>

(* click_thread_init(), and lua_init() with the run of the script *)
LuaInit ==
    /\ at = "lua_init"
    /\ thread' \in {[thread EXCEPT !["click"] = s] : s \in {"none", "idle"}}
    /\ \/ lua' = "open" /\ at' = "threads" /\ children' \in SUBSET ShellCommands
       \/ lua' = "none" /\ at' = "clear" /\ UNCHANGED children
    /\ UNCHANGED <<next, mountVars, quitVars, holder, exitMsg, got_eof>>

(* attention_init(), cli_input_init(), reloader_init(): there may be no    *)
(* display or no terminal.  The threads of FUSE come and go with its loop. *)
StartThreads ==
    /\ at = "threads"
    /\ \E started \in SUBSET (Threads \ {"click"}) :
          thread' = [t \in DOMAIN thread |->
                        IF t \in started \cup {"fuse"} THEN "idle" ELSE thread[t]]
    /\ at' = "loop"
    /\ UNCHANGED <<next, mountVars, quitVars, luaVars, exitMsg, got_eof>>

(* fuse_loop_mt() returns on a signal, an error or when unmounted.         *)
LoopEnds ==
    /\ at = "loop" /\ thread["fuse"] = "idle"
    /\ at' = "clear" /\ thread' = [thread EXCEPT !["fuse"] = "over"]
    /\ UNCHANGED <<next, mountVars, quitVars, luaVars, exitMsg, got_eof>>

-----------------------------------------------------------------------------
(* main_quit() *)
MainQuit ==
    /\ sigint' = IF ~quitdata THEN sigint ELSE IF handled THEN "sent" ELSE "deadly"
    /\ quitdata' = FALSE

(* Mutant of ClearQuitdata: the handlers are removed all the same. *)
ClearQuitdataNot ==
    /\ at = "clear"
    /\ at' = "handlers"
    /\ UNCHANGED <<next, mountVars, quitVars, luaVars, threadVars>>

(* clear_quitdata() *)
ClearQuitdata ==
    /\ at = "clear"
    /\ at' = "handlers" /\ quitdata' = FALSE
    /\ UNCHANGED <<next, mountVars, sigint, luaVars, threadVars>>

RemoveHandlers ==
    /\ at = "handlers"
    /\ at' = "unmount" /\ handled' = FALSE
    /\ UNCHANGED <<next, mounted, quitVars, luaVars, threadVars>>

Unmounts ==
    /\ at = "unmount"
    /\ at' = "lua_deinit" /\ mounted' = FALSE
    /\ UNCHANGED <<next, handled, quitVars, luaVars, threadVars>>

(* lua_deinit() waits for the lock without a timeout, fires "unload" and   *)
(* closes the state, for which the commands have to be over.               *)
LuaDeinit ==
    /\ at = "lua_deinit" /\ holder = NoOne
    /\ IF lua = "open" THEN holder' = "main" /\ at' = "lua_close"
       ELSE at' = "deinit" /\ UNCHANGED holder
    /\ UNCHANGED <<next, mountVars, quitVars, lua, children, threadVars>>

LuaClose ==
    /\ at = "lua_close" /\ children = {}
    /\ at' = "deinit" /\ lua' = "closed" /\ holder' = NoOne
    /\ UNCHANGED <<next, mountVars, quitVars, children, threadVars>>

Then(done) == IF next = Len(Order) THEN done ELSE "deinit"

(* The deinit function of a thread tells it to end and waits a second.     *)
TellThread ==
    /\ at = "deinit"
    /\ LET t == Order[next]
       IN IF thread[t] = "none" THEN at' = Then("flush") /\ next' = next + 1 /\ UNCHANGED exitMsg
          ELSE at' = "join" /\ exitMsg' = [exitMsg EXCEPT ![t] = TRUE] /\ UNCHANGED next
    /\ UNCHANGED <<mountVars, quitVars, luaVars, thread, got_eof>>

Joined ==
    /\ at = "join" /\ thread[Order[next]] = "over"
    /\ at' = Then("flush") /\ next' = next + 1
    /\ UNCHANGED <<mountVars, quitVars, luaVars, threadVars>>

JoinTimeout ==
    /\ at = "join" /\ thread[Order[next]] # "over"
    /\ at' = Then("flush") /\ next' = next + 1
    /\ UNCHANGED <<mountVars, quitVars, luaVars, threadVars>>

(* The scrollback is written and the program ends, with all its threads.   *)
Flush ==
    /\ at \in {"flush", "no script"}
    /\ at' = IF at = "flush" THEN "over" ELSE "over without script"
    /\ UNCHANGED <<next, mountVars, quitVars, luaVars, threadVars>>

Over == at \in {"over", "over without script"}

-----------------------------------------------------------------------------
(* A thread has something to tell Lua. *)
WantLua(t) ==
    /\ ~Over /\ t \in Callers /\ thread[t] = "idle"
    /\ thread' = [thread EXCEPT ![t] = "call"]
    /\ UNCHANGED <<at, next, mountVars, quitVars, luaVars, exitMsg, got_eof>>

(* lua_lock_state_real() *)
MayCall == holder = NoOne /\ lua = "open"

Lock(t) ==
    /\ ~Over /\ thread[t] = "call" /\ holder # t
    /\ IF MayCall THEN holder' = t /\ UNCHANGED thread
       ELSE thread' = [thread EXCEPT ![t] = "idle"] /\ UNCHANGED holder  \* or after two seconds
    /\ UNCHANGED <<at, next, mountVars, quitVars, lua, children, exitMsg, got_eof>>

(* The call ends; it may have unmounted: the command cfgfs_restart.        *)
Release(t) ==
    /\ ~Over /\ holder = t
    /\ holder' = NoOne /\ thread' = [thread EXCEPT ![t] = "idle"]
    /\ MainQuit \/ UNCHANGED quitVars
    /\ UNCHANGED <<at, next, mountVars, lua, children, exitMsg, got_eof>>

(* ^D: the thread tells itself to end, ... *)
Eof ==
    /\ ~Over /\ thread["cli"] = "idle" /\ ~got_eof
    /\ got_eof' = TRUE /\ exitMsg' = [exitMsg EXCEPT !["cli"] = TRUE]
    /\ UNCHANGED <<at, next, mountVars, quitVars, luaVars, thread>>

(* Mutant of AfterExit: nobody is told. *)
AfterExitQuiet(t) == UNCHANGED quitVars

(* ... and when it ends, the program. *)
AfterExit(t) == IF t = "cli" /\ got_eof THEN MainQuit ELSE UNCHANGED quitVars

ThreadExit(t) ==
    /\ ~Over /\ thread[t] = "idle" /\ exitMsg[t]
    /\ thread' = [thread EXCEPT ![t] = "over"] /\ exitMsg' = [exitMsg EXCEPT ![t] = FALSE]
    /\ AfterExit(t)
    /\ UNCHANGED <<at, next, mountVars, luaVars, got_eof>>

(* The shell commands end some time (external).                            *)
ChildEnds(c) ==
    /\ c \in children /\ children' = children \ {c}
    /\ UNCHANGED <<at, next, mountVars, quitVars, lua, holder, threadVars>>

-----------------------------------------------------------------------------
Main ==
    \/ Setup \/ FindScript \/ LuaInit \/ StartThreads
    \/ ClearQuitdata \/ RemoveHandlers \/ Unmounts \/ LuaDeinit \/ LuaClose
    \/ TellThread \/ Joined \/ JoinTimeout \/ Flush

LifeNext ==
    \/ Main \/ LoopEnds
    \/ \E t \in Threads \cup {"fuse"} : WantLua(t) \/ Lock(t) \/ Release(t)
    \/ \E t \in Threads : ThreadExit(t)
    \/ Eof
    \/ \E c \in ShellCommands : ChildEnds(c)

LifeSpec == LifeInit /\ [][LifeNext]_lifeVars

(* main() goes on and gets the lock when the others keep leaving it free,  *)
(* and its loop ends when it got a signal; calls get or do not get the     *)
(* lock and return; a thread told to end does so between two calls; a      *)
(* command ends.                                                           *)
LifeFairness ==
    /\ WF_lifeVars(Main) /\ SF_lifeVars(LuaDeinit)
    /\ SF_lifeVars(LoopEnds /\ sigint = "sent")
    /\ \A t \in Threads \cup {"fuse"} : WF_lifeVars(Lock(t)) /\ WF_lifeVars(Release(t))
    /\ \A t \in Threads : SF_lifeVars(ThreadExit(t))
    /\ \A c \in ShellCommands : WF_lifeVars(ChildEnds(c))

-----------------------------------------------------------------------------
(* A thread is only in Lua while the state is open, nobody sends SIGINT    *)
(* once it would kill, and the program leaves no mount behind unless it    *)
(* found no script (main(), main_quit(), lua_lock_state_real()).           *)
ShutdownSafe ==
    /\ holder # NoOne => lua = "open"
    /\ sigint # "deadly"
    /\ at = "over" => ~mounted

(* After ^D the program ends, whatever its threads are doing (cli_main()). *)
EofEnds == got_eof ~> Over
=============================================================================
