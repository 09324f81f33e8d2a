# cfgfs in TLA+

cfgfs is a FUSE file system that a Source-engine game mounts as one of its config
directories.  When the game executes a config, the read is answered by a Lua script; what
the script writes with `cfg()` is what the game executes.  This directory holds TLA+ modules
of the parts of the program where that can go wrong, the TLC configurations that check them
on small instances, and TLAPS proofs of theorems about them.

Paths below are relative to the root of the repository: `builtin.lua`, `src/main.c`.

- [Parts of the system](#parts-of-the-system): the inventory
- [Modules](#modules): what each one models, and how
- [Runs](#runs): what is checked, the bounds, and why they are enough
- [Fairness](#fairness)
- [Proofs](#proofs)
- [Disagreements found](#disagreements-found)
- [What is not modelled](#what-is-not-modelled)
- [Plan](#plan)

`PROJECT.json` lists the same components, runs and theorems, the source lines of every
definition, a plausible bug for every property that the run of the property finds, and the
hazards of the code by line.

To repeat a check or a proof:

    tlc -workers 2 -config MCDelivery.cfg MCDelivery
    tlapm BufferListProofs.tla


## Parts of the system

### Who runs

| thread | code | calls Lua | and then |
|---|---|---|---|
| fuse | `main.c` | for every read and write of the game and of shell commands | no click after a read (the game is reading), a click if commands are left after the others |
| attention | `attention.c` | `_attention` when the active window changes | a click in any case |
| click | `click_thread_kqueue.c` | no | timers of `wait()`, runs `do_click()` |
| reloader | `reloader.c` | `_reload_1`, `_reload_2` | a click if commands are left |
| cli | `cli_input.c` | `_cli_input` | the same |
| rcon readers | `rcon/session.c` | `_rcon_data`, `_rcon_status` | the same |

All of them share one Lua state behind one lock (`lua/state.c`), which each waits for no longer
than two seconds, and the Lua side is a world
of coroutines of its own (`builtin.lua`).  What they share outside of it (`pending_click`,
`game_window_is_active`, the unmask counters, the notify list, the inotify descriptor) has
weaker protection or none, and is where most of the hard behaviour is.

The game is a party too.  It reads a config when a key is pressed or another config says
`exec`, and never otherwise: if cfgfs has something for the game to execute, it presses a key
in the game's window (a *click*), whose bind executes `cfgfs/click.cfg`.

### Components

**Output buffers** (`buffer_list.c`, `buffers.c`).
State: two linked lists of fixed-size buffers, `buffers` (commands on their way to the game)
and `init_cfg` (commands the script wrote while loading).  Operations: reserve and commit a
line, make a buffer full, grab the first one, swap, reset, copy.
Hard: three pointers into one chain; the last line of a full buffer must be
`exec cfgfs/buffer` or the game does not come back; a copy in the middle of other writing;
buffers exactly full.
Correct if commands reach the game in order, once each, and none is left behind a reply that
ends the chain.

**Config writing** (`cfg.c`).  Turns `cfg(text)` and `cmd.x(...)` into lines of the buffers.
Hard: the size of a quoted command is computed by one function and written by another.

**Lua lock** (`lua/state.c`).  State: a mutex, the holder's name.  Operations: lock with or
without a 2 s timeout, release with a click if there is something to deliver, release without.
Hard: a timeout makes the caller give up what it came to do.

**Clicks** (`click_x11.c`, `click_thread_kqueue.c`).  State: `pending_click` (the time of the
last one), `click_lock`, `click_key`, timers.  Operations: `do_click()`, `do_click_after()`,
`click_received()`, setting the key.
Hard: `do_click()` looks at three conditions one after the other without the Lua lock and
gives up if one fails; nobody tries again.
Correct if work left behind always has a click on its way.

**Attention** (`attention.c`).  Watches which window is active, stores it in C first and tells
Lua second.  Hard: the order, and the timeout in between.

**File system** (`main.c`).  State: unmask counters, notify list.  Operations: `getattr`,
`open`, `read`, `write` and the rest.  Hard: by counting the `open()` calls of a config it
tells the game's execution of a config from other reads, without a lock.

**Event loop** (`builtin.lua`).  State: `ev_timeouts`, `ev_loop_co`, the generation counter,
event listeners.  Operations: `wait()`, `cancel_wait()`, `wait_for_event()`, `fire_event()`,
`add_listener()`, `spinoff()`, the pass over the timeouts.
Hard: any of these may be called from inside any other; an event and a timeout may race for
one coroutine.
Correct if every suspended coroutine is resumed at most once and by what it waits for.

**Reload** (`reloader.c`, `lua/init.c`, `require()` in `builtin.lua`).  State: the inotify
descriptor and its watches, `msgpipe`, `package.loaded`, what is known of each module.
Operations: wait for an event, reload in two steps, `require()`, exit.
Hard: the descriptor is closed and set up anew around every reload; a reload may fail in the
middle or not get the lock; `unload` listeners run scripts while things are torn down.
Correct if a change of a file in use leads to a reload.

**Binds and config contents** (`builtin.lua`, `keys.c`).  State: what each key is bound to
(`binds_down`, `binds_up`), which keys are pressed (`is_pressed`).  Operations: `bind()`, the answer
of `_get_contents()` for a path, `release_all_keys()`.
Hard: in games without `alias` one config stands for the press and the release of a key; what
is pressed survives a reload, what it is bound to does not.
Correct if what a press turned on is turned off by the release.

**Command and variable tables**, **console output** (`builtin.lua`).  `cmd`, `cvar`,
`get_cvars()`; the writes of the game to its console log, and the events they fire.
Hard: a variable is read by having the game print it, while it prints other things, others read
the same one, and writes are lost.
Correct if a variable that is read is not older than the request, and reading ends.

**Remote console** (`rcon/`, `lua/rcon.c`, `builtin.lua`).  State: the session (socket, response
buffer, reader thread), `sess` and `rcon_connecting` in Lua.  Operations: `rcon()`, authentication,
reading and handling replies, `_rcon_status()`.
Hard: the session is stored before it has authenticated; its reader thread uses it without the
Lua lock, and Lua frees it; calls of the reader may get no lock.
Correct if a session in use is not freed, replies arrive once and in order, and nobody waits for ever.

**Startup and shutdown** (`main.c`, `lua/init.c`, `cli_input.c`).  State: the mount, the signal handlers,
the Lua state, four threads and their pipes.  Operations: `main()` in its order, `main_quit()`,
`lua_deinit()`, the ends of the threads.
Hard: the main thread waits for the lock and for threads that wait for the lock or tell it to quit.
Correct if no thread is in Lua after it is closed, the mount is gone at the end, and the end comes.

**Command line** (`cli_*.c`).  The prompt, and the last 128 lines of output: a ring on the heap, written
to a file at the end of a run under another name first, and read again by the next run.
Correct if the file always has the newest lines of a run that ended, in order.

**Shell commands** (`builtin.lua`, `main.c`).  `sh()` and its object; a command tells its pid, output and exit status
by writing to files under `message/`, each of which is a channel of events.
Hard: several commands write and close theirs at a time.

**Supervisor** (`cfgfs_run.d`).  State: `firstRun`, `failureCnt`, `gameExited`, the mount, the link to the console log.
One thread runs cfgfs again and again, the other waits for it, runs the game and unmounts.
Hard: they share their variables; a crash may come at any point of the other's work.
Correct if it cleans up, and ends with the game.

**Strings** (`misc/string.c`).  State: where the text is, its length, the capacity, three flags.  Operations: append,
format, set, clear, remove a range, free.
Hard: a string may start in a caller's buffer and move to the heap when it grows, or not be allowed to.
Correct if the text and its null lie inside the memory and `free()` gets memory of the heap.

**Support code**: Lua wrappers of system calls, error printing, pipes.  The **tests** are one
script run in a mounted file system (`test/`).


## Modules

    CommandQueue <--refines-- BufferList  <--extends-- BufferListProofs
    Delivery                              <--extends-- DeliveryProofs     each with an MC...
    EventLoop                             <--extends-- EventLoopProofs    module and its .cfg
    Unmask                                <--extends-- UnmaskProofs       files for TLC
    Reloader                              <--extends-- ReloaderProofs
    Rcon                                  <--extends-- RconProofs
    Shell
    Str            \
    CmdStringify    |
    Scrollback      |
    ConsoleOutput    > <--extends-- PartsProofs
    Supervisor      |  <--extends-- MCParts: one run, one at a time
    Lifecycle       |
    Binds          /
    SeqFold  <--extends-- BufferList, Rcon, Scrollback, CmdStringify, SeqFoldProofs
    SeqFoldProofs  <--extends-- BufferListProofs, RconProofs, PartsProofs

The components meet in narrow places, and a module keeps of its neighbours what can be seen
there.  `Delivery` counts queued commands, whose identity is `BufferList`'s business, and one
coroutine in `wait()`, of which `EventLoop` has all.  `Reloader` has a reload as begin, fail,
script and end; what happens to the buffers between those is `LoadBegin` and `LoadEnd` of
`BufferList`.  `EventLoop!PassBegin` is the pass that `Delivery!DoTimeouts` makes.  `Lifecycle` has what the other
modules take as given: that the threads exist and the Lua state is open.  A thread in `Lifecycle` that has the lock
is in any of the calls they model; `Supervisor` has the whole program as a process that starts, serves and ends.
`ConsoleOutput` and `Shell` are the two kinds of writes of `cfgfs_write()`; the size `CmdStringify` computes is the
room that `BufferList!Cmd` reserves.

### SeqFold

What a sequence adds up to (bytes of a buffer, commands of a batch of messages, words of a line) is a fold, with
a step that is a function.  The folds of the community modules take operators, about which the provers can be told nothing:
an operator cannot be the parameter of a lemma they can use.

### CommandQueue, BufferList

`CommandQueue` is what the buffers promise: a queue of commands, a list of startup commands,
and the last chunk given to the game with the promise of more.

`BufferList` is the code.  A list is a record: the sequence of its buffers and the index of
`nonfull`; `first` and `last` are the ends of the sequence.  A buffer is its lines, its size
and `full`.  Sizes are numbers of bytes, with the line feed and the room kept for the closing
line; the contents of a line are a model value with a length.  Every assertion of
`buffer_list.c` is implied by `ListShape`.

| action | code |
|---|---|
| `ReadBegin`, `ReadEnd` | `cfgfs_read()` puts a fake buffer on an empty list, Lua writes, the first one is the reply |
| `CallBegin`, `CallEnd` | any other call into Lua under the lock |
| `Cfg`, `Cmd` | `_cfg()`, and `_cmd()`, which reserves the line and commits it |
| `CopyBegin`, `CopyOne` | `_init()`: the startup commands are copied behind the queue, a buffer at a time |
| `LoadBegin`, `LoadEnd` | `do_reload()` and `lua_init()`: reset both lists, run the script, swap |

A failed load leaves both lists empty; the abstract queue has `Forget` for it.

### Delivery

The steps of `do_click()` are actions (`ReadActive`, `ReadPending`, `TryClickLock`, `SendKey`,
`Unlock`), for every thread that may run it: writers (cli, rcon, reloader: all who release
the lock with a click), attention, click and fuse.  Time is what it takes for `pending_click` to become old
(`Age`) and for a timer to fire (`Expire`, `FireTimer`).  The game reads `click.cfg` when the
key arrives (`KeyPress`), in the steps the code has: `ClickReceived` (forget the click),
`DoTimeouts`, `ReadDone`; then `cfgfs/buffer` as long as it is told to (`ReadBuffer`).  Reads
may fail (`ReadTimeout`), keys get lost (`KeyLost`), the window changes under everybody
(`FocusChange`, `NoticeFocus`, `NotifyAttention`, `NotifyTimeout`).  `SetKeyLock` and
`SetKeyEnd` are the one place that holds the Lua lock and waits for the click lock.

`missed` is a history variable: it says that some click that was due came to nothing in one of
the ways the code accepts (the lock taken by someone who has pressed already, a lost key, a
Lua lock timeout), and is taken back when a click is sent.  Without it the code promises
nothing; with it the properties say that nothing *else* loses a wakeup.

### EventLoop

`stack` is the nesting of `coroutine.resume()`.  `status` tells what each coroutine is doing;
names of coroutines are reused when they are dead.  Scripts are the environment: whenever a
coroutine runs, it may do anything of the API, return or fail.  A pass over the timeouts is
`PassBegin`, `ResumeDue` as long as something is due and older than the pass, and `PassEnd`; it
is only made on the main thread.
`wait_for_event()` with a timeout starts a coroutine in `wait()` that wakes the first one with
nothing (`wakes`).  `Reset` is what a reload does to the tables.

### Unmask

A config the script wants to hear of is *masked*: cfgfs pretends to have it and answers the
game's read with `exec cfgfs/unmask_next/<name>; exec <name>`.  The game is the record `exec` and the
commands it still has to execute (`cmds`).  Each call into the file system is a sequence of
actions: the look at the list without the lock (`LookAtList`), the search under it
(`Lookup`, `NotListed`), the counting of `open()` calls, the read.  `SearchNull` is the search
of a list that was taken away between the two, which reads through `NULL`: the program is `dead`.
Another program reading configs (`ManualRead`) and reloads that set the list
(`NotifyListSet`) come at any time, but the code that uses the counters runs to its end: two such
pieces of code at the very same instant are a data race that is not modelled.

A read that gets no Lua lock in two seconds fails (`ReadFailed`), after the count of the `open()` calls was
reset: the script does not hear of that execution, and there is no reply.  Such an execution is `unread`.

`faults` counts what came in the middle of an execution, `wrong` the executions that did not come to what they
should.  An execution that was `unread` or for which the list changed in its middle (`torn`) could not, and is not counted;
nothing is allowed for because of the former, so `HarmBounded` says that it leaves no other execution wrong.

### Reloader

Files are `script.lua` and the modules.  `stale` are those that changed since Lua read them,
`broken` those that do not compile.  The descriptor is `fd`, its `watches` and whether
an `event` is waiting.  The main thread goes from loading the script to the exit (`main`), the
reloader around its loop (`thread`), and `runner` is who holds the Lua lock, which is what
`safe_to_call_these_from_lua()` looks at.  `require()` is `RequireBegin` and `RequireEnd`, so that
modules nest, fail, and change while they are loaded; `watched_modules`, `path_cache` and `cached`
are the tables of `builtin.lua`.  Lua marks a module as loaded after it has run, so modules that require each other,
or one that requires itself, are loaded again inside of themselves: `loads` is the stack of what is being
loaded, with what `require()` knew when it began, and the same file may be in it several times.  Such a file is fresh as of
its outermost loading, which ends last.

`slipped`, `timedOut` and `failed` are history variables for the ways in which a change may go
unnoticed.


### Rcon

The client is `rcon()` (`Rcon`: connect, wait for `_rcon_auth`, or send) and `_rcon_status()`; the reader thread is `pc`
with its actions `SendAuth`, `WaitAuth`, `ReportAuth`, `HandleReplies`, `ReadMore`, `ReportDisconnect`, and
`StatusLost` and `RepliesLost` where its calls get no Lua lock.  The connection is two queues of messages (`requests`,
`wire`); a read takes any number of them, and a part of the next (`part`).  What has been read is `response`, whose whole
messages are handled as one batch.  Replies are empty, whole lines or the beginning of one, which `partial` remembers.
The server (`ServeAuth`, `ServeCommand`, `Close`) is external and does what the protocol allows.  `early` and
`lost` are the excuses: a command sent before the answer about the password, and a call of the reader without the lock.

### Shell

The channels of several `sh()` commands.  `MessageData` and `MessageNil` are `_message()` as called from `cfgfs_write()` and
`cfgfs_release()`; between a write and the release of its file (`closing`) other commands write theirs.

### Str

`struct string` as a record whose `mem` is a function from offsets to characters, so that the null behind the
text and the memory nobody has written are facts about it.  `home` says where `data` points to.  A string begins in each of
the ways the program makes one: `New`, `FromStkBuf`, `Zeroed`.  Every allocation may fail.
`string_append_from_fmt()` comes to the same results as `string_append_from_buf()` (`Appended`) by formatting twice.
`wanted` is what the operations should have left.

### CmdStringify

A pure algorithm: `Stringify` is the writer, `OutSize` the function that says beforehand how long the line will be.  Both
go over the arguments and their characters, as the code does (`AddArgument`, `AddWord`; `AddSize`).  Characters are
their classes in `charflags`.  `Tokens`, external, is how the game splits a line, character by character (`ReadChar`).  Every state is an initial
one, an argument list and one of the modes (`say`, `echo` and the rest).

### Scrollback

`AddOutput` is the ring, `LoadScrollback` the start of a run, `FlushBegin` and `FlushEnd` the writing of the file and its renaming,
with `Killed` in any place and a disk that may be full (`run = "cut"`).

### ConsoleOutput

One variable of the game, and coroutines that read it.  `commands` is the queue towards the game, `writes` what it is about to
write to the log, each write being a line, a part of one, or an end of line: which events are fired depends on that.
`WriteLost` is a write whose call gets no lock.  Listeners may cancel an event (the second disjunct of `GameConsoleOutput`).

Time that is over resumes nobody by itself: `ev_do_timeouts()` is called by the game's read of `click.cfg` and from nowhere
else.  `ClickRead` is that read, which resumes all that are due; `ClickLost` is a click made for them that comes to
nothing, after which they are `late`: whatever they hear, or a read that somebody else's click causes, still
resumes them, but nothing makes one.

### Supervisor

`boss` is `runMain()`, `worker` the task that restarts cfgfs.  cfgfs is a process that mounts, crashes, is closed or is
unmounted.  Times are choices: how long a run took (`WorkerJudge`) is free.  Linking the console log is a step of the
task (`WorkerLink`), which an older link or none may precede.

Each thread may throw wherever it starts a program or changes a file.  The task catches that behind its two steps
of cleaning (`WorkerThrows`), so that mount and link stay; `main()` catches it where nothing is told to the
task (`BossThrows`).  `threw` is the history variable for the first, which `LeftClean` excuses with a first check
that throws, since there is no task then.

### Lifecycle

`at` is where `main()` is, `next` the thread it takes down, `thread` what each thread is doing.  `Lock` and `Release` are calls of Lua
by anyone, during which `main_quit()` may be called (`sigint`); `got_eof` is ^D at the prompt.

### Binds

One key.  The game (external) knows how it is bound, and executes what replies contain; `KeyRead` is a press or a
release with the read it causes, answered from the tables, `KeyLost` one without an answer, `OtherRead` any other read.  `coming` is
what was written outside of reads.  `Reload`, `ReloadFails` and `Restart` do to the tables, to `is_pressed` and to
the queue what the code does.  `out` says that a toggle may be the wrong way round, `stuck` that a release was cancelled, bound
anew or dropped.

### MCParts

The seven modules from `Str` to `Binds` share no state and are each small, so one run has all of them: the initial state chooses the
part, and the others rest.  Every behaviour of the run is one of one module.


## Runs

Every `pass` run has, per property, a mutated definition with which TLC finds the property
violated (`mutants` in `PROJECT.json`).

| run | question | states | bounds |
|---|---|---|---|
| `buffer_list` | do the linked buffers keep their shape and limits, and implement the queue? | 37 thousand | buffers of 9 bytes; with their line feeds the closing line has 3 and lines 2 or 4; 4 commands queued, 3 recorded |
| `delivery` | does an interleaving strand commands? | 697 thousand | 2 writers, 4 calls, queue of 2, one command per buffer |
| `delivery_live` | is everything delivered? | 70 thousand | 1 writer, 3 calls |
| `event_loop` | is a coroutine lost or woken twice? | 443 thousand | 4 coroutines, delays 0 and 1, 2 passes between reloads |
| `event_loop_live` | does a pass end? | 33 thousand | 3 coroutines, 1 pass |
| `event_loop_busy` | can the "should never get here" branch be reached? | violation | 4 coroutines |
| `unmask` | do the counters recover? does the game ever loop? | 449 thousand | 3 configs, 3 lists; 3 executions, 1 foreign read, 2 list changes |
| `reloader` | is a change of a file in use noticed, and one of the script read in the end? | 94 thousand | 1 module, 3 files being loaded, 2 messages in the pipe |
| `reloader_exit` | are watches added only where `reloader.c` says? | violation | the same |
| `rcon` | do sessions, replies and those who wait survive every order? | 76 thousand | 2 commands, 2 sessions |
| `parts` | the seven parts, one at a time (below) | 52 thousand | see below |
| `shell_end` | is the end of a channel told? | violation | 2 commands with one write each |

What they show:

- `buffer_list`: the assertions of `buffer_list.c` (`ListShape`), no overflow and room for the
  closing line (`Capacity`), sizes that are the bytes written (`SizeIsBytes`), emptiness that can be
  told from the first buffer (`EmptyOnlyInUse`), a reply that promises more exactly if there is more
  (`ChainUnbroken`), and the refinement of `CommandQueue` (`ImplementsQueue`).
- `delivery`: in a system where nobody is doing anything, with the window active, commands or an
  expired wait are only left if a click came to nothing (`NothingStranded`).
- `delivery_live`: the click lock is let go of (`ClickLockFreed`), and work that is left gets done
  unless a click came to nothing or the window went away (`WorkGetsDone`).
- `event_loop`: exactly those who wait are in the list, once (`WaitersListed`); exactly those who
  listen are listeners, and a timer that wakes somebody finds him asleep (`SleepersListed`); the
  loop's coroutine is always usable (`LoopCoUsable`).
- `event_loop_live`: what is resumed and waits again without delay does not keep the pass going
  (`PassEnds`).
- `unmask`: an interruption spoils one execution at most and is forgotten, and a read that found Lua busy spoils none but its own (`HarmBounded`);
  a reply is only lost to another program by an interruption (`RepliesKept`); executing a config ends (`ExecEnds`).
- `reloader`: a change of what is in use is pending, about to be read, or one of the exceptions
  listed in `ChangesNoticed`, each of which is needed; correcting a script that failed to load leads
  to a reload (`CorrectionNoticed`); where the file of a module is, is kept in every order of loads and failures (`TypeOK`).
  Nothing that is saved, requested or fails meanwhile keeps a change of the script from being read (`ChangeRead`).
- `rcon`: a session that is used is not freed, threads of two sessions do not overlap (`SessionsAlive`); with the right
  password authentication fails only for the listed reasons (`AuthFailsForAReason`); replies get to Lua once and in order
  (`RepliesAccounted`) and are printed while the reader waits (`TextPrinted`); who waits for the connection goes on (`WaitEnds`).
- `parts`:
  - `Str`: text and null inside the memory, nothing written behind it, `free()` of nothing but the heap (`StrShape`); the
    text that was asked for unless the string says it overflowed (`StrFaithful`).
  - `CmdStringify`: the size reserved is the size written (`SizeAgrees`); the game reads the words that were given (`WordsArrive`).
  - `Scrollback`: the file is replaced by the newest lines in order, or not at all, or by a prefix on a full disk (`NewestKept`).
  - `ConsoleOutput`: a variable read is not older than the request unless an older answer was on its way (`CvarFresh`); reading ends
    although answers are lost, as long as the window is active and the click for it is not lost (`CvarEnds`).
  - `Supervisor`: no mount and no link is left unless an exception ended the task or kept it from starting (`LeftClean`); it ends with
    the game unless the last unmounting failed (`EndsWithGame`).
  - `Lifecycle`: nobody is in a closed Lua state, no `SIGINT` kills, no mount is left (`ShutdownSafe`); ^D ends the program (`EofEnds`).
  - `Binds`: what a key turned on is off when it is up, and cfgfs knows which it is, except after the listed events (`KeyReleased`).

Why the bounds are enough:

- *Buffers.*  With 9 bytes, of which 3 close, a short and a long line or three short ones fill a buffer
  exactly, and two long ones do not fit; four long ones make four buffers, so a list has a first, a
  middle and a last one.  The state constraint `MCBound` cuts the
  queue, which has no bound in the code; `BufferListProofs` removes the bound.
- *Delivery.*  A lost wakeup takes one thread giving up and one that it relies on; two writers,
  attention, click and fuse are five candidates.  Calls are bounded (`MaxCalls`): a history
  of four things that users and windows do is enough to queue, lose, time out and queue again.  `DeliveryProofs` has
  `NothingStranded` for any number of writers and calls; the runs add the liveness.
- *Event loop.*  Four coroutines are a waiter, the loop's coroutine, one that resumes from inside of it
  and a timer that wakes one.  A generation counter of up to 2 has a pass inside of which waits are
  added and one after it.  There is one event: different events share nothing but the code.  `EventLoopProofs`
  has any number of coroutines.
- *Unmask.*  Both constants are 3, as in `main.c`.  Three executions are one that is disturbed, one
  that suffers and one that must not.  `UnmaskProofs` has any number of each, and any count that is more than one.
- *Reloader.*  A module and the script make one file that requires another and one that fails where the other works; with
  `MaxLoads` of 3 the module is also loaded inside of itself.  (Lua bounds the depth by its limit on C calls.)  `ReloaderProofs`
  has the invariants for any number of modules and any depth; the run adds the liveness.
- *Remote console.*  Two callers are one that connects and one that comes meanwhile; two sessions are one that is
  given up and its successor.  `RconProofs` has any number.
- *Parts.*  `MCParts.cfg` has them: texts of up to 3 characters in memory for 4, buffers of 1 to 3 (too small, exact and
  enough); 3 words of up to 2 characters and 3 in all, from one of each class, so that every pair of classes meets at a quote and at
  a space; a ring of 3 and 5 lines (it wraps in one run and over two); two who read a variable, an assignment and a line of noise; 2
  polls and 2 tries of the supervisor, with 4 crashes, more than it takes to give up; one child of the script; two commands for
  the key and two queued ones.  `PartsProofs` has all of them without bounds, except for the liveness.

`CHECK_DEADLOCK FALSE` stands where the system may stop: when the calls of a run are used up
(`delivery`, `unmask`, `rcon`, `shell_end`, `parts`), or the program has exited or crashed (`reloader`, `unmask`, `rcon`, `parts`).


## Fairness

- *Delivery.*  Threads run (`WF` of every step of `do_click()`), time passes (`Expire`, `FireTimer`),
  the poll of the active window happens (`NoticeFocus`), the X server delivers what it was sent or drops
  it, and the game reads what its input tells it to.  `SF` where a lock is contended (`SetKeyLock`,
  `NotifyAttention`, `ReadConfig`): the locks are pthread mutexes, whose waiters get them in
  the end.  Nothing that users, scripts or windows do is fair.
- *Event loop.*  The steps Lua takes by itself are taken; `SF` of `Finish` says that a
  coroutine that runs again and again comes to a wait, an end or an error: scripts do not loop for ever.
- *Unmask.*  The game goes on with what it executes.
- *Reloader.*  The reloader thread runs, a module that is being loaded ends although it may require others again and
  again (`SF` of `RequireEnd` for each depth), and scripts end although they may (`SF` of `ReloadScript`, `ReloadEnd`).  The Lua lock is
  not assumed to become free: `ReloadDropped` is always possible.

- *Rcon.*  The reader thread runs and the server answers what it has received; nobody else is fair: connections may or may not break.
- *ConsoleOutput.*  Time passes, and a click that is due while the window is active is made; the game reads `click.cfg` then, or the
  click is lost.  That such a click is made is what `WorkGetsDone` of `Delivery` says.  Nothing is assumed while the window is
  inactive, and the game need not execute or print anything.
- *Supervisor.*  Both threads run, though either may throw instead, and a cfgfs that was started comes to serve or to end, one that is told to end does.  The game need not end.
- *Lifecycle.*  `main()` and the threads run, calls of Lua end, and so do the children of the script.  `SF` for what needs the
  Lua lock or is only possible between two calls of Lua (`LuaDeinit`, `ThreadExit`).


## Proofs

TLAPS proves for all values of the constants that meet the named assumptions:

| module | theorem | about |
|---|---|---|
| `BufferListProofs` | `SpecTypeOK`, `SpecListShape`, `SpecCapacity`, `SpecEmptyOnlyInUse`, `SpecSizeIsBytes` | the invariants of `buffer_list` |
| | `SpecChainUnbroken` | the action property, from the same invariant |
| | `SpecImplementsQueue` | the refinement of `CommandQueue` |
| `DeliveryProofs` | `TypeCorrect`, `NothingStrandedTheorem` | the invariants of `delivery` |
| | `OneUsesDisplayTheorem`, `NoLockCycleTheorem` | one thread at a time uses the display; whoever holds the click lock waits for neither lock, so the nesting of the two cannot deadlock |
| `EventLoopProofs` | `TypeCorrect`, `WaitersListedTheorem`, `SleepersListedTheorem`, `LoopCoUsableTheorem` | the invariants of `event_loop` |
| `UnmaskProofs` | `HarmBoundedTheorem`, `RepliesKeptTheorem` | the invariants of `unmask` |
| `ReloaderProofs` | `SpecTypeOK`, `SpecChangesNoticed`, `SpecCorrectionNoticed` | the safety properties of `reloader` |
| `RconProofs` | `SessionsAliveTheorem`, `AuthFailsForAReasonTheorem`, `RepliesAccountedTheorem`, `TextPrintedTheorem` | the safety properties of `rcon` |
| `PartsProofs` | `StrSpecShape`, `StrFaithfulTheorem` | `Str`: memory and text |
| | `SizeAgreesTheorem`, `WordsArriveTheorem` | `CmdStringify`, for any arguments |
| | `NewestKeptTheorem` | `Scrollback`, an action property |
| | `CvarFreshTheorem` | `ConsoleOutput` |
| | `LeftCleanTheorem`, `OneCfgfsAtATime` | `Supervisor`; the second: a cfgfs is only started when the one before has ended |
| | `ShutdownSafeTheorem` | `Lifecycle` |
| | `KeyReleasedTheorem` | `Binds` |
| `SeqFoldProofs` | `FoldConcat` and the lemmas around it | what folds over sequences add up to |

So every invariant and action property of the runs that pass is a theorem.  None is inductive alone; what each needs:

**Folds.** The library's induction theorems take the statement as an operator, which the provers cannot
instantiate. What can be cited is that a well-founded relation has a minimal element in every set: `NatSet`
takes that of the set of numbers for which something fails, and so is induction for a *set* of numbers. From
it come, once, the facts about `Fold`: it exists, the next element is one more step (`FoldAppend`), what steps
keep the result has (`FoldInvariant`), it goes through a concatenation (`FoldThrough`), and so does a
homomorphism (`FoldConcat`).

**Buffers.** Assumed is what `buffer_list.c` asserts statically: the longest line and the closing line fit a
buffer (`SizesAssumption`). None of the properties is inductive alone: the end of the chain needs that full
buffers, and no others, end with the closing line (`Closed`), sizes that they are the sum of the lines
(`Counted`), a read needs its buffer to be there when it ends, and a copy one to read from and one to write
to. `Inductive` joins the properties (`Sound` is those of one list) with what `holder` and `copying` say about
the lists. There is one lemma per operation on lists (`GetNonfullProperties`, `ReserveProperties`,
`GrabFirstProperties`, ...), which gives what the operation keeps of any sound list, and the actions follow
from them.

For the refinement, the commands of a list are those of its buffers in order, and each operation has a second
lemma that says what it does to them: to write a line appends one command, to close a buffer or begin one
appends none, to grab the first one takes its commands off the front. A step of a copy is a stutter but for
the commands that move, which needs `CopyReady`: the buffer copied into is still unused.

**Delivery.** Assumed is that the threads of the program have different names and that a buffer and the queue hold something.
`NothingStranded` is about states in which nobody does anything; the invariant says it of all states. What
waits is *covered*: by a key press that will make the game read (`OnTheWay`), by a thread that has yet to
decide whether to press it (`Trying`), for a wait also by its timer, or by the read that is going on
(`TimeoutsCovered`, `CommandsCovered`). A thread may only give up because of a recent click if that one is
real (`FreshClickTrue`), or because the lock is taken if its holder will press the key: `LockInv` reads off
the program counters who holds which lock.

**Event loop.** Assumed is that the names of the main stack and of functions are no coroutines. A coroutine
can be in three places, and `StackInv`, `TimeoutsInv` and `ListenersInv` say of each that exactly those with a
certain status are there, once. `TimersInv` is about the coroutines that wake others: they wait, the other
sleeps and has no other timer, and scripts have no hold of it, so that nothing but its time or the event can
end it. `AppendOnce`, `RemoveAtOnce` and their like are about sequences without repetitions.

**Unmask.** Assumed is, apart from names, what `main.c` says of the counters (`CountsAssumption`): they are
the same and more than one. `HarmBounded` counts executions that went wrong, so the invariant has to say when
the next one will not: as soon as each interruption has done its harm, everything is `OnTrack`, and an
execution is in one of the stages `Opening`, `Told`, `Unmasked` and `Over`, each with the counters as they
must be (`HarmDone`), or, after a read that failed, in `Unread`, which leaves them as `Over` does; before that, another wrong
execution is allowed for. `UsedUp` is why the harm ends:
executing a config that the game has uses the unmasking up, whatever comes in between.

**Reloader.** Assumed is that `script.lua` is not a module and that the pipe holds a message. `ChangesNoticed`
speaks of pending events, but a save raises an event only if the file is watched: `Covered` says that what is
in use *is* watched (or is `script.lua` in its first run, or has one of the excuses), and `OnRecord` that a
change of what is in use or *being loaded* is on record, so that it still is when the loading ends and the
file gets its watch. That holds because of `Phases` (who runs when, and that a message is never the one to
leave before the main thread is at its end), `Descriptor` (an open descriptor watches the script, a closed one
nothing) and `Caches` (while the script itself runs, no module is marked as loaded outside of a reload: such a
mark, which is an excuse, may be overwritten). `NextInductive` has one case per action, and those that disturb
more than a flag have a lemma. The files being loaded are a stack, about which `PushProperties` and
`PopProperties` say what is needed.

**Remote console.** Assumed is that callers are told from the program's own requests (`RconAssumption`).
`RepliesAccounted` is about what was answered and what was printed; replies in between are in the connection
or in the buffer, and the invariant adds those up (a fold, through `CommandsProperties`) whatever part of them
a read takes. `AuthFailsForAReason` needs to know what can be on its way while the password is checked
(`Handshake`), and that nothing is answered before unless a command was sent before (`Unanswered`).

**Strings.** Assumed is only that texts are sequences of the characters and that buffers are not empty; the
bound on lengths is any number. `StrShape` is inductive: `PutProperties` says what a copy with its null
changes and what it leaves, `WrittenShaped` that what fits keeps the shape, and each operation has a lemma
that leads to it (`GrownShaped` needs of the memory it moves to that nothing was written behind the new text;
`CutShaped` that the cut text fits exactly). With the shape, `StrFaithful` is: each operation has a second
lemma for what the text then is (`AppendedText`, `RemovedText`, ...).

**Commands.** `OutSize` and `Stringify` are folds over the same arguments. After k of them the line has the
length computed so far, and its last character tells whether word k was quoted, on which the space before the
next one depends (`LineGrows`). For the game's side `WordRead` says what `Tokens` makes of one word as it was
written, from the state it is in after a space, and `WordsRead` of k of them; it holds because no character of
a word that is written without quotes ends it, and the quotes of the others were replaced. `echo` writes its
text in quotes as a whole (`EchoArrives`).

**Scrollback.** `HoldsLines` says which of the lines written is in which place of the ring, counted from the
next one: `LineAdded` keeps it, and `RingInOrder` reads the newest lines off it, oldest first.

**Console output.** Assumed is that finitely many read the variable. `AssignmentsInOrder` says that the
assignments queued for the game come in order, `Executed` that the one made before a request is executed
before it, and `AnswersFresh` that the answers on their way are new enough for each who was alone when he
asked.

**Supervisor, lifecycle, binds.** `SuperInv` and `LifeInv` say where the other thread can be when one is at a
certain point: unless it threw, the task is over only when cfgfs is and cannot be started again, and neither thread
gets past the first check while the mount is another supervisor's; Lua is closed by the main
thread under the lock, when nobody is in it. `BindInv` says that a command that stays on is bound together
with the one that takes it back (`BindsPaired`), that cfgfs takes the key for pressed exactly when it is down
and the game tells it of the release (`KeyTracked`), and that what is on is taken back by that release or by a
command on its way (`HeldTracked`).

Only model-checked are the liveness properties, since TLAPS has no rules for fairness and `ENABLED`:
`ClickLockFreed`, `WorkGetsDone`, `PassEnds`, `ExecEnds`, `ChangeRead`, `WaitEnds`, `CvarEnds`, `EndsWithGame`
and `EofEnds`. The three disagreements below are counterexamples, of which there is nothing to prove. That the
modules are what the code does is a matter of reading both.


## Disagreements found

1. `builtin.lua:271` says of a branch of `ev_handle_return()`: "some kind of a programmer error.
   ev_loop_fn uses pcall so we should never get here".  `event_loop_busy` gets there:
   `ev_call()` (`builtin.lua:281`) takes any coroutine but the running one to be free, so a coroutine that is
   resumed from inside the loop's coroutine (by `cancel_wait()` or `fire_event()`) and calls a function of its
   own (`spinoff()`, a function listener, `wait_for_event()` with a timeout) makes it resume the loop's
   coroutine, which is busy below.  The resume fails and the caller gets an error.
2. `src/reloader.c:48` says that watches are changed only by the main thread before the reloader runs,
   and by the reloader.  `reloader_exit` has a third case: at exit `lua_deinit()` (`src/main.c:1093`)
   runs the `unload` listeners before `reloader_deinit()`, under a lock it takes without setting the
   holder's name; no name is taken for the main thread at startup, so a listener that requires a module adds
   a watch while the reloader polls the descriptor.

3. `builtin.lua:1575` says of `_message()` that it leaves out the `nil` of a channel "if nothing was written".  `shell_end` has a
   channel that was written to and whose end is not told: `last_data` (`builtin.lua:1577`) is one variable for all channels, and the
   end of another one resets it.  `sh()`, or a read of its output, then waits for ever.

Matters without a statement to disagree with, which the modules have as they are:

- `src/main.c:221` looks whether there is a notify list without its lock and uses it with the lock, so a reload in between
  makes it search `NULL` (`Unmask!SearchNull`).
- A restart of cfgfs between the supervisor's last tries to unmount leaves cfgfs running without a game (`lastTry` in
  `EndsWithGame`), and `failureCnt` counts failures that are not in a row, since only a long run resets it.
- When the game or `xterm` cannot be started, the supervisor's threads do not tell each other: `gameExited` is not set, so cfgfs runs on
  without a game, or mount and link are left (`BossThrows`, `WorkerThrows`).
- A program that finds no script leaves its mount behind (`no script` in `Lifecycle`).
- `lua_close()` waits for the shell commands of the script (`children` in `Lifecycle`).
- `wait()` of an object of `sh()` does not know that the command is over, as the exit status is assigned to a local
  variable of the same name (`Shell!Wait`).
- The reader of a remote console polls a closed connection for ever if it waits for the answer about its password with one message read
  (`Rcon!Spinning`).
- Without `alias`, `bind(key, '+cmd')` without a release command is told the press only (`Binds!BindCommands`), as the `-cmd` is
  added after the kind of bind is chosen: the game turns the command on and off in one reply.
- Keys released by command while one is down turn its toggle around (`out` in `Binds`).


## What is not modelled

- *Data races as such.*  Steps of different threads interleave at the granularity of the
  shared variables; torn reads and reordering by the compiler are left out.
- *Failing system calls*: `malloc()`, pipes and `inotify_add_watch()`, as the code aborts or goes on with
  an error message.
- *Editors that replace a file by renaming another*: Linux then drops the watch, and `reloader.c`
  relies on the events that precede it; `Save` is a write to the file.
- *The other systems*: `click_win32.c`, `click_thread_pthread.c` and `reloader_kqueue.c` are not part of
  the Linux build.
- *`EventLoop`*: error and return handlers (`ev_error_handlers`, `ev_return_handlers`),
  `cancel_event()`, several events, more than one function listener.
- *Wording and layout* of configs, logs and prompts; readline; Lua itself.
- *Wrappers*: the Lua library functions (`lua/builtins.c`), error printing and pipe helpers, which keep no state.
- *How console output is cut into lines* (`linereader()`), directory listings and attributes of files.
- *`Binds`*: functions as binds, which are whatever the script does, and several keys in one queue.
- *`Rcon`*: packets whose length does not match their text; running out of memory.
- *`Supervisor`*: finding the game and the other systems.
- *The script while it runs for the first time*: `src/lua/init.c:109` runs it without the lock, and `rcon()` at its top level starts a thread
  that may call Lua at the same time; this is a data race as such.


## Plan

Done, in this order: 1 `BufferList` with `CommandQueue` and its proofs, 2 `Delivery`, 3 `EventLoop`, 4 `Unmask`, 5 `Reloader` and
its proofs, 6 `Rcon`, 7 `CmdStringify`, 8 `ConsoleOutput`, 9 `Str` and its proofs, 10 `Supervisor`, 11 `Scrollback`, 12 `Lifecycle`,
13 `Shell`, 14 `Binds`.

And the proofs: 15 `BufferListProofs`, with the refinement, 16 `ReloaderProofs`, 17 `DeliveryProofs`, 18 `EventLoopProofs`,
19 `UnmaskProofs`, 20 `RconProofs`, 21 `PartsProofs`, on the lemmas of `SeqFoldProofs`.

Next, proofs:

- Action properties that the invariants above are close to: that an event wakes each listener at most once (`EventLoop`),
  that a batch of replies leaves nothing of itself in `response` (`Rcon`), that only the holder of the click lock changes
  the key (`Delivery`).
- `Shell`: what its one channel does when the others are silent.
- A wakeup protocol (work, a key press, a read) that `Delivery` implements while no click is missed, as a refinement:
  `CommandsCovered` and `TimeoutsCovered` are its step simulation.

And models: error and return handlers complete `EventLoop`; `linereader()` completes `ConsoleOutput`, with a line stream as its
abstract specification.
