----------------------------- MODULE Supervisor -----------------------------
(***************************************************************************)
(* cfgfs_run.d: one thread runs cfgfs again and again, the main thread     *)
(* waits until it serves files, runs the game and unmounts the file system *)
(* afterwards, which is what ends cfgfs.  cfgfs may crash, be slow or be   *)
(* closed, and programs may have files of it open, which keeps fusermount  *)
(* from unmounting it.  An exception, say because a program it needs does  *)
(* not start, ends either thread where it is.                              *)
(***************************************************************************)
EXTENDS Naturals

CONSTANTS Polls,    \* how often the main thread looks whether cfgfs is ready
          Tries,    \* how often it tries to unmount it
          MaxRuns   \* bound: crashes of cfgfs

ASSUME SupervisorAssumption == Polls \in Nat \ {0} /\ Tries \in Nat \ {0} /\ MaxRuns \in Nat

VARIABLES
    boss, left,     \* runMain() and how many polls or tries it has left
    worker,         \* the task: "none", "link", "loop", "run", "sleep", "final", "done"
    firstRun, failureCnt, gameExited,
    cfgfs,          \* the process: "none", "starting", "serving", "ending"
    mount,          \* "none", "live", "dead", or "other": of another supervisor
    inUse,          \* whether a file of the mount is open
    linked,         \* whether console.log is a link into it
    crashes,
    lastTry,        \* history: what kept the last try from unmounting
    threw           \* history: an exception ended the task, or kept it from starting

superVars == <<boss, left, worker, firstRun, failureCnt, gameExited, cfgfs, mount, inUse,
               linked, crashes, lastTry, threw>>
processVars == <<cfgfs, mount, inUse, crashes>>
taskVars == <<firstRun, failureCnt, linked>>

SupervisorInit ==
    /\ boss = "start" /\ left = Polls /\ worker = "none"
    /\ firstRun = TRUE /\ failureCnt = 0 /\ gameExited = FALSE
    /\ cfgfs = "none" /\ mount \in {"none", "dead", "other"} /\ inUse \in BOOLEAN
    /\ mount = "none" => ~inUse
    /\ linked \in BOOLEAN /\ crashes = 0 /\ lastTry = "none yet" /\ threw = FALSE

-----------------------------------------------------------------------------
(* checkMountBeforeRun(): what a crash has left can be unmounted even when *)
(* it is in use; it is called when no cfgfs of this supervisor is running. *)
CheckMount == mount' = "none" /\ inUse' = FALSE

(* The first check, before anything else *)
BossStart ==
    /\ boss = "start"
    /\ IF mount = "other" /\ inUse
       THEN boss' = "done" /\ worker' = "done" /\ UNCHANGED <<mount, inUse>>
       ELSE boss' = "poll" /\ worker' = "link" /\ CheckMount
    /\ UNCHANGED <<left, taskVars, gameExited, cfgfs, crashes, lastTry, threw>>

(* main() catches what runMain() throws: when the mount cannot be checked  *)
(* or its directory not be made, or when isCfgfsReady(), the game or       *)
(* fusermount does not start.  The task, if there is one, goes on.         *)
BossThrows ==
    /\ boss # "done" /\ boss' = "done"
    /\ IF boss = "start"
       THEN /\ worker' = "done" /\ threw' = TRUE
            /\ UNCHANGED <<mount, inUse>> \/ (CheckMount /\ ~(mount = "other" /\ inUse))
       ELSE UNCHANGED <<worker, threw, mount, inUse>>
    /\ lastTry' = IF boss = "unmount" THEN "threw" ELSE lastTry
    /\ UNCHANGED <<left, taskVars, gameExited, cfgfs, crashes>>

-----------------------------------------------------------------------------
(* Mutant of LoopGoesOn: as long as it did not fail. *)
LoopGoesOnAlways == failureCnt < 3

LoopGoesOn == ~gameExited

(* The task's beginning, ... *)
WorkerLink ==
    /\ worker = "link"
    /\ linked' = TRUE /\ worker' = "loop"
    /\ UNCHANGED <<boss, left, firstRun, failureCnt, gameExited, processVars, lastTry, threw>>

(* ... its loop, ...                                                       *)
WorkerRun ==
    /\ worker = "loop" /\ LoopGoesOn
    /\ IF firstRun THEN UNCHANGED <<mount, inUse>> ELSE CheckMount
    /\ cfgfs' = "starting" /\ worker' = "run"
    /\ UNCHANGED <<boss, left, taskVars, gameExited, crashes, lastTry, threw>>

WorkerStop ==
    /\ worker = "loop" /\ ~LoopGoesOn
    /\ worker' = "final"
    /\ UNCHANGED <<boss, left, taskVars, gameExited, processVars, lastTry, threw>>

(* How long the run took decides what it was. *)
Failures(length) ==
    CASE length = "short"  -> failureCnt + 1    \* up to 1000 ms
      [] length = "middle" -> failureCnt
      [] length = "long"   -> 0                 \* more than 5000 ms

WorkerJudge(length) ==
    /\ worker = "run" /\ cfgfs = "none"
    /\ failureCnt' = Failures(length)
    /\ worker' = IF failureCnt' >= 3 \/ gameExited THEN "final" ELSE "sleep"
    /\ UNCHANGED <<boss, left, firstRun, gameExited, linked, processVars, lastTry, threw>>

WorkerSleep ==
    /\ worker = "sleep"
    /\ worker' = "loop" /\ firstRun' = FALSE
    /\ UNCHANGED <<boss, left, failureCnt, gameExited, linked, processVars, lastTry, threw>>

(* Mutant of CleanUp: what a crash left is left. *)
CleanUpLink == linked' = FALSE /\ UNCHANGED <<mount, inUse>>

CleanUp == linked' = FALSE /\ CheckMount

(* ... and its end, ...                                                    *)
WorkerFinal ==
    /\ worker = "final"
    /\ CleanUp
    /\ worker' = "done"
    /\ UNCHANGED <<boss, left, firstRun, failureCnt, gameExited, cfgfs, crashes, lastTry, threw>>

(* ... or an exception: in linkConsoleLog() before or after it removes an  *)
(* old link, in checkMountBeforeRun(), where xterm is to be started, or in *)
(* unlinkConsoleLog().  Nothing is cleaned up after it is caught.          *)
WorkerThrows ==
    /\ \/ worker = "link" /\ linked' \in {linked, FALSE} /\ UNCHANGED <<mount, inUse>>
       \/ /\ worker = "loop" /\ LoopGoesOn
          /\ UNCHANGED <<mount, inUse>> \/ (~firstRun /\ CheckMount)
          /\ UNCHANGED linked
       \/ worker = "final" /\ (UNCHANGED <<mount, inUse>> \/ CheckMount) /\ UNCHANGED linked
    /\ worker' = "done" /\ threw' = TRUE
    /\ UNCHANGED <<boss, left, firstRun, failureCnt, gameExited, cfgfs, crashes, lastTry>>

-----------------------------------------------------------------------------
(* The main thread waits for cfgfs, ...                                    *)
Poll ==
    /\ boss = "poll"
    /\ IF worker = "done" THEN boss' = "done" /\ UNCHANGED <<left, gameExited, lastTry>>
       ELSE \/ cfgfs = "serving" /\ boss' = "play" /\ UNCHANGED <<left, gameExited, lastTry>>
            \/ left > 1 /\ left' = left - 1 /\ UNCHANGED <<boss, gameExited, lastTry>>
            \/ left = 1 /\ boss' = "unmount" /\ gameExited' = TRUE /\ left' = Tries
               /\ UNCHANGED lastTry
    /\ UNCHANGED <<worker, taskVars, processVars, threw>>

(* ... runs the game, ...                                                  *)
GameEnds ==
    /\ boss = "play"
    /\ boss' = "unmount" /\ gameExited' = TRUE /\ left' = Tries
    /\ UNCHANGED <<worker, taskVars, processVars, lastTry, threw>>

(* ... and unmounts, which cfgfs notices.                                  *)
Unmount ==
    /\ boss = "unmount"
    /\ IF mount # "none" /\ ~inUse
       THEN /\ mount' = "none" /\ boss' = "done" /\ lastTry' = "worked"
            /\ cfgfs' = IF cfgfs = "serving" THEN "ending" ELSE cfgfs
            /\ UNCHANGED left
       ELSE /\ left' = left - 1 /\ boss' = IF left = 1 THEN "done" ELSE "unmount"
            /\ lastTry' = CASE mount # "none"      -> "in use"
                             [] cfgfs = "starting" -> "too early"
                             [] OTHER              -> "not running"
            /\ UNCHANGED <<mount, cfgfs>>
    /\ UNCHANGED <<worker, taskVars, gameExited, inUse, crashes, threw>>

-----------------------------------------------------------------------------
(* cfgfs (main.c as seen from here) *)
Mounts ==
    /\ cfgfs = "starting"
    /\ IF mount = "none" THEN cfgfs' = "serving" /\ mount' = "live"
       ELSE cfgfs' = "none" /\ UNCHANGED mount
    /\ UNCHANGED <<boss, left, worker, taskVars, gameExited, inUse, crashes, lastTry, threw>>

Crash ==
    /\ cfgfs \in {"starting", "serving"} /\ crashes < MaxRuns
    /\ cfgfs' = "none" /\ crashes' = crashes + 1
    /\ mount' = IF mount = "live" THEN "dead" ELSE mount
    /\ UNCHANGED <<boss, left, worker, taskVars, gameExited, inUse, lastTry, threw>>

(* It is told to quit, or has been unmounted.                              *)
Quit ==
    /\ cfgfs = "serving" /\ crashes < MaxRuns
    /\ cfgfs' = "none" /\ crashes' = crashes + 1 /\ mount' = "none" /\ inUse' = FALSE
    /\ UNCHANGED <<boss, left, worker, taskVars, gameExited, lastTry, threw>>

Ends ==
    /\ cfgfs = "ending"
    /\ cfgfs' = "none"
    /\ UNCHANGED <<boss, left, worker, taskVars, gameExited, mount, inUse, crashes, lastTry, threw>>

(* Programs open and close files of the mount.                             *)
UseFile ==
    /\ inUse \/ mount = "live"
    /\ inUse' = ~inUse
    /\ UNCHANGED <<boss, left, worker, taskVars, gameExited, cfgfs, mount, crashes, lastTry, threw>>

SupervisorNext ==
    \/ BossStart \/ Poll \/ GameEnds \/ Unmount \/ BossThrows \/ WorkerThrows
    \/ WorkerLink \/ WorkerRun \/ WorkerStop \/ WorkerSleep \/ WorkerFinal
    \/ \E length \in {"short", "middle", "long"} : WorkerJudge(length)
    \/ Mounts \/ Crash \/ Quit \/ Ends \/ UseFile

Worker ==
    \/ WorkerLink \/ WorkerRun \/ WorkerStop \/ WorkerSleep \/ WorkerFinal
    \/ \E length \in {"short", "middle", "long"} : WorkerJudge(length)

SupervisorSpec == SupervisorInit /\ [][SupervisorNext]_superVars

(* Both threads go on, and cfgfs starts and ends.  The game need not end.  *)
SupervisorFairness ==
    /\ WF_superVars(Poll) /\ WF_superVars(Unmount) /\ WF_superVars(Worker)
    /\ WF_superVars(Mounts) /\ WF_superVars(Ends)

-----------------------------------------------------------------------------
(* However often cfgfs crashed, at the end its mount is gone and           *)
(* console.log is no link into it any more, unless an exception ended the  *)
(* task or kept it from starting.  If another supervisor's cfgfs is in     *)
(* use, that and its link stay (runMain()).                                *)
LeftClean ==
    boss = "done" /\ worker = "done" /\ ~threw =>
        mount \in {"none", "other"} /\ (linked => mount = "other")

(* When the game has ended the supervisor ends, unless the last try to     *)
(* unmount failed because a program had a file open, because cfgfs was     *)
(* just being restarted or because fusermount did not start: then it runs  *)
(* on without a game (runMain()).                                          *)
EndsWithGame ==
    gameExited ~> (boss = "done" /\ (lastTry \in {"in use", "too early", "threw"}
                                      \/ worker = "done"))
=============================================================================
