--------------------------- MODULE ReloaderProofs ---------------------------
(***************************************************************************)
(* Proofs about the reloader, for every set of modules and every bound on  *)
(* the files being loaded and the messages in its pipe.                    *)
(***************************************************************************)
EXTENDS Reloader, SequenceTheorems, TLAPS

(* What the program counters of the two threads say of each other, of the  *)
(* descriptor and of require().                                            *)
Phases ==
    /\ main \in {"load", "script"} => thread = "none" /\ runner = "main" /\ ~failed
    /\ Loading(Script) => main = "script"
    /\ main = "load" => loads = <<>> /\ watched_modules = [m \in Modules |-> "nil"]
    /\ main = "running" => thread # "none" /\ runner # "main"
    /\ thread = "gone" => main \in {"join", "done"}
    /\ thread \in {"unload", "script"} <=> runner = "reloader"
    /\ runner = "reloader" => main = "running"
    /\ runner = "none" => loads = <<>>
    /\ main \in {"load", "script", "running", "unload", "closed"} =>
          \A i \in 1 .. Len(msgpipe) : msgpipe[i] = "reload"

Descriptor ==
    /\ fd => Script \in watches
    /\ ~fd => watches = {} /\ ~event

Caches ==
    /\ \A m \in cached : watched_modules[m] # "nil"
    /\ \A l \in Range(loads) : l.watched => l.file # Script /\ watched_modules[l.file] # "nil"
    /\ thread = "script" \/ main = "script" => \A m \in Modules : watched_modules[m] # "false"

(* Script.lua and the modules are in use from their first run on. *)
Live == main \in {"script", "running"}

Excused(f) ==
    \/ Underway(f)
    \/ f \in Modules /\ watched_modules[f] = "false"
    \/ timedOut
    \/ f # Script /\ failed

(* Whatever is in use is watched, or being loaded for the first time. *)
Covered ==
    \A f \in Files :
        InUse(f) => f \in watches \/ (f = Script /\ Loading(f)) \/ Excused(f)

(* A change of what is in use or being loaded is on record. *)
OnRecord ==
    \A f \in Files :
        (InUse(f) \/ Loading(f)) /\ f \in stale =>
            event \/ f \in slipped \/ Excused(f)

Inductive ==
    /\ TypeOK
    /\ Phases /\ Descriptor /\ Caches
    /\ Live => Covered /\ OnRecord
    /\ CorrectionNoticed
-----------------------------------------------------------------------------
(* Sequences of what is being loaded *)

(* What is pushed is in the sequence, and nothing else is new. *)
LEMMA PushProperties ==
    ASSUME NEW S, NEW s \in Seq(S), NEW e \in S
    PROVE  Append(s, e) \in Seq(S) /\ Range(Append(s, e)) = Range(s) \cup {e}
<1> DEFINE t == Append(s, e)
<1>1. /\ t \in Seq(S) /\ Len(t) = Len(s) + 1
      /\ t[Len(s) + 1] = e
      /\ \A i \in 1 .. Len(s) : t[i] = s[i]
  BY AppendProperties
<1>2. DOMAIN s = 1 .. Len(s) /\ DOMAIN t = 1 .. Len(s) + 1 /\ Len(s) \in Nat
  BY <1>1
<1>3. ASSUME NEW x PROVE x \in Range(t) <=> x \in Range(s) \cup {e}
  <2>1. CASE x \in Range(t)
    BY <1>1, <1>2, <2>1 DEF Range
  <2>2. CASE x \in Range(s)
    BY <1>1, <1>2, <2>2 DEF Range
  <2>3. CASE x = e
    BY <1>1, <1>2, <2>3 DEF Range
  <2> QED
    BY <2>1, <2>2, <2>3
<1> QED
  BY <1>1, <1>3

(* The rest of what is popped is in the sequence still. *)
LEMMA PopProperties ==
    ASSUME NEW S, NEW s \in Seq(S), s # <<>>
    PROVE  /\ Front(s) \in Seq(S) /\ Last(s) \in S /\ Last(s) \in Range(s)
           /\ Range(Front(s)) \subseteq Range(s)
           /\ Range(s) \subseteq Range(Front(s)) \cup {Last(s)}
<1> DEFINE t == Front(s)
<1>1. Len(s) \in Nat /\ Len(s) >= 1 /\ DOMAIN s = 1 .. Len(s)
  BY EmptySeq
<1>2. /\ t \in Seq(S) /\ Len(t) = Len(s) - 1
      /\ \A i \in 1 .. Len(s) - 1 : t[i] = s[i]
      /\ DOMAIN t = 1 .. Len(s) - 1
  BY <1>1 DEF Front
<1>3. Last(s) = s[Len(s)] /\ Last(s) \in S /\ Last(s) \in Range(s)
  BY <1>1 DEF Last, Range
<1>4. Range(t) \subseteq Range(s)
  BY <1>1, <1>2 DEF Range
<1>5. ASSUME NEW x \in Range(s), x # Last(s) PROVE x \in Range(t)
  <2>1. PICK i \in 1 .. Len(s) : x = s[i]
    BY <1>1 DEF Range
  <2>2. i \in 1 .. Len(s) - 1
    BY <1>1, <1>3, <1>5, <2>1
  <2> QED
    BY <1>2, <2>1, <2>2 DEF Range
<1> QED
  BY <1>2, <1>3, <1>4, <1>5

ScriptLoad == [file |-> Script, watched |-> FALSE, compiles |-> TRUE]

(* What is loaded at the start: nothing, then one file. *)
LEMMA ShortProperties ==
    /\ <<>> \in Seq(Load) /\ Range(<<>>) = {}
    /\ <<ScriptLoad>> \in Seq(Load) /\ Range(<<ScriptLoad>>) = {ScriptLoad}
    /\ <<ScriptLoad>> # <<>>
    /\ ScriptLoad.file = Script /\ ScriptLoad.watched = FALSE
<1>1. <<>> \in Seq(Load) /\ DOMAIN <<>> = {}
  OBVIOUS
<1>2. ScriptLoad \in Load /\ ScriptLoad.file = Script /\ ScriptLoad.watched = FALSE
  BY DEF Load, Files, ScriptLoad
<1>3. /\ <<ScriptLoad>> \in Seq(Load) /\ DOMAIN <<ScriptLoad>> = {1} /\ <<ScriptLoad>> # <<>>
      /\ <<ScriptLoad>>[1] = ScriptLoad
  BY <1>2
<1>4. Range(<<>>) = {} /\ Range(<<ScriptLoad>>) = {ScriptLoad}
  BY <1>1, <1>3 DEF Range
<1> QED
  BY <1>1, <1>2, <1>3, <1>4

LEMMA NothingLoading == loads = <<>> => \A x : ~Loading(x)
  BY ShortProperties DEF Loading

-----------------------------------------------------------------------------
(* Nothing is in use, watched or being loaded when the program starts. *)
LEMMA InitInductive == Init => Inductive
<1> SUFFICES ASSUME Init PROVE Inductive
  OBVIOUS
<1> USE ReloaderAssumption, ShortProperties, NothingLoading DEF Init
<1>0. /\ fd \in BOOLEAN /\ event \in BOOLEAN
      /\ timedOut \in BOOLEAN /\ failed \in BOOLEAN /\ raced \in BOOLEAN
  BY Zenon
<1>1. TypeOK
  BY <1>0 DEF TypeOK, Files
<1>2. Phases
  BY DEF Phases
<1>3. Descriptor /\ Caches
  BY DEF Descriptor, Caches
<1>4. ~Live /\ CorrectionNoticed
  BY DEF Live, CorrectionNoticed
<1> QED
  BY <1>1, <1>2, <1>3, <1>4 DEF Inductive

(* A module is read: whatever was changed before is in it, unless it is    *)
(* being loaded already.                                                   *)
LEMMA RequireBeginInductive ==
    ASSUME NEW m \in Modules, Inductive, RequireBegin(m) PROVE Inductive'
<1> USE ReloaderAssumption DEF Inductive
<1> DEFINE l == [file |-> m, watched |-> watched_modules[m] = "true",
                 compiles |-> m \notin broken]
<1>1. /\ m \in Files /\ m # Script /\ l \in Load
      /\ l.file = m /\ (l.watched => watched_modules[m] = "true")
  BY DEF Files, Load
<1>2. loads' \in Seq(Load) /\ Range(loads') = Range(loads) \cup {l}
  BY <1>1, PushProperties DEF TypeOK, RequireBegin
<1>3. \A x : Loading(x)' <=> Loading(x) \/ x = m
  BY <1>1, <1>2 DEF Loading
<1>4. /\ UNCHANGED <<broken, inotify, msgpipe, runner, cached, watched_modules, path_cache,
                     thread, main, timedOut, failed, raced>>
      /\ ScriptRuns
  BY DEF RequireBegin
<1>5. /\ stale' \subseteq stale /\ slipped' \subseteq slipped
      /\ slipped \ {m} \subseteq slipped'
      /\ m \in stale' => Loading(m) /\ (m \in slipped => m \in slipped')
  BY DEF RequireBegin
<1>6. TypeOK'
  BY <1>2, <1>4, <1>5 DEF TypeOK, inotify
<1>7. Phases'
  <2>1. loads' # <<>> /\ (Loading(Script)' => Loading(Script))
    BY <1>1, <1>2, <1>3, ShortProperties
  <2> QED
    BY <1>4, <2>1 DEF Phases, ScriptRuns
<1>8. Descriptor' /\ Caches'
  BY <1>1, <1>2, <1>4 DEF Descriptor, Caches, inotify
<1>9. Live' => Covered'
  BY <1>1, <1>3, <1>4 DEF Live, Covered, Excused, InUse, Underway, inotify
<1>10. Live' => OnRecord'
  BY <1>1, <1>3, <1>4, <1>5 DEF Live, OnRecord, Excused, InUse, Underway, inotify
<1>11. CorrectionNoticed'
  BY <1>4 DEF CorrectionNoticed, inotify
<1> QED
  BY <1>6, <1>7, <1>8, <1>9, <1>10, <1>11

(* A module ends up watched, or marked as loaded outside of a reload. *)
LEMMA RequireEndInductive ==
    ASSUME Inductive, RequireEnd PROVE Inductive'
<1> USE ReloaderAssumption DEF Inductive
<1> DEFINE l == Last(loads)
           m == Last(loads).file
<1>0. /\ l \in Load /\ l \in Range(loads) /\ loads' \in Seq(Load)
      /\ Range(loads') \subseteq Range(loads) /\ Range(loads) \subseteq Range(loads') \cup {l}
  BY PopProperties DEF TypeOK, RequireEnd
<1>1. /\ m \in Modules /\ m # Script /\ Loading(m) /\ loads' \in Seq(Load)
      /\ \A x : Loading(x)' => Loading(x)
      /\ \A x : Loading(x) /\ x # m => Loading(x)'
  BY <1>0 DEF Loading, RequireEnd
<1>2. UNCHANGED <<broken, stale, msgpipe, runner, thread, main, timedOut, failed, slipped>>
  BY DEF RequireEnd, files
<1>3. PICK ok \in BOOLEAN :
          /\ cached' = IF ok THEN cached \cup {m} ELSE cached
          /\ IF l.watched \/ ~(ok \/ m \in path_cache)
             THEN UNCHANGED <<inotify, watched_modules, path_cache, raced>>
             ELSE /\ path_cache' = path_cache \cup {m}
                  /\ watched_modules' = [watched_modules EXCEPT ![m] =
                                            IF SafeToAddWatch THEN "true" ELSE "false"]
                  /\ IF SafeToAddWatch THEN WatchFile(m) ELSE UNCHANGED inotify
                  /\ raced' = (raced \/ (runner = "main" /\ thread # "none"))
  BY DEF RequireEnd
<1>4. Phases'
  <2>1. loads # <<>>
    BY DEF RequireEnd
  <2> QED
    BY <1>1, <1>2, <2>1 DEF Phases
<1>5. /\ event' = event /\ watches \subseteq watches'
      /\ fd' \in BOOLEAN /\ (fd' => Script \in watches')
  BY <1>3 DEF inotify, WatchFile, TypeOK, Descriptor
<1>6. Descriptor'
  <2>1. CASE fd' = fd
    BY <1>3, <1>5, <2>1 DEF inotify, WatchFile, Descriptor
  <2>2. CASE fd'
    BY <1>5, <2>2 DEF Descriptor
  <2> QED
    BY <1>3, <2>1, <2>2 DEF inotify, WatchFile
<1>7. CASE l.watched \/ ~(ok \/ m \in path_cache)
  <2>1. /\ UNCHANGED <<fd, watches, event, watched_modules, path_cache, raced>>
        /\ cached' \subseteq Modules
        /\ cached' # cached => cached' = cached \cup {m} /\ watched_modules[m] \in {"true", "false"}
    BY <1>0, <1>1, <1>3, <1>7 DEF inotify, TypeOK, Caches
  <2>2. TypeOK' /\ Caches'
    BY <1>0, <1>1, <1>2, <2>1 DEF TypeOK, Caches
  <2>3. Live' => Covered' /\ OnRecord'
    BY <1>1, <1>2, <2>1 DEF Live, Covered, OnRecord, Excused, InUse, Underway
  <2>4. CorrectionNoticed'
    BY <1>2, <2>1 DEF CorrectionNoticed
  <2> QED
    BY <1>4, <1>6, <2>2, <2>3, <2>4
<1>8. CASE ~(l.watched \/ ~(ok \/ m \in path_cache))
  <2> DEFINE answer == IF SafeToAddWatch THEN "true" ELSE "false"
  <2>1. /\ cached' \subseteq Modules /\ cached' \subseteq cached \cup {m}
        /\ path_cache' = path_cache \cup {m}
        /\ watched_modules' = [watched_modules EXCEPT ![m] = answer]
        /\ SafeToAddWatch => m \in watches'
        /\ watches' \subseteq Files
    BY <1>1, <1>3, <1>8 DEF TypeOK, WatchFile, inotify, Files
  <2>2. raced' \in BOOLEAN
    BY <1>3, <1>8, Zenon DEF TypeOK
  <2>3. /\ watched_modules' \in [Modules -> {"nil", "true", "false"}]
        /\ watched_modules'[m] = answer
        /\ \A x \in Modules : x # m => watched_modules'[x] = watched_modules[x]
    BY <1>1, <2>1 DEF TypeOK
  <2>4. TypeOK'
    BY <1>1, <1>2, <1>5, <2>1, <2>2, <2>3 DEF TypeOK
  <2>5. thread = "script" \/ main = "script" => SafeToAddWatch
    BY DEF Phases, SafeToAddWatch
  <2>6. Caches'
    BY <1>0, <1>1, <1>2, <2>1, <2>3, <2>5 DEF TypeOK, Caches, Load, Files
  <2>7. Live' => Covered'
    BY <1>1, <1>2, <1>5, <2>1, <2>3 DEF TypeOK, Live, Covered, Excused, InUse, Underway, Files
  (* A module loaded outside of a reload is not made out to be watched. *)
  <2>8. Live /\ SafeToAddWatch => Underway(m) \/ watched_modules[m] # "false"
    BY <1>1 DEF Live, Phases, Caches, SafeToAddWatch, Underway, TypeOK
  <2>9. Live' => OnRecord'
    BY <1>1, <1>2, <1>5, <2>1, <2>3, <2>8
    DEF TypeOK, Live, OnRecord, Excused, InUse, Underway, Files
  <2>10. CorrectionNoticed'
    BY <1>2, <1>5 DEF CorrectionNoticed
  <2> QED
    BY <1>4, <1>6, <2>4, <2>6, <2>7, <2>9, <2>10
<1> QED
  BY <1>7, <1>8

(* script.lua is read, and has no watch while it runs, ... *)
LEMMA LoadScriptInductive ==
    ASSUME Inductive, LoadScript PROVE Inductive'
<1> USE ReloaderAssumption, ShortProperties
    DEF Inductive, LoadScript, files, inotify, modules, outcomes
<1>0. /\ loads = <<>> /\ \A x : ~Loading(x)
      /\ \/ loads' = <<>> /\ main' = "done"
         \/ loads' = <<ScriptLoad>> /\ main' = "script"
  BY NothingLoading DEF Phases, ScriptLoad
<1>1. TypeOK'
  <2>1. loads' \in Seq(Load)
    BY <1>0 DEF TypeOK
  <2>2. stale' \subseteq Files /\ main' \in {"done", "script"} /\ runner' = runner
    BY DEF TypeOK
  <2>3. UNCHANGED <<broken, inotify, msgpipe, cached, watched_modules, path_cache,
                    thread, outcomes>>
    OBVIOUS
  <2> QED
    BY <2>1, <2>2, <2>3 DEF TypeOK
<1>2. Phases' /\ Descriptor'
  BY <1>0 DEF TypeOK, Phases, Descriptor, Loading
<1>3. Caches'
  BY <1>0 DEF TypeOK, Phases, Caches
<1>4. Live' => Covered' /\ OnRecord'
  <2>1. \A f \in Files : InUse(f)' => f = Script
    BY DEF Phases, Caches, InUse, Files, TypeOK
  <2>2. Live' => \A x : Loading(x)' <=> x = Script
    BY <1>0 DEF Live, Loading
  <2> QED
    BY <2>1, <2>2 DEF Live, Covered, OnRecord
<1>5. CorrectionNoticed'
  BY DEF Phases, CorrectionNoticed
<1> QED
  BY <1>1, <1>2, <1>3, <1>4, <1>5

(* ... which it gets when it ends: saves in between have slipped. *)
LEMMA ScriptEndInductive ==
    ASSUME Inductive, ScriptEnd PROVE Inductive'
<1> USE ReloaderAssumption, ShortProperties
    DEF Inductive, ScriptEnd, WatchFile, files, outcomes
<1>0. loads' = <<>> /\ Range(loads') = {} /\ \A x : ~Loading(x)'
  BY DEF Loading
<1>1. TypeOK'
  BY DEF TypeOK, Files
<1>2. Phases' /\ Descriptor' /\ Caches'
  BY <1>0 DEF TypeOK, Phases, Descriptor, Caches
<1>3. Live' => Covered' /\ OnRecord'
  <2>1. event' = event /\ watches \subseteq watches' /\ Script \in watches'
    BY DEF Descriptor
  <2>2. Live /\ \A x : ~Loading(x)'
    BY <1>0 DEF Live
  <2>3. Covered'
    BY <2>1, <2>2 DEF Phases, Covered, Excused, InUse, Underway, Files
  <2>4. OnRecord'
    BY <2>1, <2>2 DEF Phases, OnRecord, Excused, InUse, Underway
  <2> QED
    BY <2>3, <2>4
<1>4. CorrectionNoticed'
  BY DEF Phases, CorrectionNoticed
<1> QED
  BY <1>1, <1>2, <1>3, <1>4

(* A message closes the descriptor; while main runs it is a reload. *)
LEMMA WakeMsgInductive ==
    ASSUME Inductive, WakeMsg PROVE Inductive'
<1> USE DEF Inductive, WakeMsg, DeinitInotify, files, modules, outcomes
<1>1. /\ msgpipe' \in Seq({"reload", "exit"})
      /\ Len(msgpipe') = Len(msgpipe) - 1 /\ Len(msgpipe) \in Nat \ {0}
      /\ \A i \in 1 .. Len(msgpipe') : msgpipe'[i] = msgpipe[i + 1]
      /\ Head(msgpipe) = msgpipe[1]
  BY HeadTailProperties, EmptySeq DEF TypeOK
<1>2. fd' \in BOOLEAN /\ event' \in BOOLEAN
  BY Zenon
<1>3. TypeOK'
  BY <1>1, <1>2 DEF TypeOK
<1>4. Phases' /\ Descriptor' /\ Caches'
  BY <1>1 DEF TypeOK, Phases, Descriptor, Caches, Loading
<1>5. main = "running" => thread' = "woken"
  BY <1>1 DEF Phases
<1>6. Live' => Covered' /\ OnRecord'
  BY <1>5 DEF Phases, Live, Covered, OnRecord, Excused, Underway, Loading
<1>7. CorrectionNoticed'
  BY <1>5 DEF CorrectionNoticed
<1> QED
  BY <1>3, <1>4, <1>6, <1>7

(* So does the event, which is a reload always. *)
LEMMA WakeEventInductive ==
    ASSUME Inductive, WakeEvent PROVE Inductive'
<1> USE DEF Inductive, WakeEvent, DeinitInotify, files, modules, outcomes
<1>1. fd' \in BOOLEAN /\ event' \in BOOLEAN
  BY Zenon
<1>2. TypeOK'
  BY <1>1 DEF TypeOK
<1>3. Phases' /\ Descriptor' /\ Caches'
  BY DEF TypeOK, Phases, Descriptor, Caches, Loading
<1>4. Live' => Covered' /\ OnRecord'
  BY DEF Covered, OnRecord, Excused, Underway, Loading
<1>5. CorrectionNoticed'
  BY DEF CorrectionNoticed
<1> QED
  BY <1>2, <1>3, <1>4, <1>5

(* A script that does not compile is watched from before its reading on. *)
LEMMA ReloadFailsInductive ==
    ASSUME Inductive, ReloadFails PROVE Inductive'
<1> USE ReloaderAssumption DEF Inductive, ReloadFails, GetOrInit, modules
<1>1. timedOut' \in BOOLEAN /\ failed' \in BOOLEAN
  BY Zenon
<1>2. TypeOK'
  BY <1>1 DEF TypeOK, Files
<1>3. Phases' /\ Descriptor' /\ Caches'
  BY DEF TypeOK, Phases, Descriptor, Caches, Loading
<1>4. Live' => Covered' /\ OnRecord'
  BY DEF Descriptor, Covered, OnRecord, Excused, InUse, Underway, Files,
         Loading
<1>5. CorrectionNoticed'
  BY DEF CorrectionNoticed
<1> QED
  BY <1>2, <1>3, <1>4, <1>5

(* So is one that does; modules are as before until it runs. *)
LEMMA ReloadBeginInductive ==
    ASSUME Inductive, ReloadBegin PROVE Inductive'
<1> USE ReloaderAssumption DEF Inductive, ReloadBegin, GetOrInit, modules
<1>1. timedOut' \in BOOLEAN /\ failed' \in BOOLEAN
  BY Zenon
<1>2. TypeOK'
  BY <1>1 DEF TypeOK, Files
<1>3. Phases' /\ Descriptor' /\ Caches'
  BY DEF TypeOK, Phases, Descriptor, Caches, Loading
<1>4. Live' => Covered' /\ OnRecord'
  BY DEF Descriptor, Covered, OnRecord, Excused, InUse, Underway, Files,
         Loading
<1>5. CorrectionNoticed'
  BY DEF CorrectionNoticed
<1> QED
  BY <1>2, <1>3, <1>4, <1>5

(* No module is in use any more when the script runs again. *)
LEMMA ReloadScriptInductive ==
    ASSUME Inductive, ReloadScript PROVE Inductive'
<1> USE ReloaderAssumption, ShortProperties
    DEF Inductive, ReloadScript, ForgetModules, files, inotify, outcomes
<1>1. TypeOK'
  BY DEF TypeOK
<1>2. Phases' /\ Descriptor' /\ Caches'
  BY DEF TypeOK, Phases, Descriptor, Caches, Loading
<1>3. cached' = {} /\ \A m \in Modules : watched_modules'[m] = "nil"
  BY DEF TypeOK, Caches
<1>4. \A f \in Files : InUse(f)' => f = Script
  BY <1>3 DEF InUse, Files
<1>5. Live' => Covered' /\ OnRecord'
  BY <1>4 DEF Live, Covered, OnRecord, Excused, InUse, Underway, Files,
         Loading
<1>6. CorrectionNoticed'
  BY DEF CorrectionNoticed
<1> QED
  BY <1>1, <1>2, <1>5, <1>6

(* A save of a watched file makes the descriptor readable. *)
LEMMA SaveInductive ==
    ASSUME NEW f \in Files, Inductive, Save(f) PROVE Inductive'
<1> USE ReloaderAssumption DEF Inductive, Save, inotify, modules
<1>1. event' \in BOOLEAN
  BY Zenon DEF TypeOK
<1>2. TypeOK'
  BY <1>1 DEF TypeOK
<1>3. Phases' /\ Caches'
  BY DEF Phases, Caches, Loading
<1>4. Descriptor'
  <2>1. CASE fd
    BY <2>1 DEF Descriptor
  <2>2. CASE ~fd
    BY <2>2 DEF Descriptor
  <2> QED
    BY <2>1, <2>2
<1>5. Live' => Covered' /\ OnRecord'
  BY DEF TypeOK, Live, Covered, OnRecord, Excused, InUse, Underway, Loading
<1>6. CorrectionNoticed'
  <2>1. CASE f # Script
    BY <2>1 DEF CorrectionNoticed
  <2>2. ASSUME f = Script, main = "running", thread # "woken", ~timedOut
        PROVE  Script \in watches
    BY <2>2 DEF Live, Covered, Excused, InUse, Underway, Phases, Files, Loading
  <2> QED
    BY <2>1, <2>2 DEF CorrectionNoticed
<1> QED
  BY <1>2, <1>3, <1>4, <1>5, <1>6

(* Every step keeps the invariant. *)
LEMMA NextInductive == Inductive /\ [Next]_vars => Inductive'
<1> SUFFICES ASSUME Inductive, [Next]_vars PROVE Inductive'
  OBVIOUS
<1> USE ReloaderAssumption
<1>1. CASE Lua
  BY <1>1, RequireBeginInductive, RequireEndInductive DEF Lua
<1>2. CASE LoadScript
  BY <1>2, LoadScriptInductive
<1>3. CASE ScriptEnd
  BY <1>3, ScriptEndInductive
<1>4. CASE WakeMsg
  BY <1>4, WakeMsgInductive
<1>5. CASE WakeEvent
  BY <1>5, WakeEventInductive
<1>6. CASE ReloadFails
  BY <1>6, ReloadFailsInductive
<1>7. CASE ReloadBegin
  BY <1>7, ReloadBeginInductive
<1>8. CASE ReloadScript
  BY <1>8, ReloadScriptInductive
<1>9. CASE \E f \in Files : Save(f)
  BY <1>9, SaveInductive
<1> USE DEF Inductive, TypeOK, Phases, Descriptor, Caches, Live, Covered, OnRecord, Excused,
            InUse, Underway, Loading, CorrectionNoticed, files, inotify, modules, outcomes, vars
<1>10. CASE LuaDeinit
  BY <1>10 DEF LuaDeinit
<1>11. CASE LuaClose
  BY <1>11 DEF LuaClose
<1>12. CASE ReloaderDeinit
  BY <1>12 DEF ReloaderDeinit
<1>13. CASE Joined
  BY <1>13 DEF Joined
<1>14. CASE EnterPoll
  BY <1>14 DEF EnterPoll, GetOrInit, Files
<1>15. CASE ReloadDropped
  BY <1>15 DEF ReloadDropped
<1>16. CASE ReloadEnd
  BY <1>16 DEF ReloadEnd, WatchFile, Files
<1>17. CASE OtherBegin
  BY <1>17 DEF OtherBegin
<1>18. CASE OtherEnd
  BY <1>18 DEF OtherEnd
<1>19. CASE RequestReload
  BY <1>19 DEF RequestReload
<1>20. CASE UNCHANGED vars
  BY <1>20
<1> QED
  BY <1>1, <1>2, <1>3, <1>4, <1>5, <1>6, <1>7, <1>8, <1>9, <1>10,
     <1>11, <1>12, <1>13, <1>14, <1>15, <1>16, <1>17, <1>18, <1>19, <1>20
  DEF Next, MainStep, ReloaderStep, Reload

-----------------------------------------------------------------------------
(* The inductive invariant holds of every state of the reloader. *)
THEOREM SpecInductive == Spec => []Inductive
  BY InitInductive, NextInductive, PTL DEF Spec

(* Variables have their types, and the path of a module that is or was to  *)
(* be watched is known, however modules load each other and themselves and *)
(* fail: it is what a failed one is watched by (require()).                *)
THEOREM SpecTypeOK == Spec => []TypeOK
<1>1. Inductive => TypeOK
  BY DEF Inductive
<1> QED
  BY SpecInductive, <1>1, PTL

(* A change of a file in use leads to a reload, with the exceptions that   *)
(* ChangesNoticed lists: what is in use is watched (Covered), and what has *)
(* changed since is pending or on its way (OnRecord).                      *)
THEOREM SpecChangesNoticed == Spec => []ChangesNoticed
<1>1. Inductive => ChangesNoticed
  BY DEF Inductive, Live, OnRecord, Excused, ChangesNoticed
<1> QED
  BY SpecInductive, <1>1, PTL

(* The correction of a script that failed to reload leads to a reload.     *)
THEOREM SpecCorrectionNoticed == Spec => []CorrectionNoticed
<1>1. Inductive => CorrectionNoticed
  BY DEF Inductive
<1> QED
  BY SpecInductive, <1>1, PTL
=============================================================================
