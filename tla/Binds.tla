------------------------------- MODULE Binds --------------------------------
(***************************************************************************)
(* The binds of a key: bind(), the four ways in which the game tells that  *)
(* it was pressed or released (_get_contents()), release_all_keys(), and   *)
(* what reloads and restarts do to them.  Keys have nothing in common, so  *)
(* one is enough.  A call of bind() names a command that stays on until it *)
(* is taken back (+cmd, -cmd), with or without its release, or one that    *)
(* does something once.  Functions are left to the script.                 *)
(***************************************************************************)
EXTENDS Naturals, Sequences, SequencesExt

CONSTANTS Holds,        \* commands that stay on
          MaxComing     \* bound: commands queued by calls that are not reads

On(c) == [do |-> "on", cmd |-> c]       \* +c
Off(c) == [do |-> "off", cmd |-> c]     \* -c
Tap == [do |-> "tap"]
Unbound == [do |-> "nil"]
BindTo(kind) == [do |-> "bind", kind |-> kind]

VARIABLES
    down, bound, held,  \* of the game: the key, how it is bound, and what is on
    is_pressed, binds_down, binds_up,
    coming,             \* commands on their way to the game
    out,                \* history: cfgfs may take the key for what it is not
    stuck               \* history: a release was not to be had

bindVars == <<down, bound, held, is_pressed, binds_down, binds_up, coming, out, stuck>>

BindInit ==
    /\ down = FALSE /\ bound = "nothing" /\ held = {}
    /\ is_pressed = FALSE /\ binds_down = Unbound /\ binds_up = Unbound
    /\ coming = <<>> /\ out = FALSE /\ stuck = FALSE

-----------------------------------------------------------------------------
(* The game *)

(* What is on when it has executed some commands: the last word on c       *)
(* counts.  The last bind counts, too.                                     *)
OnAfter(cmds) ==
    {c \in Holds :
        \/ c \in held /\ \A i \in DOMAIN cmds : cmds[i] # Off(c)
        \/ \E i \in DOMAIN cmds :
              cmds[i] = On(c) /\ \A j \in DOMAIN cmds : j > i => cmds[j] # Off(c)}

BoundAfter(cmds) ==
    LET binds == {i \in DOMAIN cmds : cmds[i].do = "bind"}
    IN IF binds = {} THEN bound ELSE cmds[Max(binds)].kind

(* The config the game executes when the key goes down (d) or up *)
ConfigFor(d) ==
    CASE bound = "alias" -> IF d THEN "down" ELSE "up"
      [] bound = "toggle" -> "toggle"
      [] bound = "once" /\ d -> "once"
      [] OTHER -> "none"

(* With these the game tells presses from releases, or tells both. *)
TellsRelease(kind) == kind \in {"alias", "toggle"}

-----------------------------------------------------------------------------
(* bind(): the "-" command is added after it was decided how to bind.      *)
AddRelease(v, up) == IF up = Unbound /\ v.do = "on" THEN Off(v.cmd) ELSE up

BindCommands(up, noalias, known) ==
    IF noalias THEN <<BindTo(IF up # Unbound THEN "toggle" ELSE "once")>>
    ELSE IF known THEN <<>>
    ELSE <<BindTo("alias")>>

(* What a script passes *)
BindCalls ==
    {[v |-> Tap, up |-> Unbound]} \cup
    {[v |-> On(c), up |-> Unbound] : c \in Holds} \cup
    {[v |-> On(c), up |-> Off(c)] : c \in Holds}

(* _get_contents(): the listeners may cancel the event, then the bind is   *)
(* not executed.                                                           *)
Output(v, cancelled) == IF cancelled \/ v = Unbound THEN <<>> ELSE <<v>>
OnPress(c) == [pressed |-> TRUE, output |-> Output(binds_down, c), cancelled |-> FALSE]
OnRelease(c) == [pressed |-> FALSE, output |-> Output(binds_up, c), cancelled |-> c]

(* Mutant of Toggle: a cancelled event leaves the key as it was. *)
ToggleLate(c1, c2) ==
    IF is_pressed THEN [OnRelease(c2) EXCEPT !.pressed = c2]
                  ELSE [OnPress(c1) EXCEPT !.pressed = ~c1]

Toggle(c1, c2) == IF is_pressed THEN OnRelease(c2) ELSE OnPress(c1)

(* The types of bindfilenames *)
Contents(type, c1, c2) ==
    CASE type = "down" -> OnPress(c1)
      [] type = "up" -> OnRelease(c2)
      [] type = "toggle" -> Toggle(c1, c2)
      [] type = "once" -> [OnRelease(c2) EXCEPT !.output = OnPress(c1).output \o @]

(* The game executes what is on its way and what a read has answered. *)
GameRuns(output) ==
    LET cmds == coming \o output
    IN bound' = BoundAfter(cmds) /\ held' = OnAfter(cmds) /\ coming' = <<>>

-----------------------------------------------------------------------------
(* The key goes down or up and the game reads the config for it. *)
KeyRead(c1, c2) ==
    /\ down' = ~down
    /\ LET type == ConfigFor(~down)
           r == Contents(type, c1, c2)
       IN /\ type # "none"
          /\ is_pressed' = r.pressed
          /\ GameRuns(r.output)
          /\ out' = ((type = "toggle" /\ out) \/ (down' /\ bound' # bound))
          /\ stuck' = (held' # {} /\ (stuck \/ r.cancelled))
    /\ UNCHANGED <<binds_down, binds_up>>

(* The key does nothing. *)
KeyUnread ==
    /\ down' = ~down /\ ConfigFor(~down) = "none"
    /\ UNCHANGED <<bound, held, is_pressed, binds_down, binds_up, coming, out, stuck>>

(* The read gets no Lua lock (cfgfs_read()), and the game goes on. *)
KeyLost ==
    /\ down' = ~down /\ ConfigFor(~down) # "none"
    /\ out' = TRUE
    /\ UNCHANGED <<bound, held, is_pressed, binds_down, binds_up, coming, stuck>>

(* Any other config is read. *)
OtherRead ==
    /\ coming # <<>>
    /\ GameRuns(<<>>)
    /\ out' = (out \/ (down /\ bound' # bound))
    /\ stuck' = (stuck /\ held' # {})
    /\ UNCHANGED <<down, is_pressed, binds_down, binds_up>>

(* bind(), at any time *)
Bind(call, noalias) ==
    /\ Len(coming) < MaxComing
    /\ binds_down' = call.v
    /\ binds_up' = AddRelease(call.v, call.up)
    /\ coming' = coming \o BindCommands(call.up, noalias, binds_down # Unbound)
    /\ stuck' = (stuck \/ (held # {} /\ binds_up' # binds_up))
    /\ UNCHANGED <<down, bound, held, is_pressed, out>>

Released == IF is_pressed THEN Output(binds_up, FALSE) ELSE <<>>

(* release_all_keys() *)
ReleaseAllKeys ==
    /\ Len(coming) < MaxComing
    /\ coming' = coming \o Released
    /\ is_pressed' = FALSE
    /\ out' = (down /\ TellsRelease(bound))
    /\ UNCHANGED <<down, bound, held, binds_down, binds_up, stuck>>

OffComing == \E i \in DOMAIN coming : coming[i].do = "off"

(* do_reload(): a script that does not compile only costs the queue. *)
ReloadFails ==
    /\ coming # <<>>
    /\ coming' = <<>>
    /\ stuck' = (stuck \/ (held # {} /\ OffComing))
    /\ UNCHANGED <<down, bound, held, is_pressed, binds_down, binds_up, out>>

(* Otherwise its unload listeners may release the keys, the tables are     *)
(* emptied, and it binds the key again or does not.                        *)
ScriptBinds(unloading) ==
    \/ /\ binds_down' = Unbound /\ binds_up' = Unbound
       /\ coming' = unloading
    \/ \E call \in BindCalls, noalias \in BOOLEAN :
          /\ binds_down' = call.v /\ binds_up' = AddRelease(call.v, call.up)
          /\ coming' = unloading \o BindCommands(call.up, noalias, FALSE)

Reload(release) ==
    /\ LET unloading == IF release THEN Released ELSE <<>>
       IN /\ ScriptBinds(unloading)
          /\ stuck' = \/ stuck
                      \/ held # {} /\ OffComing
                      \/ held # {} /\ binds_up' # binds_up /\ unloading = <<>>
    /\ IF release THEN is_pressed' = FALSE /\ out' = (down /\ TellsRelease(bound))
       ELSE UNCHANGED <<is_pressed, out>>
    /\ UNCHANGED <<down, bound, held>>

(* The program ends and is started again: _fire_startup(). *)
Restart ==
    /\ ScriptBinds(<<>>)
    /\ is_pressed' = FALSE
    /\ out' = (down /\ TellsRelease(bound))
    /\ stuck' = (held # {})
    /\ UNCHANGED <<down, bound, held>>

BindNext ==
    \/ \E c1, c2 \in BOOLEAN : KeyRead(c1, c2)
    \/ KeyUnread \/ KeyLost \/ OtherRead
    \/ \E call \in BindCalls, noalias \in BOOLEAN : Bind(call, noalias)
    \/ ReleaseAllKeys
    \/ ReloadFails \/ \E release \in BOOLEAN : Reload(release)
    \/ Restart

BindSpec == BindInit /\ [][BindNext]_bindVars

-----------------------------------------------------------------------------
(* The key is taken for pressed exactly while it is, or goes on being so   *)
(* for as long as a toggle is out of step: after a read without an answer, *)
(* a bind that changed under a key that is down, or keys released by       *)
(* command while they were (_get_contents(), release_all_keys()).  Once it *)
(* is up nothing it turned on is left on, unless a listener, a new bind or *)
(* a reload kept the release from being executed.                          *)
KeyTracked == ~out => (is_pressed <=> down /\ TellsRelease(bound))

KeyReleased ==
    /\ KeyTracked
    /\ ~down /\ ~out /\ ~stuck /\ ~OffComing => held = {}
=============================================================================
