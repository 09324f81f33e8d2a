------------------------------- MODULE Shell --------------------------------
(***************************************************************************)
(* sh() of builtin.lua.  A shell command tells its pid, its output and its *)
(* exit status by writing to files under message/, each of which is a      *)
(* channel: a write fires an event with the data, and closing the file one *)
(* with nil, which ends whatever reads the channel.  _message() leaves out *)
(* the nil where nothing was written, but what it remembers for that is    *)
(* one variable for all channels.  A command's next write comes after its  *)
(* last file was closed; several commands run at a time.                   *)
(***************************************************************************)
EXTENDS Naturals

CONSTANTS Cmds,     \* the commands run, each of them once
          MaxOutput \* bound: writes of a command

Channels == {<<c, purpose>> : c \in Cmds, purpose \in {"pid", "out", "rv"}}
NoChannel == <<>>

VARIABLES
    proc,       \* the process: "no", "forked", "runs", "exited", "gone"
    output,     \* how often it has written
    closing,    \* channels whose file is being closed
    last_data,
    reader,     \* what reads a channel: "none", "waits" or "ended", and ...
    heard,      \* ... the channels it got data from
    user,       \* the caller of sh(): "no", "starting", "has" the object,
                \*                     "reads", "waits", "done"
    closed      \* history: channels that were closed

vars == <<proc, output, closing, last_data, reader, heard, user, closed>>

Init ==
    /\ proc = [c \in Cmds |-> "no"] /\ output = [c \in Cmds |-> 0]
    /\ closing = {} /\ last_data = NoChannel
    /\ reader = [ch \in Channels |-> "none"] /\ heard = {}
    /\ user = [c \in Cmds |-> "no"]
    /\ closed = {}

-----------------------------------------------------------------------------
(* sh(): the command is started and its pid and exit status awaited.       *)
Sh(c) ==
    /\ user[c] = "no"
    /\ user' = [user EXCEPT ![c] = "starting"] /\ proc' = [proc EXCEPT ![c] = "forked"]
    /\ reader' = [reader EXCEPT ![<<c, "pid">>] = "waits", ![<<c, "rv">>] = "waits"]
    /\ UNCHANGED <<output, closing, last_data, heard, closed>>

(* What the end of a channel does to the caller: sh() returns when it      *)
(* knows the pid or the command is over, read() and wait() likewise.       *)
After(ch) ==
    LET c == ch[1]
        old == user[c]
        new == CASE ch[2] = "pid" /\ old = "starting" /\ ch \in heard -> "has"
                 [] ch[2] = "rv" /\ old \in {"starting", "waits"}     -> "done"
                 [] ch[2] = "out" /\ old = "reads"                    -> "done"
                 [] OTHER                                             -> old
    IN [user EXCEPT ![c] = new]

FireData(ch) ==
    /\ heard' = IF reader[ch] = "waits" THEN heard \cup {ch} ELSE heard
    /\ UNCHANGED <<reader, user>>

FireNil(ch) ==
    /\ IF reader[ch] = "waits"
       THEN reader' = [reader EXCEPT ![ch] = "ended"] /\ user' = After(ch)
       ELSE UNCHANGED <<reader, user>>
    /\ UNCHANGED heard

(* _message() with data, from cfgfs_write() *)
MessageData(ch) ==
    /\ last_data' = ch
    /\ FireData(ch)

(* _message() with nil, from cfgfs_release() *)
MessageNil(ch) ==
    /\ ch \in closing
    /\ closing' = closing \ {ch} /\ closed' = closed \cup {ch}
    /\ IF last_data # NoChannel THEN last_data' = NoChannel /\ FireNil(ch)
       ELSE UNCHANGED <<last_data, reader, heard, user>>
    /\ UNCHANGED <<proc, output>>

-----------------------------------------------------------------------------
(* The shell command, as far as sh() writes it *)
InOrder(c) == \A ch \in closing : ch[1] # c

WritePid(c) ==
    /\ proc[c] = "forked" /\ InOrder(c)
    /\ proc' = [proc EXCEPT ![c] = "runs"]
    /\ MessageData(<<c, "pid">>) /\ closing' = closing \cup {<<c, "pid">>}
    /\ UNCHANGED <<output, closed>>

WriteOut(c) ==
    /\ proc[c] = "runs" /\ InOrder(c) /\ output[c] < MaxOutput
    /\ output' = [output EXCEPT ![c] = @ + 1]
    /\ MessageData(<<c, "out">>)
    /\ UNCHANGED <<proc, closing, closed>>

Exit(c) ==
    /\ proc[c] = "runs" /\ InOrder(c)
    /\ proc' = [proc EXCEPT ![c] = "exited"] /\ closing' = closing \cup {<<c, "out">>}
    /\ UNCHANGED <<output, last_data, reader, heard, user, closed>>

WriteRv(c) ==
    /\ proc[c] = "exited" /\ InOrder(c)
    /\ proc' = [proc EXCEPT ![c] = "gone"]
    /\ MessageData(<<c, "rv">>) /\ closing' = closing \cup {<<c, "rv">>}
    /\ UNCHANGED <<output, closed>>

-----------------------------------------------------------------------------
(* read() and lines() of the object *)
Read(c) ==
    /\ user[c] = "has"
    /\ user' = [user EXCEPT ![c] = "reads"]
    /\ reader' = [reader EXCEPT ![<<c, "out">>] = "waits"]
    /\ UNCHANGED <<proc, output, closing, last_data, heard, closed>>

(* wait(): the variable that would tell that the command is over is never  *)
(* set, another one of that name is.                                       *)
Wait(c) ==
    /\ user[c] = "has"
    /\ user' = [user EXCEPT ![c] = "waits"]
    /\ UNCHANGED <<proc, output, closing, last_data, reader, heard, closed>>

Next ==
    \/ \E c \in Cmds : Sh(c) \/ WritePid(c) \/ WriteOut(c) \/ Exit(c) \/ WriteRv(c)
                       \/ Read(c) \/ Wait(c)
    \/ \E ch \in closing : MessageNil(ch)

Spec == Init /\ [][Next]_vars

-----------------------------------------------------------------------------
(* Whoever has got data from a channel learns of its end: nil is left out  *)
(* only "if nothing was written" (comment of _message()).                  *)
NilUnlessNothingWritten == \A ch \in heard \cap closed : reader[ch] # "waits"
=============================================================================
