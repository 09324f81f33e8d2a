----------------------------- MODULE BufferList -----------------------------
(***************************************************************************)
(* The output buffers of cfgfs (buffer_list.c, buffers.c) and the code     *)
(* that drives them: cfgfs_read() in main.c, _cfg() and _cmd() in cfg.c,   *)
(* do_reload() in reloader.c and lua_init() in lua/init.c.                 *)
(*                                                                         *)
(* Commands go into fixed-size buffers on a linked list.  A buffer that    *)
(* cannot take another command is closed with the line "exec cfgfs/buffer",*)
(* which makes the game come back for the next one.  A read hands the      *)
(* first buffer to the game.  Everything happens under the Lua lock, so    *)
(* one call at a time holds the lists; `holder' says which kind.           *)
(*                                                                         *)
(* A linked list is the sequence of its buffers: `first' is its head,      *)
(* `last' its end, `ent->next' the successor.  `nonfull' is a pointer of   *)
(* its own, the position of a buffer or NULL (0).                          *)
(***************************************************************************)
EXTENDS Sequences, Naturals, SequencesExt, SeqFold

CONSTANTS
    Line,      \* the config lines Lua may write
    LineLen,   \* their lengths, without the newline
    Exec,      \* the line "exec cfgfs/buffer"
    ExecLen,   \* its length
    MaxLine,   \* max_line_length
    BufSize    \* reported_cfg_size

(* The static assertion of buffer_list.c, and the checks the callers of    *)
(* the list make on a line's length.                                       *)
ASSUME SizesAssumption ==
    /\ Exec \notin Line
    /\ ExecLen \in Nat /\ ExecLen > 0
    /\ MaxLine \in Nat
    /\ BufSize \in Nat
    /\ LineLen \in [Line -> 1 .. MaxLine]
    /\ BufSize >= MaxLine + 1 + ExecLen + 1

VARIABLES
    buffers,   \* struct buffer_list buffers
    init_cfg,  \* struct buffer_list init_cfg
    holder,    \* who is inside Lua: nobody, a read, a call, a script run
    copying,   \* the buffer of init_cfg being copied by _init(), or NULL
    reply      \* the lines the last cfgfs_read() returned

vars == <<buffers, init_cfg, holder, copying, reply>>

NULL == 0

Buffer == [size : Nat, full : BOOLEAN, data : Seq(Line \cup {Exec})]

List == [bufs : Seq(Buffer), nonfull : Nat]

TypeOK ==
    /\ buffers \in List
    /\ init_cfg \in List
    /\ holder \in {"free", "read", "call", "load"}
    /\ copying \in Nat
    /\ reply \in Seq(Line \cup {Exec})

-----------------------------------------------------------------------------
(* Buffers *)

EmptyBuffer == [size |-> 0, full |-> FALSE, data |-> <<>>]

LengthOf(l) == IF l = Exec THEN ExecLen ELSE LineLen[l]

(* Mutant of MayAddLine: no room kept for the closing line. *)
MayAddLineTight(b, len) == BufSize - b.size >= len + 1

MayAddLine(b, len) == BufSize - b.size >= len + 1 + ExecLen + 1

AddLine(b, l) ==
    [size |-> b.size + LengthOf(l) + 1, full |-> b.full, data |-> Append(b.data, l)]

(* Mutant of MakeFull: the flag is not set. *)
MakeFullNoFlag(b) == AddLine(b, Exec)

(* Mutant of MakeFull: the closing line is not written. *)
MakeFullNoExec(b) == [b EXCEPT !.full = TRUE]

MakeFull(b) == [AddLine(b, Exec) EXCEPT !.full = TRUE]

-----------------------------------------------------------------------------
(* Lists *)

EmptyList == [bufs |-> <<>>, nonfull |-> NULL]

NextOf(list, i) == IF i < Len(list.bufs) THEN i + 1 ELSE NULL

IsEmpty(list) == list.bufs = <<>> \/ list.bufs[1].size = 0

(* The list once it has a buffer that takes lines. *)
GetNonfull(list) ==
    IF list.nonfull # NULL
    THEN list
    ELSE [bufs |-> <<EmptyBuffer>>, nonfull |-> 1]

(* Mutant of GetNextFor: `nonfull' is left at NULL. *)
GetNextForUnset(list, i) ==
    IF NextOf(list, i) # NULL
    THEN list
    ELSE [bufs |-> Append(list.bufs, EmptyBuffer), nonfull |-> list.nonfull]

(* The list once buffer i has a successor. *)
GetNextFor(list, i) ==
    IF NextOf(list, i) # NULL
    THEN list
    ELSE [bufs |-> Append(list.bufs, EmptyBuffer),
          nonfull |-> IF list.nonfull = NULL THEN i + 1 ELSE list.nonfull]

(* Close buffer i and go on with the one after it. *)
CloseAndNext(list, i) ==
    GetNextFor([bufs |-> [list.bufs EXCEPT ![i] = MakeFull(@)],
                nonfull |-> NextOf(list, i)], i)

(* Where a line of length len goes, and the list with room for it there. *)
Reserve(list, len) ==
    LET got  == GetNonfull(list)
        i    == got.nonfull
        fits == list.nonfull = NULL \/ MayAddLine(got.bufs[i], len)
    IN  IF fits
        THEN [list |-> got, at |-> i]
        ELSE [list |-> CloseAndNext(got, i), at |-> i + 1]

(* Mutant of WriteLine: a buffer is closed as soon as it may be needed. *)
WriteLineEager(list, l) ==
    LET r    == Reserve(list, LineLen[l])
        done == [bufs |-> [r.list.bufs EXCEPT ![r.at] = AddLine(@, l)],
                 nonfull |-> r.list.nonfull]
    IN  IF MayAddLine(done.bufs[r.at], MaxLine) THEN done ELSE CloseAndNext(done, r.at)

WriteLine(list, l) ==
    LET r == Reserve(list, LineLen[l])
    IN  [bufs |-> [r.list.bufs EXCEPT ![r.at] = AddLine(@, l)],
         nonfull |-> r.list.nonfull]

(* The text of a command goes into the reserved buffer, the size is added  *)
(* to whichever buffer is the non-full one when the write is committed.    *)
AddText(bufs, i, l) ==
    [bufs EXCEPT ![i] = [size |-> @.size, full |-> @.full, data |-> Append(@.data, l)]]

AddSize(bufs, i, sz) ==
    [bufs EXCEPT ![i] = [size |-> @.size + sz, full |-> @.full, data |-> @.data]]

(* Mutant of WriteCommand: the newline is not committed. *)
WriteCommandShort(list, l) ==
    LET r == Reserve(list, LineLen[l])
    IN  [bufs |-> AddSize(AddText(r.list.bufs, r.at, l), r.list.nonfull, LineLen[l]),
         nonfull |-> r.list.nonfull]

WriteCommand(list, l) ==
    LET r == Reserve(list, LineLen[l])
    IN  [bufs |-> AddSize(AddText(r.list.bufs, r.at, l), r.list.nonfull, LineLen[l] + 1),
         nonfull |-> r.list.nonfull]

(* The list after its first buffer was taken off it. *)
GrabFirst(list) ==
    IF NextOf(list, 1) = NULL
    THEN EmptyList
    ELSE [bufs |-> Tail(list.bufs), nonfull |-> list.nonfull - 1]

(* Mutant of ReadyForCopy: the last buffer may be in use. *)
ReadyForCopyUsed(list) == GetNonfull(list)

(* The list ready for the copies of _init(): its last buffer is unused. *)
ReadyForCopy(list) ==
    LET got == GetNonfull(list)
    IN  IF got.bufs[got.nonfull].size # 0
        THEN CloseAndNext(got, got.nonfull)
        ELSE got

-----------------------------------------------------------------------------
(* Actions *)

(* lua_init() runs the script before any other thread uses the lists. *)
Init ==
    /\ buffers = EmptyList
    /\ init_cfg = EmptyList
    /\ holder = "load"
    /\ copying = NULL
    /\ reply = <<>>

(* cfgfs_read() got the lock: an empty list gets the fake buffer, whose    *)
(* data is the reply itself.                                               *)
ReadBegin ==
    /\ holder = "free"
    /\ holder' = "read"
    /\ buffers' = IF buffers.bufs = <<>>
                  THEN [bufs |-> <<EmptyBuffer>>, nonfull |-> 1]
                  ELSE buffers
    /\ UNCHANGED <<init_cfg, copying, reply>>

(* The first buffer leaves the list and its text is the reply. *)
ReadEnd ==
    /\ holder = "read" /\ copying = NULL
    /\ reply' = buffers.bufs[1].data
    /\ buffers' = GrabFirst(buffers)
    /\ holder' = "free"
    /\ UNCHANGED <<init_cfg, copying>>

(* Any other call into Lua. *)
CallBegin ==
    /\ holder = "free"
    /\ holder' = "call"
    /\ UNCHANGED <<buffers, init_cfg, copying, reply>>

CallEnd ==
    /\ holder = "call" /\ copying = NULL
    /\ holder' = "free"
    /\ UNCHANGED <<buffers, init_cfg, copying, reply>>

(* Lua code writes a line with _cfg() ... *)
Cfg(l) ==
    /\ holder # "free" /\ copying = NULL
    /\ buffers' = WriteLine(buffers, l)
    /\ UNCHANGED <<init_cfg, holder, copying, reply>>

(* ... or a command with _cmd(). *)
Cmd(l) ==
    /\ holder # "free" /\ copying = NULL
    /\ buffers' = WriteCommand(buffers, l)
    /\ UNCHANGED <<init_cfg, holder, copying, reply>>

(* Lua code calls _init(), which appends the recorded startup commands.    *)
(* Nothing happens if there are none.                                      *)
CopyBegin ==
    /\ holder \in {"read", "call"} /\ copying = NULL
    /\ ~IsEmpty(init_cfg)
    /\ buffers' = ReadyForCopy(buffers)
    /\ copying' = 1
    /\ UNCHANGED <<init_cfg, holder, reply>>

(* One round of the copy loop: the buffer is copied with its flag and its  *)
(* closing line, and unless it was the last one a new buffer follows.      *)
CopyOne ==
    LET dst  == Len(buffers.bufs)
        next == NextOf(init_cfg, copying)
        more == next # NULL /\ init_cfg.bufs[next].size # 0
        bufs == [buffers.bufs EXCEPT ![dst] = init_cfg.bufs[copying]]
    IN  /\ copying # NULL
        /\ \/ /\ ~more
              /\ buffers' = [bufs |-> bufs, nonfull |-> buffers.nonfull]
              /\ copying' = NULL
           \/ /\ more
              /\ buffers' = GetNextFor([bufs |-> bufs, nonfull |-> NextOf(buffers, dst)], dst)
              /\ copying' = next
        /\ UNCHANGED <<init_cfg, holder, reply>>

(* do_reload() resets both lists and runs the script. *)
LoadBegin ==
    /\ holder = "free"
    /\ buffers' = EmptyList
    /\ init_cfg' = EmptyList
    /\ holder' = "load"
    /\ UNCHANGED <<copying, reply>>

(* The script has run: what it wrote becomes init_cfg. *)
LoadEnd ==
    /\ holder = "load"
    /\ buffers' = init_cfg
    /\ init_cfg' = buffers
    /\ holder' = "call"
    /\ UNCHANGED <<copying, reply>>

Next ==
    \/ ReadBegin
    \/ ReadEnd
    \/ CallBegin
    \/ CallEnd
    \/ \E l \in Line : Cfg(l)
    \/ \E l \in Line : Cmd(l)
    \/ CopyBegin
    \/ CopyOne
    \/ LoadBegin
    \/ LoadEnd

Spec == Init /\ [][Next]_vars

-----------------------------------------------------------------------------
(* Properties *)

(* The shape the assertions of buffer_list.c rely on: only the last buffer *)
(* takes lines, `nonfull' points at it, and every other one is full.       *)
WellLinked(list) ==
    /\ list.nonfull = Len(list.bufs)
    /\ \A i \in 1 .. Len(list.bufs) : list.bufs[i].full <=> i < Len(list.bufs)

(* Every debug assertion of buffer_list.c on full, nonfull, first, last    *)
(* and next holds whenever an operation begins.                            *)
ListShape == WellLinked(buffers) /\ WellLinked(init_cfg)

(* A full buffer fits the reply the game reads, and an open one keeps      *)
(* enough room for the line that closes it.                                *)
Fits(b) == b.size + (IF b.full THEN 0 ELSE ExecLen + 1) <= BufSize

Capacity ==
    \A list \in {buffers, init_cfg} :
        \A i \in 1 .. Len(list.bufs) : Fits(list.bufs[i])

(* The bytes of some lines with their newlines *)
CountLine == [n \in Nat |-> [l \in Line \cup {Exec} |-> n + LengthOf(l) + 1]]

Bytes(data) == Fold(CountLine, 0, data)

(* The size field is the number of bytes in the buffer: what is copied to  *)
(* the game is neither cut nor followed by garbage.                        *)
SizeIsBytes ==
    \A list \in {buffers, init_cfg} :
        \A i \in 1 .. Len(list.bufs) : list.bufs[i].size = Bytes(list.bufs[i].data)

(* The note in buffer_list_is_empty(): the only buffer of size 0 is the    *)
(* fake one a read puts on an empty list (or the one a copy fills next),   *)
(* so outside of those `is_empty' is true exactly if there is no buffer.   *)
EmptyOnlyInUse ==
    /\ \A i \in 1 .. Len(init_cfg.bufs) : init_cfg.bufs[i].size > 0
    /\ \A i \in 1 .. Len(buffers.bufs) :
          buffers.bufs[i].size = 0 =>
              i = Len(buffers.bufs) /\ (copying # NULL \/ (i = 1 /\ holder = "read"))

(* A reply ends with "exec cfgfs/buffer" exactly if a command is still     *)
(* queued behind it: the game is never sent for nothing, and no command is *)
(* left in the list after the reply in front of it has ended the chain.    *)
ChainUnbroken ==
    [][holder = "read" /\ holder' = "free" =>
          ((reply' # <<>> /\ Last(reply') = Exec) <=> ~IsEmpty(buffers'))]_vars

(* The commands among some lines, without the closing ones ... *)
AddCommand == [cmds \in Seq(Line) |->
                  [l \in Line \cup {Exec} |-> IF l = Exec THEN cmds ELSE Append(cmds, l)]]

CommandsOf(data) == Fold(AddCommand, <<>>, data)

(* ... and in a list of buffers *)
AddCommands == [cmds \in Seq(Line) |-> [b \in Buffer |-> cmds \o CommandsOf(b.data)]]

Commands(bufs) == Fold(AddCommands, <<>>, bufs)

Pending ==
    Commands(buffers.bufs) \o
        (IF copying = NULL THEN <<>>
         ELSE Commands(SubSeq(init_cfg.bufs, copying, Len(init_cfg.bufs))))

Promise == INSTANCE CommandQueue WITH
    queue   <- Pending,
    startup <- Commands(init_cfg.bufs),
    chunk   <- [cmds |-> CommandsOf(reply),
                more |-> reply # <<>> /\ Last(reply) = Exec]

(* The buffers implement the queue: commands reach the game in the order   *)
(* they were written, each once, none lost but by a reload.                *)
ImplementsQueue == Promise!Spec
=============================================================================
