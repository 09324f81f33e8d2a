-------------------------- MODULE BufferListProofs --------------------------
(***************************************************************************)
(* Proofs about the output buffers, for every set of lines, every length   *)
(* of them and every buffer size the static assertion of buffer_list.c     *)
(* allows.                                                                 *)
(***************************************************************************)
EXTENDS BufferList, SeqFoldProofs

(* The closing line is at the end of the full buffers and of no other.     *)
Closed(b) == b.full <=> (b.data # <<>> /\ b.data[Len(b.data)] = Exec)

(* The size is that of the lines, and the first one is a command.          *)
Counted(b) ==
    /\ b.size = Bytes(b.data)
    /\ b.data # <<>> => b.data[1] # Exec

Proper(b) == Closed(b) /\ Counted(b)

(* What every operation keeps of a list. *)
Sound(list) ==
    /\ list \in List
    /\ WellLinked(list)
    /\ \A i \in 1 .. Len(list.bufs) : Fits(list.bufs[i]) /\ Proper(list.bufs[i])

(* Only the last buffer may be unused. *)
Filled(list) == \A i \in 1 .. Len(list.bufs) : list.bufs[i].size = 0 => i = Len(list.bufs)

(* The inductive invariant: both lists are sound, a read has a buffer to   *)
(* return, and a copy in progress has one to read and one to write.        *)
Inductive ==
    /\ TypeOK
    /\ Sound(buffers)
    /\ Sound(init_cfg)
    /\ EmptyOnlyInUse
    /\ holder = "read" => buffers.bufs # <<>>
    /\ copying <= Len(init_cfg.bufs)
    /\ copying # NULL => holder \in {"read", "call"} /\ buffers.bufs # <<>>

-----------------------------------------------------------------------------
(* Buffers *)

(* buffer_add_line() keeps a buffer a buffer, grows it by the line and its *)
(* newline and puts the line at its end.                                   *)
LEMMA AddLineProperties ==
    ASSUME NEW b \in Buffer, NEW l \in Line \cup {Exec}
    PROVE  LET c == AddLine(b, l) IN
           /\ c \in Buffer
           /\ c.size = b.size + LengthOf(l) + 1
           /\ c.full = b.full
           /\ c.data # <<>>
           /\ c.data[Len(c.data)] = l
           /\ LengthOf(l) \in Nat
<1>1. LengthOf(l) \in Nat
  BY SizesAssumption DEF LengthOf
<1>2. Append(b.data, l) \in Seq(Line \cup {Exec})
  BY AppendProperties DEF Buffer
<1>3. /\ Append(b.data, l) # <<>>
      /\ Append(b.data, l)[Len(Append(b.data, l))] = l
  BY AppendProperties DEF Buffer
<1> QED
  BY <1>1, <1>2, <1>3 DEF AddLine, Buffer

(* Nothing has no bytes, and one more line adds its own. *)
LEMMA BytesProperties ==
    /\ Bytes(<<>>) = 0
    /\ \A data \in Seq(Line \cup {Exec}), l \in Line \cup {Exec} :
          /\ Bytes(data) \in Nat
          /\ Bytes(Append(data, l)) = Bytes(data) + LengthOf(l) + 1
<1>1. Bytes(<<>>) = 0
  BY FoldEmpty DEF Bytes
<1>2. ASSUME NEW data \in Seq(Line \cup {Exec}), NEW l \in Line \cup {Exec}
      PROVE  /\ Bytes(data) \in Nat
             /\ Bytes(Append(data, l)) = Bytes(data) + LengthOf(l) + 1
  <2>1. \A n \in Nat : \A k \in Line \cup {Exec} :
           CountLine[n][k] = n + LengthOf(k) + 1 /\ CountLine[n][k] \in Nat
    BY SizesAssumption DEF CountLine, LengthOf
  <2>2. Bytes(data) \in Nat
    <3>1. \A n \in Nat : \A i \in 1 .. Len(data) : CountLine[n][data[i]] \in Nat
      BY <2>1, ElementOfSeq
    <3> QED
      BY <3>1, FoldInvariant DEF Bytes
  <2>3. Bytes(Append(data, l)) = CountLine[Bytes(data)][l]
    BY FoldAppend DEF Bytes
  <2> QED
    BY <2>1, <2>2, <2>3
<1> QED
  BY <1>1, <1>2

(* A line that is no closing one, or that closes something, is counted.    *)
LEMMA AddLineCounted ==
    ASSUME NEW b \in Buffer, Counted(b), NEW l \in Line \cup {Exec},
           b.data = <<>> => l # Exec
    PROVE  Counted(AddLine(b, l))
<1> DEFINE c == AddLine(b, l)
<1>1. c.size = b.size + LengthOf(l) + 1 /\ c.data = Append(b.data, l)
  BY DEF AddLine
<1>2. b.data \in Seq(Line \cup {Exec})
  BY DEF Buffer
<1>3. c.size = Bytes(c.data)
  BY <1>1, <1>2, BytesProperties DEF Counted
<1> HIDE DEF c
<1>4. c.data[1] # Exec
  <2>1. CASE b.data = <<>>
    BY <1>1, <1>2, <2>1
  <2>2. CASE b.data # <<>>
    <3>1. Len(b.data) \in Nat \ {0}
      BY <1>2, <2>2, EmptySeq
    <3>2. 1 \in 1 .. Len(b.data)
      BY <3>1
    <3>3. c.data[1] = b.data[1]
      BY <1>1, <1>2, <3>2, AppendProperties
    <3> QED
      BY <2>2, <3>3 DEF Counted
  <2> QED
    BY <2>1, <2>2
<1> QED
  BY <1>3, <1>4 DEF Counted, c

(* A buffer has lines exactly if it has a size.                            *)
LEMMA CountedSize ==
    ASSUME NEW b \in Buffer, Counted(b)
    PROVE  b.size = 0 <=> b.data = <<>>
<1>1. b.data \in Seq(Line \cup {Exec})
  BY DEF Buffer
<1>2. CASE b.data # <<>>
  <2>1. PICK d \in Seq(Line \cup {Exec}), l \in Line \cup {Exec} : b.data = Append(d, l)
    BY <1>1, <1>2, SequenceEmptyOrAppend
  <2>2. LengthOf(l) \in Nat
    BY SizesAssumption DEF LengthOf
  <2>3. Bytes(b.data) = Bytes(d) + LengthOf(l) + 1 /\ Bytes(d) \in Nat
    BY <2>1, BytesProperties
  <2>4. Bytes(b.data) # 0
    BY <2>2, <2>3
  <2> QED
    BY <1>2, <2>4 DEF Counted
<1> QED
  BY <1>2, BytesProperties DEF Counted

(* buffer_make_full() turns an open buffer that fits into a full one.      *)
LEMMA MakeFullProperties ==
    ASSUME NEW b \in Buffer, ~b.full, Fits(b), Counted(b), b.size # 0
    PROVE  LET c == MakeFull(b) IN
           /\ c \in Buffer
           /\ c.full
           /\ c.size > 0
           /\ Fits(c)
           /\ Proper(c)
<1>1. LengthOf(Exec) = ExecLen
  BY DEF LengthOf
<1>2. b.size \in Nat /\ b.size + ExecLen + 1 <= BufSize
  BY SizesAssumption DEF Fits, Buffer
<1> DEFINE d == AddLine(b, Exec)
<1>3. /\ d \in Buffer /\ d.size = b.size + ExecLen + 1
      /\ d.data # <<>> /\ d.data[Len(d.data)] = Exec
  BY <1>1, AddLineProperties
<1>6. Counted(d)
  BY AddLineCounted, CountedSize
<1> HIDE DEF d
<1>4. LET c == [d EXCEPT !.full = TRUE] IN
      c \in Buffer /\ c.full /\ c.size = d.size /\ c.data = d.data
  BY <1>3 DEF Buffer
<1>5. MakeFull(b) = [d EXCEPT !.full = TRUE]
  BY DEF MakeFull, d
<1> QED
  BY <1>2, <1>3, <1>4, <1>5, <1>6, SizesAssumption DEF Fits, Closed, Counted, Proper

(* The buffer a new list node holds. *)
LEMMA EmptyBufferProperties ==
    /\ EmptyBuffer \in Buffer
    /\ EmptyBuffer.size = 0
    /\ ~EmptyBuffer.full
    /\ Fits(EmptyBuffer)
    /\ Proper(EmptyBuffer)
    /\ \A len \in 1 .. MaxLine : MayAddLine(EmptyBuffer, len)
<1>1. <<>> \in Seq(Line \cup {Exec})
  BY EmptySeq
<1> QED
  BY <1>1, BytesProperties, SizesAssumption
     DEF EmptyBuffer, Buffer, Fits, Closed, Counted, Proper, MayAddLine

-----------------------------------------------------------------------------
(* Lists *)

(* The list without buffers                                                *)
LEMMA EmptyListSound ==
    EmptyList \in List /\ Sound(EmptyList) /\ EmptyList.bufs = <<>>
<1>1. <<>> \in Seq(Buffer) /\ Len(<<>>) = 0
  BY EmptySeq
<1> QED
  BY <1>1 DEF EmptyList, List, Sound, WellLinked, NULL

(* One buffer that takes lines is a sound list: what get_nonfull() makes   *)
(* of an empty list, and the fake buffer of a read.                        *)
LEMMA SingletonSound ==
    LET s == [bufs |-> <<EmptyBuffer>>, nonfull |-> 1] IN
    Sound(s) /\ Filled(s) /\ Len(s.bufs) = 1 /\ s.bufs[1] = EmptyBuffer
<1>1. <<EmptyBuffer>> \in Seq(Buffer) /\ Len(<<EmptyBuffer>>) = 1
  BY EmptyBufferProperties
<1> QED
  BY <1>1, EmptyBufferProperties DEF Sound, List, WellLinked, Filled

(* Replacing the last buffer by another one that fits. *)
LEMMA ReplaceLast ==
    ASSUME NEW list \in List, NEW c \in Buffer, list.bufs # <<>>
    PROVE  LET n == Len(list.bufs)
               s == [list.bufs EXCEPT ![n] = c]
           IN  /\ n \in Nat \ {0}
               /\ s \in Seq(Buffer)
               /\ Len(s) = n
               /\ s[n] = c
               /\ \A i \in 1 .. n - 1 : s[i] = list.bufs[i]
<1>1. list.bufs \in Seq(Buffer)
  BY DEF List
<1>2. Len(list.bufs) \in Nat \ {0}
  BY <1>1, EmptySeq
<1> QED
  BY <1>1, <1>2, ExceptSeq

(* Closing the last buffer and going on with a new one. *)
LEMMA CloseAndNextProperties ==
    ASSUME NEW list, Sound(list), list.bufs # <<>>, list.bufs[Len(list.bufs)].size # 0
    PROVE  LET n == Len(list.bufs)
               r == CloseAndNext(list, n)
           IN  /\ Sound(r)
               /\ Len(r.bufs) = n + 1
               /\ r.bufs[n + 1] = EmptyBuffer
               /\ r.nonfull = n + 1
               /\ r.bufs[n].size > 0
               /\ \A i \in 1 .. n - 1 : r.bufs[i] = list.bufs[i]
               /\ r.bufs = Append([list.bufs EXCEPT ![n] = MakeFull(list.bufs[n])], EmptyBuffer)
<1> DEFINE n == Len(list.bufs)
           c == MakeFull(list.bufs[n])
           s == [list.bufs EXCEPT ![n] = c]
           r == [bufs |-> Append(s, EmptyBuffer), nonfull |-> n + 1]
<1>1. list \in List /\ list.bufs \in Seq(Buffer) /\ n \in Nat \ {0}
  BY EmptySeq DEF Sound, List
<1>2. /\ list.bufs[n] \in Buffer /\ ~list.bufs[n].full /\ Fits(list.bufs[n])
      /\ Counted(list.bufs[n])
  BY <1>1 DEF Sound, WellLinked, Proper
<1>3. c \in Buffer /\ c.full /\ c.size > 0 /\ Fits(c) /\ Proper(c)
  BY <1>2, MakeFullProperties
<1> HIDE DEF c
<1>4. /\ s \in Seq(Buffer) /\ Len(s) = n /\ s[n] = c
      /\ \A i \in 1 .. n - 1 : s[i] = list.bufs[i]
  BY <1>1, <1>3, ReplaceLast
<1>5. CloseAndNext(list, n) = r
  <2> DEFINE closed == [bufs |-> s, nonfull |-> 0]
  <2>1. NextOf(list, n) = 0 /\ NextOf(closed, n) = 0
    BY <1>1, <1>4 DEF NextOf, NULL
  <2>2. CloseAndNext(list, n) = GetNextFor(closed, n)
    BY <2>1 DEF CloseAndNext, c
  <2> QED
    BY <2>1, <2>2 DEF GetNextFor, NULL
<1> HIDE DEF s
<1>6. /\ r.bufs \in Seq(Buffer) /\ Len(r.bufs) = n + 1
      /\ r.bufs[n + 1] = EmptyBuffer /\ r.bufs[n] = c
      /\ \A i \in 1 .. n - 1 : r.bufs[i] = list.bufs[i]
      /\ r.nonfull = n + 1
  BY <1>1, <1>4, AppendProperties, EmptyBufferProperties
<1>7. r \in List
  BY <1>1, <1>6 DEF List
<1>10. r.bufs = Append([list.bufs EXCEPT ![n] = MakeFull(list.bufs[n])], EmptyBuffer)
  BY DEF s, c
<1> HIDE DEF r
<1>8. \A i \in 1 .. n + 1 :
         /\ r.bufs[i].full <=> i < n + 1
         /\ Fits(r.bufs[i]) /\ Proper(r.bufs[i])
  <2> SUFFICES ASSUME NEW i \in 1 .. n + 1
               PROVE  /\ r.bufs[i].full <=> i < n + 1
                      /\ Fits(r.bufs[i]) /\ Proper(r.bufs[i])
    OBVIOUS
  <2>1. CASE i = n + 1
    BY <2>1, <1>1, <1>6, EmptyBufferProperties
  <2>2. CASE i = n
    BY <2>2, <1>1, <1>3, <1>6
  <2>3. CASE i \in 1 .. n - 1
    BY <2>3, <1>1, <1>6 DEF Sound, WellLinked
  <2> QED
    BY <1>1, <2>1, <2>2, <2>3
<1>9. Sound(r)
  BY <1>1, <1>6, <1>7, <1>8 DEF Sound, WellLinked
<1> QED
  BY <1>3, <1>5, <1>6, <1>9, <1>10

(* get_nonfull() leaves a sound list with a buffer that takes lines.       *)
LEMMA GetNonfullProperties ==
    ASSUME NEW list, Sound(list)
    PROVE  LET g == GetNonfull(list) IN
           /\ Sound(g)
           /\ g.bufs # <<>>
           /\ g.nonfull = Len(g.bufs)
           /\ Filled(list) => Filled(g)
           /\ list.nonfull # NULL => g = list
           /\ list.nonfull = NULL => Len(g.bufs) = 1 /\ g.bufs[1] = EmptyBuffer
<1>1. list.bufs \in Seq(Buffer) /\ list.nonfull = Len(list.bufs)
  BY DEF Sound, List, WellLinked
<1>2. CASE list.nonfull # NULL
  <2>1. GetNonfull(list) = list
    BY <1>2 DEF GetNonfull
  <2>2. list.bufs # <<>>
    BY <1>1, <1>2, EmptySeq DEF NULL
  <2> QED
    BY <1>1, <1>2, <2>1, <2>2
<1>3. CASE list.nonfull = NULL
  <2> DEFINE s == [bufs |-> <<EmptyBuffer>>, nonfull |-> 1]
  <2>1. GetNonfull(list) = s
    BY <1>3 DEF GetNonfull
  <2>2. Sound(s) /\ Filled(s) /\ Len(s.bufs) = 1 /\ s.bufs[1] = EmptyBuffer /\ s.nonfull = 1
    BY SingletonSound
  <2>3. s.bufs # <<>>
    BY <2>2, EmptySeq
  <2> QED
    BY <1>3, <2>1, <2>2, <2>3
<1> QED
  BY <1>2, <1>3

(* A line always finds room: the buffer reserved for it is the last one,   *)
(* takes lines, and can hold the line and the line that will close it.     *)
LEMMA ReserveProperties ==
    ASSUME NEW list, Sound(list), Filled(list), NEW len \in 1 .. MaxLine
    PROVE  LET r == Reserve(list, len) IN
           /\ Sound(r.list)
           /\ Filled(r.list)
           /\ r.list.bufs # <<>>
           /\ r.at = Len(r.list.bufs)
           /\ r.list.nonfull = r.at
           /\ MayAddLine(r.list.bufs[r.at], len)
<1> DEFINE g == GetNonfull(list)
           i == g.nonfull
           fits == list.nonfull = NULL \/ MayAddLine(g.bufs[i], len)
<1>1. /\ Sound(g) /\ Filled(g) /\ g.bufs # <<>> /\ i = Len(g.bufs)
      /\ list.nonfull # NULL => g = list
      /\ list.nonfull = NULL => Len(g.bufs) = 1 /\ g.bufs[1] = EmptyBuffer
  BY GetNonfullProperties
<1>3. Reserve(list, len) = IF fits THEN [list |-> g, at |-> i]
                                   ELSE [list |-> CloseAndNext(g, i), at |-> i + 1]
  BY DEF Reserve
<1> HIDE DEF g
<1>4. CASE fits
  <2>1. MayAddLine(g.bufs[i], len)
    BY <1>1, <1>4, EmptyBufferProperties
  <2> QED
    BY <1>1, <1>3, <1>4, <2>1
<1>5. CASE ~fits
  <2> DEFINE c == CloseAndNext(g, i)
  <2>1. /\ Sound(c) /\ Len(c.bufs) = i + 1 /\ c.bufs[i + 1] = EmptyBuffer
        /\ c.nonfull = i + 1 /\ c.bufs[i].size > 0
        /\ \A j \in 1 .. i - 1 : c.bufs[j] = g.bufs[j]
    <3>1. g.bufs[i].size # 0
      BY <1>5, SizesAssumption DEF MayAddLine
    <3>2. /\ Sound(c) /\ Len(c.bufs) = i + 1 /\ c.bufs[i + 1] = EmptyBuffer
          /\ c.nonfull = i + 1 /\ c.bufs[i].size > 0
      BY <1>1, <3>1, CloseAndNextProperties, SMTT(30)
    <3>3. \A j \in 1 .. i - 1 : c.bufs[j] = g.bufs[j]
      BY <1>1, <3>1, CloseAndNextProperties, SMTT(30)
    <3> QED
      BY <3>2, <3>3
  <2>2. i \in Nat \ {0}
    BY <1>1, EmptySeq DEF Sound, List
  <2>3. c.bufs # <<>>
    BY <2>1, <2>2, EmptySeq
  <2> HIDE DEF c
  <2>4. Filled(c)
    BY <1>1, <2>1, <2>2 DEF Filled
  <2> QED
    BY <1>3, <1>5, <2>1, <2>2, <2>3, <2>4, EmptyBufferProperties DEF c
<1> QED
  BY <1>4, <1>5

(* Putting a line that fits into the last buffer keeps the list sound and  *)
(* leaves no unused buffer.                                                *)
LEMMA FillLast ==
    ASSUME NEW list, Sound(list), Filled(list), list.bufs # <<>>,
           NEW c \in Buffer, Fits(c), Proper(c), ~c.full, c.size > 0
    PROVE  LET n == Len(list.bufs)
               r == [bufs |-> [list.bufs EXCEPT ![n] = c], nonfull |-> list.nonfull]
           IN  /\ Sound(r)
               /\ Len(r.bufs) = n
               /\ \A i \in 1 .. n : r.bufs[i].size > 0
<1> DEFINE n == Len(list.bufs)
           s == [list.bufs EXCEPT ![n] = c]
           r == [bufs |-> s, nonfull |-> list.nonfull]
<1>1. list \in List /\ list.nonfull = n
  BY DEF Sound, WellLinked
<1>2. /\ n \in Nat \ {0} /\ s \in Seq(Buffer) /\ Len(s) = n /\ s[n] = c
      /\ \A i \in 1 .. n - 1 : s[i] = list.bufs[i]
  BY <1>1, ReplaceLast
<1> HIDE DEF s
<1>3. r \in List /\ r.bufs = s /\ r.nonfull = n
  BY <1>1, <1>2 DEF List
<1>4. \A i \in 1 .. n :
         /\ s[i].full <=> i < n
         /\ Fits(s[i]) /\ Proper(s[i])
         /\ s[i].size > 0
  <2> SUFFICES ASSUME NEW i \in 1 .. n
               PROVE  /\ s[i].full <=> i < n
                      /\ Fits(s[i]) /\ Proper(s[i])
                      /\ s[i].size > 0
    OBVIOUS
  <2>1. CASE i = n
    BY <2>1, <1>2
  <2>2. CASE i \in 1 .. n - 1
    <3>1. s[i] = list.bufs[i] /\ i \in 1 .. Len(list.bufs) /\ i # n
      BY <2>2, <1>2
    <3>2. list.bufs[i] \in Buffer
      BY <1>1, <3>1 DEF List
    <3> QED
      BY <2>2, <1>2, <3>1, <3>2 DEF Sound, WellLinked, Filled, Buffer
  <2> QED
    BY <1>2, <2>1, <2>2
<1>5. Sound(r)
  BY <1>2, <1>3, <1>4, SMTT(30) DEF Sound, WellLinked
<1> QED
  BY <1>2, <1>3, <1>4, <1>5

(* What both ways of writing put into the reserved buffer.                 *)
LEMMA WrittenBuffer ==
    ASSUME NEW b \in Buffer, NEW l \in Line, MayAddLine(b, LineLen[l]), ~b.full, Counted(b)
    PROVE  LET c == AddLine(b, l) IN
           c \in Buffer /\ Fits(c) /\ Proper(c) /\ ~c.full /\ c.size > 0
<1> DEFINE c == AddLine(b, l)
<1>1. LengthOf(l) = LineLen[l] /\ LineLen[l] \in 1 .. MaxLine /\ l # Exec
  BY SizesAssumption DEF LengthOf
<1>2. /\ c \in Buffer /\ c.size = b.size + LineLen[l] + 1 /\ c.full = b.full
      /\ c.data # <<>> /\ c.data[Len(c.data)] = l
  BY <1>1, AddLineProperties
<1>3. b.size \in Nat
  BY DEF Buffer
<1> HIDE DEF c
<1>4. c.size \in Nat /\ c.size + ExecLen + 1 <= BufSize /\ c.size > 0
  <2>1. LineLen[l] \in Nat /\ ExecLen \in Nat /\ BufSize \in Nat
    BY <1>1, SizesAssumption
  <2>2. BufSize - b.size >= LineLen[l] + 1 + ExecLen + 1
    BY DEF MayAddLine
  <2> QED
    BY <1>2, <1>3, <2>1, <2>2
<1>5. ~c.full
  BY <1>2
<1>6. Fits(c)
  BY <1>4, <1>5, SizesAssumption DEF Fits
<1>7. Proper(c)
  <2>1. Counted(c)
    BY <1>1, AddLineCounted DEF c
  <2> QED
    BY <1>1, <1>2, <1>5, <2>1 DEF Closed, Proper
<1> QED
  BY <1>2, <1>4, <1>5, <1>6, <1>7 DEF c

(* buffer_list_write_line() *)
LEMMA WriteLineProperties ==
    ASSUME NEW list, Sound(list), Filled(list), NEW l \in Line
    PROVE  LET r == WriteLine(list, l) IN
           /\ Sound(r)
           /\ r.bufs # <<>>
           /\ \A i \in 1 .. Len(r.bufs) : r.bufs[i].size > 0
<1> DEFINE r == Reserve(list, LineLen[l])
           n == Len(r.list.bufs)
           c == AddLine(r.list.bufs[n], l)
           w == [bufs |-> [r.list.bufs EXCEPT ![n] = c], nonfull |-> r.list.nonfull]
<1>1. LineLen[l] \in 1 .. MaxLine
  BY SizesAssumption
<1>2. /\ Sound(r.list) /\ Filled(r.list) /\ r.list.bufs # <<>>
      /\ r.at = n /\ r.list.nonfull = n
      /\ MayAddLine(r.list.bufs[n], LineLen[l])
  BY <1>1, ReserveProperties
<1>3. WriteLine(list, l) = w
  BY <1>2 DEF WriteLine
<1> HIDE DEF r
<1>4. /\ n \in Nat \ {0} /\ r.list.bufs[n] \in Buffer /\ ~r.list.bufs[n].full
      /\ Counted(r.list.bufs[n])
  <2>1. r.list.bufs \in Seq(Buffer) /\ n \in Nat \ {0}
    BY <1>2, EmptySeq DEF Sound, List
  <2> QED
    BY <1>2, <2>1 DEF Sound, WellLinked, Proper
<1>5. c \in Buffer /\ Fits(c) /\ Proper(c) /\ ~c.full /\ c.size > 0
  BY <1>2, <1>4, WrittenBuffer
<1> HIDE DEF c
<1>6. Sound(w) /\ Len(w.bufs) = n /\ \A i \in 1 .. n : w.bufs[i].size > 0
  BY <1>2, <1>5, FillLast
<1>7. w.bufs # <<>>
  BY <1>4, <1>6
<1> QED
  BY <1>3, <1>6, <1>7

(* buffer_list_get_write_buffer() and buffer_list_commit_write() together  *)
(* leave the list buffer_list_write_line() would.                          *)
LEMMA WriteCommandProperties ==
    ASSUME NEW list, Sound(list), Filled(list), NEW l \in Line
    PROVE  WriteCommand(list, l) = WriteLine(list, l)
<1> DEFINE r == Reserve(list, LineLen[l])
           n == Len(r.list.bufs)
           s == r.list.bufs
<1>1. LineLen[l] \in 1 .. MaxLine /\ LengthOf(l) = LineLen[l]
  BY SizesAssumption DEF LengthOf
<1>2. /\ Sound(r.list) /\ s # <<>>
      /\ r.at = n /\ r.list.nonfull = n
  BY <1>1, ReserveProperties
<1>3. WriteLine(list, l) = [bufs |-> [s EXCEPT ![n] = AddLine(@, l)], nonfull |-> n]
  BY <1>2 DEF WriteLine
<1>4. WriteCommand(list, l) =
         [bufs |-> AddSize(AddText(s, n, l), n, LineLen[l] + 1), nonfull |-> n]
  BY <1>2 DEF WriteCommand
<1> HIDE DEF r
<1>5. s \in Seq(Buffer) /\ n \in Nat \ {0} /\ s[n] \in Buffer
  <2>1. s \in Seq(Buffer) /\ n \in Nat \ {0}
    BY <1>2, EmptySeq DEF Sound, List
  <2> QED
    BY <2>1
<1>6. AddSize(AddText(s, n, l), n, LineLen[l] + 1) = [s EXCEPT ![n] = AddLine(@, l)]
  <2>1. AddText(s, n, l)[n] = [size |-> s[n].size, full |-> s[n].full,
                               data |-> Append(s[n].data, l)]
    BY <1>5 DEF AddText
  <2>2. s[n].size \in Nat
    <3> HIDE DEF s
    <3> QED
      BY <1>5 DEF Buffer
  <2>3. AddLine(s[n], l) = [size |-> s[n].size + (LineLen[l] + 1), full |-> s[n].full,
                            data |-> Append(s[n].data, l)]
    <3>1. s[n].size + LengthOf(l) + 1 = s[n].size + (LineLen[l] + 1)
      <4> HIDE DEF s, n
      <4> QED
        BY <1>1, <2>2
    <3> QED
      BY <3>1 DEF AddLine
  <2>4. AddSize(AddText(s, n, l), n, LineLen[l] + 1)
          = [AddText(s, n, l) EXCEPT ![n] = AddLine(s[n], l)]
    BY <2>1, <2>3 DEF AddSize
  <2> QED
    BY <1>5, <2>4 DEF AddText
<1> QED
  BY <1>3, <1>4, <1>6

(* buffer_list_grab_first() leaves a sound list without the first buffer,  *)
(* and the taken one is full exactly if buffers are left.                  *)
LEMMA GrabFirstProperties ==
    ASSUME NEW list, Sound(list), list.bufs # <<>>
    PROVE  LET r == GrabFirst(list)
               n == Len(list.bufs)
           IN  /\ n \in Nat \ {0}
               /\ Sound(r)
               /\ Len(r.bufs) = n - 1
               /\ \A i \in 1 .. n - 1 : r.bufs[i] = list.bufs[i + 1]
               /\ list.bufs[1] \in Buffer
               /\ list.bufs[1].full <=> n > 1
               /\ Proper(list.bufs[1])
<1> DEFINE n == Len(list.bufs)
           t == Tail(list.bufs)
           r == [bufs |-> t, nonfull |-> n - 1]
<1>1. list.bufs \in Seq(Buffer) /\ n \in Nat \ {0} /\ list.nonfull = n
  BY EmptySeq DEF Sound, List, WellLinked
<1>2. list.bufs[1] \in Buffer /\ (list.bufs[1].full <=> n > 1) /\ Proper(list.bufs[1])
  BY <1>1 DEF Sound, WellLinked
<1>3. CASE n = 1
  <2>1. GrabFirst(list) = EmptyList
    BY <1>3 DEF GrabFirst, NextOf, NULL
  <2>2. Len(EmptyList.bufs) = 0
    BY EmptyListSound
  <2> QED
    BY <1>1, <1>2, <1>3, <2>1, <2>2, EmptyListSound
<1>4. CASE n > 1
  <2>1. GrabFirst(list) = r
    BY <1>1, <1>4 DEF GrabFirst, NextOf, NULL
  <2>2. /\ t \in Seq(Buffer) /\ Len(t) = n - 1
        /\ \A i \in 1 .. n - 1 : t[i] = list.bufs[i + 1]
    BY <1>1, HeadTailProperties
  <2> HIDE DEF t
  <2>3. r \in List /\ r.bufs = t /\ r.nonfull = n - 1
    BY <1>1, <2>2 DEF List
  <2>4. \A i \in 1 .. n - 1 :
           /\ t[i].full <=> i < n - 1
           /\ Fits(t[i]) /\ Proper(t[i])
    <3> SUFFICES ASSUME NEW i \in 1 .. n - 1
                 PROVE  /\ t[i].full <=> i < n - 1
                        /\ Fits(t[i]) /\ Proper(t[i])
      OBVIOUS
    <3>1. i + 1 \in 1 .. n /\ (i < n - 1 <=> i + 1 < n)
      BY <1>1
    <3> QED
      BY <2>2, <3>1 DEF Sound, WellLinked
  <2>5. Sound(r)
    BY <1>1, <2>2, <2>3, <2>4 DEF Sound, WellLinked
  <2> QED
    BY <1>1, <1>2, <2>1, <2>2, <2>3, <2>5
<1>5. n = 1 \/ n > 1
  <2> HIDE DEF n
  <2> QED
    BY <1>1
<1> QED
  BY <1>3, <1>4, <1>5

(* _init() starts copying into the last buffer, which is unused.           *)
LEMMA ReadyForCopyProperties ==
    ASSUME NEW list, Sound(list), Filled(list)
    PROVE  LET r == ReadyForCopy(list) IN
           Sound(r) /\ Filled(r) /\ r.bufs # <<>> /\ r.bufs[Len(r.bufs)].size = 0
<1> DEFINE g == GetNonfull(list)
           n == Len(g.bufs)
           c == CloseAndNext(g, n)
<1>1. /\ Sound(g) /\ Filled(g) /\ g.bufs # <<>> /\ g.nonfull = n
      /\ list.nonfull # NULL => g = list
      /\ list.nonfull = NULL => Len(g.bufs) = 1 /\ g.bufs[1] = EmptyBuffer
  BY GetNonfullProperties
<1>2. ReadyForCopy(list) = IF g.bufs[n].size # 0 THEN c ELSE g
  BY <1>1 DEF ReadyForCopy
<1> HIDE DEF g
<1>4. n \in Nat \ {0}
  BY <1>1, EmptySeq DEF Sound, List
<1>5. CASE g.bufs[n].size # 0
  <2>1. /\ Sound(c) /\ Len(c.bufs) = n + 1 /\ c.bufs[n].size > 0
        /\ c.bufs[n + 1].size = 0
        /\ \A i \in 1 .. n - 1 : c.bufs[i] = g.bufs[i]
    BY <1>1, <1>5, CloseAndNextProperties, EmptyBufferProperties
  <2> HIDE DEF c
  <2>2. Filled(c) /\ c.bufs # <<>>
    <3>1. \A i \in 1 .. n + 1 : c.bufs[i].size = 0 => i = n + 1
      <4> SUFFICES ASSUME NEW i \in 1 .. n + 1, i # n + 1
                   PROVE  c.bufs[i].size # 0
        OBVIOUS
      <4>1. CASE i = n
        BY <2>1, <4>1
      <4>2. CASE i \in 1 .. n - 1
        BY <1>1, <1>4, <2>1, <4>2 DEF Filled
      <4> QED
        BY <1>4, <4>1, <4>2
    <3>2. c.bufs # <<>>
      BY <1>4, <2>1, EmptySeq
    <3> QED
      BY <2>1, <3>1, <3>2 DEF Filled
  <2>3. ReadyForCopy(list) = c
    BY <1>2, <1>5
  <2>4. c.bufs[Len(c.bufs)].size = 0
    BY <2>1
  <2> QED
    BY <2>1, <2>2, <2>3, <2>4
<1> QED
  BY <1>1, <1>2, <1>5

(* One round of the copy loop that is followed by another one: a full      *)
(* buffer takes the place of the last one, and a new one follows it.       *)
LEMMA CopyFullProperties ==
    ASSUME NEW list, Sound(list), Filled(list), list.bufs # <<>>,
           NEW c \in Buffer, Fits(c), Proper(c), c.full, c.size > 0
    PROVE  LET n == Len(list.bufs)
               r == GetNextFor([bufs |-> [list.bufs EXCEPT ![n] = c],
                                nonfull |-> NextOf(list, n)], n)
           IN  /\ Sound(r)
               /\ Filled(r)
               /\ r.bufs # <<>>
               /\ r.bufs[Len(r.bufs)].size = 0
               /\ r.bufs = Append([list.bufs EXCEPT ![n] = c], EmptyBuffer)
<1> DEFINE n == Len(list.bufs)
           s == [list.bufs EXCEPT ![n] = c]
           closed == [bufs |-> s, nonfull |-> 0]
           r == [bufs |-> Append(s, EmptyBuffer), nonfull |-> n + 1]
<1>1. list \in List
  BY DEF Sound
<1>2. /\ n \in Nat \ {0} /\ s \in Seq(Buffer) /\ Len(s) = n /\ s[n] = c
      /\ \A i \in 1 .. n - 1 : s[i] = list.bufs[i]
  BY <1>1, ReplaceLast
<1>3. NextOf(list, n) = 0 /\ NextOf(closed, n) = 0
  BY <1>1, <1>2 DEF NextOf, NULL
<1>4. GetNextFor([bufs |-> s, nonfull |-> NextOf(list, n)], n) = r
  BY <1>3 DEF GetNextFor, NULL
<1>10. r.bufs = Append([list.bufs EXCEPT ![n] = c], EmptyBuffer)
  BY DEF s
<1> HIDE DEF s
<1>5. /\ r.bufs \in Seq(Buffer) /\ Len(r.bufs) = n + 1
      /\ r.bufs[n + 1] = EmptyBuffer /\ r.bufs[n] = c
      /\ \A i \in 1 .. n - 1 : r.bufs[i] = list.bufs[i]
      /\ r.nonfull = n + 1
  BY <1>1, <1>2, AppendProperties, EmptyBufferProperties
<1>6. r \in List
  BY <1>1, <1>2, <1>5 DEF List
<1> HIDE DEF r
<1>7. \A i \in 1 .. n + 1 :
         /\ r.bufs[i].full <=> i < n + 1
         /\ Fits(r.bufs[i]) /\ Proper(r.bufs[i])
         /\ r.bufs[i].size = 0 => i = n + 1
  <2> SUFFICES ASSUME NEW i \in 1 .. n + 1
               PROVE  /\ r.bufs[i].full <=> i < n + 1
                      /\ Fits(r.bufs[i]) /\ Proper(r.bufs[i])
                      /\ r.bufs[i].size = 0 => i = n + 1
    OBVIOUS
  <2>1. CASE i = n + 1
    BY <2>1, <1>2, <1>5, EmptyBufferProperties
  <2>2. CASE i = n
    BY <2>2, <1>2, <1>5
  <2>3. CASE i \in 1 .. n - 1
    BY <2>3, <1>2, <1>5 DEF Sound, WellLinked, Filled
  <2> QED
    BY <1>2, <2>1, <2>2, <2>3
<1>8. Sound(r)
  BY <1>2, <1>5, <1>6, <1>7 DEF Sound, WellLinked
<1>9. Filled(r) /\ r.bufs # <<>>
  BY <1>2, <1>5, <1>7 DEF Filled
<1> QED
  BY <1>4, <1>5, <1>8, <1>9, <1>10, EmptyBufferProperties DEF s

-----------------------------------------------------------------------------
(* The specification *)

(* The first script run starts with two empty lists.                       *)
LEMMA InitInductive == Init => Inductive
<1> SUFFICES ASSUME Init PROVE Inductive
  OBVIOUS
<1>1. reply \in Seq(Line \cup {Exec})
  BY EmptySeq DEF Init
<1>2. Len(buffers.bufs) = 0 /\ Len(init_cfg.bufs) = 0
  BY EmptyListSound, EmptySeq DEF Init
<1> QED
  BY <1>1, <1>2, EmptyListSound, SMTT(30) DEF Init, Inductive, TypeOK, EmptyOnlyInUse, NULL

(* Outside of a copy the last buffer is unused only if it is the fake one. *)
LEMMA InductiveFilled ==
    Inductive => Filled(buffers) /\ Filled(init_cfg)
BY DEF Inductive, EmptyOnlyInUse, Filled, TypeOK, List, Buffer

(* Every operation keeps the invariant.                                    *)
LEMMA NextInductive == Inductive /\ [Next]_vars => Inductive'
<1> SUFFICES ASSUME Inductive, [Next]_vars
             PROVE  Inductive'
  OBVIOUS
<1>0. /\ TypeOK /\ Sound(buffers) /\ Sound(init_cfg) /\ EmptyOnlyInUse
      /\ Filled(buffers) /\ Filled(init_cfg)
      /\ holder = "read" => buffers.bufs # <<>>
      /\ copying <= Len(init_cfg.bufs)
      /\ copying # NULL => holder \in {"read", "call"} /\ buffers.bufs # <<>>
  BY InductiveFilled DEF Inductive
<1>1. CASE ReadBegin
  <2>1. CASE buffers.bufs = <<>>
    <3>1. /\ Sound(buffers') /\ Len(buffers'.bufs) = 1
      BY <1>1, <2>1, SingletonSound DEF ReadBegin
    <3>2. buffers'.bufs # <<>>
      BY <3>1, EmptySeq
    <3>3. EmptyOnlyInUse'
      BY <1>0, <1>1, <3>1 DEF ReadBegin, EmptyOnlyInUse
    <3> QED
      BY <1>0, <1>1, <3>1, <3>2, <3>3 DEF ReadBegin, Inductive, TypeOK, Sound
  <2>2. CASE buffers.bufs # <<>>
    <3>1. buffers' = buffers
      BY <1>1, <2>2 DEF ReadBegin
    <3>2. EmptyOnlyInUse'
      BY <1>0, <1>1, <3>1 DEF ReadBegin, EmptyOnlyInUse
    <3> QED
      BY <1>0, <1>1, <2>2, <3>1, <3>2 DEF ReadBegin, Inductive, TypeOK
  <2> QED
    BY <2>1, <2>2
<1>2. CASE ReadEnd
  <2> DEFINE n == Len(buffers.bufs)
  <2>1. /\ n \in Nat \ {0} /\ Sound(buffers') /\ Len(buffers'.bufs) = n - 1
        /\ \A i \in 1 .. n - 1 : buffers'.bufs[i] = buffers.bufs[i + 1]
        /\ buffers.bufs[1] \in Buffer
    BY <1>0, <1>2, GrabFirstProperties DEF ReadEnd
  <2>2. reply' \in Seq(Line \cup {Exec})
    BY <1>2, <2>1 DEF ReadEnd, Buffer
  <2>3. EmptyOnlyInUse'
    <3> HIDE DEF n
    <3>1. n = Len(buffers.bufs)
      BY DEF n
    <3>2. ASSUME NEW i \in 1 .. n - 1, buffers'.bufs[i].size = 0
          PROVE  FALSE
      <4>1. i + 1 \in 1 .. n /\ i + 1 # 1 /\ buffers.bufs[i + 1].size = 0
        BY <2>1, <3>2
      <4> QED
        BY <1>0, <1>2, <3>1, <4>1 DEF EmptyOnlyInUse, ReadEnd
    <3> QED
      BY <1>0, <1>2, <2>1, <3>2 DEF EmptyOnlyInUse, ReadEnd
  <2> QED
    BY <1>0, <1>2, <2>1, <2>2, <2>3 DEF ReadEnd, Inductive, TypeOK, Sound, NULL
<1>3. CASE CallBegin
  <2>1. EmptyOnlyInUse'
    BY <1>0, <1>3 DEF CallBegin, EmptyOnlyInUse
  <2> QED
    BY <1>0, <1>3, <2>1 DEF CallBegin, Inductive, TypeOK
<1>4. CASE CallEnd
  <2>1. EmptyOnlyInUse'
    BY <1>0, <1>4 DEF CallEnd, EmptyOnlyInUse
  <2> QED
    BY <1>0, <1>4, <2>1 DEF CallEnd, Inductive, TypeOK
<1>5. ASSUME NEW l \in Line, Cfg(l) \/ Cmd(l)
      PROVE  Inductive'
  <2>1. /\ buffers' = WriteLine(buffers, l) /\ holder # "free" /\ copying = NULL
        /\ UNCHANGED <<init_cfg, holder, copying, reply>>
    BY <1>0, <1>5, WriteCommandProperties DEF Cfg, Cmd
  <2>2. /\ Sound(buffers') /\ buffers'.bufs # <<>>
        /\ \A i \in 1 .. Len(buffers'.bufs) : buffers'.bufs[i].size > 0
    BY <1>0, <2>1, WriteLineProperties
  <2>3. EmptyOnlyInUse'
    BY <1>0, <2>1, <2>2 DEF EmptyOnlyInUse
  <2> QED
    BY <1>0, <2>1, <2>2, <2>3 DEF Inductive, TypeOK, Sound
<1>6. CASE CopyBegin
  <2>1. Sound(buffers') /\ Filled(buffers') /\ buffers'.bufs # <<>>
    BY <1>0, <1>6, ReadyForCopyProperties DEF CopyBegin
  <2>2. Len(init_cfg.bufs) \in Nat \ {0}
    BY <1>0, <1>6, EmptySeq DEF CopyBegin, IsEmpty, TypeOK, List
  <2>3. EmptyOnlyInUse'
    BY <1>0, <1>6, <2>1 DEF CopyBegin, EmptyOnlyInUse, Filled, NULL
  <2> QED
    BY <1>0, <1>6, <2>1, <2>2, <2>3 DEF CopyBegin, Inductive, TypeOK, Sound, NULL
<1>7. CASE CopyOne
  <2> DEFINE n == Len(buffers.bufs)
             m == Len(init_cfg.bufs)
             src == init_cfg.bufs[copying]
             next == NextOf(init_cfg, copying)
  <2>1. /\ copying \in 1 .. m /\ m \in Nat /\ src \in Buffer /\ Fits(src) /\ Proper(src)
        /\ src.full <=> copying < m
        /\ src.size > 0
    BY <1>0, <1>7 DEF CopyOne, TypeOK, List, Sound, WellLinked, EmptyOnlyInUse, NULL
  <2>2. next = IF copying < m THEN copying + 1 ELSE 0
    BY DEF NextOf, NULL
  <2>3. copying < m => init_cfg.bufs[copying + 1].size # 0
    <3>1. copying < m => copying + 1 \in 1 .. m
      BY <2>1
    <3>2. \A i \in 1 .. m : init_cfg.bufs[i].size # 0
      BY <1>0 DEF EmptyOnlyInUse
    <3> QED
      BY <3>1, <3>2
  <2>4. holder \in {"read", "call"} /\ buffers.bufs # <<>>
    BY <1>0, <1>7 DEF CopyOne
  <2>5. UNCHANGED <<init_cfg, holder, reply>>
    BY <1>7 DEF CopyOne
  <2>6. CASE copying < m
    <3>1. next = copying + 1 /\ next # NULL /\ init_cfg.bufs[next].size # 0
      BY <2>1, <2>2, <2>3, <2>6 DEF NULL
    <3>2. /\ buffers' = GetNextFor([bufs |-> [buffers.bufs EXCEPT ![n] = src],
                                    nonfull |-> NextOf(buffers, n)], n)
          /\ copying' = copying + 1
      BY <1>7, <3>1 DEF CopyOne
    <3>3. Sound(buffers') /\ Filled(buffers') /\ buffers'.bufs # <<>>
      BY <1>0, <2>1, <2>4, <2>6, <3>2, CopyFullProperties
    <3>4. copying' \in Nat /\ copying' # NULL /\ copying' <= m
      BY <2>1, <2>6, <3>2 DEF NULL
    <3>5. EmptyOnlyInUse'
      BY <1>0, <2>5, <3>3, <3>4 DEF EmptyOnlyInUse, Filled
    <3> QED
      BY <1>0, <2>4, <2>5, <3>3, <3>4, <3>5 DEF Inductive, TypeOK, Sound
  <2>7. CASE ~(copying < m)
    <3>1. next = NULL
      BY <2>2, <2>7 DEF NULL
    <3>2. /\ buffers' = [bufs |-> [buffers.bufs EXCEPT ![n] = src],
                         nonfull |-> buffers.nonfull]
          /\ copying' = NULL
      BY <1>7, <3>1 DEF CopyOne
    <3>3. /\ Sound(buffers') /\ Len(buffers'.bufs) = n
          /\ \A i \in 1 .. n : buffers'.bufs[i].size > 0
      BY <1>0, <2>1, <2>4, <2>7, <3>2, FillLast
    <3>4. buffers'.bufs # <<>>
      BY <1>0, <2>4, <3>3, EmptySeq DEF TypeOK, List
    <3>5. EmptyOnlyInUse'
      BY <1>0, <2>5, <3>2, <3>3 DEF EmptyOnlyInUse
    <3> QED
      BY <1>0, <2>4, <2>5, <3>2, <3>3, <3>4, <3>5 DEF Inductive, TypeOK, Sound, NULL
  <2> QED
    BY <2>6, <2>7
<1>8. CASE LoadBegin
  <2>1. Len(EmptyList.bufs) = 0
    BY EmptyListSound, EmptySeq
  <2>2. copying' = NULL
    BY <1>0, <1>8 DEF LoadBegin
  <2> QED
    BY <1>0, <1>8, <2>1, <2>2, EmptyListSound
       DEF LoadBegin, Inductive, TypeOK, EmptyOnlyInUse, NULL
<1>9. CASE LoadEnd
  <2>1. copying = NULL
    BY <1>0, <1>9 DEF LoadEnd
  <2>2. \A i \in 1 .. Len(buffers.bufs) : buffers.bufs[i].size > 0
    <3> SUFFICES ASSUME NEW i \in 1 .. Len(buffers.bufs)
                 PROVE  buffers.bufs[i].size > 0
      OBVIOUS
    <3>1. buffers.bufs[i].size \in Nat
      <4>1. buffers.bufs[i] \in Buffer
        BY <1>0 DEF TypeOK, List
      <4> QED
        BY <4>1 DEF Buffer
    <3>2. buffers.bufs[i].size # 0
      BY <1>0, <1>9, <2>1 DEF LoadEnd, EmptyOnlyInUse
    <3> QED
      BY <3>1, <3>2
  <2>3. EmptyOnlyInUse'
    BY <1>0, <1>9, <2>2 DEF LoadEnd, EmptyOnlyInUse
  <2> QED
    BY <1>0, <1>9, <2>1, <2>3 DEF LoadEnd, Inductive, TypeOK, Sound, List, NULL
<1>10. CASE UNCHANGED vars
  BY <1>0, <1>10 DEF vars, Inductive, TypeOK, EmptyOnlyInUse
<1> QED
  BY <1>1, <1>2, <1>3, <1>4, <1>5, <1>6, <1>7, <1>8, <1>9, <1>10 DEF Next

(* For every line set, line lengths and buffer size that the static        *)
(* assertion allows, the strengthened invariant holds.                     *)
THEOREM SpecInductive == Spec => []Inductive
BY InitInductive, NextInductive, PTL DEF Spec

(* The variables always have their types. *)
THEOREM SpecTypeOK == Spec => []TypeOK
<1>1. Inductive => TypeOK
  BY DEF Inductive
<1> QED
  BY <1>1, SpecInductive, PTL

(* The debug assertions of buffer_list.c about full, nonfull, first, last  *)
(* and next never fail.                                                    *)
THEOREM SpecListShape == Spec => []ListShape
<1>1. Inductive => ListShape
  BY DEF Inductive, Sound, ListShape
<1> QED
  BY <1>1, SpecInductive, PTL

(* No buffer overflows, its closing line included. *)
THEOREM SpecCapacity == Spec => []Capacity
<1>1. Inductive => Capacity
  BY DEF Inductive, Sound, Capacity
<1> QED
  BY <1>1, SpecInductive, PTL

(* The size of a buffer is always the number of its bytes, whatever way    *)
(* its commands were written in (buffer_add_line(), commit_write()).       *)
THEOREM SpecSizeIsBytes == Spec => []SizeIsBytes
<1>1. Inductive => SizeIsBytes
  BY DEF Inductive, Sound, Proper, Counted, SizeIsBytes
<1> QED
  BY <1>1, SpecInductive, PTL

(* The note in buffer_list_is_empty() is true. *)
THEOREM SpecEmptyOnlyInUse == Spec => []EmptyOnlyInUse
<1>1. Inductive => EmptyOnlyInUse
  BY DEF Inductive
<1> QED
  BY <1>1, SpecInductive, PTL

(* A reply ends with the closing line exactly if commands are left behind. *)
THEOREM SpecChainUnbroken == Spec => ChainUnbroken
<1>1. ASSUME Inductive, Next, holder = "read", holder' = "free"
      PROVE  (reply' # <<>> /\ Last(reply') = Exec) <=> ~IsEmpty(buffers')
  <2>1. ReadEnd
    BY <1>1 DEF Next, ReadBegin, CallBegin, CallEnd, Cfg, Cmd, CopyBegin, CopyOne,
                LoadBegin, LoadEnd
  <2> DEFINE n == Len(buffers.bufs)
  <2>2. Sound(buffers) /\ buffers.bufs # <<>> /\ copying = NULL /\ EmptyOnlyInUse
    BY <1>1, <2>1 DEF Inductive, ReadEnd
  <2>3. /\ n \in Nat \ {0} /\ Sound(buffers') /\ Len(buffers'.bufs) = n - 1
        /\ \A i \in 1 .. n - 1 : buffers'.bufs[i] = buffers.bufs[i + 1]
        /\ buffers.bufs[1].full <=> n > 1
        /\ Proper(buffers.bufs[1])
    BY <2>1, <2>2, GrabFirstProperties DEF ReadEnd
  <2>4. (reply' # <<>> /\ Last(reply') = Exec) <=> n > 1
    BY <2>1, <2>3 DEF ReadEnd, Closed, Proper, Last
  <2>5. n > 1 => buffers.bufs[2].size # 0
    BY <2>2, <2>3 DEF EmptyOnlyInUse
  <2>6. ~IsEmpty(buffers') <=> n > 1
    <3>1. buffers'.bufs \in Seq(Buffer)
      BY <2>3 DEF Sound, List
    <3>2. buffers'.bufs = <<>> <=> n - 1 = 0
      BY <2>3, <3>1, EmptySeq
    <3>3. n > 1 => buffers'.bufs[1] = buffers.bufs[2]
      BY <2>3
    <3> QED
      BY <2>3, <2>5, <3>2, <3>3 DEF IsEmpty
  <2> QED
    BY <2>4, <2>6
<1>2. Inductive /\ [Next]_vars =>
         [holder = "read" /\ holder' = "free" =>
            ((reply' # <<>> /\ Last(reply') = Exec) <=> ~IsEmpty(buffers'))]_vars
  BY <1>1
<1> QED
  BY <1>2, SpecInductive, PTL DEF Spec, ChainUnbroken

-----------------------------------------------------------------------------
(* The queue the buffers hold *)

(* Among some lines, only those that are not the closing line count.       *)
LEMMA CommandsOfProperties ==
    /\ CommandsOf(<<>>) = <<>>
    /\ \A data \in Seq(Line \cup {Exec}) : CommandsOf(data) \in Seq(Line)
    /\ \A data \in Seq(Line \cup {Exec}) : CommandsOf(Append(data, Exec)) = CommandsOf(data)
    /\ \A data \in Seq(Line \cup {Exec}), l \in Line :
          CommandsOf(Append(data, l)) = Append(CommandsOf(data), l)
<1> DEFINE X == Line \cup {Exec}
<1>1. \A cmds \in Seq(Line), l \in X :
          /\ AddCommand[cmds][l] = IF l = Exec THEN cmds ELSE Append(cmds, l)
          /\ AddCommand[cmds][l] \in Seq(Line)
  <2> SUFFICES ASSUME NEW cmds \in Seq(Line), NEW l \in X
               PROVE  /\ AddCommand[cmds][l] = IF l = Exec THEN cmds ELSE Append(cmds, l)
                      /\ AddCommand[cmds][l] \in Seq(Line)
    OBVIOUS
  <2>1. AddCommand[cmds][l] = IF l = Exec THEN cmds ELSE Append(cmds, l)
    BY DEF AddCommand
  <2>2. l # Exec => Append(cmds, l) \in Seq(Line)
    BY AppendProperties
  <2> QED
    BY <2>1, <2>2
<1>2. <<>> \in Seq(Line)
  BY EmptySeq
<1>3. ASSUME NEW data \in Seq(X)
      PROVE  CommandsOf(data) \in Seq(Line)
  <2>1. \A a \in Seq(Line) : \A i \in 1 .. Len(data) : AddCommand[a][data[i]] \in Seq(Line)
    BY <1>1, ElementOfSeq
  <2> QED
    BY <1>2, <2>1, FoldInvariant DEF CommandsOf
<1>4. ASSUME NEW data \in Seq(X), NEW l \in X
      PROVE  CommandsOf(Append(data, l)) = AddCommand[CommandsOf(data)][l]
  <2> HIDE DEF X
  <2> QED
    BY FoldAppend DEF CommandsOf
<1>5. CommandsOf(<<>>) = <<>>
  BY FoldEmpty DEF CommandsOf
<1>6. ASSUME NEW data \in Seq(X)
      PROVE  CommandsOf(Append(data, Exec)) = CommandsOf(data)
  BY <1>1, <1>3, <1>4
<1>7. ASSUME NEW data \in Seq(X), NEW l \in Line
      PROVE  CommandsOf(Append(data, l)) = Append(CommandsOf(data), l)
  BY <1>1, <1>3, <1>4, SizesAssumption
<1> QED
  BY <1>3, <1>5, <1>6, <1>7

(* The commands of a list are those of its buffers, one after the other.   *)
LEMMA CommandsProperties ==
    /\ Commands(<<>>) = <<>>
    /\ \A bufs \in Seq(Buffer) : Commands(bufs) \in Seq(Line)
    /\ \A bufs \in Seq(Buffer), b \in Buffer :
          Commands(Append(bufs, b)) = Commands(bufs) \o CommandsOf(b.data)
    /\ \A b \in Buffer : Commands(<<b>>) = CommandsOf(b.data)
    /\ \A a, b \in Seq(Buffer) : Commands(a \o b) = Commands(a) \o Commands(b)
<1>1. \A b \in Buffer : CommandsOf(b.data) \in Seq(Line)
  BY CommandsOfProperties DEF Buffer
<1>2. \A cmds \in Seq(Line), b \in Buffer : AddCommands[cmds][b] = cmds \o CommandsOf(b.data)
  BY DEF AddCommands
<1>3. Appends(AddCommands, Buffer, Line)
  <2>1. \A a \in Seq(Line), b \in Buffer : AddCommands[a][b] \in Seq(Line)
    BY <1>1, <1>2, ConcatProperties
  <2>2. ASSUME NEW a \in Seq(Line), NEW c \in Seq(Line), NEW b \in Buffer
        PROVE  AddCommands[a \o c][b] = a \o AddCommands[c][b]
    <3> DEFINE d == CommandsOf(b.data)
    <3>1. d \in Seq(Line) /\ a \o c \in Seq(Line)
      BY <1>1, ConcatProperties
    <3>2. AddCommands[a \o c][b] = (a \o c) \o d
      BY <1>2, <3>1
    <3>3. AddCommands[c][b] = c \o d
      BY <1>2
    <3> HIDE DEF d
    <3>4. (a \o c) \o d = a \o (c \o d)
      BY <3>1, ConcatAssociative
    <3> QED
      BY <3>2, <3>3, <3>4
  <2> QED
    BY <2>1, <2>2 DEF Appends
<1>4. Commands(<<>>) = <<>>
  BY FoldEmpty DEF Commands
<1>5. ASSUME NEW bufs \in Seq(Buffer)
      PROVE  Commands(bufs) \in Seq(Line)
  <2>1. Fold(AddCommands, <<>>, bufs) \in Seq(Line)
    BY <1>3, FoldIsSeq
  <2> QED
    BY <2>1 DEF Commands
<1>6. ASSUME NEW bufs \in Seq(Buffer), NEW b \in Buffer
      PROVE  Commands(Append(bufs, b)) = Commands(bufs) \o CommandsOf(b.data)
  <2>1. Commands(Append(bufs, b)) = AddCommands[Commands(bufs)][b]
    BY FoldAppend DEF Commands
  <2> QED
    BY <1>2, <1>5, <2>1
<1>7. ASSUME NEW b \in Buffer
      PROVE  Commands(<<b>>) = CommandsOf(b.data)
  <2>1. Commands(<<b>>) = AddCommands[<<>>][b]
    BY FoldOne DEF Commands
  <2>2. <<>> \in Seq(Line)
    BY EmptySeq
  <2>3. <<>> \o CommandsOf(b.data) = CommandsOf(b.data)
    BY <1>1, ConcatEmptySeq
  <2> QED
    BY <1>2, <2>1, <2>2, <2>3
<1>8. ASSUME NEW a \in Seq(Buffer), NEW b \in Seq(Buffer)
      PROVE  Commands(a \o b) = Commands(a) \o Commands(b)
  BY <1>3, FoldConcat DEF Commands
<1> QED
  BY <1>4, <1>5, <1>6, <1>7, <1>8

(* Only the last buffer of a list is ever changed: what the others hold    *)
(* stays in front of it.                                                   *)
LEMMA CommandsOfLast ==
    ASSUME NEW bufs \in Seq(Buffer), bufs # <<>>
    PROVE  \E front \in Seq(Line) :
              /\ Commands(bufs) = front \o CommandsOf(bufs[Len(bufs)].data)
              /\ \A c \in Buffer :
                    Commands([bufs EXCEPT ![Len(bufs)] = c]) = front \o CommandsOf(c.data)
<1>1. PICK s \in Seq(Buffer), e \in Buffer : bufs = Append(s, e)
  BY SequenceEmptyOrAppend
<1> DEFINE n == Len(s)
<1>2. /\ n \in Nat /\ Len(bufs) = n + 1 /\ bufs[n + 1] = e
      /\ \A i \in 1 .. n : bufs[i] = s[i]
  BY <1>1, AppendProperties, LenProperties
<1>3. Commands(bufs) = Commands(s) \o CommandsOf(e.data)
  BY <1>1, CommandsProperties
<1>4. ASSUME NEW c \in Buffer
      PROVE  [bufs EXCEPT ![n + 1] = c] = Append(s, c)
  <2> DEFINE t == [bufs EXCEPT ![n + 1] = c]
             u == Append(s, c)
  <2>1. bufs = [i \in 1 .. n + 1 |-> bufs[i]]
    BY <1>2, LenProperties
  <2>2. /\ t \in Seq(Buffer) /\ Len(t) = n + 1 /\ t[n + 1] = c
        /\ \A i \in 1 .. n : t[i] = bufs[i]
    BY <1>2, ExceptSeq
  <2>3. /\ u \in Seq(Buffer) /\ Len(u) = n + 1 /\ u[n + 1] = c
        /\ \A i \in 1 .. n : u[i] = s[i]
    BY <1>2, AppendProperties
  <2>4. \A i \in 1 .. n + 1 : t[i] = u[i]
    BY <1>2, <2>2, <2>3
  <2> HIDE DEF t, u
  <2>5. t = u
    BY <2>2, <2>3, <2>4, SeqEqual
  <2> QED
    BY <2>5 DEF t, u
<1>5. ASSUME NEW c \in Buffer
      PROVE  Commands([bufs EXCEPT ![n + 1] = c]) = Commands(s) \o CommandsOf(c.data)
  BY <1>4, CommandsProperties
<1>6. Commands(s) \in Seq(Line)
  BY CommandsProperties
<1> QED
  BY <1>2, <1>3, <1>5, <1>6

(* A buffer in use holds a command.                                        *)
LEMMA UsedHasCommands ==
    ASSUME NEW b \in Buffer, Counted(b), b.size # 0
    PROVE  CommandsOf(b.data) # <<>>
<1> DEFINE X == Line \cup {Exec}
           s == b.data
           n == Len(s)
<1>1. s \in Seq(X) /\ s # <<>>
  BY CountedSize DEF Buffer
<1>2. s[1] # Exec
  BY <1>1 DEF Counted
<1> HIDE DEF s
<1>3. n \in Nat \ {0} /\ 1 \in 1 .. n /\ n \in 1 .. n
  BY <1>1, EmptySeq
<1>4. s[1] \in Line
  BY <1>1, <1>2, <1>3, ElementOfSeq
<1>5. Appends(AddCommand, X, Line)
  <2>1. \A a \in Seq(Line), l \in X :
            AddCommand[a][l] = IF l = Exec THEN a ELSE Append(a, l)
    BY DEF AddCommand
  <2>2. \A a \in Seq(Line), l \in X : AddCommand[a][l] \in Seq(Line)
    <3> SUFFICES ASSUME NEW a \in Seq(Line), NEW l \in X PROVE AddCommand[a][l] \in Seq(Line)
      OBVIOUS
    <3>1. l # Exec => Append(a, l) \in Seq(Line)
      BY AppendProperties
    <3> QED
      BY <2>1, <3>1
  <2>3. ASSUME NEW a \in Seq(Line), NEW c \in Seq(Line), NEW l \in X
        PROVE  AddCommand[a \o c][l] = a \o AddCommand[c][l]
    <3>1. a \o c \in Seq(Line)
      BY ConcatProperties
    <3>2. CASE l = Exec
      BY <2>1, <3>1, <3>2
    <3>3. CASE l # Exec
      <4>1. l \in Line /\ <<l>> \in Seq(Line)
        BY <3>3
      <4>2. Append(a \o c, l) = (a \o c) \o <<l>>
        BY <3>1, <4>1, AppendIsConcat
      <4>3. Append(c, l) = c \o <<l>>
        BY <4>1, AppendIsConcat
      <4>4. (a \o c) \o <<l>> = a \o (c \o <<l>>)
        BY <4>1, ConcatAssociative
      <4> QED
        BY <2>1, <3>1, <3>3, <4>2, <4>3, <4>4
    <3> QED
      BY <3>2, <3>3
  <2> QED
    BY <2>2, <2>3 DEF Appends
<1> DEFINE rest == SubSeq(s, 2, n)
<1>6. s = <<s[1]>> \o rest
  <2>1. SubSeq(s, 1, n) = s
    BY <1>1, SubSeqFull
  <2>2. SubSeq(s, 1, n) = <<s[1]>> \o SubSeq(s, 1 + 1, n)
    BY <1>1, <1>3, SubSeqRecursiveFirst
  <2> QED
    BY <2>1, <2>2
<1>7. rest \in Seq(X)
  <2>1. \A i \in 2 .. n : s[i] \in X
    BY <1>1, <1>3, ElementOfSeq
  <2> HIDE DEF X
  <2>2. 2 \in Int /\ n \in Int
    BY <1>3
  <2> QED
    BY <2>1, <2>2, SubSeqProperties
<1> HIDE DEF rest
<1>8. <<s[1]>> \in Seq(X) /\ s[1] \in X
  BY <1>4
<1>9. Fold(AddCommand, <<>>, <<s[1]>> \o rest)
      = Fold(AddCommand, <<>>, <<s[1]>>) \o Fold(AddCommand, <<>>, rest)
  <2> DEFINE one == <<s[1]>>
  <2>1. one \in Seq(X)
    BY <1>8
  <2> HIDE DEF X, one
  <2>2. Fold(AddCommand, <<>>, one \o rest)
        = Fold(AddCommand, <<>>, one) \o Fold(AddCommand, <<>>, rest)
    BY <1>5, <1>7, <2>1, FoldConcat
  <2> QED
    BY <2>2 DEF one
<1>10. Fold(AddCommand, <<>>, <<s[1]>>) = <<s[1]>>
  <2>1. Fold(AddCommand, <<>>, <<s[1]>>) = AddCommand[<<>>][s[1]]
    BY <1>8, FoldOne
  <2>2. AddCommand[<<>>][s[1]] = Append(<<>>, s[1])
    BY <1>2, <1>8, EmptySeq DEF AddCommand
  <2> QED
    BY <2>1, <2>2
<1>11. Fold(AddCommand, <<>>, rest) \in Seq(Line)
  <2> HIDE DEF X
  <2> QED
    BY <1>5, <1>7, FoldIsSeq
<1>12. Len(<<s[1]>> \o Fold(AddCommand, <<>>, rest)) # 0
  <2> DEFINE r == Fold(AddCommand, <<>>, rest)
             one == <<s[1]>>
  <2>1. r \in Seq(Line) /\ one \in Seq(Line) /\ Len(one) = 1
    BY <1>4, <1>11
  <2> HIDE DEF r, one
  <2>2. Len(one \o r) = Len(one) + Len(r) /\ Len(r) \in Nat
    BY <2>1, ConcatProperties, LenProperties
  <2>3. Len(one \o r) # 0
    BY <2>1, <2>2
  <2> QED
    BY <2>3 DEF r, one
<1>13. CommandsOf(s) = <<s[1]>> \o Fold(AddCommand, <<>>, rest)
  BY <1>6, <1>9, <1>10 DEF CommandsOf
<1>14. CommandsOf(s) # <<>>
  BY <1>12, <1>13, EmptySeq
<1> QED
  BY <1>14 DEF s

(* What the operations on a buffer do to its commands                      *)
LEMMA BufferCommands ==
    /\ CommandsOf(EmptyBuffer.data) = <<>>
    /\ \A b \in Buffer, l \in Line :
          CommandsOf(AddLine(b, l).data) = Append(CommandsOf(b.data), l)
    /\ \A b \in Buffer : CommandsOf(MakeFull(b).data) = CommandsOf(b.data)
<1>1. CommandsOf(EmptyBuffer.data) = <<>>
  BY CommandsOfProperties DEF EmptyBuffer
<1>2. ASSUME NEW b \in Buffer, NEW l \in Line
      PROVE  CommandsOf(AddLine(b, l).data) = Append(CommandsOf(b.data), l)
  <2>1. AddLine(b, l).data = Append(b.data, l) /\ b.data \in Seq(Line \cup {Exec})
    BY DEF AddLine, Buffer
  <2> QED
    BY <2>1, CommandsOfProperties
<1>3. ASSUME NEW b \in Buffer
      PROVE  CommandsOf(MakeFull(b).data) = CommandsOf(b.data)
  <2>1. MakeFull(b).data = Append(b.data, Exec) /\ b.data \in Seq(Line \cup {Exec})
    BY DEF MakeFull, AddLine, Buffer
  <2> QED
    BY <2>1, CommandsOfProperties
<1> QED
  BY <1>1, <1>2, <1>3

(* An unused buffer at the end changes nothing.                            *)
LEMMA EmptyAtEnd ==
    ASSUME NEW bufs \in Seq(Buffer)
    PROVE  Commands(Append(bufs, EmptyBuffer)) = Commands(bufs)
<1>1. Commands(Append(bufs, EmptyBuffer)) = Commands(bufs) \o CommandsOf(EmptyBuffer.data)
  BY CommandsProperties, EmptyBufferProperties
<1>2. Commands(bufs) \in Seq(Line)
  BY CommandsProperties
<1> HIDE DEF Commands
<1>3. Commands(bufs) \o <<>> = Commands(bufs)
  BY <1>2, ConcatEmptySeq
<1> QED
  BY <1>1, <1>3, BufferCommands

(* Closing a buffer and going on with a new one keeps the queue.           *)
LEMMA CloseAndNextCommands ==
    ASSUME NEW list, Sound(list), list.bufs # <<>>, list.bufs[Len(list.bufs)].size # 0
    PROVE  Commands(CloseAndNext(list, Len(list.bufs)).bufs) = Commands(list.bufs)
<1> DEFINE n == Len(list.bufs)
           c == MakeFull(list.bufs[n])
           s == [list.bufs EXCEPT ![n] = c]
<1>1. list.bufs \in Seq(Buffer) /\ n \in Nat \ {0} /\ n \in 1 .. n
  BY EmptySeq DEF Sound, List
<1>2. list.bufs[n] \in Buffer
  BY <1>1, ElementOfSeq
<1>3. c \in Buffer
  BY <1>1, <1>2, MakeFullProperties DEF Sound, WellLinked, Proper
<1>4. s \in Seq(Buffer)
  BY <1>1, <1>3, ExceptSeq
<1>5. CloseAndNext(list, n).bufs = Append(s, EmptyBuffer)
  BY CloseAndNextProperties
<1>6. CommandsOf(c.data) = CommandsOf(list.bufs[n].data)
  BY <1>2, BufferCommands
<1> HIDE DEF c
<1>7. Commands(s) = Commands(list.bufs)
  BY <1>1, <1>3, <1>6, CommandsOfLast
<1> HIDE DEF s
<1>8. Commands(Append(s, EmptyBuffer)) = Commands(s)
  BY <1>4, EmptyAtEnd
<1> QED
  BY <1>5, <1>7, <1>8

(* The first buffer of an empty list holds nothing.                        *)
LEMMA GetNonfullCommands ==
    ASSUME NEW list, Sound(list)
    PROVE  Commands(GetNonfull(list).bufs) = Commands(list.bufs)
<1>1. CASE list.nonfull # NULL
  BY <1>1, GetNonfullProperties
<1>2. CASE list.nonfull = NULL
  <2>1. list.bufs \in Seq(Buffer) /\ Len(list.bufs) = 0
    BY <1>2 DEF Sound, List, WellLinked, NULL
  <2>2. list.bufs = <<>>
    BY <2>1, EmptySeq
  <2>3. GetNonfull(list).bufs = <<EmptyBuffer>>
    BY <1>2 DEF GetNonfull
  <2>4. Commands(<<EmptyBuffer>>) = <<>>
    BY CommandsProperties, BufferCommands, EmptyBufferProperties
  <2> QED
    BY <2>2, <2>3, <2>4, CommandsProperties
<1> QED
  BY <1>1, <1>2

(* Making room for a line keeps the queue.                                 *)
LEMMA ReserveCommands ==
    ASSUME NEW list, Sound(list), Filled(list), NEW len \in 1 .. MaxLine
    PROVE  Commands(Reserve(list, len).list.bufs) = Commands(list.bufs)
<1> DEFINE g == GetNonfull(list)
           i == g.nonfull
           fits == list.nonfull = NULL \/ MayAddLine(g.bufs[i], len)
<1>1. /\ Sound(g) /\ g.bufs # <<>> /\ i = Len(g.bufs)
      /\ list.nonfull # NULL => g = list
  BY GetNonfullProperties
<1>2. Reserve(list, len).list = IF fits THEN g ELSE CloseAndNext(g, i)
  BY DEF Reserve
<1>3. Commands(g.bufs) = Commands(list.bufs)
  BY GetNonfullCommands
<1>4. ~fits => g.bufs[i].size # 0
  BY <1>1, SizesAssumption DEF MayAddLine
<1> HIDE DEF g
<1>5. ~fits => Commands(CloseAndNext(g, i).bufs) = Commands(g.bufs)
  BY <1>1, <1>4, CloseAndNextCommands
<1> QED
  BY <1>2, <1>3, <1>5

(* A line written to the buffers is a command put behind the others.       *)
LEMMA WriteLineCommands ==
    ASSUME NEW list, Sound(list), Filled(list), NEW l \in Line
    PROVE  Commands(WriteLine(list, l).bufs) = Append(Commands(list.bufs), l)
<1> DEFINE r == Reserve(list, LineLen[l])
           n == Len(r.list.bufs)
           b == r.list.bufs[n]
           c == AddLine(b, l)
           s == [r.list.bufs EXCEPT ![n] = c]
<1>1. LineLen[l] \in 1 .. MaxLine
  BY SizesAssumption
<1>2. Sound(r.list) /\ r.list.bufs # <<>> /\ r.at = n
  BY <1>1, ReserveProperties
<1>3. WriteLine(list, l).bufs = s
  BY <1>2 DEF WriteLine
<1>4. Commands(r.list.bufs) = Commands(list.bufs)
  BY <1>1, ReserveCommands
<1> HIDE DEF r
<1>5. r.list.bufs \in Seq(Buffer) /\ n \in 1 .. n
  BY <1>2, EmptySeq DEF Sound, List
<1>6. b \in Buffer
  BY <1>5, ElementOfSeq
<1> HIDE DEF b
<1>7. c \in Buffer /\ CommandsOf(c.data) = Append(CommandsOf(b.data), l)
  BY <1>6, AddLineProperties, BufferCommands
<1>8. CommandsOf(b.data) \in Seq(Line)
  BY <1>6, CommandsOfProperties DEF Buffer
<1> HIDE DEF c
<1>9. PICK front \in Seq(Line) :
        /\ Commands(r.list.bufs) = front \o CommandsOf(b.data)
        /\ Commands(s) = front \o CommandsOf(c.data)
  BY <1>2, <1>5, <1>7, CommandsOfLast DEF b
<1>10. front \o Append(CommandsOf(b.data), l) = Append(front \o CommandsOf(b.data), l)
  <2> DEFINE d == CommandsOf(b.data)
  <2>1. d \in Seq(Line) /\ <<l>> \in Seq(Line) /\ front \o d \in Seq(Line)
    BY <1>8, ConcatProperties
  <2> HIDE DEF d
  <2>2. Append(d, l) = d \o <<l>> /\ Append(front \o d, l) = (front \o d) \o <<l>>
    BY <2>1, AppendIsConcat
  <2>3. (front \o d) \o <<l>> = front \o (d \o <<l>>)
    BY <2>1, ConcatAssociative
  <2>4. front \o Append(d, l) = Append(front \o d, l)
    BY <2>2, <2>3
  <2> QED
    BY <2>4 DEF d
<1> QED
  BY <1>3, <1>4, <1>7, <1>9, <1>10

(* So does getting ready to copy buffers.                                  *)
LEMMA ReadyForCopyCommands ==
    ASSUME NEW list, Sound(list)
    PROVE  Commands(ReadyForCopy(list).bufs) = Commands(list.bufs)
<1> DEFINE g == GetNonfull(list)
           n == Len(g.bufs)
<1>1. Sound(g) /\ g.bufs # <<>> /\ g.nonfull = n
  BY GetNonfullProperties
<1>2. ReadyForCopy(list) = IF g.bufs[n].size # 0 THEN CloseAndNext(g, n) ELSE g
  BY <1>1 DEF ReadyForCopy
<1>3. Commands(g.bufs) = Commands(list.bufs)
  BY GetNonfullCommands
<1> HIDE DEF g
<1>4. g.bufs[n].size # 0 => Commands(CloseAndNext(g, n).bufs) = Commands(g.bufs)
  BY <1>1, CloseAndNextCommands
<1> QED
  BY <1>2, <1>3, <1>4

(* A read takes the first commands of the queue.                           *)
LEMMA GrabFirstCommands ==
    ASSUME NEW list, Sound(list), list.bufs # <<>>
    PROVE  Commands(list.bufs) = CommandsOf(list.bufs[1].data) \o Commands(GrabFirst(list).bufs)
<1> DEFINE s == list.bufs
           n == Len(s)
           b == s[1]
           r == GrabFirst(list)
<1>1. s \in Seq(Buffer) /\ n \in Nat \ {0} /\ n \in 1 .. n /\ 1 \in 1 .. n
  BY EmptySeq DEF Sound, List
<1>2. /\ r.bufs \in Seq(Buffer) /\ Len(r.bufs) = n - 1 /\ b \in Buffer
      /\ \A i \in 1 .. n - 1 : r.bufs[i] = s[i + 1]
  BY GrabFirstProperties DEF Sound, List
<1> HIDE DEF r
<1>3. s = <<b>> \o r.bufs
  <2>1. <<b>> \in Seq(Buffer) /\ Len(<<b>>) = 1 /\ <<b>>[1] = b
    BY <1>2
  <2> DEFINE one == <<b>>
             t == one \o r.bufs
  <2> HIDE DEF one
  <2>2. /\ t \in Seq(Buffer) /\ Len(t) = Len(one) + Len(r.bufs)
        /\ \A i \in 1 .. Len(one) + Len(r.bufs) :
              t[i] = IF i <= Len(one) THEN one[i] ELSE r.bufs[i - Len(one)]
    BY <1>2, <2>1, ConcatProperties DEF one
  <2>3. Len(one) = 1 /\ one[1] = b
    BY <2>1 DEF one
  <2> HIDE DEF t, b, s
  <2>4. ASSUME NEW i \in 1 .. n
        PROVE  t[i] = s[i]
    <3>1. CASE i = 1
      BY <1>1, <1>2, <2>2, <2>3, <3>1 DEF b
    <3>2. CASE i # 1
      <4>1. i - 1 \in 1 .. n - 1 /\ (i - 1) + 1 = i /\ ~(i <= 1) /\ i \in 1 .. 1 + (n - 1)
        BY <1>1, <3>2
      <4>2. t[i] = r.bufs[i - 1]
        BY <1>2, <2>2, <2>3, <4>1
      <4> QED
        BY <1>2, <4>1, <4>2
    <3> QED
      BY <3>1, <3>2
  <2>5. Len(t) = n
    BY <1>1, <1>2, <2>2, <2>3
  <2>6. s = t
    BY <1>1, <2>2, <2>4, <2>5, SeqEqual
  <2> QED
    BY <2>6 DEF t, one
<1>4. <<b>> \in Seq(Buffer)
  BY <1>2
<1>5. Commands(<<b>> \o r.bufs) = Commands(<<b>>) \o Commands(r.bufs)
  BY <1>2, <1>4, CommandsProperties
<1>6. Commands(<<b>>) = CommandsOf(b.data)
  BY <1>2, CommandsProperties
<1>7. Commands(s) = CommandsOf(b.data) \o Commands(r.bufs)
  BY <1>3, <1>5, <1>6
<1> QED
  BY <1>7 DEF r

-----------------------------------------------------------------------------
(* The queue the buffers implement *)

(* What the implementation relies on besides: a copy goes to an unused     *)
(* buffer, and nothing is recorded while the script runs.                  *)
CopyReady ==
    /\ copying # NULL => buffers.bufs[Len(buffers.bufs)].size = 0
    /\ holder = "load" => init_cfg = EmptyList

(* No copy is going on when the first script run begins.                   *)
LEMMA InitCopyReady == Init => CopyReady
BY DEF Init, CopyReady, NULL

(* A copy keeps the last buffer unused until the last round.               *)
LEMMA NextCopyReady == Inductive /\ CopyReady /\ [Next]_vars => CopyReady'
<1> SUFFICES ASSUME Inductive, CopyReady, [Next]_vars
             PROVE  CopyReady'
  OBVIOUS
<1>0. /\ Filled(buffers) /\ Sound(buffers) /\ Sound(init_cfg)
      /\ copying # NULL => holder \in {"read", "call"} /\ buffers.bufs # <<>>
      /\ copying <= Len(init_cfg.bufs) /\ copying \in Nat
  BY InductiveFilled DEF Inductive, TypeOK
<1>1. CASE ReadBegin
  <2>1. copying = NULL
    BY <1>0, <1>1 DEF ReadBegin
  <2> QED
    BY <1>1, <2>1 DEF ReadBegin, CopyReady
<1>2. CASE ReadEnd
  BY <1>2 DEF ReadEnd, CopyReady
<1>3. CASE CallBegin
  <2>1. copying = NULL
    BY <1>0, <1>3 DEF CallBegin
  <2> QED
    BY <1>3, <2>1 DEF CallBegin, CopyReady
<1>4. CASE CallEnd
  BY <1>4 DEF CallEnd, CopyReady
<1>5. CASE \E l \in Line : Cfg(l) \/ Cmd(l)
  <2>1. copying = NULL /\ UNCHANGED <<init_cfg, holder, copying>>
    BY <1>5 DEF Cfg, Cmd
  <2> QED
    BY <2>1 DEF CopyReady
<1>6. CASE CopyBegin
  <2>1. buffers'.bufs[Len(buffers'.bufs)].size = 0
    BY <1>0, <1>6, ReadyForCopyProperties DEF CopyBegin
  <2> QED
    BY <1>6, <2>1 DEF CopyBegin, CopyReady
<1>7. CASE CopyOne
  <2> DEFINE n == Len(buffers.bufs)
             m == Len(init_cfg.bufs)
             src == init_cfg.bufs[copying]
             next == NextOf(init_cfg, copying)
  <2>1. UNCHANGED <<init_cfg, holder, reply>> /\ copying # NULL
    BY <1>7 DEF CopyOne
  <2>2. CASE copying' = NULL
    BY <2>1, <2>2 DEF CopyReady
  <2>3. CASE copying' # NULL
    <3>1. /\ next # NULL
          /\ buffers' = GetNextFor([bufs |-> [buffers.bufs EXCEPT ![n] = src],
                                    nonfull |-> NextOf(buffers, n)], n)
      BY <1>7, <2>3 DEF CopyOne
    <3>2. m \in Nat /\ copying \in 1 .. m /\ copying < m /\ init_cfg.bufs \in Seq(Buffer)
      <4>1. m \in Nat /\ init_cfg.bufs \in Seq(Buffer)
        BY <1>0 DEF Sound, List
      <4> QED
        BY <1>0, <2>1, <3>1, <4>1 DEF NextOf, NULL
    <3>3. src \in Buffer /\ Fits(src) /\ Proper(src) /\ src.full
      BY <1>0, <3>2, ElementOfSeq DEF Sound, WellLinked
    <3>4. src.size > 0
      <4>1. src.size \in Nat
        BY <3>3 DEF Buffer
      <4>2. src.data # <<>>
        BY <3>3 DEF Proper, Closed
      <4>3. src.size # 0
        BY <3>3, <4>2, CountedSize DEF Proper
      <4> QED
        BY <4>1, <4>3
    <3>5. buffers'.bufs[Len(buffers'.bufs)].size = 0
      BY <1>0, <2>1, <3>1, <3>3, <3>4, CopyFullProperties
    <3> QED
      BY <2>1, <3>5 DEF CopyReady
  <2> QED
    BY <2>2, <2>3
<1>8. CASE LoadBegin
  <2>1. copying' = NULL
    BY <1>0, <1>8 DEF LoadBegin
  <2> QED
    BY <1>8, <2>1 DEF LoadBegin, CopyReady
<1>9. CASE LoadEnd
  <2>1. copying' = NULL
    BY <1>0, <1>9 DEF LoadEnd
  <2> QED
    BY <1>9, <2>1 DEF LoadEnd, CopyReady
<1>10. CASE UNCHANGED vars
  BY <1>10 DEF vars, CopyReady
<1> QED
  BY <1>1, <1>2, <1>3, <1>4, <1>5, <1>6, <1>7, <1>8, <1>9, <1>10 DEF Next

(* With no copy in progress the queue is what the buffers hold.            *)
LEMMA NothingToCopy ==
    ASSUME NEW bufs \in Seq(Buffer)
    PROVE  Commands(bufs) \o <<>> = Commands(bufs)
<1> DEFINE c == Commands(bufs)
<1>1. c \in Seq(Line)
  BY CommandsProperties
<1> HIDE DEF c
<1>2. c \o <<>> = c
  BY <1>1, ConcatEmptySeq
<1> QED
  BY <1>2 DEF c

(* The empty lists are the empty queue.                                    *)
LEMMA InitRefines == Init => Promise!Init
<1> SUFFICES ASSUME Init PROVE Promise!Init
  OBVIOUS
<1>1. buffers.bufs = <<>> /\ init_cfg.bufs = <<>> /\ copying = NULL /\ reply = <<>>
  BY DEF Init, EmptyList
<1>2. Commands(<<>>) = <<>> /\ CommandsOf(<<>>) = <<>>
  BY CommandsProperties, CommandsOfProperties
<1>3. <<>> \o <<>> = <<>>
  BY EmptySeq, ConcatEmptySeq
<1> QED
  BY <1>1, <1>2, <1>3 DEF Promise!Init, Pending

(* A step that writes a command                                            *)
LEMMA WriteRefines ==
    ASSUME Inductive, Inductive', NEW l \in Line, Cfg(l) \/ Cmd(l)
    PROVE  Promise!Write(l)
<1>1. Sound(buffers) /\ Filled(buffers)
  BY InductiveFilled DEF Inductive
<1>2. copying = NULL /\ copying' = NULL /\ UNCHANGED <<init_cfg, reply>>
  BY DEF Cfg, Cmd
<1>3. buffers' = WriteLine(buffers, l)
  BY <1>1, WriteCommandProperties DEF Cfg, Cmd
<1>4. Commands(buffers'.bufs) = Append(Commands(buffers.bufs), l)
  BY <1>1, <1>3, WriteLineCommands
<1>5. buffers.bufs \in Seq(Buffer) /\ buffers'.bufs \in Seq(Buffer)
  BY DEF Inductive, TypeOK, List
<1>6. Pending = Commands(buffers.bufs)
  BY <1>2, <1>5, NothingToCopy DEF Pending
<1>7. Pending' = Commands(buffers'.bufs)
  BY <1>2, <1>5, NothingToCopy DEF Pending
<1>8. UNCHANGED <<Commands(init_cfg.bufs), CommandsOf(reply)>>
  BY <1>2
<1> QED
  BY <1>2, <1>4, <1>6, <1>7, <1>8 DEF Promise!Write

(* A call of _init(): from here on the recorded commands are queued.       *)
LEMMA CopyBeginRefines ==
    ASSUME Inductive, Inductive', CopyBegin
    PROVE  Promise!WriteStartup
<1> DEFINE rec == init_cfg.bufs
<1>1. /\ Sound(buffers) /\ Filled(buffers) /\ Sound(init_cfg) /\ EmptyOnlyInUse
      /\ copying = NULL /\ copying' = 1 /\ UNCHANGED <<init_cfg, reply>>
      /\ buffers' = ReadyForCopy(buffers)
  BY InductiveFilled DEF Inductive, CopyBegin
<1>2. buffers.bufs \in Seq(Buffer) /\ rec \in Seq(Buffer) /\ buffers'.bufs \in Seq(Buffer)
  BY DEF Inductive, TypeOK, List
<1>3. Pending = Commands(buffers.bufs)
  BY <1>1, <1>2, NothingToCopy DEF Pending
<1>4. Commands(buffers'.bufs) = Commands(buffers.bufs)
  BY <1>1, ReadyForCopyCommands
<1>5. Pending' = Commands(buffers'.bufs) \o Commands(rec)
  <2>1. SubSeq(rec, 1, Len(rec)) = rec
    BY <1>2, SubSeqFull
  <2>2. copying' # NULL
    BY <1>1 DEF NULL
  <2>3. Pending' = Commands(buffers'.bufs) \o Commands(SubSeq(rec, 1, Len(rec)))
    BY <1>1, <2>2 DEF Pending
  <2> QED
    BY <2>1, <2>3
<1>6. Commands(rec) # <<>>
  <2>1. rec # <<>> /\ rec[1].size # 0
    BY DEF CopyBegin, IsEmpty
  <2>2. 1 \in 1 .. Len(rec)
    BY <1>2, <2>1, EmptySeq
  <2>3. rec[1] \in Buffer /\ Counted(rec[1])
    BY <1>1, <1>2, <2>2, ElementOfSeq DEF Sound, Proper
  <2> DEFINE a == CommandsOf(rec[1].data)
             b == Commands(GrabFirst(init_cfg).bufs)
  <2>4. a # <<>>
    BY <2>1, <2>3, UsedHasCommands
  <2>5. a \in Seq(Line)
    BY <2>3, CommandsOfProperties DEF Buffer
  <2>6. b \in Seq(Line)
    <3>1. GrabFirst(init_cfg).bufs \in Seq(Buffer)
      BY <1>1, <2>1, GrabFirstProperties DEF Sound, List
    <3> QED
      BY <3>1, CommandsProperties
  <2>7. Commands(rec) = a \o b
    BY <1>1, <2>1, GrabFirstCommands
  <2> HIDE DEF a, b
  <2> QED
    BY <2>4, <2>5, <2>6, <2>7, ConcatEqualIffEmpty
<1>7. UNCHANGED <<Commands(init_cfg.bufs), CommandsOf(reply)>>
  BY <1>1
<1> QED
  BY <1>1, <1>3, <1>4, <1>5, <1>6, <1>7 DEF Promise!WriteStartup

(* A round of the copy loop moves commands from the record's side of the   *)
(* queue to the buffers' side.                                             *)
LEMMA CopyOneRefines ==
    ASSUME Inductive, CopyReady, Inductive', CopyOne
    PROVE  UNCHANGED Promise!vars
<1> DEFINE s == buffers.bufs
           n == Len(s)
           rec == init_cfg.bufs
           m == Len(rec)
           src == rec[copying]
           next == NextOf(init_cfg, copying)
           t == [s EXCEPT ![n] = src]
           rest == SubSeq(rec, copying + 1, m)
<1>1. /\ Sound(buffers) /\ Filled(buffers) /\ Sound(init_cfg) /\ EmptyOnlyInUse
      /\ copying # NULL /\ s # <<>> /\ UNCHANGED <<init_cfg, reply>>
      /\ s[n].size = 0
  BY InductiveFilled DEF Inductive, CopyOne, CopyReady
<1>2. /\ s \in Seq(Buffer) /\ rec \in Seq(Buffer) /\ buffers'.bufs \in Seq(Buffer)
      /\ copying \in Nat /\ copying <= m /\ m \in Nat
  BY LenProperties DEF Inductive, TypeOK, List
<1>3. copying \in 1 .. m /\ m \in copying .. m
  BY <1>1, <1>2 DEF NULL
<1>4. src \in Buffer
  BY <1>2, <1>3, ElementOfSeq
<1>5. n \in 1 .. n /\ n \in Nat
  BY <1>1, <1>2, EmptySeq
<1>6. CommandsOf(s[n].data) = <<>>
  <2>1. s[n] \in Buffer /\ Counted(s[n])
    BY <1>1, <1>2, <1>5, ElementOfSeq DEF Sound, Proper
  <2>2. s[n].data = <<>>
    BY <1>1, <2>1, CountedSize
  <2> QED
    BY <2>2, CommandsOfProperties
<1> HIDE DEF src
<1>7. PICK front \in Seq(Line) :
        /\ Commands(s) = front \o CommandsOf(s[n].data)
        /\ Commands(t) = front \o CommandsOf(src.data)
  BY <1>1, <1>2, <1>4, CommandsOfLast
<1>8. Commands(s) = front
  BY <1>6, <1>7, ConcatEmptySeq
<1>9. rest \in Seq(Buffer)
  <2>1. \A i \in copying + 1 .. m : rec[i] \in Buffer
    BY <1>2, <1>3, ElementOfSeq
  <2>2. copying + 1 \in Int /\ m \in Int
    BY <1>2
  <2> QED
    BY <2>1, <2>2, SubSeqProperties
<1>10. Commands(SubSeq(rec, copying, m)) = CommandsOf(src.data) \o Commands(rest)
  <2>1. SubSeq(rec, copying, m) = <<src>> \o rest
    BY <1>2, <1>3, SubSeqRecursiveFirst DEF src
  <2> HIDE DEF rest
  <2>2. <<src>> \in Seq(Buffer)
    BY <1>4
  <2>3. Commands(<<src>> \o rest) = Commands(<<src>>) \o Commands(rest)
    BY <1>9, <2>2, CommandsProperties
  <2> QED
    BY <1>4, <2>1, <2>3, CommandsProperties
<1>11. Pending = Commands(t) \o Commands(rest)
  <2> DEFINE a == CommandsOf(src.data)
             b == Commands(rest)
  <2>1. a \in Seq(Line) /\ b \in Seq(Line)
    <3>1. a \in Seq(Line)
      BY <1>4, CommandsOfProperties DEF Buffer
    <3>2. b \in Seq(Line)
      BY <1>9, CommandsProperties
    <3> QED
      BY <3>1, <3>2
  <2>2. Pending = front \o (a \o b)
    BY <1>1, <1>8, <1>10 DEF Pending
  <2>3. Commands(t) = front \o a
    BY <1>7
  <2> HIDE DEF a, b
  <2>4. (front \o a) \o b = front \o (a \o b)
    BY <2>1, ConcatAssociative
  <2> QED
    BY <2>2, <2>3, <2>4 DEF b
<1>12. Pending' = Commands(t) \o Commands(rest)
  <2>1. next = IF copying < m THEN copying + 1 ELSE NULL
    BY DEF NextOf
  <2>2. copying < m => init_cfg.bufs[copying + 1].size # 0
    <3>1. copying < m => copying + 1 \in 1 .. m
      BY <1>2
    <3>2. \A i \in 1 .. m : rec[i].size > 0
      BY <1>1 DEF EmptyOnlyInUse
    <3> QED
      BY <3>1, <3>2
  <2>3. CASE copying < m
    <3>1. next = copying + 1 /\ next # NULL
      BY <1>2, <2>1, <2>3 DEF NULL
    <3>2. /\ buffers' = GetNextFor([bufs |-> t, nonfull |-> NextOf(buffers, n)], n)
          /\ copying' = copying + 1
      BY <2>2, <2>3, <3>1 DEF CopyOne, src
    <3>3. t \in Seq(Buffer) /\ Len(t) = n
      BY <1>2, <1>4, <1>5, ExceptSeq
    <3>4. buffers'.bufs = Append(t, EmptyBuffer)
      BY <3>2, <3>3 DEF GetNextFor, NextOf, NULL
    <3> HIDE DEF t
    <3>5. Commands(Append(t, EmptyBuffer)) = Commands(t)
      BY <3>3, EmptyAtEnd
    <3>6. copying' # NULL
      BY <3>1, <3>2
    <3> QED
      BY <1>1, <3>2, <3>4, <3>5, <3>6 DEF Pending
  <2>4. CASE ~(copying < m)
    <3>1. next = NULL
      BY <2>1, <2>4
    <3>2. buffers'.bufs = t /\ copying' = NULL
      BY <3>1 DEF CopyOne, src
    <3>3. rest = <<>>
      <4>1. copying + 1 \in Int /\ m \in Int /\ m < copying + 1
        BY <1>2, <2>4
      <4> QED
        BY <4>1, SubSeqEmpty
    <3>4. Commands(rest) = <<>>
      BY <3>3, CommandsProperties
    <3> QED
      BY <3>2, <3>4 DEF Pending
  <2> QED
    BY <2>3, <2>4
<1>13. UNCHANGED <<Commands(init_cfg.bufs), CommandsOf(reply)>>
  BY <1>1
<1> QED
  BY <1>1, <1>11, <1>12, <1>13 DEF Promise!vars

(* A read hands over the first buffer's commands, at least one if any is   *)
(* queued, and says whether others are left.                               *)
LEMMA ReadEndRefines ==
    ASSUME Inductive, Inductive', ReadEnd
    PROVE  Promise!Deliver
<1> DEFINE s == buffers.bufs
           n == Len(s)
           first == s[1]
           a == CommandsOf(first.data)
           b == Commands(buffers'.bufs)
<1>1. /\ Sound(buffers) /\ s # <<>> /\ EmptyOnlyInUse
      /\ copying = NULL /\ copying' = NULL /\ UNCHANGED init_cfg
      /\ buffers' = GrabFirst(buffers) /\ reply' = first.data
  BY DEF Inductive, ReadEnd
<1>2. s \in Seq(Buffer) /\ buffers'.bufs \in Seq(Buffer)
  BY DEF Inductive, TypeOK, List
<1>3. /\ n \in Nat \ {0} /\ first \in Buffer /\ Proper(first)
      /\ Sound(buffers') /\ Len(buffers'.bufs) = n - 1
      /\ \A i \in 1 .. n - 1 : buffers'.bufs[i] = s[i + 1]
      /\ first.full <=> n > 1
  BY <1>1, GrabFirstProperties
<1>4. Commands(s) = a \o b
  BY <1>1, GrabFirstCommands
<1>5. Pending = a \o b
  BY <1>1, <1>2, <1>4, NothingToCopy DEF Pending
<1>6. Pending' = b
  BY <1>1, <1>2, NothingToCopy DEF Pending
<1>7. a \in Seq(Line) /\ b \in Seq(Line)
  <2>1. a \in Seq(Line)
    BY <1>3, CommandsOfProperties DEF Buffer
  <2>2. b \in Seq(Line)
    BY <1>2, CommandsProperties
  <2> QED
    BY <2>1, <2>2
<1>8. b # <<>> <=> n > 1
  <2>1. CASE n > 1
    <3>1. 1 \in 1 .. n - 1 /\ 2 \in 1 .. n /\ 1 + 1 = 2
      BY <1>3, <2>1
    <3>2. buffers'.bufs[1] = s[2] /\ s[2] \in Buffer /\ Counted(s[2])
      BY <1>1, <1>2, <1>3, <3>1, ElementOfSeq DEF Sound, Proper
    <3>3. s[2].size # 0
      BY <1>1, <1>3, <2>1, <3>1 DEF EmptyOnlyInUse
    <3> DEFINE a2 == CommandsOf(buffers'.bufs[1].data)
               b2 == Commands(GrabFirst(buffers').bufs)
    <3>4. a2 # <<>> /\ a2 \in Seq(Line)
      BY <3>2, <3>3, UsedHasCommands, CommandsOfProperties DEF Buffer
    <3>5. buffers'.bufs # <<>>
      BY <1>2, <1>3, <2>1, EmptySeq
    <3>6. b2 \in Seq(Line)
      <4>1. GrabFirst(buffers').bufs \in Seq(Buffer)
        BY <1>3, <3>5, GrabFirstProperties DEF Sound, List
      <4> QED
        BY <4>1, CommandsProperties
    <3>7. b = a2 \o b2
      BY <1>3, <3>5, GrabFirstCommands
    <3> HIDE DEF a2, b2
    <3>8. a2 \o b2 # <<>>
      BY <3>4, <3>6, ConcatEqualIffEmpty
    <3> QED
      BY <2>1, <3>7, <3>8
  <2>2. CASE ~(n > 1)
    <3>1. Len(buffers'.bufs) = 0
      <4>1. n \in Nat \ {0} /\ Len(buffers'.bufs) = n - 1
        BY <1>3
      <4> HIDE DEF n
      <4> QED
        BY <2>2, <4>1
    <3>2. buffers'.bufs = <<>>
      BY <1>2, <3>1, EmptySeq
    <3> QED
      BY <2>2, <3>2, CommandsProperties
  <2> QED
    BY <2>1, <2>2
<1>9. (reply' # <<>> /\ Last(reply') = Exec) <=> n > 1
  BY <1>1, <1>3 DEF Closed, Proper, Last
<1>10. a = <<>> => b = <<>>
  <2> SUFFICES ASSUME a = <<>> PROVE ~(n > 1)
    BY <1>8
  <2>1. first.size = 0
    BY <1>3, UsedHasCommands DEF Proper
  <2>2. 1 \in 1 .. n
    BY <1>3
  <2> QED
    BY <1>1, <1>3, <2>1, <2>2 DEF EmptyOnlyInUse
<1>11. CommandsOf(reply') = a
  BY <1>1
<1>12. UNCHANGED Commands(init_cfg.bufs)
  BY <1>1
<1> HIDE DEF a, b
<1> DEFINE q == a \o b
           k == Len(a)
<1>13. k \in Nat /\ Len(b) \in Nat /\ q \in Seq(Line) /\ Len(q) = k + Len(b)
  BY <1>7, ConcatProperties, LenProperties
<1>14. k = 0 <=> a = <<>>
  BY <1>7, EmptySeq
<1>15. Len(b) = 0 <=> b = <<>>
  BY <1>7, EmptySeq
<1>16. SubSeq(q, 1, k) = a
  <2>1. CASE k = 0
    <3>1. 1 \in Int /\ k \in Int /\ k < 1
      BY <2>1
    <3> QED
      BY <1>14, <2>1, <3>1, SubSeqEmpty
  <2>2. CASE k # 0
    <3>1. 1 \in 1 .. Len(a) /\ k \in 1 .. Len(a)
      BY <1>13, <2>2
    <3>2. SubSeq(a \o b, 1, k) = SubSeq(a, 1, k)
      BY <1>7, <3>1, SubSeqOfConcat1
    <3> QED
      BY <1>7, <3>2, SubSeqFull
  <2> QED
    BY <2>1, <2>2
<1>17. SubSeq(q, k + 1, Len(q)) = b
  <2>1. CASE Len(b) = 0
    <3>1. k + 1 \in Int /\ Len(q) \in Int /\ Len(q) < k + 1
      BY <1>13, <2>1
    <3> QED
      BY <1>15, <2>1, <3>1, SubSeqEmpty
  <2>2. CASE Len(b) # 0
    <3>1. k + 1 \in Len(a) + 1 .. Len(a) + Len(b) /\ Len(q) \in Len(a) + 1 .. Len(a) + Len(b)
          /\ (k + 1) - Len(a) = 1 /\ Len(q) - Len(a) = Len(b)
      BY <1>13, <2>2
    <3>2. SubSeq(a \o b, k + 1, Len(q)) = SubSeq(b, (k + 1) - Len(a), Len(q) - Len(a))
      BY <1>7, <3>1, SubSeqOfConcat2
    <3> QED
      BY <1>7, <3>1, <3>2, SubSeqFull
  <2> QED
    BY <2>1, <2>2
<1>18. k \in 0 .. Len(q) /\ (k < Len(q) <=> b # <<>>)
  BY <1>13, <1>15
<1>19. k = 0 => q = <<>>
  BY <1>10, <1>13, <1>14, <1>15, EmptySeq
<1> HIDE DEF q, k
<1>20. Pending = q
  BY <1>5 DEF q
<1>21. [cmds |-> CommandsOf(reply), more |-> reply # <<>> /\ Last(reply) = Exec]'
       = [cmds |-> SubSeq(q, 1, k), more |-> k < Len(q)]
  BY <1>8, <1>9, <1>11, <1>16, <1>18
<1>22. Pending' = SubSeq(q, k + 1, Len(q))
  BY <1>6, <1>17 DEF b
<1> QED
  BY <1>12, <1>18, <1>19, <1>20, <1>21, <1>22 DEF Promise!Deliver

(* Every step is one of the queue, or none.                                *)
LEMMA NextRefines ==
    Inductive /\ CopyReady /\ Inductive' /\ [Next]_vars => [Promise!Next]_(Promise!vars)
<1> SUFFICES ASSUME Inductive, CopyReady, Inductive', [Next]_vars
             PROVE  [Promise!Next]_(Promise!vars)
  OBVIOUS
<1>0. /\ buffers.bufs \in Seq(Buffer) /\ buffers'.bufs \in Seq(Buffer)
      /\ copying # NULL => holder \in {"read", "call"}
  BY DEF Inductive, TypeOK, List
<1>1. CASE ReadBegin
  <2>1. copying = NULL /\ copying' = NULL /\ UNCHANGED <<init_cfg, reply>>
    BY <1>0, <1>1 DEF ReadBegin
  <2>2. Commands(buffers'.bufs) = Commands(buffers.bufs)
    <3>1. Commands(<<EmptyBuffer>>) = <<>> /\ Commands(<<>>) = <<>>
      BY CommandsProperties, BufferCommands, EmptyBufferProperties
    <3> QED
      BY <1>1, <3>1 DEF ReadBegin
  <2>3. Pending = Commands(buffers.bufs)
    BY <1>0, <2>1, NothingToCopy DEF Pending
  <2>4. Pending' = Commands(buffers'.bufs)
    BY <1>0, <2>1, NothingToCopy DEF Pending
  <2> QED
    BY <2>1, <2>2, <2>3, <2>4 DEF Promise!vars
<1>2. CASE ReadEnd
  <2>1. Promise!Deliver
    BY <1>2, ReadEndRefines
  <2> QED
    BY <2>1 DEF Promise!Next
<1>3. CASE CallBegin \/ CallEnd \/ UNCHANGED vars
  <2>1. UNCHANGED <<buffers, init_cfg, copying, reply>>
    BY <1>3 DEF CallBegin, CallEnd, vars
  <2> QED
    BY <2>1 DEF Promise!vars, Pending
<1>4. CASE \E l \in Line : Cfg(l) \/ Cmd(l)
  <2>1. PICK l \in Line : Cfg(l) \/ Cmd(l)
    BY <1>4
  <2>2. Promise!Write(l)
    BY <2>1, WriteRefines
  <2> QED
    BY <2>2 DEF Promise!Next
<1>5. CASE CopyBegin
  <2>1. Promise!WriteStartup
    BY <1>5, CopyBeginRefines
  <2> QED
    BY <2>1 DEF Promise!Next
<1>6. CASE CopyOne
  BY <1>6, CopyOneRefines
<1>7. CASE LoadBegin
  <2>1. /\ copying' = NULL /\ UNCHANGED reply
        /\ buffers'.bufs = <<>> /\ init_cfg'.bufs = <<>>
    BY <1>0, <1>7 DEF LoadBegin, EmptyList
  <2>2. Commands(<<>>) = <<>> /\ <<>> \o <<>> = <<>>
    BY CommandsProperties, EmptySeq, ConcatEmptySeq
  <2>3. Pending' = <<>>
    BY <2>1, <2>2 DEF Pending
  <2>4. Promise!Forget
    BY <2>1, <2>2, <2>3 DEF Promise!Forget
  <2> QED
    BY <2>4 DEF Promise!Next
<1>8. CASE LoadEnd
  <2>1. /\ copying = NULL /\ copying' = NULL /\ UNCHANGED reply
        /\ init_cfg'.bufs = buffers.bufs /\ buffers'.bufs = <<>>
    BY <1>0, <1>8 DEF LoadEnd, CopyReady, EmptyList
  <2>2. Commands(<<>>) = <<>> /\ <<>> \o <<>> = <<>>
    BY CommandsProperties, EmptySeq, ConcatEmptySeq
  <2>3. Pending' = <<>>
    BY <2>1, <2>2 DEF Pending
  <2>4. Pending = Commands(buffers.bufs)
    BY <1>0, <2>1, NothingToCopy DEF Pending
  <2>5. Promise!Record
    BY <2>1, <2>3, <2>4 DEF Promise!Record
  <2> QED
    BY <2>5 DEF Promise!Next
<1> QED
  BY <1>1, <1>2, <1>3, <1>4, <1>5, <1>6, <1>7, <1>8 DEF Next

(* The buffers implement the queue: for every set of lines and every size, *)
(* the commands reach the game in the order they were written, each once,  *)
(* and none is lost but by a reload.                                       *)
THEOREM SpecImplementsQueue == Spec => ImplementsQueue
<1>1. Spec => []CopyReady
  <2>1. Init => CopyReady
    BY InitCopyReady
  <2> QED
    BY <2>1, NextCopyReady, SpecInductive, PTL DEF Spec
<1>2. Init => Promise!Init
  BY InitRefines
<1>3. Inductive /\ CopyReady /\ Inductive' /\ [Next]_vars => [Promise!Next]_(Promise!vars)
  BY NextRefines
<1> QED
  BY <1>1, <1>2, <1>3, SpecInductive, PTL DEF Spec, ImplementsQueue, Promise!Spec
=============================================================================
